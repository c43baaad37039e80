----------------------- MODULE InflightDownloadsProofs -----------------------
(***************************************************************************)
(* Proofs about request coalescing, for any requests, keys, body size limit*)
(* and channel capacity.                                                   *)
(***************************************************************************)
EXTENDS InflightInvariant, TLAPS

USE KeysAssumption, BoundsAssumption, NoneAssumption

\* The first state has the right types.
LEMMA InitTypeOK == Init => TypeOK
  BY DEF Init, TypeOK, TaskState, RequestState, Settled

\* The steps of a request handler keep the types.
LEMMA HandlerTypeOK ==
    ASSUME TypeOK, NEW r \in Requests, HandlerStep(r) PROVE TypeOK'
  <1>1. CASE LookupHit(r) \/ LookupMiss(r) \/ LookupFails(r)
    BY <1>1 DEF LookupHit, LookupMiss, LookupFails, TypeOK, taskVars, RequestState, Settled
  <1>2. CASE Join(r)
    <2>1. Entry(r) \in Requests
      BY <1>2 DEF Join, Entry, TypeOK
    <2>2. TailPos(Entry(r)) \in Nat
      <3>1. sent[Entry(r)] \in Nat
        BY <2>1 DEF TypeOK
      <3> QED BY <3>1 DEF TailPos
    <2> QED BY <1>2, <2>1, <2>2 DEF Join, TypeOK, taskVars, RequestState
  <1>3. CASE Start(r)
    BY <1>3 DEF Start, TypeOK, TaskState, RequestState
  <1>4. CASE ReadMeta(r) \/ MetaRefused(r)
    BY <1>4 DEF ReadMeta, MetaRefused, TypeOK, taskVars, RequestState, Settled
  <1> QED BY <1>1, <1>2, <1>3, <1>4 DEF HandlerStep

\* The polls of a body keep the types.
LEMMA PollTypeOK ==
    ASSUME TypeOK, NEW r \in Requests, PollStep(r) PROVE TypeOK'
  <1>1. CASE PollInitial(r)
    <2>1. Append(got[r], Len(got[r]) + 1) \in Seq(Nat)
      <3>1. got[r] \in Seq(Nat)
        BY DEF TypeOK
      <3> QED BY <3>1
    <2>2. got' \in [Requests -> Seq(Nat)]
      BY <1>1, <2>1 DEF PollInitial, TypeOK
    <2> QED BY <1>1, <2>2 DEF PollInitial, TypeOK, taskVars
  <1>2. CASE PollData(r)
    <2>1. got[r] \in Seq(Nat) /\ next[r] \in Nat
      BY DEF TypeOK
    <2>2. Append(got[r], next[r] + 1) \in Seq(Nat) /\ next[r] + 1 \in Nat
      BY <2>1
    <2>3. got' \in [Requests -> Seq(Nat)] /\ next' \in [Requests -> Nat]
      BY <1>2, <2>2 DEF PollData, TypeOK
    <2> QED BY <1>2, <2>3 DEF PollData, TypeOK, taskVars
  <1>3. CASE PollComplete(r) \/ PollClosed(r) \/ PollError(r) \/ PollLagged(r)
    BY <1>3 DEF PollComplete, PollClosed, PollError, PollLagged, TypeOK,
                taskVars, RequestState, Settled
  <1> QED BY <1>1, <1>2, <1>3 DEF PollStep

\* The steps of a download task keep the types.
LEMMA TaskTypeOK ==
    ASSUME TypeOK, NEW d \in Requests,
           UpstreamStep(d) \/ TaskStep(d) \/ Panic(d)
    PROVE  TypeOK'
  <1> USE DEF TypeOK, TaskState, Moves, requestVars
  <1>1. CASE BodyCollected(d)    BY <1>1 DEF BodyCollected
  <1>2. CASE HeadersArrive(d)
    <2>1. meta' \in [Requests -> {"none", "ok", "err"}]
      BY <1>2 DEF HeadersArrive, SendMeta
    <2>2. length' \in [Requests -> 0..(MaxChunks + 1)]
      BY <1>2 DEF HeadersArrive
    <2> QED BY <1>2, <2>1, <2>2 DEF HeadersArrive
  <1>3. CASE PushChunk(d)
    <2>1. accumulated' \in [Requests -> Nat]
      <3>1. \A s \in Requests : accumulated[s] \in Nat
        OBVIOUS
      <3> HIDE DEF TypeOK, TaskState, Moves, requestVars
      <3>2. ASSUME NEW s \in Requests
            PROVE  accumulated[s] + (IF s = Entry(d) THEN 1 ELSE 0) \in Nat
        <4>1. accumulated[s] \in Nat
          BY <3>1
        <4>2. CASE s = Entry(d)  BY <4>1, <4>2
        <4>3. CASE s # Entry(d)  BY <4>1, <4>3
        <4> QED BY <4>2, <4>3
      <3> QED BY <1>3, <3>2 DEF PushChunk
    <2>2. fetched' \in [Requests -> 0..MaxChunks]
      BY <1>3 DEF PushChunk
    <2> QED BY <1>3, <2>1, <2>2 DEF PushChunk
  <1>4. CASE BodyEnds(d)         BY <1>4 DEF BodyEnds
  <1>5. CASE DownloadFails(d)    BY <1>5 DEF DownloadFails
  <1>6. CASE TimesOut(d)         BY <1>6 DEF TimesOut
  <1>7. CASE BroadcastChunk(d)
    <2>1. sent' \in [Requests -> Nat]
      <3>1. \A s \in Requests : sent[s] \in Nat
        OBVIOUS
      <3> HIDE DEF TypeOK, TaskState, Moves, requestVars
      <3>2. ASSUME NEW s \in Requests
            PROVE  sent[s] + (IF s = Entry(d) THEN 1 ELSE 0) \in Nat
        <4>1. sent[s] \in Nat
          BY <3>1
        <4>2. CASE s = Entry(d)  BY <4>1, <4>2
        <4>3. CASE s # Entry(d)  BY <4>1, <4>3
        <4> QED BY <4>2, <4>3
      <3> QED BY <1>7, <3>2 DEF BroadcastChunk
    <2> QED BY <1>7, <2>1 DEF BroadcastChunk
  <1>8. CASE CachePut(d)
    <2>1. KeyOf[d] \in Keys
      OBVIOUS
    <2>2. cached' \in [Keys -> Requests \cup {None}]
      BY <1>8, <2>1 DEF CachePut
    <2>3. task' \in [Requests -> TaskState]
      BY <1>8 DEF CachePut
    <2> QED BY <1>8, <2>2, <2>3 DEF CachePut
  <1>9. CASE BroadcastComplete(d) BY <1>9 DEF BroadcastComplete
  <1>10. CASE ReportError(d)     BY <1>10 DEF ReportError, SendMeta
  <1>11. CASE BroadcastError(d)  BY <1>11 DEF BroadcastError
  <1>12. CASE DropGuard(d)       BY <1>12 DEF DropGuard
  <1>13. CASE DropSender(d)      BY <1>13 DEF DropSender
  <1>14. CASE Panic(d)           BY <1>14 DEF Panic
  <1> QED BY <1>1, <1>2, <1>3, <1>4, <1>5, <1>6, <1>7, <1>8, <1>9, <1>10,
             <1>11, <1>12, <1>13, <1>14 DEF UpstreamStep, TaskStep

-----------------------------------------------------------------------------
(* What each kind of step leaves alone, and what it may only add to.       *)

\* A request that does not start a download touches no download.
LEMMA RequestsLeaveTasks ==
    ASSUME NEW r \in Requests,
           HandlerStep(r) \/ PollStep(r) \/ Disconnect(r)
    PROVE  Start(r) \/ UNCHANGED <<taskVars, cached>>
  BY DEF HandlerStep, LookupHit, LookupMiss, LookupFails, Join, ReadMeta,
         MetaRefused, PollStep, PollInitial, PollData, PollComplete,
         PollClosed, PollError, PollLagged, Disconnect

\* A step of a download task touches no request.
LEMMA TasksLeaveRequests ==
    ASSUME NEW d \in Requests, UpstreamStep(d) \/ TaskStep(d) \/ Panic(d)
    PROVE  UNCHANGED requestVars
  BY DEF UpstreamStep, TaskStep, Panic, BodyCollected, HeadersArrive,
         PushChunk, BodyEnds, DownloadFails, TimesOut, BroadcastChunk,
         CachePut, BroadcastComplete, ReportError, BroadcastError, DropGuard,
         DropSender

\* A download that fails, times out or is dropped only changes its control
\* state, and only at an await.
LEMMA StopsOnly ==
    ASSUME NEW d \in Requests, DownloadFails(d) \/ TimesOut(d) \/ Panic(d)
    PROVE  /\ UNCHANGED <<downloads, accumulated, sent, last, meta, length,
                          fetched, cached>>
           /\ task[d] \in {"collect", "fetch", "body", "caching"}
           /\ \E s \in {"failed", "ended"} : task' = [task EXCEPT ![d] = s]
  BY DEF DownloadFails, TimesOut, Panic, Moves

-----------------------------------------------------------------------------
(* The map of downloads.                                                   *)

\* A download is in the map as long as its task runs.
LEMMA TaskMapInv ==
    ASSUME TypeOK, MapInv, NEW d \in Requests,
           UpstreamStep(d) \/ TaskStep(d) \/ Panic(d)
    PROVE  MapInv'
  <1> USE DEF TypeOK, MapInv, MapTracksTasks, Active, Entry, Moves
  <1>1. CASE BodyCollected(d)    BY <1>1 DEF BodyCollected
  <1>2. CASE HeadersArrive(d)    BY <1>2 DEF HeadersArrive
  <1>3. CASE PushChunk(d)        BY <1>3 DEF PushChunk
  <1>4. CASE BodyEnds(d)
    <2>1. CASE Moves(d, "body", "caching")   BY <1>4, <2>1 DEF BodyEnds
    <2>2. CASE Moves(d, "body", "succeeded") BY <1>4, <2>2 DEF BodyEnds
    <2> QED BY <1>4, <2>1, <2>2 DEF BodyEnds
  <1>5. CASE DownloadFails(d) \/ TimesOut(d) \/ Panic(d)
    <2>1. PICK s \in {"failed", "ended"} : task' = [task EXCEPT ![d] = s]
      BY <1>5, StopsOnly
    <2>2. /\ UNCHANGED downloads
          /\ task[d] \in {"collect", "fetch", "body", "caching"}
      BY <1>5, StopsOnly
    <2> QED BY <2>1, <2>2
  <1>6. CASE BroadcastChunk(d)   BY <1>6 DEF BroadcastChunk
  <1>7. CASE CachePut(d)         BY <1>7 DEF CachePut
  <1>8. CASE BroadcastComplete(d) BY <1>8 DEF BroadcastComplete
  <1>9. CASE ReportError(d)     BY <1>9 DEF ReportError
  <1>10. CASE BroadcastError(d)  BY <1>10 DEF BroadcastError
  <1>11. CASE DropGuard(d)
    <2>1. /\ task[d] = "ended" /\ task' = [task EXCEPT ![d] = "closing"]
          /\ downloads' = [downloads EXCEPT ![KeyOf[d]] = None]
          /\ downloads[KeyOf[d]] = d /\ KeyOf[d] \in Keys
      BY <1>11 DEF DropGuard
    <2>2. \A e \in Requests : KeyOf[e] = KeyOf[d] => downloads'[KeyOf[e]] = None
      BY <2>1
    <2>3. \A e \in Requests : KeyOf[e] # KeyOf[d] =>
             downloads'[KeyOf[e]] = downloads[KeyOf[e]] /\ task'[e] = task[e]
      BY <2>1
    <2>4. ASSUME NEW e \in Requests PROVE (Active(e) <=> Entry(e) = e)'
      <3>1. CASE e = d                        BY <2>1, <2>2, <3>1
      <3>2. CASE e # d /\ KeyOf[e] = KeyOf[d] BY <2>1, <2>2, <3>2
      <3>3. CASE KeyOf[e] # KeyOf[d]          BY <2>3, <3>3
      <3> QED BY <3>1, <3>2, <3>3
    <2>5. \A k \in Keys : downloads'[k] # None => KeyOf[downloads'[k]] = k
      BY <2>1
    <2> QED BY <2>4, <2>5
  <1>12. CASE DropSender(d)      BY <1>12 DEF DropSender
  <1> QED BY <1>1, <1>2, <1>3, <1>4, <1>5, <1>6, <1>7, <1>8, <1>9, <1>10,
             <1>11, <1>12 DEF UpstreamStep, TaskStep

\* A download that starts is the only one of its key.
LEMMA StartMapInv ==
    ASSUME TypeOK, MapInv, AttachInv, NEW r \in Requests, Start(r)
    PROVE  MapInv'
  BY DEF TypeOK, MapInv, AttachInv, MapTracksTasks, Active, Entry, Start

-----------------------------------------------------------------------------
(* Counts and results of a download.                                       *)

\* A download task changes the state of its own download only: the entry it
\* finds under its key is its own.
LEMMA OthersKeep ==
    ASSUME TypeOK, MapInv, NEW d \in Requests,
           UpstreamStep(d) \/ TaskStep(d) \/ Panic(d)
    PROVE  \A e \in Requests : e # d =>
              task'[e] = task[e] /\ last'[e] = last[e] /\ meta'[e] = meta[e]
  <1>1. UNCHANGED meta \/ SendMeta(d, "ok") \/ SendMeta(d, "err")
    BY DEF UpstreamStep, TaskStep, Panic, BodyCollected, HeadersArrive,
           PushChunk, BodyEnds, DownloadFails, TimesOut, BroadcastChunk,
           CachePut, BroadcastComplete, ReportError, BroadcastError,
           DropGuard, DropSender
  <1>2. UNCHANGED meta \/ Entry(d) = d
    BY DEF UpstreamStep, TaskStep, Panic, BodyCollected, HeadersArrive,
           PushChunk, BodyEnds, DownloadFails, TimesOut, BroadcastChunk,
           CachePut, BroadcastComplete, ReportError, BroadcastError,
           DropGuard, DropSender, Moves, MapInv, MapTracksTasks, Active
  <1>3. \A e \in Requests : e # d => meta'[e] = meta[e]
    BY <1>1, <1>2 DEF SendMeta
  <1>4. \A e \in Requests : e # d => task'[e] = task[e]
    BY DEF UpstreamStep, TaskStep, Panic, BodyCollected, HeadersArrive,
           PushChunk, BodyEnds, DownloadFails, TimesOut, BroadcastChunk,
           CachePut, BroadcastComplete, ReportError, BroadcastError,
           DropGuard, DropSender, Moves, TypeOK
  <1>5. \A e \in Requests : e # d => last'[e] = last[e]
    BY DEF UpstreamStep, TaskStep, Panic, BodyCollected, HeadersArrive,
           PushChunk, BodyEnds, DownloadFails, TimesOut, BroadcastChunk,
           CachePut, BroadcastComplete, ReportError, BroadcastError,
           DropGuard, DropSender, TypeOK
  <1> QED BY <1>3, <1>4, <1>5

\* What a task has read, pushed and sent stays in step.
LEMMA TaskCountInv ==
    ASSUME TypeOK, MapInv, CountInv, NEW d \in Requests,
           UpstreamStep(d) \/ TaskStep(d) \/ Panic(d)
    PROVE  CountInv'
  <1> USE DEF TypeOK, CountInv, Over, Moves
  <1>1. CASE BodyCollected(d)    BY <1>1 DEF BodyCollected
  <1>2. CASE HeadersArrive(d)    BY <1>2 DEF HeadersArrive
  <1>3. CASE PushChunk(d)
    <2>1. Entry(d) = d
      BY <1>3 DEF PushChunk, MapInv, MapTracksTasks, Active
    <2>2. /\ task[d] = "body" /\ task' = [task EXCEPT ![d] = "adding"]
          /\ fetched' = [fetched EXCEPT ![d] = @ + 1]
          /\ UNCHANGED <<sent, last, length>>
      BY <1>3 DEF PushChunk
    <2>3. \A s \in Requests :
             accumulated'[s] = IF s = d THEN accumulated[s] + 1
                                        ELSE accumulated[s]
      BY <1>3, <2>1 DEF PushChunk
    <2> QED BY <2>2, <2>3, SMTT(20)
  <1>4. CASE BodyEnds(d)
    <2>1. CASE Moves(d, "body", "caching")   BY <1>4, <2>1 DEF BodyEnds
    <2>2. CASE Moves(d, "body", "succeeded") BY <1>4, <2>2 DEF BodyEnds
    <2> QED BY <1>4, <2>1, <2>2 DEF BodyEnds
  <1>5. CASE DownloadFails(d) \/ TimesOut(d) \/ Panic(d)
    <2>1. PICK s \in {"failed", "ended"} : task' = [task EXCEPT ![d] = s]
      BY <1>5, StopsOnly
    <2> QED BY <1>5, <2>1, StopsOnly
  <1>6. CASE BroadcastChunk(d)
    <2>1. Entry(d) = d
      BY <1>6 DEF BroadcastChunk, MapInv, MapTracksTasks, Active
    <2> QED BY <1>6, <2>1, SMTT(20) DEF BroadcastChunk
  <1>7. CASE CachePut(d)         BY <1>7 DEF CachePut
  <1>8. CASE BroadcastComplete(d) BY <1>8 DEF BroadcastComplete
  <1>9. CASE ReportError(d)     BY <1>9 DEF ReportError
  <1>10. CASE BroadcastError(d)  BY <1>10 DEF BroadcastError
  <1>11. CASE DropGuard(d)       BY <1>11 DEF DropGuard
  <1>12. CASE DropSender(d)      BY <1>12 DEF DropSender
  <1> QED BY <1>1, <1>2, <1>3, <1>4, <1>5, <1>6, <1>7, <1>8, <1>9, <1>10,
             <1>11, <1>12 DEF UpstreamStep, TaskStep

\* Only a whole body is cached or announced by a task.
LEMMA TaskResultInv ==
    ASSUME TypeOK, CountInv, ResultInv, NEW d \in Requests,
           UpstreamStep(d) \/ TaskStep(d) \/ Panic(d)
    PROVE  ResultInv'
  <1> USE DEF TypeOK, CountInv, ResultInv, Whole, Over, Moves
  <1>1. CASE BodyCollected(d)    BY <1>1 DEF BodyCollected
  <1>2. CASE HeadersArrive(d)
    <2>1. PICK n \in 0..(MaxChunks + 1) : length' = [length EXCEPT ![d] = n]
      BY <1>2 DEF HeadersArrive
    <2>2. /\ task[d] = "fetch" /\ task' = [task EXCEPT ![d] = "body"]
          /\ UNCHANGED <<last, fetched, cached>>
      BY <1>2 DEF HeadersArrive
    <2>3. last[d] = "none"
      BY <2>2
    <2>4. \A e \in Requests :
             task'[e] \in {"caching", "succeeded"} \/ last'[e] = "Complete"
                => fetched'[e] = length'[e]
      BY <2>1, <2>2, <2>3
    <2>5. ASSUME NEW k \in Keys, cached[k] # None
          PROVE  cached[k] \in Requests /\ cached[k] # d
      <3>1. cached[k] \in Requests
        BY <2>5
      <3>2. task[cached[k]] \notin {"collect", "fetch", "body", "caching"}
        BY <2>5
      <3> QED BY <2>2, <3>1, <3>2
    <2>6. \A k \in Keys : cached'[k] # None =>
              /\ KeyOf[cached'[k]] = k
              /\ task'[cached'[k]] = "succeeded"
                 \/ task'[cached'[k]] \in {"ended", "closing", "done"}
              /\ fetched'[cached'[k]] = length'[cached'[k]]
      BY <2>1, <2>2, <2>5
    <2> QED BY <2>4, <2>6
  <1>3. CASE PushChunk(d)
    <2>1. /\ task[d] = "body" /\ task' = [task EXCEPT ![d] = "adding"]
          /\ fetched' = [fetched EXCEPT ![d] = @ + 1]
          /\ UNCHANGED <<last, length, cached>>
      BY <1>3 DEF PushChunk
    <2>2. last[d] = "none"
      BY <2>1
    <2>3. \A e \in Requests :
             task'[e] \in {"caching", "succeeded"} \/ last'[e] = "Complete"
                => fetched'[e] = length'[e]
      BY <2>1, <2>2
    <2>4. ASSUME NEW k \in Keys, cached[k] # None
          PROVE  cached[k] \in Requests /\ cached[k] # d
      <3>1. cached[k] \in Requests
        BY <2>4
      <3>2. task[cached[k]] \notin {"collect", "fetch", "body", "caching"}
        BY <2>4
      <3> QED BY <2>1, <3>1, <3>2
    <2>5. \A k \in Keys : cached'[k] # None =>
              /\ KeyOf[cached'[k]] = k
              /\ task'[cached'[k]] = "succeeded"
                 \/ task'[cached'[k]] \in {"ended", "closing", "done"}
              /\ fetched'[cached'[k]] = length'[cached'[k]]
      BY <2>1, <2>4
    <2> QED BY <2>3, <2>5
  <1>4. CASE BodyEnds(d)
    <2>1. CASE Moves(d, "body", "caching")   BY <1>4, <2>1 DEF BodyEnds
    <2>2. CASE Moves(d, "body", "succeeded") BY <1>4, <2>2 DEF BodyEnds
    <2> QED BY <1>4, <2>1, <2>2 DEF BodyEnds
  <1>5. CASE DownloadFails(d) \/ TimesOut(d) \/ Panic(d)
    <2>1. PICK s \in {"failed", "ended"} : task' = [task EXCEPT ![d] = s]
      BY <1>5, StopsOnly
    <2>2. /\ UNCHANGED <<last, length, fetched, cached>>
          /\ task[d] \in {"collect", "fetch", "body", "caching"}
      BY <1>5, StopsOnly
    <2>3. ASSUME NEW k \in Keys, cached[k] # None
          PROVE  cached[k] \in Requests /\ cached[k] # d
      <3>1. cached[k] \in Requests
        BY <2>3
      <3>2. task[cached[k]] \notin {"collect", "fetch", "body", "caching"}
        BY <2>3
      <3> QED BY <2>2, <3>1, <3>2
    <2> QED BY <2>1, <2>2, <2>3
  <1>6. CASE BroadcastChunk(d)   BY <1>6 DEF BroadcastChunk
  <1>7. CASE CachePut(d)
    <2>1. /\ task[d] = "caching" /\ task' = [task EXCEPT ![d] = "succeeded"]
          /\ UNCHANGED <<last, length, fetched>>
      BY <1>7 DEF CachePut
    <2>2. fetched[d] = length[d]
      BY <2>1
    <2>3. \A e \in Requests :
             task'[e] \in {"caching", "succeeded"} \/ last'[e] = "Complete"
                => fetched'[e] = length'[e]
      BY <2>1, <2>2
    <2>4. CASE cached' = cached
      BY <2>1, <2>2, <2>3, <2>4
    <2>5. CASE cached' = [cached EXCEPT ![KeyOf[d]] = d]
      <3>1. ASSUME NEW k \in Keys, cached'[k] # None
            PROVE  /\ KeyOf[cached'[k]] = k
                   /\ task'[cached'[k]] = "succeeded"
                      \/ task'[cached'[k]] \in {"ended", "closing", "done"}
                   /\ fetched'[cached'[k]] = length'[cached'[k]]
        <4>1. CASE k = KeyOf[d]
          <5>1. cached'[k] = d
            BY <2>5, <4>1
          <5> QED BY <2>1, <2>2, <4>1, <5>1
        <4>2. CASE k # KeyOf[d]
          <5>1. cached'[k] = cached[k]
            BY <2>5, <4>2
          <5>2. cached[k] # None
            BY <3>1, <5>1
          <5>3. /\ cached[k] \in Requests
                /\ KeyOf[cached[k]] = k
                /\ task[cached[k]] \in {"succeeded", "ended", "closing", "done"}
                /\ fetched[cached[k]] = length[cached[k]]
            BY <5>2
          <5>4. cached[k] # d
            BY <2>1, <5>3
          <5> QED BY <2>1, <5>1, <5>3, <5>4
        <4> QED BY <4>1, <4>2
      <3> QED BY <2>3, <3>1
    <2> QED BY <1>7, <2>4, <2>5 DEF CachePut
  <1>8. CASE BroadcastComplete(d) BY <1>8 DEF BroadcastComplete
  <1>9. CASE ReportError(d)     BY <1>9 DEF ReportError
  <1>10. CASE BroadcastError(d)  BY <1>10 DEF BroadcastError
  <1>11. CASE DropGuard(d)       BY <1>11 DEF DropGuard
  <1>12. CASE DropSender(d)      BY <1>12 DEF DropSender
  <1> QED BY <1>1, <1>2, <1>3, <1>4, <1>5, <1>6, <1>7, <1>8, <1>9, <1>10,
             <1>11, <1>12 DEF UpstreamStep, TaskStep

\* A download that starts has counted and stored nothing.
LEMMA StartCountResultInv ==
    ASSUME TypeOK, CountInv, ResultInv, AttachInv, NEW r \in Requests, Start(r)
    PROVE  CountInv' /\ ResultInv'
  <1>1. task[r] = "idle"
    BY DEF AttachInv, Start
  <1>2. CountInv'
    BY <1>1 DEF TypeOK, CountInv, Over, Start
  <1>3. ResultInv'
    BY <1>1 DEF TypeOK, ResultInv, Over, Whole, Start
  <1> QED BY <1>2, <1>3

-----------------------------------------------------------------------------
(* Requests, while download tasks move.                                    *)

\* What an attached request relies on: a task only adds to what it broadcast,
\* and nothing after the terminal message or once it is over.
Progress(e) ==
    /\ sent[e] <= sent'[e]
    /\ last[e] # "none" => last'[e] = last[e] /\ sent'[e] = sent[e]
    /\ Over(e) => Over(e)' /\ fetched'[e] = fetched[e] /\ length'[e] = length[e]
    /\ task[e] = "done" => task'[e] = "done" /\ last'[e] = last[e]
    /\ task[e] = "idle" <=> task'[e] = "idle"

\* A step of a task moves its download on and no other one.
LEMMA TasksProgress ==
    ASSUME TypeOK, MapInv, CountInv, NEW d \in Requests,
           UpstreamStep(d) \/ TaskStep(d) \/ Panic(d)
    PROVE  \A e \in Requests : Progress(e)
  <1> SUFFICES ASSUME NEW e \in Requests PROVE Progress(e)
    OBVIOUS
  <1> USE DEF TypeOK, CountInv, Progress, Over, Moves
  <1>1. CASE BodyCollected(d)    BY <1>1 DEF BodyCollected
  <1>2. CASE HeadersArrive(d)
    <2>1. PICK n \in 0..(MaxChunks + 1) : length' = [length EXCEPT ![d] = n]
      BY <1>2 DEF HeadersArrive
    <2>2. /\ task[d] = "fetch" /\ task' = [task EXCEPT ![d] = "body"]
          /\ UNCHANGED <<sent, last, fetched>>
      BY <1>2 DEF HeadersArrive
    <2> QED BY <2>1, <2>2
  <1>3. CASE PushChunk(d)
    <2>1. /\ task[d] = "body" /\ task' = [task EXCEPT ![d] = "adding"]
          /\ fetched' = [fetched EXCEPT ![d] = @ + 1]
          /\ UNCHANGED <<sent, last, length>>
      BY <1>3 DEF PushChunk
    <2> QED BY <2>1
  <1>4. CASE BodyEnds(d)         BY <1>4 DEF BodyEnds
  <1>5. CASE DownloadFails(d) \/ TimesOut(d) \/ Panic(d)
    <2>1. PICK s \in {"failed", "ended"} : task' = [task EXCEPT ![d] = s]
      BY <1>5, StopsOnly
    <2>2. /\ UNCHANGED <<sent, last, length, fetched>>
          /\ task[d] \in {"collect", "fetch", "body", "caching"}
      BY <1>5, StopsOnly
    <2> QED BY <2>1, <2>2
  <1>6. CASE BroadcastChunk(d)
    <2>1. Entry(d) = d
      BY <1>6 DEF BroadcastChunk, MapInv, MapTracksTasks, Active
    <2> QED BY <1>6, <2>1 DEF BroadcastChunk
  <1>7. CASE CachePut(d)         BY <1>7 DEF CachePut
  <1>8. CASE BroadcastComplete(d)
    <2>1. last[d] = "none"  BY <1>8 DEF BroadcastComplete
    <2>2. CASE e = d  BY <1>8, <2>1, <2>2 DEF BroadcastComplete
    <2>3. CASE e # d  BY <1>8, <2>3 DEF BroadcastComplete
    <2> QED BY <2>2, <2>3
  <1>9. CASE ReportError(d)      BY <1>9 DEF ReportError
  <1>10. CASE BroadcastError(d)
    <2>1. last[d] = "none"  BY <1>10 DEF BroadcastError
    <2>2. CASE e = d  BY <1>10, <2>1, <2>2 DEF BroadcastError
    <2>3. CASE e # d  BY <1>10, <2>3 DEF BroadcastError
    <2> QED BY <2>2, <2>3
  <1>11. CASE DropGuard(d)       BY <1>11 DEF DropGuard
  <1>12. CASE DropSender(d)      BY <1>12 DEF DropSender
  <1> QED BY <1>1, <1>2, <1>3, <1>4, <1>5, <1>6, <1>7, <1>8, <1>9, <1>10, <1>11,
             <1>12 DEF UpstreamStep, TaskStep

\* Progress of downloads leaves every attached receiver at its place.
LEMMA ProgressKeepsRequests ==
    ASSUME TypeOK, AttachInv, CursorInv, NoGapNoDuplicate, CountInv, EndedInv,
           UNCHANGED requestVars, TypeOK', CountInv',
           \A e \in Requests : Progress(e)
    PROVE  AttachInv' /\ CursorInv' /\ NoGapNoDuplicate' /\ EndedInv'
  <1> USE DEF requestVars
  <1>1. AttachInv'
    BY DEF TypeOK, AttachInv, Progress
  <1>2. CursorInv'
    <2> SUFFICES ASSUME NEW r \in Requests, source[r] # None
                 PROVE  (InStream(r) \/ PastTheEnd(r))'
      BY DEF CursorInv
    <2>1. source[r] \in Requests
      BY DEF TypeOK
    <2>2. Progress(source[r])
      BY <2>1
    <2>3. /\ sent[source[r]] \in Nat /\ sent'[source[r]] \in Nat
          /\ initial[r] \in Nat /\ next[r] \in Nat /\ Len(got[r]) \in Nat
      BY <2>1 DEF TypeOK
    <2>4. CASE InStream(r)
      BY <2>2, <2>3, <2>4 DEF InStream, Progress
    <2>5. CASE PastTheEnd(r)
      BY <2>2, <2>3, <2>5 DEF PastTheEnd, Progress
    <2> QED BY <2>4, <2>5 DEF CursorInv
  <1>3. NoGapNoDuplicate'
    BY DEF NoGapNoDuplicate
  <1>4. EndedInv'
    <2> SUFFICES ASSUME NEW r \in Requests, request[r] = "ended"
                 PROVE  /\ Over(source[r])'
                        /\ Len(got'[r]) = fetched'[source'[r]]
                        /\ \/ Whole(source[r])'
                           \/ Late(r)'
                           \/ last'[source[r]] = "none" /\ task'[source[r]] = "done"
      BY DEF EndedInv
    <2>1. source[r] \in Requests
      BY DEF TypeOK, AttachInv
    <2>2. Progress(source[r]) /\ Over(source[r])
      BY <2>1 DEF EndedInv
    <2>3. sent'[source[r]] = sent[source[r]]
      <3>1. fetched[source[r]] = sent[source[r]] + 0
        BY <2>1, <2>2 DEF CountInv, Over
      <3>2. task'[source[r]] # "adding" /\ fetched'[source[r]] = fetched[source[r]]
        BY <2>2 DEF Progress, Over
      <3>3. fetched'[source[r]] = sent'[source[r]] + 0
        BY <2>1, <3>2 DEF CountInv
      <3> QED BY <2>1, <3>1, <3>2, <3>3 DEF TypeOK
    <2> QED BY <2>1, <2>2, <2>3 DEF EndedInv, Progress, Whole, Late, Over
  <1> QED BY <1>1, <1>2, <1>3, <1>4

-----------------------------------------------------------------------------
(* Requests, while handlers and bodies move.                               *)

\* A request whose step changes neither its cursor nor a download keeps its
\* place, whatever state it moves to.
LEMMA SameCursor ==
    ASSUME CursorInv, NoGapNoDuplicate, UNCHANGED taskVars,
           UNCHANGED <<source, initial, next, got>>
    PROVE  CursorInv' /\ NoGapNoDuplicate'
  BY DEF CursorInv, NoGapNoDuplicate, InStream, PastTheEnd, taskVars

\* A request that is handed nothing and that does not end its stream keeps the
\* other streams as they are.
LEMMA SameEnded ==
    ASSUME EndedInv, UNCHANGED taskVars, UNCHANGED <<source, next, got>>,
           \A r \in Requests : request'[r] = "ended" => request[r] = "ended"
    PROVE  EndedInv'
  BY DEF EndedInv, Over, Whole, Late, taskVars

\* A handler attaches its client at the right place of the stream.
LEMMA HandlerRequests ==
    ASSUME TypeOK, MapInv, CountInv, AttachInv, CursorInv, NoGapNoDuplicate,
           EndedInv, NEW r \in Requests, HandlerStep(r)
    PROVE  AttachInv' /\ CursorInv' /\ NoGapNoDuplicate' /\ EndedInv'
  <1>1. CASE \/ LookupHit(r) \/ LookupMiss(r) \/ LookupFails(r)
             \/ ReadMeta(r) \/ MetaRefused(r)
    <2>1. UNCHANGED taskVars /\ UNCHANGED <<source, initial, next, got>>
      BY <1>1 DEF LookupHit, LookupMiss, LookupFails, ReadMeta, MetaRefused
    <2>2. PICK s \in {"hit", "missed", "refused", "streaming"} :
             /\ request' = [request EXCEPT ![r] = s]
             /\ s \in {"hit", "missed"} => request[r] = "lookup"
             /\ s = "streaming" => request[r] = "waiting"
      BY <1>1 DEF LookupHit, LookupMiss, LookupFails, ReadMeta, MetaRefused
    <2>3. AttachInv'
      <3> SUFFICES ASSUME NEW q \in Requests
                   PROVE  /\ request'[q] \in {"lookup", "missed"} =>
                                /\ task[q] = "idle"
                                /\ got[q] = <<>> /\ initial[q] = 0 /\ next[q] = 0
                          /\ request'[q] \in {"lookup", "missed", "hit"} =>
                                source[q] = None
                          /\ request'[q] \in {"waiting", "streaming", "ended", "broken"}
                                => source[q] # None
                          /\ source[q] # None => task[source[q]] # "idle"
        BY <2>1 DEF AttachInv, taskVars
      <3>1. CASE q = r  BY <2>2, <3>1 DEF TypeOK, AttachInv
      <3>2. CASE q # r  BY <2>2, <3>2 DEF TypeOK, AttachInv
      <3> QED BY <3>1, <3>2
    <2>4. \A q \in Requests : request'[q] = "ended" => request[q] = "ended"
      BY <2>2 DEF TypeOK
    <2> QED BY <2>1, <2>3, <2>4, SameCursor, SameEnded
  <1>2. CASE Join(r)
    <2> DEFINE d == Entry(r)
    <2>1. /\ request[r] = "missed" /\ d \in Requests /\ task[d] # "adding"
          /\ UNCHANGED <<taskVars, cached, got>>
          /\ request' = [request EXCEPT ![r] = "waiting"]
          /\ source'  = [source EXCEPT ![r] = d]
          /\ initial' = [initial EXCEPT ![r] = accumulated[d]]
          /\ next'    = [next EXCEPT ![r] = TailPos(d)]
      BY <1>2 DEF Join, WriteLockFree, Entry, TypeOK
    <2>2. got[r] = <<>>
      BY <2>1 DEF AttachInv
    <2>3. accumulated[d] = sent[d] /\ sent[d] \in Nat
      BY <2>1 DEF CountInv, TypeOK
    <2>4. task[d] # "idle"
      BY <1>2, <2>1 DEF Join, Entry, MapInv, MapTracksTasks, Active, TypeOK
    <2> HIDE DEF d
    <2>5. AttachInv'
      BY <2>1, <2>4 DEF TypeOK, AttachInv, taskVars
    <2>6. CursorInv'
      <3>1. CASE last[d] = "none"
        <4>1. InStream(r)'
          BY <2>1, <2>2, <2>3, <3>1 DEF InStream, TailPos, TypeOK, taskVars
        <4> QED BY <2>1, <4>1 DEF CursorInv, InStream, PastTheEnd, TypeOK, taskVars
      <3>2. CASE last[d] # "none"
        <4>1. PastTheEnd(r)'
          BY <2>1, <2>2, <2>3, <3>2 DEF PastTheEnd, TailPos, TypeOK, taskVars
        <4> QED BY <2>1, <4>1 DEF CursorInv, InStream, PastTheEnd, TypeOK, taskVars
      <3> QED BY <3>1, <3>2
    <2>7. NoGapNoDuplicate'
      BY <2>1 DEF NoGapNoDuplicate
    <2>8. EndedInv'
      BY <2>1 DEF TypeOK, EndedInv, Over, Whole, Late, taskVars
    <2> QED BY <2>5, <2>6, <2>7, <2>8
  <1>3. CASE Start(r)
    <2>1. /\ task[r] = "idle" /\ got[r] = <<>> /\ initial[r] = 0 /\ next[r] = 0
          /\ source[r] = None
      BY <1>3 DEF Start, AttachInv
    <2>2. AttachInv'
      BY <1>3, <2>1 DEF Start, TypeOK, AttachInv
    <2>3. CursorInv'
      <3>1. InStream(r)'
        BY <1>3, <2>1 DEF Start, InStream, TypeOK
      <3> QED BY <1>3, <3>1 DEF Start, CursorInv, InStream, PastTheEnd, TypeOK
    <2>4. NoGapNoDuplicate'
      BY <1>3 DEF Start, NoGapNoDuplicate
    <2>5. EndedInv'
      BY <1>3, <2>1 DEF Start, TypeOK, EndedInv, Over, Whole, Late
    <2> QED BY <2>2, <2>3, <2>4, <2>5
  <1> QED BY <1>1, <1>2, <1>3 DEF HandlerStep

\* A poll hands out the next chunk, or ends the stream where it may end.
LEMMA PollRequests ==
    ASSUME TypeOK, CountInv, ResultInv, AttachInv, CursorInv,
           NoGapNoDuplicate, EndedInv, NEW r \in Requests, PollStep(r)
    PROVE  AttachInv' /\ CursorInv' /\ NoGapNoDuplicate' /\ EndedInv'
  <1> DEFINE d == source[r]
  <1>1. /\ request[r] = "streaming" /\ d \in Requests
        /\ sent[d] \in Nat /\ initial[r] \in Nat /\ next[r] \in Nat
        /\ got[r] \in Seq(Nat) /\ Len(got[r]) \in Nat
    BY DEF PollStep, PollInitial, Polls, PollData, PollComplete, PollClosed,
           PollError, PollLagged, AttachInv, TypeOK
  <1>2. InStream(r) \/ PastTheEnd(r)
    BY <1>1 DEF CursorInv, AttachInv
  <1>3. ASSUME NEW n \in Nat, got' = [got EXCEPT ![r] = Append(@, n)],
               n = Len(got[r]) + 1, UNCHANGED <<taskVars, request, source>>,
               UNCHANGED initial,
               \A q \in Requests : q # r => next'[q] = next[q]
        PROVE  AttachInv' /\ NoGapNoDuplicate' /\ EndedInv'
    <2>1. AttachInv'
      BY <1>1, <1>3 DEF AttachInv, TypeOK, taskVars
    <2>2. NoGapNoDuplicate'
      <3>1. got'[r] = Append(got[r], n)
        BY <1>3 DEF TypeOK
      <3>2. /\ Len(got'[r]) = Len(got[r]) + 1
            /\ \A i \in 1..Len(got[r]) : got'[r][i] = got[r][i]
            /\ got'[r][Len(got[r]) + 1] = n
        BY <1>1, <3>1
      <3>3. \A i \in 1..Len(got'[r]) : got'[r][i] = i
        BY <1>1, <1>3, <3>2 DEF NoGapNoDuplicate
      <3> QED BY <1>3, <3>3 DEF NoGapNoDuplicate, TypeOK
    <2>3. EndedInv'
      BY <1>1, <1>3 DEF EndedInv, Over, Whole, Late, TypeOK, taskVars
    <2> QED BY <2>1, <2>2, <2>3
  <1>4. ASSUME UNCHANGED <<taskVars, source, initial, next, got>>,
               NEW s \in {"ended", "broken"}, request' = [request EXCEPT ![r] = s],
               s = "ended" => /\ Over(d) /\ Len(got[r]) = fetched[d]
                              /\ \/ Whole(d) \/ Late(r)
                                 \/ last[d] = "none" /\ task[d] = "done"
        PROVE  AttachInv' /\ CursorInv' /\ NoGapNoDuplicate' /\ EndedInv'
    <2>1. AttachInv'
      BY <1>1, <1>4 DEF AttachInv, TypeOK, taskVars
    <2>2. EndedInv'
      BY <1>1, <1>4 DEF EndedInv, Over, Whole, Late, TypeOK, taskVars
    <2> QED BY <1>4, <2>1, <2>2, SameCursor
  <1>5. CASE PollInitial(r)
    <2>1. /\ Len(got[r]) < initial[r]
          /\ got' = [got EXCEPT ![r] = Append(@, Len(got[r]) + 1)]
          /\ UNCHANGED <<taskVars, request, source, initial, next>>
      BY <1>5 DEF PollInitial
    <2>2. got'[r] = Append(got[r], Len(got[r]) + 1) /\ Len(got'[r]) = Len(got[r]) + 1
      BY <1>1, <2>1 DEF TypeOK
    <2>3. (InStream(r) \/ PastTheEnd(r))'
      BY <1>1, <1>2, <2>1, <2>2 DEF InStream, PastTheEnd, taskVars
    <2>4. CursorInv'
      BY <2>1, <2>3 DEF CursorInv, InStream, PastTheEnd, TypeOK, taskVars
    <2>5. /\ Len(got[r]) + 1 \in Nat
          /\ UNCHANGED <<taskVars, request, source>> /\ UNCHANGED initial
          /\ \A q \in Requests : q # r => next'[q] = next[q]
      BY <1>1, <2>1
    <2> QED BY <1>3, <2>1, <2>4, <2>5
  <1>6. CASE PollData(r)
    <2>1. /\ Len(got[r]) >= initial[r] /\ next[r] < sent[d]
          /\ got' = [got EXCEPT ![r] = Append(@, next[r] + 1)]
          /\ next' = [next EXCEPT ![r] = @ + 1]
          /\ UNCHANGED <<taskVars, request, source, initial>>
      BY <1>6 DEF PollData, Polls
    <2>2. InStream(r) /\ next[r] = Len(got[r])
      BY <1>1, <1>2, <2>1 DEF InStream, PastTheEnd
    <2>3. /\ got'[r] = Append(got[r], Len(got[r]) + 1)
          /\ Len(got'[r]) = Len(got[r]) + 1
          /\ next'[r] = next[r] + 1
      BY <1>1, <2>1, <2>2 DEF TypeOK
    <2>4. InStream(r)'
      BY <1>1, <2>1, <2>2, <2>3 DEF InStream, taskVars
    <2>5. CursorInv'
      BY <2>1, <2>4 DEF CursorInv, InStream, PastTheEnd, TypeOK, taskVars
    <2>6. /\ next[r] + 1 \in Nat /\ next[r] + 1 = Len(got[r]) + 1
          /\ UNCHANGED <<taskVars, request, source>> /\ UNCHANGED initial
          /\ \A q \in Requests : q # r => next'[q] = next[q]
      BY <1>1, <2>1, <2>2 DEF TypeOK
    <2> QED BY <1>3, <2>1, <2>5, <2>6
  <1>7. CASE PollComplete(r) \/ PollClosed(r)
    <2>1. /\ Len(got[r]) >= initial[r]
          /\ UNCHANGED <<taskVars, source, initial, next, got>>
          /\ request' = [request EXCEPT ![r] = "ended"]
      BY <1>7 DEF PollComplete, PollClosed, Polls
    <2>2. CASE PollComplete(r)
      <3>1. next[r] = sent[d] /\ last[d] = "Complete"
        BY <2>2 DEF PollComplete
      <3>2. Over(d) /\ Whole(d) /\ fetched[d] = sent[d]
        BY <1>1, <3>1 DEF CountInv, ResultInv, Over
      <3>3. Len(got[r]) = fetched[d]
        BY <1>1, <1>2, <2>1, <3>1, <3>2 DEF InStream, PastTheEnd
      <3> QED BY <1>4, <2>1, <3>2, <3>3
    <2>3. CASE PollClosed(r)
      <3>1. next[r] = TailPos(d) /\ task[d] = "done"
        BY <2>3 DEF PollClosed, ChannelClosed
      <3>2. Over(d) /\ fetched[d] = sent[d]
        BY <1>1, <3>1 DEF CountInv, Over
      <3>3. /\ Len(got[r]) = fetched[d]
            /\ Late(r) \/ last[d] = "none"
        BY <1>1, <1>2, <2>1, <3>1, <3>2 DEF InStream, PastTheEnd, TailPos, Late
      <3> QED BY <1>4, <2>1, <3>1, <3>2, <3>3
    <2> QED BY <1>7, <2>2, <2>3
  <1>8. CASE PollError(r) \/ PollLagged(r)
    <2>1. /\ UNCHANGED <<taskVars, source, initial, next, got>>
          /\ request' = [request EXCEPT ![r] = "broken"]
      BY <1>8 DEF PollError, PollLagged
    <2> QED BY <1>4, <2>1
  <1> QED BY <1>5, <1>6, <1>7, <1>8 DEF PollStep

\* A client that leaves is attached to nothing.
LEMMA DisconnectRequests ==
    ASSUME TypeOK, AttachInv, CursorInv, NoGapNoDuplicate, EndedInv,
           NEW r \in Requests, Disconnect(r)
    PROVE  AttachInv' /\ CursorInv' /\ NoGapNoDuplicate' /\ EndedInv'
  <1> USE DEF Disconnect, TypeOK, taskVars
  <1>1. AttachInv'        BY DEF AttachInv
  <1>2. CursorInv'        BY DEF CursorInv, InStream, PastTheEnd
  <1>3. NoGapNoDuplicate' BY DEF NoGapNoDuplicate
  <1>4. EndedInv'         BY DEF EndedInv, Over, Whole, Late
  <1> QED BY <1>1, <1>2, <1>3, <1>4

-----------------------------------------------------------------------------
(* The client that started a download.                                     *)

\* Steps of a task do not lose the headers of the first client.
LEMMA TaskInitiatorInv ==
    ASSUME TypeOK, MapInv, CountInv, AttachInv, MetaInv, InitiatorInv,
           NEW d \in Requests,
           UpstreamStep(d) \/ TaskStep(d) \/ Panic(d)
    PROVE  MetaInv' /\ InitiatorInv'
  <1>1. UNCHANGED <<request, source>>
    BY TasksLeaveRequests DEF requestVars
  <1>2. \A e \in Requests : e # d =>
           task'[e] = task[e] /\ last'[e] = last[e] /\ meta'[e] = meta[e]
    BY OthersKeep
  <1>3. /\ meta'[d] = "err" =>
              (task'[d] = "reported" \/ Over(d)') /\ last'[d] # "Complete"
        /\ source[d] = d /\ request[d] = "waiting"
           /\ \/ task'[d] \in {"body", "adding", "caching", "succeeded"}
              \/ last'[d] = "Complete"
           => meta'[d] = "ok"
        /\ source[d] = d /\ request[d] = "refused" =>
              (task'[d] = "reported" \/ Over(d)') /\ last'[d] # "Complete"
    <2> USE DEF MetaInv, InitiatorInv, CountInv, Over
    <2>1. CASE HeadersArrive(d) \/ ReportError(d)
      <3>1. Entry(d) = d
        BY <2>1 DEF HeadersArrive, ReportError, Moves, MapInv, MapTracksTasks, Active
      <3>2. meta'[d] = IF MetaReceivers(d) # {}
                         THEN IF task[d] = "fetch" THEN "ok" ELSE "err"
                         ELSE meta[d]
        BY <2>1, <3>1 DEF HeadersArrive, ReportError, SendMeta, Moves
      <3>3. /\ last'[d] = last[d]
            /\ \/ task[d] = "fetch" /\ task'[d] = "body"
               \/ task[d] = "failed" /\ task'[d] = "reported"
        BY <2>1 DEF HeadersArrive, ReportError, Moves, TypeOK
      <3>4. source[d] = d /\ request[d] = "waiting" => MetaReceivers(d) # {}
        BY DEF MetaReceivers
      <3> QED BY <3>2, <3>3, <3>4
    <2>2. CASE DownloadFails(d) \/ TimesOut(d) \/ Panic(d)
      <3>1. /\ last'[d] = last[d] /\ meta'[d] = meta[d]
            /\ task[d] \in {"collect", "fetch", "body", "caching"}
            /\ task'[d] \in {"failed", "ended"}
        BY <2>2, StopsOnly DEF TypeOK
      <3> QED BY <3>1
    <2>3. CASE BroadcastComplete(d)
      <3>1. /\ last'[d] = "Complete" /\ meta'[d] = meta[d]
            /\ task[d] = "succeeded" /\ task'[d] = "ended"
        BY <2>3 DEF BroadcastComplete, Moves, TypeOK
      <3> QED BY <3>1
    <2>4. CASE BroadcastError(d)
      <3>1. /\ last'[d] = "Error" /\ meta'[d] = meta[d]
            /\ task[d] = "reported" /\ task'[d] = "ended"
        BY <2>4 DEF BroadcastError, Moves, TypeOK
      <3> QED BY <3>1
    <2>5. CASE \/ BodyCollected(d) \/ PushChunk(d) \/ BroadcastChunk(d)
               \/ BodyEnds(d) \/ CachePut(d) \/ DropGuard(d) \/ DropSender(d)
      <3>1. /\ last'[d] = last[d] /\ meta'[d] = meta[d]
            /\ \/ task[d] = "collect" /\ task'[d] = "fetch"
               \/ /\ task[d] \in {"body", "adding", "caching"}
                  /\ task'[d] \in {"body", "adding", "caching", "succeeded"}
               \/ Over(d) /\ Over(d)'
        BY <2>5 DEF BodyCollected, PushChunk, BroadcastChunk, BodyEnds,
                    CachePut, DropGuard, DropSender, Moves, TypeOK
      <3> QED BY <3>1
    <2> QED BY <2>1, <2>2, <2>3, <2>4, <2>5 DEF UpstreamStep, TaskStep
  <1> QED BY <1>1, <1>2, <1>3 DEF MetaInv, InitiatorInv, Over

\* The first client waits with its receiver; handlers keep it so.
LEMMA HandlerInitiatorInv ==
    ASSUME TypeOK, MapInv, CountInv, AttachInv, MetaInv, InitiatorInv, NEW r \in Requests,
           HandlerStep(r)
    PROVE  MetaInv' /\ InitiatorInv'
  <1> USE DEF TypeOK, MetaInv, InitiatorInv, Over, taskVars
  <1>1. CASE LookupHit(r) \/ LookupMiss(r) \/ LookupFails(r)
    <2>1. request[r] = "lookup" /\ UNCHANGED <<taskVars, source>>
      BY <1>1 DEF LookupHit, LookupMiss, LookupFails
    <2>2. source[r] = None
      BY <2>1 DEF AttachInv
    <2>3. source[r] # r
      BY <2>2, NoneAssumption
    <2>4. \A q \in Requests : q # r => request'[q] = request[q]
      BY <1>1 DEF LookupHit, LookupMiss, LookupFails
    <2> QED BY <2>1, <2>3, <2>4
  <1>2. CASE Join(r)
    <2>1. Entry(r) # r
      <3>1. task[r] = "idle" /\ Entry(r) = downloads[KeyOf[r]]
        BY <1>2 DEF Join, AttachInv, Entry
      <3> QED BY <3>1 DEF MapInv, MapTracksTasks, Active
    <2> QED BY <1>2, <2>1 DEF Join, Entry
  <1>3. CASE Start(r)
    <2>1. task[r] = "idle" /\ last[r] = "none" /\ meta[r] # "err"
      BY <1>3 DEF Start, AttachInv, CountInv
    <2>2. /\ task' = [task EXCEPT ![r] = "collect"]
          /\ request' = [request EXCEPT ![r] = "waiting"]
          /\ source' = [source EXCEPT ![r] = r]
          /\ UNCHANGED <<last, meta>>
      BY <1>3 DEF Start
    <2> QED BY <2>1, <2>2
  <1>4. CASE ReadMeta(r)   BY <1>4 DEF ReadMeta
  <1>5. CASE MetaRefused(r)
    <2>1. source[r] = r /\ MetaClosed(r) => task[r] \in {"closing", "done"}
      BY DEF MetaClosed, MapInv, MapTracksTasks, Active, Entry, AttachInv
    <2>2. /\ request[r] = "waiting"
          /\ meta[source[r]] = "err" \/ MetaClosed(source[r])
          /\ request' = [request EXCEPT ![r] = "refused"]
          /\ UNCHANGED <<taskVars, source>>
      BY <1>5 DEF MetaRefused
    <2>3. source[r] = r =>
             (task[r] = "reported" \/ Over(r)) /\ last[r] # "Complete"
      <3>1. CASE meta[source[r]] = "err"  BY <3>1
      <3>2. CASE MetaClosed(source[r]) /\ meta[r] # "ok"
        BY <2>1, <2>2, <3>2
      <3> QED BY <1>5, <2>2, <3>1, <3>2 DEF MetaRefused
    <2> QED BY <2>2, <2>3
  <1> QED BY <1>1, <1>2, <1>3, <1>4, <1>5 DEF HandlerStep

\* Polls and disconnects keep what holds of the first client.
LEMMA ClientInitiatorInv ==
    ASSUME TypeOK, MetaInv, InitiatorInv, NEW r \in Requests, PollStep(r) \/ Disconnect(r)
    PROVE  MetaInv' /\ InitiatorInv'
  <1>1. /\ UNCHANGED <<last, meta, task>>
        /\ \A q \in Requests : q # r =>
              request'[q] = request[q] /\ source'[q] = source[q]
        /\ request'[r] \notin {"waiting", "refused"}
    BY DEF TypeOK, PollStep, PollInitial, PollData, PollComplete, PollClosed,
           PollError, PollLagged, Polls, Disconnect, taskVars
  <1> QED BY <1>1 DEF MetaInv, InitiatorInv, Over

-----------------------------------------------------------------------------
(* The inductive invariant.                                                *)

\* The first state satisfies the invariant.
LEMMA InitInvariant == Init => InductiveInvariant
  <1> SUFFICES ASSUME Init PROVE InductiveInvariant
    OBVIOUS
  <1> USE DEF Init
  <1>1. TypeOK            BY InitTypeOK
  <1>2. MapInv            BY DEF MapInv, MapTracksTasks, Active, Entry
  <1>3. CountInv
    <2>1. ASSUME NEW d \in Requests
          PROVE  /\ task[d] = "idle" /\ last[d] = "none"
                 /\ accumulated[d] = 0 /\ sent[d] = 0 /\ fetched[d] = 0
      OBVIOUS
    <2>2. ASSUME NEW d \in Requests
          PROVE  fetched[d] = sent[d] + (IF task[d] = "adding" THEN 1 ELSE 0)
      BY <2>1
    <2> QED BY <2>1, <2>2 DEF CountInv
  <1>4. ResultInv         BY DEF ResultInv
  <1>5. AttachInv         BY DEF AttachInv
  <1>6. CursorInv         BY DEF CursorInv
  <1>7. NoGapNoDuplicate  BY DEF NoGapNoDuplicate
  <1>8. EndedInv          BY DEF EndedInv
  <1>9. MetaInv           BY DEF MetaInv
  <1>10. InitiatorInv     BY DEF InitiatorInv
  <1> QED BY <1>1, <1>2, <1>3, <1>4, <1>5, <1>6, <1>7, <1>8, <1>9, <1>10
          DEF InductiveInvariant

\* Download state that stays as it is keeps its part of the invariant.
LEMMA SameTasks ==
    ASSUME MapInv, CountInv, ResultInv, UNCHANGED <<taskVars, cached>>
    PROVE  MapInv' /\ CountInv' /\ ResultInv'
  BY DEF MapInv, MapTracksTasks, Active, Entry, CountInv, ResultInv, Over,
         Whole, taskVars

\* Every step of a download task keeps the invariant,
LEMMA TaskKeepsInvariant ==
    ASSUME InductiveInvariant, NEW d \in Requests,
           UpstreamStep(d) \/ TaskStep(d) \/ Panic(d)
    PROVE  InductiveInvariant'
  <1> USE DEF InductiveInvariant
  <1>1. TypeOK' /\ MapInv' /\ CountInv' /\ ResultInv'
    BY TaskTypeOK, TaskMapInv, TaskCountInv, TaskResultInv
  <1>2. AttachInv' /\ CursorInv' /\ NoGapNoDuplicate' /\ EndedInv'
    BY <1>1, TasksProgress, TasksLeaveRequests, ProgressKeepsRequests
  <1>3. MetaInv' /\ InitiatorInv'
    BY TaskInitiatorInv
  <1> QED BY <1>1, <1>2, <1>3

\* every step of a request does,
LEMMA RequestKeepsInvariant ==
    ASSUME InductiveInvariant, NEW r \in Requests,
           HandlerStep(r) \/ PollStep(r) \/ Disconnect(r)
    PROVE  InductiveInvariant'
  <1> USE DEF InductiveInvariant
  <1>1. TypeOK'
    <2>1. CASE Disconnect(r)
      BY <2>1 DEF Disconnect, TypeOK, taskVars, RequestState, Settled
    <2> QED BY <2>1, HandlerTypeOK, PollTypeOK
  <1>2. MapInv' /\ CountInv' /\ ResultInv'
    BY RequestsLeaveTasks, SameTasks, StartMapInv, StartCountResultInv
  <1>3. AttachInv' /\ CursorInv' /\ NoGapNoDuplicate' /\ EndedInv'
    BY HandlerRequests, PollRequests, DisconnectRequests
  <1>4. MetaInv' /\ InitiatorInv'
    BY HandlerInitiatorInv, ClientInitiatorInv
  <1> QED BY <1>1, <1>2, <1>3, <1>4

\* so does a cache that forgets an entry,
LEMMA ForgettingKeepsInvariant ==
    ASSUME InductiveInvariant, NEW k \in Keys, CacheForgets(k)
    PROVE  InductiveInvariant'
  <1> USE DEF CacheForgets, taskVars, requestVars
  <1>1. TypeOK'
    BY DEF InductiveInvariant, TypeOK
  <1>2. MapInv' /\ CountInv' /\ ResultInv'
    BY DEF InductiveInvariant, TypeOK, MapInv, MapTracksTasks, Active, Entry,
           CountInv, ResultInv, Over, Whole
  <1>3. AttachInv' /\ CursorInv' /\ NoGapNoDuplicate' /\ EndedInv'
    BY DEF InductiveInvariant, AttachInv, CursorInv, InStream, PastTheEnd,
           NoGapNoDuplicate, EndedInv, Over, Whole, Late
  <1>4. MetaInv' /\ InitiatorInv'
    BY DEF InductiveInvariant, MetaInv, InitiatorInv, Over
  <1> QED BY <1>1, <1>2, <1>3, <1>4 DEF InductiveInvariant

\* and a step that changes nothing.
LEMMA StutterKeepsInvariant ==
    ASSUME InductiveInvariant, UNCHANGED vars PROVE InductiveInvariant'
  <1> USE DEF vars, taskVars, requestVars
  <1>1. TypeOK'
    BY DEF InductiveInvariant, TypeOK
  <1>2. MapInv' /\ CountInv' /\ ResultInv'
    BY DEF InductiveInvariant, MapInv, MapTracksTasks, Active, Entry,
           CountInv, ResultInv, Over, Whole
  <1>3. AttachInv' /\ CursorInv' /\ NoGapNoDuplicate' /\ EndedInv'
    BY DEF InductiveInvariant, AttachInv, CursorInv, InStream, PastTheEnd,
           NoGapNoDuplicate, EndedInv, Over, Whole, Late
  <1>4. MetaInv' /\ InitiatorInv'
    BY DEF InductiveInvariant, MetaInv, InitiatorInv, Over
  <1> QED BY <1>1, <1>2, <1>3, <1>4 DEF InductiveInvariant

\* The invariant is inductive.
LEMMA NextInvariant == InductiveInvariant /\ [Next]_vars => InductiveInvariant'
  <1> SUFFICES ASSUME InductiveInvariant, [Next]_vars PROVE InductiveInvariant'
    OBVIOUS
  <1>1. ASSUME NEW r \in Requests, HandlerStep(r) \/ PollStep(r) \/ Disconnect(r)
        PROVE  InductiveInvariant'
    BY <1>1, RequestKeepsInvariant
  <1>2. ASSUME NEW d \in Requests, UpstreamStep(d) \/ TaskStep(d) \/ Panic(d)
        PROVE  InductiveInvariant'
    BY <1>2, TaskKeepsInvariant
  <1>3. ASSUME NEW k \in Keys, CacheForgets(k) PROVE InductiveInvariant'
    BY <1>3, ForgettingKeepsInvariant
  <1>4. CASE Terminating \/ UNCHANGED vars
    BY <1>4, StutterKeepsInvariant DEF Terminating
  <1> QED BY <1>1, <1>2, <1>3, <1>4 DEF Next

\* Every reachable state satisfies the inductive invariant.
THEOREM Invariance == Spec => []InductiveInvariant
  BY InitInvariant, NextInvariant, PTL DEF Spec

-----------------------------------------------------------------------------
(* What it implies.                                                        *)

\* Type correctness; in particular no download reads past max_body_size.
THEOREM TypeCorrect == Spec => []TypeOK
  <1>1. InductiveInvariant => TypeOK
    BY DEF InductiveInvariant
  <1> QED BY Invariance, <1>1, PTL

\* At most one running download per key, and the map names it for as long as
\* its task runs: join_or_start_download and the guard never lose an entry.
THEOREM OneDownloadPerKey == Spec => []MapTracksTasks
  <1>1. InductiveInvariant => MapTracksTasks
    BY DEF InductiveInvariant, MapInv
  <1> QED BY Invariance, <1>1, PTL

\* No client, early or late, fast or lagging, is handed a chunk twice or out of
\* order, or misses one.
THEOREM ChunksInOrder == Spec => []NoGapNoDuplicate
  <1>1. InductiveInvariant => NoGapNoDuplicate
    BY DEF InductiveInvariant
  <1> QED BY Invariance, <1>1, PTL

\* A stream that ends without an error delivered all that was downloaded.
THEOREM CleanEndIsAll == Spec => []CleanEndHasEverything
  <1>1. InductiveInvariant => CleanEndHasEverything
    BY DEF InductiveInvariant, EndedInv, CleanEndHasEverything
  <1> QED BY Invariance, <1>1, PTL

\* It is a truncated body only for a client that subscribed after the failure
\* was broadcast, or when the task was dropped.
THEOREM TruncationIsLate == Spec => []TruncatedOnlyIfLateOrPanic
  <1>1. InductiveInvariant => TruncatedOnlyIfLateOrPanic
    <2> SUFFICES ASSUME InductiveInvariant, NEW r \in Requests,
                        request[r] = "ended", Len(got[r]) < length[source[r]]
                 PROVE  Late(r) \/ last[source[r]] = "none"
      BY DEF TruncatedOnlyIfLateOrPanic
    <2>1. source[r] \in Requests
      BY DEF InductiveInvariant, AttachInv, TypeOK
    <2>2. length[source[r]] \in Nat /\ Len(got[r]) # length[source[r]]
      <3>1. length[source[r]] \in 0..(MaxChunks + 1)
        BY <2>1 DEF InductiveInvariant, TypeOK
      <3> QED BY <3>1
    <2> QED BY <2>2 DEF InductiveInvariant, EndedInv, Whole
  <1> QED BY Invariance, <1>1, PTL

\* Only whole bodies reach the cache, under the key they were requested for.
THEOREM CacheHoldsWholeBodies == Spec => []CachedIsWhole
  <1>1. InductiveInvariant => CachedIsWhole
    BY DEF InductiveInvariant, ResultInv, Whole, CachedIsWhole
  <1> QED BY Invariance, <1>1, PTL

\* The client that starts a download is not refused if the download succeeds.
THEOREM InitiatorServed == Spec => []InitiatorServedOnSuccess
  <1>1. InductiveInvariant => InitiatorServedOnSuccess
    BY DEF InductiveInvariant, InitiatorInv, InitiatorServedOnSuccess
  <1> QED BY Invariance, <1>1, PTL

-----------------------------------------------------------------------------
(* Request coalescing implements SingleFlight.                             *)

\* The abstract state: the refinement mapping of InflightDownloads.
absSeen    == [r \in Requests |-> Len(got[r])]
absOutcome == [r \in Requests |-> Outcome(r)]

\* The first state is a first state of SingleFlight.
LEMMA InitRefines == Init => Flight!Init
  BY DEF Init, Flight!Init, Outcome

\* A request that moves within its handler, without joining or starting.
LEMMA OutcomeRefines ==
    ASSUME TypeOK, NEW r \in Requests, NEW s \in RequestState,
           request' = [request EXCEPT ![r] = s],
           Outcome(r) = "pending",
           UNCHANGED <<downloads, accumulated, source, got>>,
           s \in {"hit", "ended"} /\ source[r] # None =>
                Len(got[r]) = accumulated[source[r]]
    PROVE  Flight!Next \/ UNCHANGED Flight!flightVars
  <1>1. \A q \in Requests : q # r => Outcome(q)' = Outcome(q)
    BY DEF Outcome, TypeOK
  <1>2. absSeen' = absSeen
    BY DEF absSeen
  <1>3. request'[r] = s
    BY DEF TypeOK
  <1>4. CASE s \in {"hit", "ended"}
    <2>1. absOutcome' = [absOutcome EXCEPT ![r] = "finished"]
      BY <1>1, <1>3, <1>4 DEF Outcome, absOutcome
    <2>2. Flight!Finish(r)
      BY <1>2, <1>4, <2>1 DEF Flight!Finish, absSeen, absOutcome
    <2> QED BY <2>2 DEF Flight!Next
  <1>5. CASE s \in {"broken", "refused", "gone"}
    <2>1. absOutcome' = [absOutcome EXCEPT ![r] = "aborted"]
      BY <1>1, <1>3, <1>5 DEF Outcome, absOutcome
    <2>2. Flight!Abort(r)
      BY <1>2, <2>1 DEF Flight!Abort, absSeen, absOutcome
    <2> QED BY <2>2 DEF Flight!Next
  <1>6. CASE s \in {"lookup", "missed", "waiting", "streaming"}
    <2>1. absOutcome' = absOutcome
      BY <1>1, <1>3, <1>6 DEF Outcome, absOutcome
    <2> QED BY <1>2, <2>1 DEF Flight!flightVars, absSeen, absOutcome
  <1> QED BY <1>4, <1>5, <1>6 DEF RequestState, Settled

\* A handler joins, starts or changes nothing SingleFlight sees.
LEMMA HandlerRefines ==
    ASSUME InductiveInvariant, NEW r \in Requests, HandlerStep(r)
    PROVE  Flight!Next \/ UNCHANGED Flight!flightVars
  <1> USE DEF InductiveInvariant
  <1>1. CASE LookupHit(r) \/ LookupMiss(r) \/ LookupFails(r)
    <2>1. PICK s \in {"hit", "missed", "refused"} :
             request' = [request EXCEPT ![r] = s]
      BY <1>1 DEF LookupHit, LookupMiss, LookupFails
    <2>2. /\ request[r] = "lookup" /\ source[r] = None
          /\ UNCHANGED <<downloads, accumulated, source, got>>
      BY <1>1 DEF LookupHit, LookupMiss, LookupFails, AttachInv, taskVars
    <2> QED BY <2>1, <2>2, OutcomeRefines DEF Outcome, RequestState, Settled
  <1>2. CASE ReadMeta(r) \/ MetaRefused(r)
    <2>1. PICK s \in {"streaming", "refused"} :
             request' = [request EXCEPT ![r] = s]
      BY <1>2 DEF ReadMeta, MetaRefused
    <2>2. /\ request[r] = "waiting"
          /\ UNCHANGED <<downloads, accumulated, source, got>>
      BY <1>2 DEF ReadMeta, MetaRefused, taskVars
    <2> QED BY <2>1, <2>2, OutcomeRefines DEF Outcome, RequestState, Settled
  <1>3. CASE Join(r) \/ Start(r)
    <2>1. request[r] = "missed" /\ source[r] = None
      BY <1>3 DEF Join, Start, AttachInv
    <2>2. request' = [request EXCEPT ![r] = "waiting"] /\ UNCHANGED <<accumulated, got>>
      BY <1>3 DEF Join, Start, taskVars
    <2>3. absSeen' = absSeen
      BY <2>2 DEF absSeen
    <2>4. absOutcome' = absOutcome /\ absOutcome[r] = "pending"
      BY <2>1, <2>2 DEF absOutcome, Outcome, TypeOK
    <2>5. CASE Join(r)
      <3>1. Flight!Attach(r)
        BY <2>1, <2>2, <2>3, <2>4, <2>5 DEF Join, Entry, taskVars, absSeen,
           absOutcome, Flight!Attach, Flight!Unattached
      <3> QED BY <3>1 DEF Flight!Next
    <2>6. CASE Start(r)
      <3>1. Flight!Launch(r)
        BY <2>1, <2>2, <2>3, <2>4, <2>6 DEF Start, Entry, absSeen,
           absOutcome, Flight!Launch, Flight!Unattached
      <3> QED BY <3>1 DEF Flight!Next
    <2> QED BY <1>3, <2>5, <2>6
  <1> QED BY <1>1, <1>2, <1>3 DEF HandlerStep

\* A poll reads one chunk more or ends the read, as SingleFlight allows.
LEMMA PollRefines ==
    ASSUME InductiveInvariant, InductiveInvariant', NEW r \in Requests,
           PollStep(r)
    PROVE  Flight!Next \/ UNCHANGED Flight!flightVars
  <1>1. /\ request[r] = "streaming"
        /\ UNCHANGED <<taskVars, source>>
    BY DEF PollStep, PollInitial, Polls, PollData, PollComplete, PollClosed,
           PollError, PollLagged
  <1>2. /\ source[r] # None /\ source[r] \in Requests
        /\ accumulated[source[r]] \in Nat /\ sent[source[r]] \in Nat
        /\ UNCHANGED <<downloads, accumulated, sent, fetched>>
    BY <1>1 DEF InductiveInvariant, AttachInv, TypeOK, taskVars
  <1>3. CASE PollInitial(r) \/ PollData(r)
    <2>1. PICK n \in Nat : /\ got' = [got EXCEPT ![r] = Append(@, n)]
                           /\ request' = request
      <3>1. got[r] \in Seq(Nat) /\ next[r] \in Nat
        BY DEF InductiveInvariant, TypeOK
      <3>2. Len(got[r]) + 1 \in Nat /\ next[r] + 1 \in Nat
        BY <3>1
      <3> QED BY <1>3, <3>2 DEF PollInitial, PollData
    <2>2. absOutcome' = absOutcome /\ absOutcome[r] = "pending"
      BY <1>1, <2>1 DEF absOutcome, Outcome
    <2>3. Len(got'[r]) = Len(got[r]) + 1
      BY <2>1 DEF InductiveInvariant, TypeOK
    <2>4. absSeen' = [absSeen EXCEPT ![r] = @ + 1]
      BY <2>1, <2>3 DEF absSeen, InductiveInvariant, TypeOK
    <2>5. Len(got[r]) < accumulated[source[r]]
      <3>1. Len(got'[r]) <= sent'[source[r]]
        BY <1>1, <1>2 DEF InductiveInvariant, CursorInv, InStream, PastTheEnd, TypeOK
      <3>2. sent[source[r]] <= accumulated[source[r]]
        BY <1>2 DEF InductiveInvariant, CountInv
      <3>3. Len(got[r]) \in Nat
        BY DEF InductiveInvariant, TypeOK
      <3> QED BY <1>2, <2>3, <3>1, <3>2, <3>3
    <2>6. Flight!Deliver(r)
      BY <1>1, <1>2, <2>2, <2>4, <2>5 DEF Flight!Deliver, absSeen, absOutcome
    <2> QED BY <2>6 DEF Flight!Next
  <1>4. CASE \/ PollComplete(r) \/ PollClosed(r)
             \/ PollError(r) \/ PollLagged(r)
    <2>1. PICK s \in {"ended", "broken"} : request' = [request EXCEPT ![r] = s]
      BY <1>4 DEF PollComplete, PollClosed, PollError, PollLagged
    <2>2. UNCHANGED got
      BY <1>4 DEF PollComplete, PollClosed, PollError, PollLagged
    <2>3. s = "ended" => Len(got[r]) = accumulated[source[r]]
      BY <1>1, <1>2, <2>1, <2>2 DEF InductiveInvariant, TypeOK, EndedInv, CountInv
    <2> QED BY <1>1, <1>2, <2>1, <2>2, <2>3, OutcomeRefines
            DEF InductiveInvariant, Outcome, RequestState, Settled
  <1> QED BY <1>3, <1>4 DEF PollStep

\* A disconnect is a client leaving.
LEMMA DisconnectRefines ==
    ASSUME InductiveInvariant, NEW r \in Requests, Disconnect(r)
    PROVE  Flight!Next
  <1>1. absSeen' = [absSeen EXCEPT ![r] = 0]
    BY DEF Disconnect, absSeen, InductiveInvariant, TypeOK
  <1>2. absOutcome' = [absOutcome EXCEPT ![r] = "aborted"] /\ absOutcome[r] = "pending"
    BY DEF Disconnect, absOutcome, Outcome, Settled, InductiveInvariant, TypeOK
  <1>3. Flight!Leave(r)
    BY <1>1, <1>2 DEF Disconnect, taskVars, Flight!Leave, absSeen, absOutcome
  <1> QED BY <1>3 DEF Flight!Next

\* A task publishes a chunk, ends the fetch, or changes nothing seen.
LEMMA TaskRefines ==
    ASSUME InductiveInvariant, NEW d \in Requests,
           UpstreamStep(d) \/ TaskStep(d) \/ Panic(d)
    PROVE  Flight!Next \/ UNCHANGED Flight!flightVars
  <1>1. UNCHANGED <<request, source, got>>
    BY TasksLeaveRequests DEF requestVars
  <1>2. absSeen' = absSeen /\ absOutcome' = absOutcome
    BY <1>1 DEF absSeen, absOutcome, Outcome
  <1>3. CASE PushChunk(d)
    <2>1. Entry(d) = d /\ ~Over(d)
      BY <1>3 DEF PushChunk, Moves, Over, InductiveInvariant, MapInv,
                  MapTracksTasks, Active
    <2>2. accumulated' = [accumulated EXCEPT ![d] = @ + 1]
      <3>1. accumulated' = [s \in Requests |->
                               accumulated[s] + (IF s = d THEN 1 ELSE 0)]
        BY <1>3, <2>1 DEF PushChunk
      <3>2. \A s \in Requests : accumulated[s] \in Nat
        BY DEF InductiveInvariant, TypeOK
      <3>3. \A s \in Requests :
               accumulated'[s] = IF s = d THEN accumulated[d] + 1 ELSE accumulated[s]
        BY <3>1, <3>2
      <3> QED BY <3>1, <3>3 DEF InductiveInvariant, TypeOK
    <2>3. \A r \in Requests : source[r] = d => Outcome(r) # "finished"
      BY <2>1 DEF InductiveInvariant, AttachInv, EndedInv, Outcome, TypeOK
    <2>4. Flight!Publish(d)
      BY <1>1, <1>2, <1>3, <2>1, <2>2, <2>3 DEF Flight!Publish, PushChunk, Entry,
         absSeen, absOutcome
    <2> QED BY <2>4 DEF Flight!Next
  <1>4. CASE DropGuard(d)
    <2>1. Entry(d) = d
      BY <1>4 DEF DropGuard, Moves, InductiveInvariant, MapInv,
                  MapTracksTasks, Active
    <2>2. Flight!Land(d)
      BY <1>1, <1>2, <1>4, <2>1 DEF Flight!Land, DropGuard, Entry, absSeen,
         absOutcome
    <2> QED BY <2>2 DEF Flight!Next
  <1>5. CASE ~PushChunk(d) /\ ~DropGuard(d)
    <2>1. UNCHANGED <<downloads, accumulated>>
      BY <1>5 DEF UpstreamStep, TaskStep, Panic, BodyCollected, HeadersArrive,
         BodyEnds, DownloadFails, TimesOut, BroadcastChunk, CachePut,
         BroadcastComplete, ReportError, BroadcastError, DropSender
    <2> QED BY <1>1, <1>2, <2>1 DEF Flight!flightVars, absSeen, absOutcome
  <1> QED BY <1>3, <1>4, <1>5

\* The code's locks, channels and cursors keep the promise of SingleFlight:
\* one fetch per key, each client a growing prefix of it, a clean end only on
\* all of it.
THEOREM Refinement == Spec => ImplementsSingleFlight
  <1>1. Init => Flight!Init
    BY InitRefines
  <1>2. ASSUME InductiveInvariant, InductiveInvariant', [Next]_vars
        PROVE  [Flight!Next]_(Flight!flightVars)
    <2>1. ASSUME NEW r \in Requests, HandlerStep(r) \/ PollStep(r) \/ Disconnect(r)
          PROVE  Flight!Next \/ UNCHANGED Flight!flightVars
      BY <1>2, <2>1, HandlerRefines, PollRefines, DisconnectRefines
    <2>2. ASSUME NEW d \in Requests, UpstreamStep(d) \/ TaskStep(d) \/ Panic(d)
          PROVE  Flight!Next \/ UNCHANGED Flight!flightVars
      BY <1>2, <2>2, TaskRefines
    <2>3. ASSUME \/ \E k \in Keys : CacheForgets(k)
                 \/ Terminating
                 \/ UNCHANGED vars
          PROVE  UNCHANGED Flight!flightVars
      <3>1. UNCHANGED <<downloads, accumulated, source, got, request>>
        BY <2>3 DEF CacheForgets, Terminating, vars, taskVars, requestVars
      <3> QED BY <3>1 DEF Flight!flightVars, Outcome
    <2> QED BY <1>2, <2>1, <2>2, <2>3 DEF Next
  <1> QED BY <1>1, <1>2, Invariance, PTL DEF Spec, ImplementsSingleFlight, Flight!Spec

=============================================================================
