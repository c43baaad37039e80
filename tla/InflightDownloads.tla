------------------------- MODULE InflightDownloads -------------------------
(***************************************************************************)
(* Request coalescing in Squiddish: how concurrent GET/HEAD requests for   *)
(* the same cache key share one upstream download.                         *)
(*                                                                         *)
(* Modelled code: cache/inflight.rs (the in-flight map), proxy/streaming.rs *)
(* (the body every client polls), and of proxy/handler.rs the cacheable    *)
(* path: handle_cacheable_request, handle_streaming_download (with the     *)
(* background task it spawns and that task's InflightGuard) and            *)
(* fetch_and_stream.                                                       *)
(*                                                                         *)
(* Two kinds of process interleave: requests (the hyper service future of  *)
(* one client request, polled on one worker thread and dropped when the    *)
(* client disconnects) and download tasks (spawned, never cancelled).  A   *)
(* download is named by the request that started it, so every per-download *)
(* variable is indexed by Requests.                                        *)
(*                                                                         *)
(* Data: the i-th data frame of an upstream body is the number i, and the  *)
(* vectors of chunks the code keeps are represented by their lengths.  The *)
(* chunks a client has been handed are kept as a sequence, got.            *)
(***************************************************************************)
EXTENDS Naturals, Sequences

CONSTANTS
    Requests,   \* client requests; each runs the handler once
    Keys,       \* cache keys
    KeyOf,      \* the cache key of a request (create_cache_key)
    MaxChunks,  \* max_body_size, in chunks
    Capacity,   \* slots of the broadcast channel's ring buffer
    None        \* absence of a value

ASSUME KeysAssumption     == KeyOf \in [Requests -> Keys]
ASSUME BoundsAssumption   == MaxChunks \in Nat /\ Capacity \in Nat \ {0}
ASSUME NoneAssumption     == None \notin Requests

VARIABLES
    downloads,   \* InflightDownloads.downloads: key -> download, or None
    accumulated, \* DownloadState.accumulated: how many chunks were pushed
    sent,        \* data messages broadcast so far
    last,        \* the terminal broadcast message: "none", "Complete", "Error"
    meta,        \* value of the watch channel: "none", "ok", "err"
    length,      \* chunks the upstream body has (environment; 0 until known)
    fetched,     \* chunks read from upstream by the task (cache_buf)
    task,        \* control state of each download task
    cached,      \* which download's body the cache holds for a key, or None
    request,     \* control state of each request
    source,      \* the download a request is attached to, or None
    initial,     \* StreamingBody.initial_chunks: how many
    next,        \* position of the request's broadcast receiver
    got          \* chunks handed to the client, in order

taskVars    == <<downloads, accumulated, sent, last, meta, length, fetched,
                 task>>
requestVars == <<request, source, initial, next, got>>
vars        == <<taskVars, cached, requestVars>>

TaskState ==
    {"idle", "collect", "fetch", "body", "adding", "caching", "succeeded",
     "failed", "reported", "ended", "closing", "done"}

Settled == {"hit", "ended", "broken", "refused", "gone"}
RequestState == {"lookup", "missed", "waiting", "streaming"} \cup Settled

TypeOK ==
    /\ downloads   \in [Keys -> Requests \cup {None}]
    /\ accumulated \in [Requests -> Nat]
    /\ sent        \in [Requests -> Nat]
    /\ last        \in [Requests -> {"none", "Complete", "Error"}]
    /\ meta        \in [Requests -> {"none", "ok", "err"}]
    /\ length      \in [Requests -> 0..(MaxChunks + 1)]
    /\ fetched     \in [Requests -> 0..MaxChunks]
    /\ task        \in [Requests -> TaskState]
    /\ cached      \in [Keys -> Requests \cup {None}]
    /\ request     \in [Requests -> RequestState]
    /\ source      \in [Requests -> Requests \cup {None}]
    /\ initial     \in [Requests -> Nat]
    /\ next        \in [Requests -> Nat]
    /\ got         \in [Requests -> Seq(Nat)]

Init ==
    /\ downloads   = [k \in Keys |-> None]
    /\ accumulated = [d \in Requests |-> 0]
    /\ sent        = [d \in Requests |-> 0]
    /\ last        = [d \in Requests |-> "none"]
    /\ meta        = [d \in Requests |-> "none"]
    /\ length      = [d \in Requests |-> 0]
    /\ fetched     = [d \in Requests |-> 0]
    /\ task        = [d \in Requests |-> "idle"]
    /\ cached      = [k \in Keys |-> None]
    /\ request     = [r \in Requests |-> "lookup"]
    /\ source      = [r \in Requests |-> None]
    /\ initial     = [r \in Requests |-> 0]
    /\ next        = [r \in Requests |-> 0]
    /\ got         = [r \in Requests |-> <<>>]

-----------------------------------------------------------------------------
(* The locks and the channels.                                             *)

\* add_chunk holds the read lock of `downloads` from its push to its send.
\* The write lock, which join_or_start_download and complete_download take,
\* is free when no task is between the two.
WriteLockFree == \A d \in Requests : task[d] # "adding"

\* The entry a task finds under its key each time it looks it up.
Entry(d) == downloads[KeyOf[d]]

\* Messages ever broadcast on the channel of download d: the tail position.  A
\* broadcast nobody receives is not stored, but nobody who could have read it is
\* left and later receivers start behind it, so it is counted all the same.
TailPos(d) == sent[d] + (IF last[d] = "none" THEN 0 ELSE 1)

\* The watch receivers of download d that are still alive.
MetaReceivers(d) == {r \in Requests : request[r] = "waiting" /\ source[r] = d}

\* watch::Sender::send stores the value only when some receiver is alive.
\* The sender lives in the map entry, so without an entry nothing is sent.
SendMeta(d, value) ==
    meta' = [s \in Requests |->
                IF s = Entry(d) /\ MetaReceivers(s) # {} THEN value ELSE meta[s]]

\* The watch sender of download d lives in its map entry.
MetaClosed(d) == downloads[KeyOf[d]] # d

\* Both broadcast senders are gone: the entry's and the task's own.
ChannelClosed(d) == downloads[KeyOf[d]] # d /\ task[d] = "done"

\* The ring buffer has overwritten the message the receiver wants next.
Lagging(r) == TailPos(source[r]) > next[r] + Capacity

-----------------------------------------------------------------------------
(* Requests: handle_cacheable_request up to the response.                  *)

\* cache.get answers from the cache: the stored entry is the response.
LookupHit(r) ==
    /\ request[r] = "lookup"
    /\ cached[KeyOf[r]] # None
    /\ request' = [request EXCEPT ![r] = "hit"]
    /\ UNCHANGED <<taskVars, cached, source, initial, next, got>>

\* cache.get finds nothing.  What it saw may be out of date by the time the
\* request reaches join_or_start_download.
LookupMiss(r) ==
    /\ request[r] = "lookup"
    /\ cached[KeyOf[r]] = None
    /\ request' = [request EXCEPT ![r] = "missed"]
    /\ UNCHANGED <<taskVars, cached, source, initial, next, got>>

\* cache.get returns an error (the disk tier failed): the error page.
LookupFails(r) ==
    /\ request[r] = "lookup"
    /\ request' = [request EXCEPT ![r] = "refused"]
    /\ UNCHANGED <<taskVars, cached, source, initial, next, got>>

\* Mutant: the check for an existing download is made without the write lock.
JoinUnlocked(r) ==
    /\ request[r] = "missed"
    /\ Entry(r) # None
    /\ request' = [request EXCEPT ![r] = "waiting"]
    /\ source'  = [source  EXCEPT ![r] = Entry(r)]
    /\ initial' = [initial EXCEPT ![r] = accumulated[Entry(r)]]
    /\ next'    = [next    EXCEPT ![r] = TailPos(Entry(r))]
    /\ UNCHANGED <<taskVars, cached, got>>

\* join_or_start_download, entry present: under the write lock, subscribe to
\* the broadcast at its tail, copy the accumulated chunks, subscribe to meta.
Join(r) ==
    /\ request[r] = "missed"
    /\ WriteLockFree
    /\ Entry(r) # None
    /\ request' = [request EXCEPT ![r] = "waiting"]
    /\ source'  = [source  EXCEPT ![r] = Entry(r)]
    /\ initial' = [initial EXCEPT ![r] = accumulated[Entry(r)]]
    /\ next'    = [next    EXCEPT ![r] = TailPos(Entry(r))]
    /\ UNCHANGED <<taskVars, cached, got>>

\* Mutant: the lookup and the insertion are two critical sections, so the
\* insertion happens whatever the map holds by then.
StartUnchecked(r) ==
    /\ request[r] = "missed"
    /\ WriteLockFree
    /\ downloads' = [downloads EXCEPT ![KeyOf[r]] = r]
    /\ task'      = [task      EXCEPT ![r] = "collect"]
    /\ request'   = [request   EXCEPT ![r] = "waiting"]
    /\ source'    = [source    EXCEPT ![r] = r]
    /\ UNCHANGED <<accumulated, sent, last, meta, length, fetched, cached,
                   initial, next, got>>

\* join_or_start_download, entry absent: insert one.  There is no await before
\* handle_streaming_download has subscribed and spawned the download task.
Start(r) ==
    /\ request[r] = "missed"
    /\ WriteLockFree
    /\ Entry(r) = None
    /\ downloads' = [downloads EXCEPT ![KeyOf[r]] = r]
    /\ task'      = [task      EXCEPT ![r] = "collect"]
    /\ request'   = [request   EXCEPT ![r] = "waiting"]
    /\ source'    = [source    EXCEPT ![r] = r]
    /\ UNCHANGED <<accumulated, sent, last, meta, length, fetched, cached,
                   initial, next, got>>

\* wait_for sees Some(Ok(meta)): the streaming response is built and the watch
\* receiver is dropped.
ReadMeta(r) ==
    /\ request[r] = "waiting"
    /\ meta[source[r]] = "ok"
    /\ request' = [request EXCEPT ![r] = "streaming"]
    /\ UNCHANGED <<taskVars, cached, source, initial, next, got>>

\* wait_for sees Some(Err(e)), or no value and the sender gone: error page.
MetaRefused(r) ==
    /\ request[r] = "waiting"
    /\ \/ meta[source[r]] = "err"
       \/ meta[source[r]] = "none" /\ MetaClosed(source[r])
    /\ request' = [request EXCEPT ![r] = "refused"]
    /\ UNCHANGED <<taskVars, cached, source, initial, next, got>>

-----------------------------------------------------------------------------
(* StreamingBody::poll_frame.                                              *)

\* The chunks copied at the join come first.
PollInitial(r) ==
    /\ request[r] = "streaming"
    /\ Len(got[r]) < initial[r]
    /\ got' = [got EXCEPT ![r] = Append(@, Len(@) + 1)]
    /\ UNCHANGED <<taskVars, cached, request, source, initial, next>>

\* The body polls its receiver, which is not behind the ring buffer.
Polls(r) ==
    /\ request[r] = "streaming"
    /\ Len(got[r]) >= initial[r]
    /\ ~Lagging(r)

\* DownloadChunk::Data.
PollData(r) ==
    /\ Polls(r)
    /\ next[r] < sent[source[r]]
    /\ got'  = [got  EXCEPT ![r] = Append(@, next[r] + 1)]
    /\ next' = [next EXCEPT ![r] = @ + 1]
    /\ UNCHANGED <<taskVars, cached, request, source, initial>>

\* DownloadChunk::Complete: the body ends.
PollComplete(r) ==
    /\ Polls(r)
    /\ next[r] = sent[source[r]] /\ last[source[r]] = "Complete"
    /\ request' = [request EXCEPT ![r] = "ended"]
    /\ UNCHANGED <<taskVars, cached, source, initial, next, got>>

\* The channel is closed and drained: the body ends, as with Complete.
PollClosed(r) ==
    /\ Polls(r)
    /\ next[r] = TailPos(source[r]) /\ ChannelClosed(source[r])
    /\ request' = [request EXCEPT ![r] = "ended"]
    /\ UNCHANGED <<taskVars, cached, source, initial, next, got>>

\* Mutant: an error message ends the body as Complete does.
ErrorEndsCleanly(r) ==
    /\ Polls(r)
    /\ next[r] = sent[source[r]] /\ last[source[r]] = "Error"
    /\ request' = [request EXCEPT ![r] = "ended"]
    /\ UNCHANGED <<taskVars, cached, source, initial, next, got>>

\* DownloadChunk::Error: the body fails.
PollError(r) ==
    /\ Polls(r)
    /\ next[r] = sent[source[r]] /\ last[source[r]] = "Error"
    /\ request' = [request EXCEPT ![r] = "broken"]
    /\ UNCHANGED <<taskVars, cached, source, initial, next, got>>

\* Mutant: a lagged receiver carries on with the oldest message still in the
\* ring buffer.
SkipLagged(r) ==
    /\ request[r] = "streaming"
    /\ Len(got[r]) >= initial[r]
    /\ Lagging(r)
    /\ next' = [next EXCEPT ![r] = TailPos(source[r]) - Capacity]
    /\ UNCHANGED <<taskVars, cached, request, source, initial, got>>

\* Mutant: lagging ends the body as a closed channel does.
LagEndsCleanly(r) ==
    /\ request[r] = "streaming"
    /\ Len(got[r]) >= initial[r]
    /\ Lagging(r)
    /\ request' = [request EXCEPT ![r] = "ended"]
    /\ UNCHANGED <<taskVars, cached, source, initial, next, got>>

\* BroadcastStreamRecvError::Lagged: messages were overwritten, the body fails.
PollLagged(r) ==
    /\ request[r] = "streaming"
    /\ Len(got[r]) >= initial[r]
    /\ Lagging(r)
    /\ request' = [request EXCEPT ![r] = "broken"]
    /\ UNCHANGED <<taskVars, cached, source, initial, next, got>>

\* The client goes away: hyper drops the service future or the response body,
\* and with it the receivers and the chunks it holds.
Disconnect(r) ==
    /\ request[r] \notin Settled
    /\ request' = [request EXCEPT ![r] = "gone"]
    /\ source'  = [source  EXCEPT ![r] = None]
    /\ initial' = [initial EXCEPT ![r] = 0]
    /\ next'    = [next    EXCEPT ![r] = 0]
    /\ got'     = [got     EXCEPT ![r] = <<>>]
    /\ UNCHANGED <<taskVars, cached>>

-----------------------------------------------------------------------------
(* Download tasks: the spawned block and fetch_and_stream.                 *)

\* A step of task d that only moves its control state.
Moves(d, from, to) ==
    /\ task[d] = from
    /\ task' = [task EXCEPT ![d] = to]

\* collect_body has read the client's request body.
BodyCollected(d) ==
    /\ Moves(d, "collect", "fetch")
    /\ UNCHANGED <<downloads, accumulated, sent, last, meta, length, fetched,
                   cached, requestVars>>

\* Mutant: the response headers are not published to the watch channel.
HeadersUnpublished(d) ==
    /\ Moves(d, "fetch", "body")
    /\ \E n \in 0..(MaxChunks + 1) : length' = [length EXCEPT ![d] = n]
    /\ UNCHANGED <<downloads, accumulated, sent, last, meta, fetched, cached,
                   requestVars>>

\* fetch_with_timeout returned a response: its headers are published.
HeadersArrive(d) ==
    /\ Moves(d, "fetch", "body")
    /\ SendMeta(d, "ok")
    /\ \E n \in 0..(MaxChunks + 1) : length' = [length EXCEPT ![d] = n]
    /\ UNCHANGED <<downloads, accumulated, sent, last, fetched, cached,
                   requestVars>>

\* Mutant: the size limit is compared before the chunk is counted.
PushOversize(d) ==
    /\ fetched[d] < length[d] /\ fetched[d] <= MaxChunks
    /\ Moves(d, "body", "adding")
    /\ fetched' = [fetched EXCEPT ![d] = @ + 1]
    /\ accumulated' = [s \in Requests |->
                          accumulated[s] + (IF s = Entry(d) THEN 1 ELSE 0)]
    /\ UNCHANGED <<downloads, sent, last, meta, length, cached, requestVars>>

\* add_chunk, first half: push under the read lock.
PushChunk(d) ==
    /\ fetched[d] < length[d] /\ fetched[d] < MaxChunks
    /\ Moves(d, "body", "adding")
    /\ fetched' = [fetched EXCEPT ![d] = @ + 1]
    /\ accumulated' = [s \in Requests |->
                          accumulated[s] + (IF s = Entry(d) THEN 1 ELSE 0)]
    /\ UNCHANGED <<downloads, sent, last, meta, length, cached, requestVars>>

\* add_chunk, second half: broadcast, then release the read lock.
BroadcastChunk(d) ==
    /\ Moves(d, "adding", "body")
    /\ sent' = [s \in Requests |-> sent[s] + (IF s = Entry(d) THEN 1 ELSE 0)]
    /\ UNCHANGED <<downloads, accumulated, last, meta, length, fetched, cached,
                   requestVars>>

\* body.frame() returned None.  A cacheable response goes to the cache; one
\* that is not, or whose TTL is zero, does not.
BodyEnds(d) ==
    /\ fetched[d] = length[d]
    /\ \/ Moves(d, "body", "caching")
       \/ Moves(d, "body", "succeeded")
    /\ UNCHANGED <<downloads, accumulated, sent, last, meta, length, fetched,
                   cached, requestVars>>

\* TieredCache::put.  Its error is only logged, so the entry may not be there.
CachePut(d) ==
    /\ Moves(d, "caching", "succeeded")
    /\ cached' \in {cached, [cached EXCEPT ![KeyOf[d]] = d]}
    /\ UNCHANGED <<downloads, accumulated, sent, last, meta, length, fetched,
                   requestVars>>

\* Mutant: a read that times out ends the body instead of failing it.
TimeoutEndsBody(d) ==
    /\ \/ Moves(d, "fetch", "failed")
       \/ Moves(d, "body", "caching")
    /\ UNCHANGED <<downloads, accumulated, sent, last, meta, length, fetched,
                   cached, requestVars>>

\* Mutant: only the fetch has a timeout, not the reads of the body.
FetchTimesOut(d) ==
    /\ Moves(d, "fetch", "failed")
    /\ UNCHANGED <<downloads, accumulated, sent, last, meta, length, fetched,
                   cached, requestVars>>

\* fetch_with_timeout, or the timeout around each read of the body, fires.
TimesOut(d) ==
    /\ \/ Moves(d, "fetch", "failed")
       \/ Moves(d, "body", "failed")
    /\ UNCHANGED <<downloads, accumulated, sent, last, meta, length, fetched,
                   cached, requestVars>>

\* Any other error return of fetch_and_stream: the request body cannot be
\* read, the fetch fails, a frame of the response is an error, or the next
\* chunk would exceed max_body_size.
DownloadFails(d) ==
    /\ \/ Moves(d, "collect", "failed")
       \/ Moves(d, "fetch", "failed")
       \/ Moves(d, "body", "failed")
    /\ UNCHANGED <<downloads, accumulated, sent, last, meta, length, fetched,
                   cached, requestVars>>

\* The task unwinds, or the runtime drops it at an await: the guard still runs,
\* nothing is broadcast.
Panic(d) ==
    /\ \/ Moves(d, "collect", "ended")
       \/ Moves(d, "fetch", "ended")
       \/ Moves(d, "body", "ended")
       \/ Moves(d, "caching", "ended")
    /\ UNCHANGED <<downloads, accumulated, sent, last, meta, length, fetched,
                   cached, requestVars>>

\* Ok(_) => sender.send(Complete).
BroadcastComplete(d) ==
    /\ Moves(d, "succeeded", "ended")
    /\ last' = [last EXCEPT ![d] = "Complete"]
    /\ UNCHANGED <<downloads, accumulated, sent, meta, length, fetched, cached,
                   requestVars>>

\* Err(e) => set_response_error ...
ReportError(d) ==
    /\ Moves(d, "failed", "reported")
    /\ SendMeta(d, "err")
    /\ UNCHANGED <<downloads, accumulated, sent, last, length, fetched, cached,
                   requestVars>>

\* ... and then sender.send(Error).
BroadcastError(d) ==
    /\ Moves(d, "reported", "ended")
    /\ last' = [last EXCEPT ![d] = "Error"]
    /\ UNCHANGED <<downloads, accumulated, sent, meta, length, fetched, cached,
                   requestVars>>

\* Mutant: the guard is gone, so the entry stays in the map.
EntryStays(d) ==
    /\ WriteLockFree
    /\ Moves(d, "ended", "closing")
    /\ UNCHANGED <<downloads, accumulated, sent, last, meta, length, fetched,
                   cached, requestVars>>

\* InflightGuard::drop: complete_download removes the entry of the key under
\* the write lock; the entry's broadcast and watch senders are dropped.
DropGuard(d) ==
    /\ WriteLockFree
    /\ Moves(d, "ended", "closing")
    /\ downloads' = [downloads EXCEPT ![KeyOf[d]] = None]
    /\ UNCHANGED <<accumulated, sent, last, meta, length, fetched, cached,
                   requestVars>>

\* The task's own broadcast sender is dropped after its locals.
DropSender(d) ==
    /\ Moves(d, "closing", "done")
    /\ UNCHANGED <<downloads, accumulated, sent, last, meta, length, fetched,
                   cached, requestVars>>

-----------------------------------------------------------------------------
(* The cache forgets an entry: it expires, or a tier evicts it.            *)
CacheForgets(k) ==
    /\ cached[k] # None
    /\ cached' = [cached EXCEPT ![k] = None]
    /\ UNCHANGED <<taskVars, requestVars>>

\* Every request has been answered and every download is over.
Terminating ==
    /\ \A r \in Requests : request[r] \in Settled
    /\ \A d \in Requests : task[d] \in {"idle", "done"}
    /\ UNCHANGED vars

\* What the handler of r does by itself once the request has been read.
HandlerStep(r) ==
    \/ LookupHit(r) \/ LookupMiss(r) \/ LookupFails(r)
    \/ Join(r) \/ Start(r)
    \/ ReadMeta(r) \/ MetaRefused(r)

\* What a client that keeps reading makes the body of r do.
PollStep(r) ==
    \/ PollInitial(r) \/ PollData(r)
    \/ PollComplete(r) \/ PollClosed(r) \/ PollError(r) \/ PollLagged(r)

\* What the upstream server, or the client's request body, makes task d do.
UpstreamStep(d) ==
    \/ BodyCollected(d) \/ HeadersArrive(d)
    \/ PushChunk(d) \/ BodyEnds(d) \/ DownloadFails(d)

\* What the download task d does by itself.
TaskStep(d) ==
    \/ TimesOut(d) \/ BroadcastChunk(d)
    \/ CachePut(d) \/ BroadcastComplete(d)
    \/ ReportError(d) \/ BroadcastError(d)
    \/ DropGuard(d) \/ DropSender(d)

Next ==
    \/ \E r \in Requests :
          \/ HandlerStep(r) \/ PollStep(r) \/ Disconnect(r)
    \/ \E d \in Requests : UpstreamStep(d) \/ TaskStep(d) \/ Panic(d)
    \/ \E k \in Keys : CacheForgets(k)
    \/ Terminating

Spec == Init /\ [][Next]_vars

\* Tokio polls a spawned task that is ready, and its timers fire.  Nothing is
\* assumed of the upstream server.
TaskFairness == \A d \in Requests : WF_vars(TaskStep(d))

\* Tokio polls a service future that is ready, and the client keeps reading.
ClientFairness ==
    \A r \in Requests : WF_vars(HandlerStep(r)) /\ WF_vars(PollStep(r))

\* A client sends the request body it announced (GET and HEAD have none).  The
\* code has no timeout for it.
RequestBodyFairness == \A d \in Requests : WF_vars(BodyCollected(d))

TaskSpec  == Spec /\ TaskFairness /\ RequestBodyFairness
StallSpec == Spec /\ TaskFairness /\ ClientFairness

-----------------------------------------------------------------------------
(* Properties.                                                             *)

\* A spawned task whose guard has not run yet.
Active(d) == task[d] \notin {"idle", "closing", "done"}

\* The receiver of r subscribed after the terminal message was broadcast.
Late(r) == next[r] > sent[source[r]]

\* The in-flight map names exactly the downloads whose task is running, each
\* under its own key: at most one upstream fetch per key at any time, no guard
\* removes another download's entry, and no entry outlives its task.
MapTracksTasks == \A d \in Requests : Active(d) <=> Entry(d) = d

\* A client is handed the chunks of the upstream body in order, none twice and
\* none skipped, whether it joined late, lagged, or was there from the start
\* (add_chunk and join_or_start_download exclude each other).
NoGapNoDuplicate ==
    \A r \in Requests : \A i \in 1..Len(got[r]) : got[r][i] = i

\* A client whose stream ended without an error holds every chunk the download
\* read from upstream, however the end was signalled (Complete or closure).
CleanEndHasEverything ==
    \A r \in Requests :
        request[r] = "ended" => Len(got[r]) = fetched[source[r]]

\* The one way a stream ends without an error before the whole upstream body:
\* its receiver subscribed after the failure was broadcast, or the task was
\* dropped without broadcasting anything.  An attached client sees a failure.
TruncatedOnlyIfLateOrPanic ==
    \A r \in Requests :
        /\ request[r] = "ended"
        /\ Len(got[r]) < length[source[r]]
        => Late(r) \/ last[source[r]] = "none"

\* Only whole upstream bodies are cached: never one cut by an error, a timeout
\* or the size limit.
CachedIsWhole ==
    \A k \in Keys :
        cached[k] # None =>
            /\ KeyOf[cached[k]] = k
            /\ fetched[cached[k]] = length[cached[k]]

\* The client that started a download which succeeds is never refused: it holds
\* a watch receiver when the headers are published.
InitiatorServedOnSuccess ==
    \A r \in Requests :
        request[r] = "refused" /\ source[r] = r => last[r] # "Complete"

\* Every download finishes and leaves the map even if no client reads and the
\* upstream server stalls.
DownloadsFinish == \A d \in Requests : task[d] # "idle" ~> task[d] = "done"

\* A request that joined a download another request started is answered.
JoinersSettle ==
    \A r \in Requests :
        request[r] = "waiting" /\ source[r] # r ~> request[r] \in Settled

\* Every request is answered, and its body ends: no client that keeps reading
\* waits forever, whatever happens to the download it shares.
RequestsSettle ==
    ClientFairness =>
        \A r \in Requests : request[r] = "lookup" ~> request[r] \in Settled

-----------------------------------------------------------------------------
(* Refinement of the abstract specification.                               *)

Outcome(r) ==
    CASE request[r] \in {"hit", "ended"}               -> "finished"
      [] request[r] \in {"broken", "refused", "gone"}  -> "aborted"
      [] OTHER                                         -> "pending"

Flight == INSTANCE SingleFlight WITH
    flight    <- downloads,
    published <- accumulated,
    reads     <- source,
    seen      <- [r \in Requests |-> Len(got[r])],
    outcome   <- [r \in Requests |-> Outcome(r)]

\* One fetch per key, each client sees a growing prefix of it, and a clean end
\* means all of it: request coalescing implements SingleFlight.
ImplementsSingleFlight == Flight!Spec

-----------------------------------------------------------------------------
(* What the documentation says and the code does not keep.                 *)

\* README.md, Streaming & Deduplication: joiners share the download.  A request
\* that joined a download is refused only if that download did not succeed.
RefusedOnlyIfFailed ==
    \A r \in Requests :
        request[r] = "refused" /\ source[r] # None
            => last[source[r]] # "Complete"

\* inflight.rs, set_response_error: a failure reaches the clients.  A stream of
\* a download that broadcast an error never ends as if it were complete.
FailureNeverEndsCleanly ==
    \A r \in Requests :
        request[r] = "ended" /\ last[source[r]] = "Error"
            => Len(got[r]) = length[source[r]]

=============================================================================
