-------------------------- MODULE InflightInvariant --------------------------
(***************************************************************************)
(* The inductive invariant of InflightDownloads.  The safety properties    *)
(* are not inductive by themselves: that a client gets no chunk twice, say,*)
(* depends on where its receiver stands in the channel, which depends on   *)
(* what had been pushed and sent when it joined, which depends on whose    *)
(* entry the map held then.  Each part below is one link of that chain.    *)
(***************************************************************************)
EXTENDS InflightDownloads

\* The task has run its last statement before its guard is dropped.
Over(d) == task[d] \in {"ended", "closing", "done"}

\* The upstream body has been read to its end.
Whole(d) == fetched[d] = length[d]

\* The map names the running downloads, each under its own key.
MapInv ==
    /\ MapTracksTasks
    /\ \A k \in Keys : downloads[k] # None => KeyOf[downloads[k]] = k

\* What a task has read it has pushed and, unless it is inside add_chunk,
\* broadcast.  The terminal message is the last thing it broadcasts.
CountInv ==
    \A d \in Requests :
        /\ accumulated[d] = fetched[d]
        /\ fetched[d] = sent[d] + (IF task[d] = "adding" THEN 1 ELSE 0)
        /\ last[d] # "none" => Over(d)

\* A download whose result is Ok has read the whole body; only such a download
\* is cached or announced complete.
ResultInv ==
    /\ \A d \in Requests :
          task[d] \in {"caching", "succeeded"} \/ last[d] = "Complete" => Whole(d)
    /\ \A k \in Keys :
          cached[k] # None =>
              /\ KeyOf[cached[k]] = k
              /\ task[cached[k]] = "succeeded" \/ Over(cached[k])
              /\ Whole(cached[k])

\* A request that has not reached the map holds nothing and runs no task; one
\* that waits, streams or has streamed is attached to a download that started.
AttachInv ==
    \A r \in Requests :
        /\ request[r] \in {"lookup", "missed"} =>
              /\ task[r] = "idle"
              /\ got[r] = <<>> /\ initial[r] = 0 /\ next[r] = 0
        /\ request[r] \in {"lookup", "missed", "hit"} => source[r] = None
        /\ request[r] \in {"waiting", "streaming", "ended", "broken"} =>
              source[r] # None
        /\ source[r] # None => task[source[r]] # "idle"

\* Where the receiver of an attached request stands.  Either it subscribed
\* before the terminal message, and the message it wants next is the chunk
\* after those copied at the join and those already delivered; or it subscribed
\* after it, the copied chunks are all there are, and no message follows.
InStream(r) ==
    /\ initial[r] <= sent[source[r]]
    /\ Len(got[r]) <= sent[source[r]]
    /\ next[r] = IF Len(got[r]) < initial[r] THEN initial[r] ELSE Len(got[r])

PastTheEnd(r) ==
    /\ last[source[r]] # "none"
    /\ initial[r] = sent[source[r]]
    /\ next[r] = sent[source[r]] + 1
    /\ Len(got[r]) <= initial[r]

CursorInv ==
    \A r \in Requests : source[r] # None => InStream(r) \/ PastTheEnd(r)

\* A stream that ended without an error holds everything, and its download can
\* add nothing more.
EndedInv ==
    \A r \in Requests :
        request[r] = "ended" =>
            /\ Over(source[r])
            /\ Len(got[r]) = fetched[source[r]]
            /\ \/ Whole(source[r])
               \/ Late(r)
               \/ last[source[r]] = "none" /\ task[source[r]] = "done"

\* An error is published only for a download that failed.
MetaInv ==
    \A d \in Requests :
        meta[d] = "err" => (task[d] = "reported" \/ Over(d)) /\ last[d] # "Complete"

\* The client that started a download is there when the headers arrive, and it
\* is refused only when the download has failed.
InitiatorInv ==
    \A r \in Requests : source[r] = r =>
        /\ /\ request[r] = "waiting"
           /\ \/ task[r] \in {"body", "adding", "caching", "succeeded"}
              \/ last[r] = "Complete"
           => meta[r] = "ok"
        /\ request[r] = "refused" =>
              (task[r] = "reported" \/ Over(r)) /\ last[r] # "Complete"

\* Every reachable state satisfies all of them, and each step of the handler,
\* of a body or of a download task preserves them together.
InductiveInvariant ==
    /\ TypeOK
    /\ MapInv
    /\ CountInv
    /\ ResultInv
    /\ AttachInv
    /\ CursorInv
    /\ NoGapNoDuplicate
    /\ EndedInv
    /\ MetaInv
    /\ InitiatorInv

=============================================================================
