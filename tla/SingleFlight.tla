---------------------------- MODULE SingleFlight ----------------------------
(***************************************************************************)
(* What request coalescing promises its clients, without locks, channels,  *)
(* tasks or positions in a ring buffer:                                    *)
(*                                                                         *)
(*   - a key has at most one upstream fetch in flight, and only a fetch in *)
(*     flight publishes chunks;                                            *)
(*   - a request reads the fetch it started or the one in flight for its   *)
(*     key, and sees a prefix of what that fetch published, growing by one *)
(*     chunk at a time;                                                    *)
(*   - a request finishes cleanly only when it has seen everything its     *)
(*     fetch published, and nothing is published after that.               *)
(*                                                                         *)
(* InflightDownloads implements this specification.                        *)
(***************************************************************************)
EXTENDS Naturals

CONSTANTS Requests, Keys, KeyOf, None

VARIABLES
    flight,     \* key -> the fetch in flight, named by its first request
    published,  \* chunks of each fetch made available
    reads,      \* the fetch a request reads, or None
    seen,       \* chunks of it the client has
    outcome     \* "pending", "finished" or "aborted"

flightVars == <<flight, published, reads, seen, outcome>>

Init ==
    /\ flight    = [k \in Keys |-> None]
    /\ published = [d \in Requests |-> 0]
    /\ reads     = [r \in Requests |-> None]
    /\ seen      = [r \in Requests |-> 0]
    /\ outcome   = [r \in Requests |-> "pending"]

Unattached(r) == outcome[r] = "pending" /\ reads[r] = None

\* The first request for a key that has no fetch in flight starts one.
Launch(r) ==
    /\ Unattached(r)
    /\ flight[KeyOf[r]] = None
    /\ flight' = [flight EXCEPT ![KeyOf[r]] = r]
    /\ reads'  = [reads  EXCEPT ![r] = r]
    /\ UNCHANGED <<published, seen, outcome>>

\* A request for a key that has one shares it.
Attach(r) ==
    /\ Unattached(r)
    /\ flight[KeyOf[r]] # None
    /\ reads' = [reads EXCEPT ![r] = flight[KeyOf[r]]]
    /\ UNCHANGED <<flight, published, seen, outcome>>

\* The fetch makes its next chunk available.
Publish(d) ==
    /\ flight[KeyOf[d]] = d
    /\ \A r \in Requests : reads[r] = d => outcome[r] # "finished"
    /\ published' = [published EXCEPT ![d] = @ + 1]
    /\ UNCHANGED <<flight, reads, seen, outcome>>

\* The fetch is over; the next request for the key starts another.
Land(d) ==
    /\ flight[KeyOf[d]] = d
    /\ flight' = [flight EXCEPT ![KeyOf[d]] = None]
    /\ UNCHANGED <<published, reads, seen, outcome>>

\* The client is handed the next chunk.
Deliver(r) ==
    /\ outcome[r] = "pending"
    /\ reads[r] # None
    /\ seen[r] < published[reads[r]]
    /\ seen' = [seen EXCEPT ![r] = @ + 1]
    /\ UNCHANGED <<flight, published, reads, outcome>>

\* The response ends cleanly: a cache hit, or the whole of what was published.
Finish(r) ==
    /\ outcome[r] = "pending"
    /\ reads[r] # None => seen[r] = published[reads[r]]
    /\ outcome' = [outcome EXCEPT ![r] = "finished"]
    /\ UNCHANGED <<flight, published, reads, seen>>

\* The response is an error, or breaks off.
Abort(r) ==
    /\ outcome[r] = "pending"
    /\ outcome' = [outcome EXCEPT ![r] = "aborted"]
    /\ UNCHANGED <<flight, published, reads, seen>>

\* The client goes away and forgets what it read.
Leave(r) ==
    /\ outcome[r] = "pending"
    /\ outcome' = [outcome EXCEPT ![r] = "aborted"]
    /\ reads'   = [reads   EXCEPT ![r] = None]
    /\ seen'    = [seen    EXCEPT ![r] = 0]
    /\ UNCHANGED <<flight, published>>

Next ==
    \/ \E r \in Requests :
          Launch(r) \/ Attach(r) \/ Deliver(r) \/ Finish(r) \/ Abort(r) \/ Leave(r)
    \/ \E d \in Requests : Publish(d) \/ Land(d)

Spec == Init /\ [][Next]_flightVars

=============================================================================
