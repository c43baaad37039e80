------------------------------- MODULE FreshCache -------------------------------
(***************************************************************************)
(* What Squiddish's two-tier cache promises its clients: every answer is   *)
(* an entry that was stored under the key, as it was stored, at a moment   *)
(* when it was still alive; and an entry that is gone does not come back.  *)
(* It promises nothing about what it keeps: any entry may be lost at any   *)
(* moment, and an older entry may be answered after a younger one.         *)
(***************************************************************************)
EXTENDS Integers

CONSTANTS Gets, Keys, None

VARIABLES
    stored,  \* key -> entries that can still be answered
    answer,  \* get -> the entry it has settled on, or None
    now      \* the clock, in half seconds

vars == <<stored, answer, now>>

\* An entry lives for its TTL and for less than a second more.
Alive(e) == e.stamp <= now /\ now < e.stamp + 2 * (e.ttl + 1)

Loses == \A k \in Keys : stored'[k] \subseteq stored[k]

Init ==
    /\ stored = [k \in Keys |-> {}]
    /\ answer = [g \in Gets |-> None]
    /\ now = 0

\* A download has ended: its entry is stamped with the time and stored.
Store(k) ==
    \E e \in stored'[k] :
        /\ e.stamp = now
        /\ stored' = [stored EXCEPT ![k] = @ \cup {e}]
        /\ UNCHANGED <<answer, now>>

Answer(g, k) ==
    \E e \in stored[k] :
        /\ Alive(e)
        /\ answer' = [answer EXCEPT ![g] = e]
        /\ UNCHANGED <<stored, now>>

Done(g) ==
    /\ answer' = [answer EXCEPT ![g] = None]
    /\ Loses /\ UNCHANGED now

Forget == Loses /\ UNCHANGED <<answer, now>>

\* The process is stopped and started again.
Restart ==
    /\ answer' = [g \in Gets |-> None]
    /\ Loses /\ UNCHANGED now

\* The clock is the system's: it may be set back.
ClockMoves == now' \in Nat /\ UNCHANGED <<stored, answer>>

Next ==
    \/ \E k \in Keys : Store(k)
    \/ \E g \in Gets, k \in Keys : Answer(g, k)
    \/ \E g \in Gets : Done(g)
    \/ Forget \/ Restart \/ ClockMoves

Spec == Init /\ [][Next]_vars

=============================================================================
