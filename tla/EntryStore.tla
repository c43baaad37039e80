------------------------------- MODULE EntryStore -------------------------------
(***************************************************************************)
(* What the disk tier promises its callers, without files, names or an     *)
(* index: a map from keys to entries, bounded by a number of bytes.        *)
(*                                                                         *)
(*   - a put leaves its entry under its key, a remove leaves nothing there;*)
(*   - an entry goes only when its key is put or removed, or when a put    *)
(*     needs its room and no other entry is older (put before it; among    *)
(*     the entries found when the process was started the clock decides,   *)
(*     which may have stood still or gone back);                           *)
(*   - a get that found an entry at rest returns that entry, all of it,    *)
(*     whatever becomes of the key in the meantime;                        *)
(*   - stopping the process loses no entry and brings none back.           *)
(*                                                                         *)
(* A call that fails or is cut short harms its key: nobody says what the   *)
(* key holds until the next put ends, and while a key is harmed the store  *)
(* promises neither its bound nor the order in which it evicts.            *)
(*                                                                         *)
(* DiskCache implements this specification.                                *)
(***************************************************************************)
EXTENDS Integers, Sequences, SequencesExt, FiniteSetsExt

CONSTANTS Keys, Readers, Sizes, Times, MetaSize, MaxSize, None

VARIABLES
    puts,      \* the entries put so far: their keys, body sizes and times
    held,      \* key -> the entry it holds, by its position in puts, or None
    call,      \* the put or remove that runs, or None
    promised,  \* get -> the entry it will return, or None
    returned,  \* get -> what it has returned, or None
    harmed,    \* the keys a failed call has left
    earlier    \* the puts of earlier runs of the process

storeVars == <<puts, held, call, promised, returned, harmed,
               earlier>>

Init ==
    /\ puts     = <<>>
    /\ held     = [k \in Keys |-> None]
    /\ call     = None
    /\ promised = [r \in Readers |-> None]
    /\ returned = [r \in Readers |-> None]
    /\ harmed   = {}
    /\ earlier  = 0

EntrySize(e) == MetaSize + puts[e].size

\* The bytes of all entries held.
Used ==
    SumFunction([k \in Keys |-> IF held[k] = None THEN 0 ELSE EntrySize(held[k])])

Running(op) == call # None /\ call.op = op

PutBegins(k, n, t) ==
    /\ call = None
    /\ MetaSize + n <= MaxSize
    /\ puts' = Append(puts, [key |-> k, size |-> n, time |-> t])
    /\ call' = [op |-> "put", key |-> k]
    /\ UNCHANGED <<held, promised, returned, harmed, earlier>>

\* The entry d goes before e.
Precedes(d, e) ==
    d <= e \/ (d <= earlier /\ e <= earlier /\ puts[d].time <= puts[e].time)

\* There is no room for the new entry beside the others, and the oldest goes.
Evicts(k) ==
    /\ Running("put") /\ held[k] # None
    /\ harmed = {} =>
          /\ Used + EntrySize(Len(puts)) > MaxSize
          /\ \A h \in Keys : held[h] # None => Precedes(held[k], held[h])
    /\ held' = [held EXCEPT ![k] = None]
    /\ UNCHANGED <<puts, call, promised, returned, harmed, earlier>>

\* The old entry of a key that is put or removed goes.
Withdraws ==
    /\ call # None
    /\ held' = [held EXCEPT ![call.key] = None]
    /\ UNCHANGED <<puts, call, promised, returned, harmed, earlier>>

Stores ==
    /\ Running("put") /\ held[call.key] = None
    /\ held' = [held EXCEPT ![call.key] = Len(puts)]
    /\ harmed = {} => Used' <= MaxSize
    /\ UNCHANGED <<puts, call, promised, returned, harmed, earlier>>

PutEnds ==
    /\ Running("put")
    /\ call.key \notin harmed => held[call.key] = Len(puts)
    /\ call' = None
    /\ UNCHANGED <<puts, held, promised, returned, harmed, earlier>>

RemoveBegins(k) ==
    /\ call = None
    /\ call' = [op |-> "remove", key |-> k]
    /\ UNCHANGED <<puts, held, promised, returned, harmed, earlier>>

RemoveEnds ==
    /\ Running("remove") /\ held[call.key] = None
    /\ call' = None
    /\ UNCHANGED <<puts, held, promised, returned, harmed, earlier>>

CallFails ==
    /\ call # None
    /\ harmed' = harmed \cup {call.key}
    /\ call' = None
    /\ UNCHANGED <<puts, held, promised, returned, earlier>>

\* What a failed call has left to be done is done.
HarmedLoses(k) ==
    /\ k \in harmed
    /\ held' = [held EXCEPT ![k] = None]
    /\ UNCHANGED <<puts, call, promised, returned, harmed, earlier>>

Promises(r, k) ==
    /\ promised[r] = None /\ held[k] # None
    /\ promised' = [promised EXCEPT ![r] = held[k]]
    /\ UNCHANGED <<puts, held, call, returned, harmed, earlier>>

\* The metadata, the body and all of the body are those of one entry.
Returns(r) ==
    /\ promised[r] # None /\ returned[r] = None
    /\ returned' = [returned EXCEPT ![r] =
                       [meta |-> promised[r], data |-> promised[r],
                        len |-> puts[promised[r]].size]]
    /\ UNCHANGED <<puts, held, call, promised, harmed, earlier>>

Done(r) ==
    /\ returned[r] # None
    /\ promised' = [promised EXCEPT ![r] = None]
    /\ returned' = [returned EXCEPT ![r] = None]
    /\ UNCHANGED <<puts, held, call, harmed, earlier>>

\* The process is stopped and started again: entries stay, gets and calls are
\* lost, and a call that was cut short may have harmed a key that has no entry.
Restarts ==
    /\ call' = None
    /\ promised' = [r \in Readers |-> None]
    /\ returned' = [r \in Readers |-> None]
    /\ \A k \in harmed' : k \in Keys /\ held[k] = None
    /\ call = None => harmed' \subseteq harmed
    /\ earlier' = Len(puts)
    /\ UNCHANGED <<puts, held>>

Next ==
    \/ \E k \in Keys, n \in Sizes, t \in Times : PutBegins(k, n, t)
    \/ \E k \in Keys : Evicts(k) \/ RemoveBegins(k) \/ HarmedLoses(k)
    \/ Withdraws \/ Stores \/ PutEnds \/ RemoveEnds \/ CallFails
    \/ \E r \in Readers : Returns(r) \/ Done(r) \/ \E k \in Keys : Promises(r, k)
    \/ Restarts

Spec == Init /\ [][Next]_storeVars

=============================================================================
