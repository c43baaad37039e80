------------------------------ MODULE MCDiskCache ------------------------------
(* TLC instances of DiskCache.                                             *)
EXTENDS DiskCache, TLC

CONSTANTS k1, k2, r1

\* The keys are interchangeable.
KeySymmetry == Permutations({k1, k2})

\* The entry sizes: two small entries fit together, a small and a large one
\* do not, and the largest is too large for the cache.
MCSizes == {1, 2, 4}

\* Bound: one put at most reads the later time: before the others (the clock
\* goes back), after them (it goes on) or between them.
OneLaterTime == Cardinality({i \in DOMAIN log : log[i].time = 1}) <= 1

\* Bound: gets look neither at a time nor at the index, so that states with a
\* get under way are explored further only while the clock has stood still, and
\* after a restart only if that has found damage.
GetsBesideDamage ==
    \/ \A r \in Readers : reader[r] = "idle"
    \/ /\ \A i \in DOMAIN log : log[i].time = 0
       /\ earlier = 0 \/ damaged # {}

=============================================================================
