------------------------ MODULE MCInflightDownloads ------------------------
(* Instances of InflightDownloads for TLC.                                 *)
EXTENDS InflightInvariant, FiniteSets, TLC

CONSTANTS r1, r2, r3, k1

\* All requests want the same resource: every pair of them can coalesce.
KeyOfOne == [r \in Requests |-> k1]

\* Requests for the same key are interchangeable.
RequestSymmetry == Permutations(Requests)

\* A download, another after or beside it, and a client that joins either.
AtMostTwoDownloads == Cardinality({d \in Requests : task[d] # "idle"}) <= 2

=============================================================================
