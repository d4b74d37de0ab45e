----------------------------- MODULE MCLocTimer -----------------------------
(* LocTimer for TLC, on a heap in which two objects share a rank, as timers *)
(* of the same second do.                                                   *)
EXTENDS LocTimer, TLC

Symmetry == Permutations(Clients)

MCHeapRank == [i \in HeapItems |-> i \div 2]
=============================================================================
