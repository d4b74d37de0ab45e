-------------------------- MODULE MCLocApiSyncReq --------------------------
(* Instances of LocApiSyncReq for TLC.                                      *)
EXTENDS LocApiSyncReqRefinement, TLC

Symmetry == Permutations(Threads) \cup Permutations(Clients) \cup Permutations(Inds)
=============================================================================
