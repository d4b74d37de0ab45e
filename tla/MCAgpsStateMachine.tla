------------------------- MODULE MCAgpsStateMachine -------------------------
EXTENDS AgpsStateMachine, TLC

Symmetry == Permutations(Ids)
=============================================================================
