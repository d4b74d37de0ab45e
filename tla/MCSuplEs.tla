------------------------------ MODULE MCSuplEs ------------------------------
EXTENDS SuplEs, TLC

Symmetry == Permutations(Ids)
=============================================================================
