------------------------------- MODULE MCUnlock -------------------------------
EXTENDS Unlock, TLC
ProcSymmetry == Permutations(Procs) \cup Permutations(Requests)
=============================================================================
