--------------------------- MODULE MCRuntimeManager ---------------------------
EXTENDS RuntimeManager, TLC
CONSTANTS a, b
JustOne == {<<a>>}
TwoOrbs == {<<a>>, <<a, b>>}
TwoVersions == {<<a, a>>, <<a, b>>}
CallSymmetry == Permutations(Calls)
=============================================================================
