--------------------------- MODULE MCWearLeveledKv ---------------------------
EXTENDS WearLeveledKv, TLC

Symmetry == Permutations(Keys) \cup Permutations(Vals)
=============================================================================
