--------------------------- MODULE MCSequenceStore ---------------------------
EXTENDS SequenceStore, TLC

Symmetry == Permutations(Peers)
=============================================================================
