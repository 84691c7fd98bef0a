---- MODULE MCSnapshotSpi ----
EXTENDS SnapshotSpi, TLC
Symmetry == Permutations(Caller)
==============================
