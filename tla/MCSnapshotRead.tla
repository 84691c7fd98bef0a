---- MODULE MCSnapshotRead ----
EXTENDS SnapshotRead, TLC
Symmetry == Permutations(Bucket)
===============================
