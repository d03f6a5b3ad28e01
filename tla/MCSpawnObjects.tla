--------------------------- MODULE MCSpawnObjects ---------------------------
EXTENDS SpawnObjects, TLC

Symmetry == Permutations(Additions)
=============================================================================
