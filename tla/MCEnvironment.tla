---------------------------- MODULE MCEnvironment ----------------------------
EXTENDS Environment, TLC

Symmetry == Permutations(Names) \cup Permutations(Values) \cup Permutations(Buffers)
=============================================================================
