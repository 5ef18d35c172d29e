-------------------------------- MODULE MCSdo --------------------------------
EXTENDS Sdo, TLC

Symmetry == Permutations(Array) \cup Permutations(Block)
=============================================================================
