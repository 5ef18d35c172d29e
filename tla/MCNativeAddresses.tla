------------------------- MODULE MCNativeAddresses -------------------------
EXTENDS NativeAddresses

Symmetry == Permutations(Address)
=============================================================================
