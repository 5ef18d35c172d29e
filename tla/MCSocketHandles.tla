-------------------------- MODULE MCSocketHandles --------------------------
EXTENDS SocketHandles, TLC

Symmetry ==
  Permutations(Conns) \cup Permutations(Listeners) \cup Permutations(Fd)
=============================================================================
