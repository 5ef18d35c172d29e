------------------------ MODULE MCPosixSocketBuffer ------------------------
EXTENDS PosixSocketBuffer, TLC

Symmetry == Permutations(Sockets) \cup Permutations(Fd)
=============================================================================
