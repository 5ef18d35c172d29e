--------------------------- MODULE DescriptorTable ---------------------------
(***************************************************************************)
(* The process's descriptor table, as the socket classes use it through    *)
(* socket, bind, listen, connect, accept and close.  The table is outside  *)
(* the repository: each definition says what a call may do, including the  *)
(* failures the classes have code for.  POSIX picks the lowest free        *)
(* number; here any free one may be picked, which allows more.             *)
(***************************************************************************)
CONSTANTS Fd,     \* descriptors the process may have open (RLIMIT_NOFILE)
          NoFd    \* the value -1 that d_fd has when there is no descriptor

ASSUME NoFdAssumption == NoFd \notin Fd

VARIABLE file     \* file[fd]: the state of the socket behind fd

SocketState == {"free", "created", "bound", "listening", "connected"}

FileTypeOK == file \in [Fd -> SocketState]

FileInit == file = [fd \in Fd |-> "free"]

Open == {fd \in Fd : file[fd] # "free"}

\* A call that returns a new descriptor, in state s.
Allocate(fd, s) ==
  /\ file[fd] = "free"
  /\ file' = [file EXCEPT ![fd] = s]

\* close(fd).  On a value that is no open descriptor it has no effect (EBADF).
Close(fd) == file' = [f \in Fd |-> IF f = fd THEN "free" ELSE file[f]]

\* bind, listen or connect succeeds on fd; it fails on a closed one (EBADF).
Advance(fd, s) ==
  /\ fd \in Open
  /\ file' = [file EXCEPT ![fd] = s]
=============================================================================
