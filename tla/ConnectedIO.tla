----------------------------- MODULE ConnectedIO -----------------------------
(***************************************************************************)
(* connected_reader and connected_writer: two objects that refer to one    *)
(* connected_socket, take its handle anew at every call and keep the       *)
(* outcome of their last one.  The handle may block or not, and the socket *)
(* may be connected or import another handle between two calls.  The read  *)
(* and write of posix_socket_buffer are the same system calls, with the    *)
(* outcome as their result and a caller that keeps it.  A stream is        *)
(* modelled by how many of its bytes are where.  SIGPIPE is ignored here;  *)
(* EchoServer has its default action.                                      *)
(***************************************************************************)
EXTENDS Naturals, FiniteSetsExt

CONSTANTS MaxConnections, \* bound on the connections the socket has in turn
          Length,         \* bytes that each end wants to send on one
          Room,           \* bytes the kernel keeps for each direction
          SpanSize        \* sizes of the spans the caller passes

ASSUME ConnectedIOAssumption ==
  /\ MaxConnections \in Nat /\ Length \in Nat /\ Room \in Nat \ {0}
  /\ SpanSize \subseteq Nat

User == {"reader", "writer"}

\* EBADF stands for ENOTCONN too.
Error == {"none", "EAGAIN", "EINTR", "EBADF", "ECONNRESET", "EPIPE"}

\* A handle is the number of its connection.  No handle is used twice: what a
\* number given out again leads to is SocketHandles' concern.
NoHandle == 0

VARIABLES d_fd,         \* the socket's handle
          connections,  \* how many connections the socket has had
          flags,        \* the handle's status flags
          peer,         \* what the peer did last to the connection
          arrived, queued,    \* bytes the kernel has for and from the program
          peerSent, peerGot,  \* bytes the peer has sent and received
          d_last_error, d_last_bytes,  \* of the reader and of the writer
          last,         \* their last call: the size of the span, and the
                        \* handle that the socket had
          moved         \* the sum of last_bytes() over a connection's calls

socketVars == <<d_fd, connections, flags>>
peerVars == <<peerSent, peerGot>>
resultVars == <<d_last_error, d_last_bytes, last, moved>>
vars == <<socketVars, peer, arrived, queued, peerVars, resultVars>>

\* A reset is pending until a call has returned it.
Broken == {"reset pending", "reset"}

SocketTypeOK ==
  /\ connections \in 0..MaxConnections
  /\ d_fd \in {NoHandle, connections}
  /\ flags \subseteq {"O_NONBLOCK"}

StreamTypeOK ==
  /\ peer \in {"open", "closed"} \cup Broken
  /\ {arrived, queued} \subseteq 0..Room
  /\ {peerSent, peerGot} \subseteq 0..Length

ResultTypeOK ==
  /\ d_last_error \in [User -> Error]
  /\ d_last_bytes \in [User -> Nat]
  /\ last \in [User -> [size : SpanSize \cup {0}, on : 0..connections]]
  /\ moved \in [User -> 0..Length]

\* Every variable holds a value of its type, and the kernel's room is kept.
TypeOK == SocketTypeOK /\ StreamTypeOK /\ ResultTypeOK

Init ==
  /\ d_fd = NoHandle
  /\ connections = 0
  /\ flags = {}
  /\ d_last_error = [u \in User |-> "none"]
  /\ d_last_bytes = [u \in User |-> 0]
  /\ last = [u \in User |-> [size |-> 0, on |-> NoHandle]]
  /\ moved = [u \in User |-> 0]
  /\ peer = "open"
  /\ arrived = 0 /\ queued = 0
  /\ peerSent = 0 /\ peerGot = 0

-----------------------------------------------------------------------------
(* The socket between the calls *)

NewConnection ==
  /\ peer' = "open"
  /\ arrived' = 0 /\ queued' = 0
  /\ peerSent' = 0 /\ peerGot' = 0
  /\ moved' = [u \in User |-> 0]
  /\ UNCHANGED <<d_last_error, d_last_bytes, last>>

\* connect succeeds, or a handle is imported, which may not block.
Reconnect ==
  /\ connections < MaxConnections
  /\ connections' = connections + 1
  /\ d_fd' = connections'
  /\ flags' \in SUBSET {"O_NONBLOCK"}
  /\ NewConnection

\* connect fails: the old handle is closed, the new one is -1 or unconnected.
ConnectFails ==
  /\ d_fd # NoHandle
  /\ d_fd' = NoHandle
  /\ flags' = {}
  /\ NewConnection
  /\ UNCHANGED connections

-----------------------------------------------------------------------------
(* The outcomes of a call with a span of n bytes *)

\* Defect: an object goes on with the handle that it used first.
HandleMutantKept(u) == IF last[u].on # NoHandle THEN last[u].on ELSE d_fd

\* d_socket.native_handle(), asked at each call.
Handle(u) == d_fd

\* Defect: the count of the call before stays.
FailureCountMutantStale(u) == d_last_bytes[u]

\* d_last_bytes after a failure.
FailureCount(u) == 0

Keep(u, n, error, count) ==
  /\ d_last_error' = [d_last_error EXCEPT ![u] = error]
  /\ d_last_bytes' = [d_last_bytes EXCEPT ![u] = count]
  /\ last' = [last EXCEPT ![u] = [size |-> n, on |-> d_fd]]
  /\ moved' = [moved EXCEPT ![u] = @ + count]
  /\ UNCHANGED <<socketVars, peerVars>>

Fail(u, n, error) ==
  /\ Keep(u, n, error, FailureCount(u))
  /\ UNCHANGED <<arrived, queued>>

\* The handle the call uses is that of the connection.
Connected(u) == Handle(u) # NoHandle /\ Handle(u) = d_fd

NotConnected(u, n) ==
  /\ ~Connected(u)
  /\ Fail(u, n, "EBADF")
  /\ UNCHANGED peer

\* The call returns a pending error, which it clears.
ReturnReset(u, n) ==
  /\ Connected(u)
  /\ peer = "reset pending"
  /\ peer' = "reset"
  /\ Fail(u, n, "ECONNRESET")

nonblocking == "O_NONBLOCK" \in flags

\* The call would have to wait: at once EAGAIN on a handle that does not block,
\* otherwise after a while perhaps a signal.
Wait(u, n) ==
  /\ Connected(u)
  /\ Fail(u, n, IF nonblocking THEN "EAGAIN" ELSE "EINTR")
  /\ UNCHANGED peer

-----------------------------------------------------------------------------
(* connected_reader::read *)

ReadCopies(n) ==
  /\ Connected("reader")
  /\ \E k \in 1..Min({n, arrived}) :
       /\ Keep("reader", n, "none", k)
       /\ arrived' = arrived - k
  /\ UNCHANGED <<queued, peer>>

ReadsZero(n) ==
  /\ Keep("reader", n, "none", 0)
  /\ UNCHANGED <<arrived, queued, peer>>

\* There is nothing to copy into a span that is not empty.
Dry(n) == n > 0 /\ arrived = 0

\* Defect: zero bytes are taken for an operation that would have blocked.
ReadEndsMutantBlocked(n) ==
  /\ Dry(n) /\ peer \in {"closed", "reset"}
  /\ Connected("reader") /\ Fail("reader", n, "EAGAIN") /\ UNCHANGED peer

\* The end of the stream.
ReadEnds(n) ==
  Connected("reader") /\ Dry(n) /\ peer \in {"closed", "reset"} /\ ReadsZero(n)

\* Defect: an operation that would have blocked reads zero bytes.
ReadWaitsMutantZero(n) ==
  Connected("reader") /\ Dry(n) /\ peer = "open" /\ ReadsZero(n)

ReadWaits(n) == Dry(n) /\ peer = "open" /\ Wait("reader", n)

\* An empty span gets its zero bytes from any socket, connected or not.
Read(n) ==
  \/ NotConnected("reader", n)
  \/ ReadCopies(n)
  \/ n = 0 /\ ReadsZero(n)
  \/ ReadEnds(n)
  \/ Dry(n) /\ ReturnReset("reader", n)
  \/ ReadWaits(n)

-----------------------------------------------------------------------------
(* connected_writer::write *)

\* Part of the span is copied if there is no room for all of it on a handle
\* that does not block, and on one that does if a signal comes.  Length bounds
\* what the kernel takes in all.
WriteCopies(n) ==
  /\ Connected("writer")
  /\ peer \notin Broken
  /\ \E k \in (IF n = 0 THEN 0 ELSE 1)..
                Min({n, Room - queued, Length - moved["writer"]}) :
       /\ Keep("writer", n, "none", k)
       /\ queued' = queued + k
  /\ UNCHANGED <<arrived, peer>>

\* A reset that read or write has returned before.
WritePipe(n) ==
  /\ Connected("writer")
  /\ peer = "reset"
  /\ Fail("writer", n, "EPIPE")
  /\ UNCHANGED peer

WriteWaits(n) ==
  /\ peer \notin Broken
  /\ n > 0 /\ queued = Room
  /\ Wait("writer", n)

Write(n) ==
  \/ NotConnected("writer", n)
  \/ WriteCopies(n)
  \/ ReturnReset("writer", n)
  \/ WritePipe(n)
  \/ WriteWaits(n)

-----------------------------------------------------------------------------
(* The peer, as long as the socket has the connection *)

PeerSend ==
  /\ d_fd # NoHandle
  /\ peer = "open" /\ peerSent < Length /\ arrived < Room
  /\ peerSent' = peerSent + 1
  /\ arrived' = arrived + 1
  /\ UNCHANGED <<socketVars, resultVars, queued, peerGot, peer>>

PeerReceive ==
  /\ d_fd # NoHandle
  /\ peer \notin Broken /\ queued > 0
  /\ peerGot' = peerGot + 1
  /\ queued' = queued - 1
  /\ UNCHANGED <<socketVars, resultVars, arrived, peerSent, peer>>

\* The peer sends no more, or resets the connection, when it likes.
PeerEnds ==
  /\ d_fd # NoHandle
  /\ \/ peer = "open" /\ peer' = "closed"
     \/ peer \notin Broken /\ peer' = "reset pending"
  /\ UNCHANGED <<socketVars, resultVars, arrived, queued, peerVars>>

Next ==
  \/ Reconnect
  \/ ConnectFails
  \/ \E n \in SpanSize : Read(n) \/ Write(n)
  \/ PeerSend
  \/ PeerReceive
  \/ PeerEnds

\* The caller goes on reading into spans that are not empty, whatever the
\* outcomes are.  Nothing is assumed of the peer.
Fairness == WF_vars(\E n \in SpanSize \ {0} : Read(n))

Spec == Init /\ [][Next]_vars /\ Fairness

-----------------------------------------------------------------------------
(* Accessors and properties *)

would_have_blocked(u) == d_last_error[u] = "EAGAIN"

okay(u) == d_last_error[u] = "none" /\ ~would_have_blocked(u)

last_bytes(u) == d_last_bytes[u]

\* A caller that adds up last_bytes() after each call, whether it failed or
\* not, knows how much of the connection's streams it has read and written:
\* short counts, failures, calls that would block and reconnects lose nothing
\* and count nothing twice.
CountsExact ==
  /\ moved["reader"] + arrived = peerSent
  /\ moved["writer"] = queued + peerGot

\* The reader's or writer's last call was made on the present connection.
Current(u) == d_fd # NoHandle /\ last[u].on = d_fd

\* Zero bytes without an error, read into a span that is not empty, mean that
\* the connection has ended and that all of it has been read.
SeesEnd == okay("reader") /\ last_bytes("reader") = 0 /\ last["reader"].size > 0

EndIsReal == Current("reader") /\ SeesEnd => arrived = 0 /\ peer # "open"

\* Once there has been a call after a reconnect, an error is one of the new
\* connection, and not what is left of one before.
ErrorIsReal ==
  \A u \in User :
    Current(u) =>
      /\ d_last_error[u] # "EBADF"
      /\ d_last_error[u] \in {"ECONNRESET", "EPIPE"} => peer = "reset"
      /\ would_have_blocked(u) => nonblocking

\* A caller that goes on reading after each outcome but the end, those that
\* would have blocked or were interrupted included, learns of the end of the
\* connection, unless the socket gets another one, also if it was the writer to
\* whom a reset was reported.
EndSeen ==
  \A c \in 1..MaxConnections :
    (d_fd = c /\ peer # "open") ~>
      \/ d_fd # c
      \/ Current("reader") /\ (SeesEnd \/ d_last_error["reader"] = "ECONNRESET")

\* okay() is true if the operation would have blocked
\* (connected_reader.h:59-61).  Each operation that would have blocked refutes
\* it.
OkayIfBlocked == \A u \in User : would_have_blocked(u) => okay(u)
=============================================================================
