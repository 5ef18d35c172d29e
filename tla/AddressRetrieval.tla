-------------------------- MODULE AddressRetrieval --------------------------
(***************************************************************************)
(* How the name of a socket gets into a syd::net::address: local_address   *)
(* of connected_socket and posix_socket_buffer, which ask again when the   *)
(* name did not fit, the accepts that return the peer's address, which do  *)
(* not, and the constructor of listen_socket, which does not even resize.  *)
(* The caller's address object is used for one call after the other, so it *)
(* keeps the capacity and the bytes an earlier call left.  An allocation   *)
(* that fails is not modelled here.                                        *)
(* Names are modelled by their length; the lengths are those of the C      *)
(* types (16 for IPv4, 28 for IPv6, 2 to 110 for Unix domain sockets).     *)
(***************************************************************************)
EXTENDS Naturals

CONSTANTS SockaddrSize,  \* sizeof(sockaddr)
          SdoSize,       \* address::c_sdoSize
          NameSizes,     \* lengths of the names of sockets
          BoundSize      \* size of the address given to listen_socket

ASSUME SizesAssumption ==
  /\ SockaddrSize \in Nat \ {0}
  /\ SdoSize \in Nat /\ SockaddrSize <= SdoSize
  /\ NameSizes \subseteq Nat \ {0}
  /\ BoundSize \in Nat /\ SockaddrSize <= BoundSize

Accepts == {"listen_socket::accept", "posix_socket_buffer::accept"}
Queries == {"connected_socket::local_address",
            "posix_socket_buffer::local_address"}
Constructors == {"listen_socket::listen_socket"}
Methods == Accepts \cup Queries \cup Constructors

VARIABLES size, capacity, \* of the address the method fills
          content,        \* what is known of its first bytes
          method, pc,     \* the method that runs and where it is
          name,           \* the length of the name asked for
          len             \* the length the system call returned

address == <<size, capacity, content>>
vars == <<address, method, pc, name, len>>

\* content says that the first bytes are the start of the peer's or the
\* socket's own name, as obtained by the current call; "old" bytes are an
\* earlier call's, or were never written.
Old == [of |-> "old", bytes |-> 0]

Contents == [of : {"old", "peer", "own"}, bytes : Nat]

\* The members have their types, and the buffer holds what the size says.
TypeOK ==
  /\ size \in Nat /\ capacity \in Nat
  /\ content \in Contents
  /\ method \in Methods
  /\ pc \in {"idle", "call", "resize", "success", "error", "aborted"}
  /\ name \in NameSizes /\ len \in NameSizes
  /\ size <= capacity
  /\ content.bytes <= capacity

Init ==
  /\ size = 0 /\ capacity = SdoSize /\ content = Old
  /\ method \in Methods
  /\ pc = "idle"
  /\ name \in NameSizes
  /\ len = name

-----------------------------------------------------------------------------
\* Defects: growing does not update the capacity, or happens one size early.
ResizeToMutantCapacity(n, c, kept) ==
  /\ size' = n
  /\ capacity' = c
  /\ content' = IF n > c THEN Old ELSE kept
ResizeToMutantEarly(n, c, kept) ==
  /\ size' = n
  /\ capacity' = IF n >= c THEN n ELSE c
  /\ content' = IF n >= c THEN Old ELSE kept

\* address::resize on an address of capacity c: growing loses the bytes.
ResizeTo(n, c, kept) ==
  /\ size' = n
  /\ capacity' = IF n > c THEN n ELSE c
  /\ content' = IF n > c THEN Old ELSE kept

\* The size an address gets before the first system call.
FirstSize(m) ==
  IF m \in {"listen_socket::listen_socket", "listen_socket::accept"}
  THEN BoundSize ELSE SockaddrSize

\* connected_socket::local_address and the constructor fill a new address.
FirstCapacity(m) ==
  IF m \in {"listen_socket::listen_socket", "connected_socket::local_address"}
  THEN SdoSize ELSE capacity

\* A method is called for a socket whose name is n long.
Begin(m, n) ==
  /\ pc \in {"idle", "success", "error"}
  /\ method' = m
  /\ name' = n
  /\ ResizeTo(FirstSize(m), FirstCapacity(m), Old)
  /\ pc' = "call"
  /\ UNCHANGED len

\* Defect: the length passed is the size and not the capacity.
RoomMutantSize == size

\* The length of the buffer that the system call is told.
Room == capacity

\* accept or getsockname succeeds: it writes as much of the name as fits.  The
\* constructor is done then.
CallSucceeds ==
  /\ pc = "call"
  /\ content' = [of |-> IF method \in Accepts THEN "peer" ELSE "own",
                 bytes |-> IF name <= Room THEN name ELSE Room]
  /\ len' = name
  /\ pc' = IF method \in Constructors THEN "success" ELSE "resize"
  /\ UNCHANGED <<size, capacity, method, name>>

\* accept and the constructor return with the address as the call found it,
\* local_address with an empty one (assigned from a small temporary, which keeps
\* the capacity).
CallFails ==
  /\ pc = "call"
  /\ IF method \in Queries
     THEN ResizeTo(0, capacity, content)
     ELSE UNCHANGED address
  /\ pc' = "error"
  /\ UNCHANGED <<method, name, len>>

\* Defect: the loop goes on when the name fits exactly.
AsksAgainMutantExact == method \in Queries /\ len >= capacity

\* local_address compares with the capacity before the resize; accept after
\* it, when the length always fits, and so never calls getsockname.
AsksAgain == method \in Queries /\ len > capacity

\* address.resize(len), whose assertion excludes sizes below a sockaddr's.
ResizeToLength ==
  /\ pc = "resize"
  /\ len >= SockaddrSize
  /\ ResizeTo(len, capacity, content)
  /\ pc' = IF AsksAgain THEN "call" ELSE "success"
  /\ UNCHANGED <<method, name, len>>

ResizeAborts ==
  /\ pc = "resize"
  /\ len < SockaddrSize
  /\ pc' = "aborted"
  /\ UNCHANGED <<address, method, name, len>>

Call == CallSucceeds \/ CallFails \/ ResizeToLength \/ ResizeAborts

Next ==
  \/ \E m \in Methods, n \in NameSizes : Begin(m, n)
  \/ Call

\* getsockname does not block.  accept may wait for ever.
Fairness == WF_vars(method \in Queries /\ Call)

Spec == Init /\ [][Next]_vars /\ Fairness

-----------------------------------------------------------------------------
(* Properties *)

\* The whole name of the socket, and nothing else, is in the address.
Holds(whose) ==
  size = name /\ content = [of |-> whose, bytes |-> name]

\* local_address returns the whole name, however long and whatever the caller's
\* address was used for before, or an empty address when getsockname fails.  The
\* listener's, which keeps the size it was bound with, has the whole name in it
\* if the name is no longer than that.
LocalAddressComplete ==
  /\ method \in Queries =>
       /\ pc = "success" => Holds("own")
       /\ pc = "error" => size = 0
  /\ method \in Constructors /\ pc = "success" =>
       /\ size = BoundSize
       /\ name <= BoundSize => content = [of |-> "own", bytes |-> name]

\* accept returns the whole address of the peer whenever the address it was
\* given has the room, and otherwise nothing of it, never a beginning.
PeerAddressComplete ==
  [][(method \in Accepts /\ pc # "success" /\ pc' = "success") =>
       (IF name <= capacity THEN Holds("peer")' ELSE (content.of)' # "peer")]_vars

\* A peer address is lost only when it is longer than the small buffer.
PeerAddressLost ==
  method \in Accepts /\ pc = "success" /\ content.of # "peer" => name > SdoSize

\* The loop of local_address ends.
LocalAddressReturns ==
  (pc = "call" /\ method \in Queries) ~> pc \in {"success", "error", "aborted"}

\* accept sets the address to the remote address of the connection
\* (listen_socket.h:47-51).  A peer with a name longer than the address's
\* capacity refutes it: resize(addressLength) drops the bytes accept wrote.
AcceptReportsPeer ==
  method \in Accepts /\ pc = "success" => Holds("peer")

\* address::resize is called with zero or at least the size of sockaddr only
\* (address.h:55-56).  The name of an unbound Unix domain socket, two bytes
\* long, refutes it.
ResizePrecondition == pc # "aborted"
=============================================================================
