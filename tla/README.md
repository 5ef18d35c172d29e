# A TLA+ verification of sydn

sydn is a small C++ library of socket classes over POSIX, with an echo server as
its example. This directory holds TLA+ models of it, what TLC checks about them
and what TLAPS proves. Paths below are relative to the repository; `net/` is
`src/syd/net/`.

## The system

| Component | State | Operations | What makes it hard |
|---|---|---|---|
| `mem::sdo` (`src/syd/mem/mem_sdo.h`) | capacity, size, a union of a pointer and a small buffer | construct, copy, move, resize, reserve, data | the union; ownership of heap blocks; `new` that throws half way |
| `address` (`net/address.*`) | one `sdo<32>` | resize, reserve, clear, native, family, compare, print | size against capacity when the kernel fills it |
| `ipv4_address`, `unix_address` | an `address` | set and get host, port, path | fields of fixed size over shared bytes that outlive a name |
| `connected_socket` | `d_fd` | connect, import, local_address, native_handle, destructor | a descriptor is closed once, whatever failed and whatever other threads do |
| `listen_socket` | `d_fd`, `d_last_error`, `d_local_address` | constructor, accept (two), okay, error | early returns; the error that stays; the accepted descriptor that nobody owns yet |
| `posix_socket_buffer` (implements `socket_buffer`) | `d_fd` | connect, listen, accept (two), read, write, local_address | one class for both roles, so every order of calls is legal |
| `connected_reader`, `connected_writer` | a reference to a socket, last error, last count | read, write, okay, would_have_blocked | errors as state; short counts; SIGPIPE |
| echo server (`src/examples/echoserver`) | a listener, one detached thread for each session | accept loop, session loop | interleaving of sessions, a failing accept, clients that do not read or that close early |
| `address_info_list`, `resolver` | a shared `addrinfo` list | iterate, getaddrinfo | does not compile at this commit |

The classes take no locks. An object is used by one thread at a time (the echo
server moves each session's socket into the session's thread), but all of them
share the process's descriptor table: a number one thread closes is given to
another at once. That is why wrong descriptor handling in one object shows up
as corruption in an unrelated one, and why tests hardly reach it.

## The modules

```
DescriptorOwnership  (abstract: who owns which descriptor)
      ^ refined by
SocketHandles  --EXTENDS-->  DescriptorTable  <--EXTENDS--  PosixSocketBuffer
                             (the kernel)

DynamicArray  (abstract: arrays are values)
      ^ refined by
     Sdo          AddressRetrieval    NativeAddresses    ConnectedIO    EchoServer
```

A module `XProofs` extends the module `X` and holds the theorems about it; there is
one for each module of the code but `DescriptorTable`, which is part of two of
them. `DescriptorOwnership` holds its own theorem.

* **DescriptorTable** is external: what `socket`, `bind`, `listen`, `connect`,
  `accept` and `close` may do to the table. Any free number may be given out,
  which allows more than the lowest-number rule of POSIX.
* **SocketHandles** models `connected_socket` and `listen_socket`. One action is
  one system call with the computation on the thread's own object around it;
  `pc` says which call is next, so calls of different objects interleave
  everywhere. Every call may fail, and the early returns are the code's. The
  local variable `fd` of a running `accept` is part of the state, because between
  `::accept` and `import` it is the only thing that knows the descriptor. The
  two overloads of `accept` have the same control on descriptors and share their
  actions. The application may open, close and import descriptors of its own, as
  the tests do with `socketpair`. The constructor of a listener and both accepts may
  also leave by an exception, where they allocate: `ListenThrows` after `listen`, when
  the object is not constructed, no destructor runs and its descriptor stays open for
  ever, and `AcceptThrows` after `import`, which loses nothing.
* **DescriptorOwnership** says what the classes promise together: an owner gets
  a new descriptor, gives one up and closes it, or passes one on; certain owners
  (`Losers`) may lose one. `SocketHandles` implements it (`ImplementsOwnership`) with the
  objects, the running accepts and the application as owners and the listeners
  as those that may lose one.
* **PosixSocketBuffer** does the same for `posix_socket_buffer`, whose objects
  may connect, listen, accept into others and into themselves in any order.
* **Sdo** models `mem_sdo.h`, with the heap's blocks and the union as it is: the
  pointer lies over the first element. **DynamicArray** is the value semantics
  it implements (`ImplementsArray`); the value of an array is what `data()`
  shows. A `bad_alloc` in `reserve` leaves an array whose pointer is deleted or made of
  characters (`dangling`). Its use is undefined and not modelled, but its
  destructor is, because C++ runs it: it deletes that pointer once more, which
  takes the block of another array if the heap gave it out again, does nothing if
  the pointer is null, and otherwise corrupts the heap, where the model ends.
* **AddressRetrieval** models how a name gets from the kernel into an `address`
  in the five places that do that: the accepts of `listen_socket` and
  `posix_socket_buffer`, `local_address` of `connected_socket` and
  `posix_socket_buffer`, and the constructor of `listen_socket`, which fills the
  address that its `local_address()` returns and does not resize it. Names are their
  lengths; of the bytes the model keeps whose name they are and how much of it is
  there. An allocation that fails there is left to `SocketHandles`,
  `PosixSocketBuffer` and `Sdo`.
* **NativeAddresses** models what an address means: the two constructors and the
  setters and getters of `ipv4_address` and of `unix_address`, over an array of
  cells in which the port and the host of one lie under the path of the other.
  The array keeps its cells through `clear` and shrinking and loses them when it
  grows, as `Sdo` has it; accepts and `local_address` put names of sockets over
  what is there. `given` is not in the code: it is the name an object should
  show, and the properties compare the getters with it. A setter on an object
  that is too small for it (cleared, moved from, or filled with a shorter name)
  is undefined in the code, and no step of the model.
* **ConnectedIO** models `connected_reader` and `connected_writer`, which refer to
  a socket and ask for its handle at each call, with every outcome of the system
  call: part of the span, zero bytes, EAGAIN, a signal, a reset, no connection.
  Between the calls the socket connects again or imports a handle that may not
  block. `read` and `write` of `posix_socket_buffer` are the same calls and return
  what reader and writer keep. Streams are counts of bytes; their order is in
  `EchoServer`. `moved` is not in the code: it is what a caller learns by
  adding up `last_bytes()`.
* **EchoServer** models `echoserver.cpp` with `connected_reader` and
  `connected_writer`. Clients and TCP are environment. A read is one step; a write
  copies byte by byte as the kernel has room, since it blocks in the middle.
  A reset leaves an error on the server's socket: ECONNRESET, or EPIPE if the
  client's end of stream came first. A descriptor is here just its
  connection; that this is right is what `SocketHandles` shows.
  `accept` fails exactly when no descriptor is left, and `std::thread` throws
  exactly when no thread is left, which ends the process. When the process ends, by that
  exception or by SIGPIPE, the kernel closes every connection (`Die`): those in the
  queue and those with bytes the server has not read are reset, the others end, so that a
  client may read the end of the stream before its echo is complete.

The `MC*` modules add the symmetry sets and the constants that a `.cfg` cannot
write. Operators named `...Mutant...` are plausible defects of the operator they
are named after; nothing in the models uses them. They are there to show that
each property would notice such a defect.

## The runs

| cfg | Shows | Instance |
|---|---|---|
| `SocketHandles` | ownership, truth of results, order of calls, what an exception loses, refinement | 2 sockets, 2 listeners, 3 descriptors |
| `PosixSocketBuffer` | the same for the buffer class; only `listen` loses descriptors | 3 objects, 3 descriptors |
| `Sdo` | heap ownership, noexcept moves, value semantics, with `bad_alloc` anywhere and the destructors after it | 2 arrays, small buffer of 1, sizes to 3, 2 blocks, 2 values |
| `AddressRetrieval` | complete names, where peers' names are lost, the loop ends | real sizes; names of 2, 15, 16, 18, 28, 32, 33, 109, 110 bytes; a listener bound to 18 |
| `EchoServer` | unbroken echoes, also when the process ends; complete ones while it runs; sessions of closed clients end; patient clients are served unless others hold every descriptor for ever | a patient client (3 bytes), two that never read and keep or close their connections (3 bytes and none); 2 descriptors, 3 threads, buffer of 2 |
| `ConnectedIO` | exact counts; ends and errors that are the connection's; the end is seen | 2 connections, 2 bytes each way, spans of 0, 1 and 2 |
| `NativeAddresses` | an address shows the last name it was given | 2 objects, 2 values of a field, `sun_path` of 3, ports 0, 1 and 2 (cut to 0) |
| `ListenerError` | violated: error of an earlier accept | as `SocketHandles` |
| `PeerAddress`, `ShortName` | violated: long names lost, 2-byte names abort | as `AddressRetrieval` |
| `Sigpipe` | violated: a write after the client closed ends the server | as `EchoServer`, with a patient and a hasty client of 3 bytes |
| `WouldBlock` | violated: an operation that would have blocked compares to true | as `ConnectedIO` |

Why the bounds are enough. Ownership goes wrong between two owners and one
number, so two sockets that reuse three numbers, with two running accepts and the
application, contain every pairwise race; the proofs cover the rest. Two arrays
cover source and target of copies and moves; sizes to 3 over a small buffer of 1
give both kinds of storage and growth from each. The name lengths lie on
both sides of `sizeof(sockaddr)`, the small buffer's 32 and the type sizes. The
echo instance has a stream longer than the buffer, a write that blocks and one
that is cut short, and fewer descriptors than clients, so accepts fail; the two
clients that do not read can hold both descriptors for ever. `MaxSessions` is the number
of session threads the process can have at a time: 3, one more than descriptors, so that
sessions without a descriptor occur, and few enough to run out of. Two
connections of `ConnectedIO` give an outcome of the first something to be mistaken
for in the second, and a span as long as the stream and one shorter give whole
and short counts. In `NativeAddresses` the small array holds a `sockaddr_in` and no
`sockaddr_un`, as in the code, paths have every length from 0 to one more than
`sun_path`, NULs inside included, and the ports reach beyond the field's width.

`CHECK_DEADLOCK FALSE` stands where the process may end (an abort, a listener that
cannot listen, a signal, a deleted pointer that is deleted again). Everywhere else the system can always go on.

Fairness. `AddressRetrieval`: `getsockname` does not block, so the query loop is
weakly fair; nothing is assumed of `accept`. `EchoServer`: the scheduler runs the
accepting thread and each detached session (weak fairness of each thread's next
step, which is disabled while a call blocks), the network delivers resets, and
clients that read go on with what they do. Nothing is assumed of a client that does
not read, and nothing of whether clients connect. `ConnectedIO`: the caller goes on
reading, which is the premise of `EndSeen`; nothing is assumed of the peer, of the
writer or of reconnects.

## What the violated properties show

* `ErrorIsCurrent`: `accept` sets `d_last_error` when it fails and never clears it.
* `AcceptReportsPeer`: `accept` compares the length with the capacity after it
  resized, so the retry is dead code and a long peer name is lost.
* `ResizePrecondition`: names shorter than `sockaddr` reach the assertion.
* `WriteErrorsReported`: SIGPIPE is neither ignored nor suppressed.
* `OkayIfBlocked`: `okay()` is false after EAGAIN, which its comment excludes. The
  caller that loops on it stops where it should come back later.

The process therefore may end by SIGPIPE, and by a thread that cannot be created. Then
a client reads the end of the stream without its whole echo, and is served and
has its session ended no more: `EchoComplete`, `PatientServed` and
`SessionEnds` name that exception (`Ended`). `EchoUnbroken` has none in its second
part: not even then does a client get a byte behind a gap.

Other passing properties say how far a defect reaches:

* `LostOnlyByThrow`: the constructor of `listen_socket` resizes `d_local_address` when
  the socket is open and listening. If that throws (a Unix address needs more than the
  32 bytes inside), the descriptor is lost; nothing else loses one.
* `PatientServed`: nothing ends a session whose client neither reads nor closes. Clients
  that hold every descriptor so starve the others (`Exhausted`); as long as one
  descriptor is left, now and then, nobody is.
* `LostOnlyByListen`: `posix_socket_buffer::listen` overwrites `d_fd` without
  closing it, which loses a descriptor; nothing else does.
* `StorageLostByThrow`: `sdo::reserve` deletes the block and changes the capacity
  before `new` can throw, which leaves a dangling pointer that the destructor
  deletes again. That takes the storage of an array which has the block by then, or
  corrupts the heap. Nothing else does either, and an array that lost its storage so
  passes the damage on in the same way, to one array at a time (`DynamicArray!Destroy`).
* `PeerAddressComplete`, `PeerAddressLost`: what `accept` loses it loses as a whole, and
  only of names longer than 32 bytes.
* `Ipv4Shown`: `set_port` keeps 16 bits of its argument and says nothing.
* `PathShown`: a path of exactly 108 bytes is accepted and has no terminator,
  so that `path()` reads on; every shorter one is safe. A path with a NUL (the
  names of Linux's abstract sockets start with one) is cut there.
* `FamilyShown`, `Ipv4Shown`, `PathShown` say nothing of the bytes of an earlier name that
  a resize brings back after `clear` (`given = Unknown`): no comment says what an
  address should show then.
* Outside every property: a `unix_address` constructed with too long a path has
  uninitialized bytes as its path, one that was filled with a socket's name
  makes `path()` abort, and `address == nullptr` is the same as `!=`.

## What is proved

Every invariant, every action property and both refinements that the runs check
hold for every value of the constants that the modules' assumptions allow: any
number of objects, descriptors, arrays, connections and clients, any sizes of
names, buffers and fields. Each `...Proofs` module states an inductive invariant
`IInv` (`Inv` in `ConnectedIOProofs`), proves that `Init` implies it and that each
action keeps it, one lemma for an action or for the step several actions share,
and derives the properties from it.

The assumptions say that values that stand for "none" are no values (-1 is no
descriptor, memory never written holds no number), that sizes are natural
numbers, and these facts of the code: no object is connected socket and listener at
once; the small buffer of an address holds a `sockaddr` and a `sockaddr_in` but no
path of full length; a block is no character.

* `DescriptorOwnership!PartitionHolds`: in the abstract specification no descriptor has
  two owners and what an owner holds is open. `ManagedLosesNothing`: every step but
  `Lose` accounts for every descriptor.
* `SocketHandlesProofs`: `TypeCorrect`, and `Refinement`: `SocketHandles`
  implements `DescriptorOwnership`. `IInv` is the type
  invariant with `PCInv`, which says what is set at which `pc`: `d_fd` is -1
  before `socket`, `fd` and `target` are set exactly while `accept` runs, and the
  target is idle. Without it an assignment to `d_fd` could lose a descriptor or
  another call could change the target under `accept`. Given `IInv`, every action
  is an `Acquire`, a `Release`, a `Transfer`, a `Lose` or a stutter of the abstract
  specification, one lemma for each action's effect on `Open` and `Holds`.
  `ExclusiveOwnershipHolds` and `NoDanglingHandleHolds` then
  follow from `PartitionHolds`, and `LossBounded` (for `LostOnlyByThrow`) from
  `ManagedLosesNothing`: ownership is proved once, in the abstract, and
  carried over. `ListenerOkayHolds`, `ConnectTruthfulHolds` and
  `CallsInOrderHolds` are inductive together (`StateInv`), and only with the
  ownership theorems (`OwnedInv`): a step of another object leaves
  `file[d_fd[q]]` alone (`Undisturbed`) because it does not hold that descriptor.
* `PosixSocketBufferProofs`: `TypeCorrect`, `ResultsTrue`, `Exclusive` and
  `LossBounded`. `listen` loses descriptors, so this class does not implement
  `DescriptorOwnership` and the argument is direct. `IInv` says pair by pair that
  the members and the locals of running accepts are different descriptors
  (`Apart`) and open (`HeldOpen`); `ResultTruthful` is inductive only with them,
  since a close by anybody else could make it false. `LossBounded` splits the
  steps into those that lose nothing and the start of a listen.
* `SdoProofs`: `TypeCorrect`, `Owned`, `MovesNeverAllocate`, `StorageLoss` and
  `Refinement`: arrays over shared heap blocks and a union implement
  `DynamicArray`'s independent values. `IInv` says that a large array that may be used
  (`Usable`) has a block of its own (`PointersInv`, `Separate`), and that each block is
  such an array's and of the capacity that array believes it has (`Backed`). Of a
  dangling pointer it says nothing: it may be any block. The destructor that deletes
  one keeps `IInv` because the array it robs, which by `Separate` is at most one, joins the
  dangling ones in the same step. Given `IInv`, what `data()` shows of the
  arrays a step does not name is unchanged (`OthersKept`, `OthersSame`), which is
  the heart of the refinement; a throw is a `Break` of `DynamicArray`, and a destruction
  its `Destroy` with or without another array that breaks.
* `AddressRetrievalProofs`: `TypeCorrect`, `LocalComplete`, `PeerComplete` and
  `PeerLost`. `IInv` adds that no address has less capacity than its small buffer
  (`Roomy`), what the system call left in the buffer (`Filled`), and that the
  listener's address has the size it was bound with (`Bound`); the last
  resize then keeps the whole name or is a growth that drops it.
* `NativeAddressesProofs`: `TypeCorrect`, `FamilyIsShown`, `Ipv4IsShown` and
  `PathIsShown`. `IInv` says which cells hold the name an object should show
  (`Shows`), and that the rest of the array does not matter: a name is shown by
  the cells within the size alone (`PrefixShows`), which is why copies, shrinking
  and arrays that keep older names do no harm. The text of a path is the one sequence
  without NULs that the cells begin with (`TextOf`).
* `ConnectedIOProofs`: `CountsExactHolds`, `EndIsRealHolds`, `ErrorIsRealHolds` and
  `TypeCorrect`. The four
  invariants are inductive together (`Inv`): the types bound the counts, and
  only the counts show that the peer never receives more than a type allows. Every
  outcome of a call is brought to one form (`Outcome`), so that the argument for
  reader and writer is made once (`OutcomeKeepsInv`); after a reconnect no last call
  is of the present connection.
* `EchoServerProofs`: `TypeCorrect`, `StreamUnbroken` and `StreamComplete`. Neither
  property is inductive. `IInv` has a part for the running server and one for after its
  end (`EndedInv`: what clients got and have on the way begins what they sent, and
  stays so whatever they still do, `EndedKeeps`); `DieEnds` leads from the one to the other.
  While the server runs, it follows a connection through the server: it waits in
  the queue, or one session has it, or one gave it up (`QueueInv`, `Single`,
  `ServedInv`); a session is between reads with nothing in its buffer
  (`SessionInv`); and a session whose client has not closed ends only after everything
  that client sent was read and written back (`EndInv`). Until the client closes,
  what it got, what is under way to it, what its session holds and what is under
  way to the server make up what it sent (`Unbroken`). `Unbroken` says more than
  `EchoUnbroken`; the client that reads the end of the stream finds everything before it
  read and nothing left under way (`ClientInv`), so that it gives `EchoComplete` at
  that step.

`IInv` of each module was checked with TLC on the instance of its run before it was
proved.

Only model-checked: the liveness properties (`LocalAddressReturns`, `SessionEnds`,
`PatientServed`, `EndSeen`), because the prover handles neither fairness nor
ENABLED. The five violated properties are violated; nothing is proved of them.

## Not modelled

* Copies of objects that own descriptors (the classes allow them, no code makes
  one), `import` of a socket's own handle, and threads that share an object.
* `socket_buffer` (an interface) and the printing of addresses, which change no
  state; IPv6 addresses, for which the library has no class.
* `address_info_list` and `resolver`. They are not among the components of
  `net/CMakeLists.txt` and cannot be compiled: the header uses private members of
  other classes, uses the function object `addrinfo_delete` as a value, repeats a
  default argument and reads a member of a pointer. Code without a
  build has no behaviour to check.
* GSL and googletest, which are vendored. They are nearly all of the lines of the
  repository; the library and its example are some 2000 lines without tests, of which the modules
  translate every part that keeps or changes state.

## Plan

1. Done: the models of all components, each with its run.
2. Done: the proofs of every invariant, action property and refinement.
3. Left: an abstract specification that `PosixSocketBuffer` implements too
   (`DescriptorOwnership` has the step that loses a descriptor by now, `Lose`; what is
   missing is one for a listen that replaces it), so that its
   ownership follows as that of `SocketHandles` does; one of the echo server, a
   bounded first-in first-out channel for each client; the steps of a setter on an object that is
   too small for it, which need a model of what lies beyond the array.
