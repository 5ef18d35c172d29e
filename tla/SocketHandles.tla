---------------------------- MODULE SocketHandles ----------------------------
(***************************************************************************)
(* The descriptors of syd::net::connected_socket and syd::net::            *)
(* listen_socket.  A step is one system call and the computation on the    *)
(* calling thread's own objects around it, so the calls of objects used by *)
(* different threads interleave between any two system calls.  An object   *)
(* is used by one thread at a time: no method takes a lock, and            *)
(* echoserver.cpp hands each session's socket to that session's thread.    *)
(***************************************************************************)
EXTENDS DescriptorTable

CONSTANTS Conns,       \* connected_socket objects
          Listeners,   \* listen_socket objects
          NoConn       \* the target of a listener with no accept running

ASSUME ObjectsAssumption ==
  /\ Conns \cap Listeners = {}
  /\ NoConn \notin Conns

Objects == Conns \cup Listeners

VARIABLES d_fd,         \* the member d_fd of each object
          pc,           \* the system call each object is about to make
          wantsBind,    \* the running connect got a local address
          outcome,      \* what the last connect returned, "none" since then
          target,       \* the socket a running accept was given
          fd,           \* accept's local variable fd
          d_last_error, \* each listener's member: what set the error it holds
          app           \* descriptors the application opened and still owns

connVars == <<wantsBind, outcome>>
acceptVars == <<target, fd>>
vars == <<file, d_fd, pc, connVars, acceptVars, d_last_error, app>>

ConnPC == {"dead", "idle", "socket", "bind", "connect"}
ListenPC == {"dead", "idle", "socket", "bind", "listen", "getsockname",
             "accept", "import"}

\* Every variable holds a value of its C++ type, and an object makes only the
\* system calls of its class.
TypeOK ==
  /\ FileTypeOK
  /\ d_fd \in [Objects -> Fd \cup {NoFd}]
  /\ pc \in [Objects -> ConnPC \cup ListenPC]
  /\ \A c \in Conns : pc[c] \in ConnPC
  /\ \A l \in Listeners : pc[l] \in ListenPC
  /\ wantsBind \in [Conns -> BOOLEAN]
  /\ outcome \in [Conns -> {"none", "success", "error"}]
  /\ target \in [Listeners -> Conns \cup {NoConn}]
  /\ fd \in [Listeners -> Fd \cup {NoFd}]
  /\ d_last_error \in [Listeners -> {"none", "constructor", "accept"}]
  /\ app \in SUBSET Fd

Init ==
  /\ FileInit
  /\ d_fd = [o \in Objects |-> NoFd]
  /\ pc = [o \in Objects |-> "dead"]
  /\ wantsBind = [c \in Conns |-> FALSE]
  /\ outcome = [c \in Conns |-> "none"]
  /\ target = [l \in Listeners |-> NoConn]
  /\ fd = [l \in Listeners |-> NoFd]
  /\ d_last_error = [l \in Listeners |-> "none"]
  /\ app = {}

\* o has been constructed, and no method of it or on it is running.
Idle(o) == pc[o] = "idle" /\ \A l \in Listeners : target[l] # o

Goto(o, s) == pc' = [pc EXCEPT ![o] = s]

SetFd(o, h) == d_fd' = [d_fd EXCEPT ![o] = h]

-----------------------------------------------------------------------------
(* connected_socket *)

Construct(c) ==
  /\ pc[c] = "dead"
  /\ Goto(c, "idle")
  /\ SetFd(c, NoFd)
  /\ UNCHANGED <<file, connVars, acceptVars, d_last_error, app>>

\* ~connected_socket.
Destroy(c) ==
  /\ Idle(c)
  /\ Close(d_fd[c])
  /\ SetFd(c, NoFd)
  /\ Goto(c, "dead")
  /\ outcome' = [outcome EXCEPT ![c] = "none"]
  /\ UNCHANGED <<wantsBind, acceptVars, d_last_error, app>>

\* connect closes the descriptor of an earlier connect or import first.
Connect(c, hasLocalAddress) ==
  /\ Idle(c)
  /\ Close(d_fd[c])
  /\ SetFd(c, NoFd)
  /\ Goto(c, "socket")
  /\ wantsBind' = [wantsBind EXCEPT ![c] = hasLocalAddress]
  /\ outcome' = [outcome EXCEPT ![c] = "none"]
  /\ UNCHANGED <<acceptVars, d_last_error, app>>

\* Defect: connect reports success whatever bind and connect returned.
ReturnMutantSuccess(c, o) ==
  /\ Goto(c, "idle")
  /\ outcome' = [outcome EXCEPT ![c] = "success"]
  /\ wantsBind' = [wantsBind EXCEPT ![c] = FALSE]

\* connect returns, with an error unless o is "success"; its parameters are gone.
Return(c, o) ==
  /\ Goto(c, "idle")
  /\ outcome' = [outcome EXCEPT ![c] = o]
  /\ wantsBind' = [wantsBind EXCEPT ![c] = FALSE]

\* Defects: the failing call closes the descriptor and leaves d_fd alone, or
\* resets d_fd and leaves the descriptor open.
HandleAfterFailureMutantStale(c) == Close(d_fd[c]) /\ UNCHANGED d_fd
HandleAfterFailureMutantForget(c) == SetFd(c, NoFd) /\ UNCHANGED file

\* The handle after bind or connect failed: the descriptor is kept.
HandleAfterFailure(c) == UNCHANGED <<file, d_fd>>

\* Defect: after socket, connect goes the way of the listen_socket constructor.
AfterSocketMutantListen(c) == IF wantsBind[c] THEN "listen" ELSE "connect"

\* bind is called only for a local address that has a family.
AfterSocket(c) == IF wantsBind[c] THEN "bind" ELSE "connect"

ConnectSocket(c) ==
  /\ pc[c] = "socket"
  /\ \/ \E h \in Fd :
          /\ Allocate(h, "created")
          /\ SetFd(c, h)
          /\ Goto(c, AfterSocket(c))
          /\ UNCHANGED connVars
     \/ /\ SetFd(c, NoFd)
        /\ Return(c, "error")
        /\ UNCHANGED file
  /\ UNCHANGED <<acceptVars, d_last_error, app>>

ConnectBind(c) ==
  /\ pc[c] = "bind"
  /\ \/ /\ Advance(d_fd[c], "bound")
        /\ Goto(c, "connect")
        /\ UNCHANGED <<d_fd, connVars>>
     \/ Return(c, "error") /\ HandleAfterFailure(c)
  /\ UNCHANGED <<acceptVars, d_last_error, app>>

ConnectConnect(c) ==
  /\ pc[c] = "connect"
  /\ \/ /\ Advance(d_fd[c], "connected")
        /\ Return(c, "success")
        /\ UNCHANGED d_fd
     \/ Return(c, "error") /\ HandleAfterFailure(c)
  /\ UNCHANGED <<acceptVars, d_last_error, app>>

\* Defects: import does not close the old descriptor, or closes the new one.
ImportHandleMutantKeep(c, h) == UNCHANGED file /\ SetFd(c, h)
ImportHandleMutantCloseNew(c, h) == Close(h) /\ SetFd(c, h)

\* connected_socket::import: c takes h over and closes what it had.
ImportHandle(c, h) ==
  /\ Close(d_fd[c])
  /\ SetFd(c, h)

-----------------------------------------------------------------------------
(* listen_socket *)

\* Defects: check_result does not store the error, or the constructor goes on
\* to listen after a failure.
CheckFailedMutantSilent(l) == UNCHANGED d_last_error /\ Goto(l, "idle")
CheckFailedMutantGoOn(l) ==
  /\ d_last_error' = [d_last_error EXCEPT ![l] = "constructor"]
  /\ Goto(l, IF pc[l] = "bind" THEN "listen" ELSE "idle")

\* check_result, and the early return from the constructor after a failure.
CheckFailed(l) ==
  /\ d_last_error' = [d_last_error EXCEPT ![l] = "constructor"]
  /\ Goto(l, "idle")

BeginListen(l) ==
  /\ pc[l] = "dead"
  /\ Goto(l, "socket")
  /\ SetFd(l, NoFd)
  /\ d_last_error' = [d_last_error EXCEPT ![l] = "none"]
  /\ UNCHANGED <<file, connVars, acceptVars, app>>

ListenSocket(l) ==
  /\ pc[l] = "socket"
  /\ \/ \E h \in Fd :
          /\ Allocate(h, "created")
          /\ SetFd(l, h)
          /\ Goto(l, "bind")
          /\ UNCHANGED d_last_error
     \/ /\ SetFd(l, NoFd)
        /\ CheckFailed(l)
        /\ UNCHANGED file
  /\ UNCHANGED <<connVars, acceptVars, app>>

ListenBind(l) ==
  /\ pc[l] = "bind"
  /\ \/ Advance(d_fd[l], "bound") /\ Goto(l, "listen") /\ UNCHANGED d_last_error
     \/ CheckFailed(l) /\ UNCHANGED file
  /\ UNCHANGED <<d_fd, connVars, acceptVars, app>>

ListenListen(l) ==
  /\ pc[l] = "listen"
  /\ \/ /\ Advance(d_fd[l], "listening")
        /\ Goto(l, "getsockname")
        /\ UNCHANGED d_last_error
     \/ CheckFailed(l) /\ UNCHANGED file
  /\ UNCHANGED <<d_fd, connVars, acceptVars, app>>

\* The copy of the address is made room for first.  For one that is longer than
\* an address's own bytes the room is allocated, and when that throws the
\* constructor is left: there is no object, so no destructor will run.
ListenThrows(l) ==
  /\ pc[l] = "getsockname"
  /\ Goto(l, "dead")
  /\ SetFd(l, NoFd)
  /\ UNCHANGED <<file, connVars, acceptVars, d_last_error, app>>

ListenGetsockname(l) ==
  /\ pc[l] = "getsockname"
  /\ \/ Goto(l, "idle") /\ UNCHANGED d_last_error
     \/ CheckFailed(l)
  /\ UNCHANGED <<file, d_fd, connVars, acceptVars, app>>

\* ~listen_socket.
DestroyListener(l) ==
  /\ pc[l] = "idle"
  /\ Close(d_fd[l])
  /\ SetFd(l, NoFd)
  /\ Goto(l, "dead")
  /\ d_last_error' = [d_last_error EXCEPT ![l] = "none"]
  /\ UNCHANGED <<connVars, acceptVars, app>>

\* The caller hands socket c to accept; the socket keeps its own descriptor
\* while accept waits.  A listener whose constructor failed may be used too.
Accept(l, c) ==
  /\ pc[l] = "idle"
  /\ Idle(c)
  /\ Goto(l, "accept")
  /\ target' = [target EXCEPT ![l] = c]
  /\ UNCHANGED <<file, d_fd, connVars, fd, d_last_error, app>>

AcceptFails(l) ==
  /\ pc[l] = "accept"
  /\ d_last_error' = [d_last_error EXCEPT ![l] = "accept"]
  /\ Goto(l, "idle")
  /\ target' = [target EXCEPT ![l] = NoConn]
  /\ UNCHANGED <<file, d_fd, connVars, fd, app>>

\* accept is left before the call: there is no room for the peer's address.
\* (A throw after the call finds the descriptor imported and changes no more.)
AcceptThrows(l) ==
  /\ pc[l] = "accept"
  /\ Goto(l, "idle")
  /\ target' = [target EXCEPT ![l] = NoConn]
  /\ UNCHANGED <<file, d_fd, connVars, fd, d_last_error, app>>

\* ::accept returns h: for now only accept's local variable knows it.
AcceptReturns(l) ==
  /\ pc[l] = "accept"
  /\ d_fd[l] \in Fd
  /\ file[d_fd[l]] = "listening"
  /\ \E h \in Fd :
       /\ Allocate(h, "connected")
       /\ fd' = [fd EXCEPT ![l] = h]
  /\ Goto(l, "import")
  /\ UNCHANGED <<d_fd, connVars, target, d_last_error, app>>

AcceptImport(l) ==
  /\ pc[l] = "import"
  /\ ImportHandle(target[l], fd[l])
  /\ Goto(l, "idle")
  /\ outcome' = [outcome EXCEPT ![target[l]] = "none"]
  /\ target' = [target EXCEPT ![l] = NoConn]
  /\ fd' = [fd EXCEPT ![l] = NoFd]
  /\ UNCHANGED <<wantsBind, d_last_error, app>>

-----------------------------------------------------------------------------
(* The application around the library, as the tests use it: it opens and   *)
(* closes descriptors of its own, and gives one away with import.          *)

AppOpen ==
  /\ \E h \in Fd, s \in {"created", "connected"} :
       Allocate(h, s) /\ app' = app \cup {h}
  /\ UNCHANGED <<d_fd, pc, connVars, acceptVars, d_last_error>>

AppClose ==
  /\ \E h \in app : Close(h) /\ app' = app \ {h}
  /\ UNCHANGED <<d_fd, pc, connVars, acceptVars, d_last_error>>

AppImport(c) ==
  /\ Idle(c)
  /\ \E h \in app \cup {NoFd} : ImportHandle(c, h) /\ app' = app \ {h}
  /\ outcome' = [outcome EXCEPT ![c] = "none"]
  /\ UNCHANGED <<pc, wantsBind, acceptVars, d_last_error>>

ConnStep(c) ==
  \/ Construct(c)
  \/ Destroy(c)
  \/ \E b \in BOOLEAN : Connect(c, b)
  \/ ConnectSocket(c)
  \/ ConnectBind(c)
  \/ ConnectConnect(c)
  \/ AppImport(c)

ListenerStep(l) ==
  \/ BeginListen(l)
  \/ ListenSocket(l)
  \/ ListenBind(l)
  \/ ListenListen(l)
  \/ ListenThrows(l)
  \/ ListenGetsockname(l)
  \/ DestroyListener(l)
  \/ \E c \in Conns : Accept(l, c)
  \/ AcceptThrows(l)
  \/ AcceptFails(l)
  \/ AcceptReturns(l)
  \/ AcceptImport(l)

Next ==
  \/ \E c \in Conns : ConnStep(c)
  \/ \E l \in Listeners : ListenerStep(l)
  \/ AppOpen
  \/ AppClose

Spec == Init /\ [][Next]_vars

-----------------------------------------------------------------------------
(* Properties *)

\* What each owner is responsible for: an object for its d_fd (~connected_socket
\* and ~listen_socket close it), a running accept for its local fd.
Owner ==
  ({"object"} \X Objects) \cup ({"call"} \X Listeners) \cup {<<"app", "app">>}

Handle(h) == {h} \ {NoFd}

Holds ==
  [o \in Owner |->
     CASE o[1] = "object" -> Handle(d_fd[o[2]])
       [] o[1] = "call"   -> Handle(fd[o[2]])
       [] o[1] = "app"    -> app]

\* A descriptor number is in the hands of one object, accept call or the
\* application only, although the process reuses the numbers that any thread
\* closes: otherwise one session would read and close another one's socket.
ExclusiveOwnership ==
  \A o, p \in Owner : o # p => Holds[o] \cap Holds[p] = {}

\* The d_fd of an object is -1 or open: closing in one object, in connect, in
\* import, in a destructor, never leaves a closed number in another.
NoDanglingHandle == \A o \in Owner : Holds[o] \subseteq Open

\* The descriptors that are open and that nobody will ever close.
Lost == Open \ UNION {Holds[o] : o \in Owner}

\* A descriptor is lost only when a listen_socket's constructor throws after
\* listen, and then just its own: failures of bind, listen, connect and accept,
\* reconnects, imports over an old socket and a throw in accept lose none.
LostOnlyByThrow ==
  [][Lost' # Lost =>
       \E l \in Listeners :
         /\ pc[l] = "getsockname" /\ pc'[l] = "dead"
         /\ Lost' = Lost \cup {d_fd[l]}]_vars

\* Each bind, connect, listen and getsockname is made on this object's own
\* descriptor, in the state its earlier calls left it in, whatever the other
\* threads opened and closed meanwhile.
CallsInOrder ==
  \A o \in Objects :
    pc[o] \in {"bind", "connect", "listen", "getsockname"} =>
      /\ d_fd[o] \in Fd
      /\ file[d_fd[o]] = CASE pc[o] = "bind"        -> "created"
                           [] pc[o] = "listen"      -> "bound"
                           [] pc[o] = "getsockname" -> "listening"
                           [] pc[o] = "connect" ->
                                IF wantsBind[o] THEN "bound" ELSE "created"

\* okay() of a constructed listener means that it listens (echoserver.cpp tests
\* it once and then accepts for ever).
ListenerOkay ==
  \A l \in Listeners :
    pc[l] \in {"idle", "accept", "import"} /\ d_last_error[l] = "none" =>
      d_fd[l] \in Fd /\ file[d_fd[l]] = "listening"

\* After connect returned success, the socket stays a connected one until it is
\* destroyed, reconnected or imported into.
ConnectTruthful ==
  \A c \in Conns :
    outcome[c] = "success" => d_fd[c] \in Fd /\ file[d_fd[c]] = "connected"

\* Every step is one that the abstract ownership allows: one owner gets a new
\* descriptor, closes its own or passes one on, and only a listener loses one.
Ownership ==
  INSTANCE DescriptorOwnership
    WITH open <- Open, holds <- Holds, Losers <- {"object"} \X Listeners

ImplementsOwnership == Ownership!Spec

\* After an accept that got a connection the listener does not report that an
\* accept failed: error() is "the current error condition" (listen_socket.h:76)
\* and the listener compares to true (listen_socket.t.cpp:115, 139).
ErrorIsCurrent ==
  [][\A l \in Listeners :
       pc[l] = "import" /\ pc'[l] = "idle" => d_last_error'[l] # "accept"]_vars
=============================================================================
