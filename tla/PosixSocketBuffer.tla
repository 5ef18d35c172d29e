-------------------------- MODULE PosixSocketBuffer --------------------------
(***************************************************************************)
(* The descriptors of syd::net::posix_socket_buffer, which unites connect, *)
(* listen and accept in one class and reports each failure as the call's   *)
(* result.  As in SocketHandles, a step is one system call with the        *)
(* computation around it and an object is used by one thread at a time.    *)
(***************************************************************************)
EXTENDS DescriptorTable

CONSTANTS Sockets,    \* posix_socket_buffer objects
          NoSocket    \* the target of a socket with no accept running

ASSUME SocketsAssumption == NoSocket \notin Sockets

VARIABLES d_fd,      \* the member d_fd
          pc,        \* the system call each object is about to make
          wantsBind, \* the running connect got a local address
          state,     \* what the last call that returned says the socket is
          target,    \* the socket a running accept was given
          fd         \* accept's local variable fd

acceptVars == <<target, fd>>
vars == <<file, d_fd, pc, wantsBind, state, acceptVars>>

PC == {"dead", "idle", "connect:socket", "connect:bind", "connect:connect",
       "listen:socket", "listen:bind", "listen:listen", "accept", "import"}

\* Every variable holds a value of its C++ type, and accept's locals are set
\* exactly while it runs.
TypeOK ==
  /\ FileTypeOK
  /\ d_fd \in [Sockets -> Fd \cup {NoFd}]
  /\ pc \in [Sockets -> PC]
  /\ wantsBind \in [Sockets -> BOOLEAN]
  /\ state \in [Sockets -> {"unknown", "connected", "listening"}]
  /\ target \in [Sockets -> Sockets \cup {NoSocket}]
  /\ fd \in [Sockets -> Fd \cup {NoFd}]
  /\ \A s \in Sockets :
       /\ target[s] # NoSocket <=> pc[s] \in {"accept", "import"}
       /\ fd[s] # NoFd <=> pc[s] = "import"

Init ==
  /\ FileInit
  /\ d_fd = [s \in Sockets |-> NoFd]
  /\ pc = [s \in Sockets |-> "dead"]
  /\ wantsBind = [s \in Sockets |-> FALSE]
  /\ state = [s \in Sockets |-> "unknown"]
  /\ target = [s \in Sockets |-> NoSocket]
  /\ fd = [s \in Sockets |-> NoFd]

\* s has been constructed, and no method of it or on it is running.
Idle(s) == pc[s] = "idle" /\ \A t \in Sockets : target[t] # s

Goto(s, p) == pc' = [pc EXCEPT ![s] = p]

SetFd(s, h) == d_fd' = [d_fd EXCEPT ![s] = h]

Become(s, st) == state' = [state EXCEPT ![s] = st]

\* ::socket: the result goes to d_fd whatever d_fd was, and -1 ends the method.
OpenSocket(s, next) ==
  /\ \/ \E h \in Fd : Allocate(h, "created") /\ SetFd(s, h) /\ Goto(s, next)
     \/ SetFd(s, NoFd) /\ Goto(s, "idle") /\ UNCHANGED file
  /\ UNCHANGED <<wantsBind, state, acceptVars>>

\* Defect: a failing bind, listen or connect closes d_fd and does not reset it.
FailMutantClose(s) == Close(d_fd[s]) /\ Goto(s, "idle")

\* bind, listen or connect failed: the method returns, d_fd stays open.
Fail(s) == UNCHANGED file /\ Goto(s, "idle")

\* A call on d_fd that is not the last one of its method.
TryMiddle(s, st, next) ==
  /\ \/ Advance(d_fd[s], st) /\ Goto(s, next)
     \/ Fail(s)
  /\ UNCHANGED <<d_fd, wantsBind, state, acceptVars>>

\* The last call of a method, which returns no error if it succeeds.
TryLast(s, st) ==
  /\ \/ Advance(d_fd[s], st) /\ Become(s, st) /\ Goto(s, "idle")
     \/ Fail(s) /\ UNCHANGED state
  /\ UNCHANGED <<d_fd, wantsBind, acceptVars>>

-----------------------------------------------------------------------------
Construct(s) ==
  /\ pc[s] = "dead"
  /\ Goto(s, "idle")
  /\ UNCHANGED <<file, d_fd, wantsBind, state, acceptVars>>

Destroy(s) ==
  /\ Idle(s)
  /\ Close(d_fd[s])
  /\ SetFd(s, NoFd)
  /\ Goto(s, "dead")
  /\ Become(s, "unknown")
  /\ UNCHANGED <<wantsBind, acceptVars>>

\* connect closes the descriptor of an earlier connect, listen or accept.
Connect(s, hasLocalAddress) ==
  /\ Idle(s)
  /\ Close(d_fd[s])
  /\ SetFd(s, NoFd)
  /\ Goto(s, "connect:socket")
  /\ wantsBind' = [wantsBind EXCEPT ![s] = hasLocalAddress]
  /\ Become(s, "unknown")
  /\ UNCHANGED acceptVars

ConnectSocket(s) ==
  /\ pc[s] = "connect:socket"
  /\ OpenSocket(s, IF wantsBind[s] THEN "connect:bind" ELSE "connect:connect")

ConnectBind(s) ==
  /\ pc[s] = "connect:bind"
  /\ TryMiddle(s, "bound", "connect:connect")

ConnectConnect(s) ==
  /\ pc[s] = "connect:connect"
  /\ TryLast(s, "connected")

\* listen, unlike connect, starts with ::socket and closes nothing.
Listen(s) ==
  /\ Idle(s)
  /\ Goto(s, "listen:socket")
  /\ Become(s, "unknown")
  /\ UNCHANGED <<file, d_fd, wantsBind, acceptVars>>

ListenSocket(s) == pc[s] = "listen:socket" /\ OpenSocket(s, "listen:bind")

ListenBind(s) ==
  /\ pc[s] = "listen:bind"
  /\ TryMiddle(s, "bound", "listen:listen")

\* Defect: listen returns after bind, before it called ::listen.
ListenListenMutantSkip(s) ==
  /\ pc[s] = "listen:listen"
  /\ Become(s, "listening")
  /\ Goto(s, "idle")
  /\ UNCHANGED <<file, d_fd, wantsBind, acceptVars>>

ListenListen(s) == pc[s] = "listen:listen" /\ TryLast(s, "listening")

\* accept on s into t, which may be s itself.
Accept(s, t) ==
  /\ Idle(s)
  /\ Idle(t)
  /\ Goto(s, "accept")
  /\ target' = [target EXCEPT ![s] = t]
  /\ UNCHANGED <<file, d_fd, wantsBind, state, fd>>

\* Defect: accept imports the result although it is -1.
AcceptFailsMutantGoOn(s) ==
  /\ pc[s] = "accept"
  /\ Goto(s, "import")
  /\ UNCHANGED <<file, d_fd, wantsBind, state, acceptVars>>

AcceptFails(s) ==
  /\ pc[s] = "accept"
  /\ Goto(s, "idle")
  /\ target' = [target EXCEPT ![s] = NoSocket]
  /\ UNCHANGED <<file, d_fd, wantsBind, state, fd>>

AcceptReturns(s) ==
  /\ pc[s] = "accept"
  /\ d_fd[s] \in Fd
  /\ file[d_fd[s]] = "listening"
  /\ \E h \in Fd :
       /\ Allocate(h, "connected")
       /\ fd' = [fd EXCEPT ![s] = h]
  /\ Goto(s, "import")
  /\ UNCHANGED <<d_fd, wantsBind, state, target>>

\* Defects: import keeps the old descriptor open, or keeps the old number.
ImportMutantKeep(t, h) == UNCHANGED file /\ SetFd(t, h)
ImportMutantNoSet(t, h) == Close(d_fd[t]) /\ UNCHANGED d_fd

\* posix_socket_buffer::import.
Import(t, h) == Close(d_fd[t]) /\ SetFd(t, h)

AcceptImport(s) ==
  /\ pc[s] = "import"
  /\ Import(target[s], fd[s])
  /\ Goto(s, "idle")
  /\ Become(target[s], "connected")
  /\ target' = [target EXCEPT ![s] = NoSocket]
  /\ fd' = [fd EXCEPT ![s] = NoFd]
  /\ UNCHANGED wantsBind

Next ==
  \E s \in Sockets :
    \/ Construct(s)
    \/ Destroy(s)
    \/ \E b \in BOOLEAN : Connect(s, b)
    \/ ConnectSocket(s)
    \/ ConnectBind(s)
    \/ ConnectConnect(s)
    \/ Listen(s)
    \/ ListenSocket(s)
    \/ ListenBind(s)
    \/ ListenListen(s)
    \/ \E t \in Sockets : Accept(s, t)
    \/ AcceptFails(s)
    \/ AcceptReturns(s)
    \/ AcceptImport(s)

Spec == Init /\ [][Next]_vars

-----------------------------------------------------------------------------
(* Properties *)

\* The objects and running accept calls, and what each will close.
Owner == {"object", "call"} \X Sockets

Holds ==
  [o \in Owner |->
     (IF o[1] = "object" THEN {d_fd[o[2]]} ELSE {fd[o[2]]}) \ {NoFd}]

Held == UNION {Holds[o] : o \in Owner}

\* No two objects close the same descriptor, and none uses one that another
\* thread has closed and the process has given out again.
ExclusiveOpen ==
  /\ Held \subseteq Open
  /\ \A o, p \in Owner : o # p => Holds[o] \cap Holds[p] = {}

\* A method that returned no error tells the truth about the socket until the
\* next call on it: connected after connect and for accept's target (accepting
\* into the listening socket itself included), listening after listen.
ResultTruthful ==
  \A s \in Sockets :
    state[s] # "unknown" => d_fd[s] \in Fd /\ file[d_fd[s]] = state[s]

\* Descriptors that are open and that no destructor will close.
Lost == Open \ Held

\* Only listen loses descriptors, and it loses just the one d_fd had: not the
\* failure paths, the reconnects or the accepts over an open target.
LostOnlyByListen ==
  [][Lost' # Lost =>
       \E s \in Sockets :
         pc[s] = "listen:socket" /\ Lost' = Lost \cup {d_fd[s]}]_vars
=============================================================================
