------------------------- MODULE SocketHandlesProofs -------------------------
(***************************************************************************)
(* Theorems about SocketHandles for any number of sockets, listeners and   *)
(* descriptors.  The inductive invariant ties what an object holds to the  *)
(* system call it is about to make; with it every step is a step of        *)
(* DescriptorOwnership, whose theorems then give the ownership properties. *)
(***************************************************************************)
EXTENDS SocketHandles, TLAPS

\* What holds of an object between its system calls: an object that is dead or
\* about to call socket has no descriptor and one that is about to make a call
\* on its descriptor has one, a connect that runs has no outcome
\* and binds only if it was given a local address, the locals of accept are set
\* exactly while accept runs, and nobody else uses the socket it was given.
PCInv ==
  /\ \A o \in Objects :
       /\ pc[o] \in {"dead", "socket"} => d_fd[o] = NoFd
       /\ pc[o] \in {"bind", "connect", "listen", "getsockname"} => d_fd[o] \in Fd
  /\ \A c \in Conns :
       /\ pc[c] \in {"dead", "socket", "bind", "connect"} => outcome[c] = "none"
       /\ pc[c] = "bind" => wantsBind[c]
  /\ \A l \in Listeners :
       /\ pc[l] \in {"accept", "import"} <=> target[l] \in Conns
       /\ pc[l] = "import" <=> fd[l] \in Fd
       /\ target[l] \in Conns => pc[target[l]] = "idle"

IInv == TypeOK /\ PCInv

USE NoFdAssumption, ObjectsAssumption

\* The invariant holds when no object has been constructed.
LEMMA InitIInv == Init => IInv
BY DEF Init, IInv, TypeOK, PCInv, FileInit, FileTypeOK, SocketState, Objects,
       ConnPC, ListenPC

\* What a returning connect does, as far as the types need it.
LEMMA ReturnEffect ==
  ASSUME wantsBind \in [Conns -> BOOLEAN], NEW c \in Conns, NEW o, Return(c, o)
  PROVE  /\ wantsBind' \in [Conns -> BOOLEAN]
         /\ Goto(c, "idle")
         /\ outcome' = [outcome EXCEPT ![c] = o]
<1>1. wantsBind' = [wantsBind EXCEPT ![c] = FALSE]
  BY DEF Return
<1>2. wantsBind' \in [Conns -> BOOLEAN]
  BY <1>1, Zenon
<1> QED
  BY <1>2 DEF Return

\* Each step of a connected_socket keeps the invariant.
LEMMA ConnKeepsIInv ==
  ASSUME IInv, NEW c \in Conns, ConnStep(c)
  PROVE  IInv'
<1> USE DEF IInv, TypeOK, PCInv, FileTypeOK, SocketState, Objects, ConnPC,
            ListenPC, Close, Goto, SetFd, connVars, acceptVars
<1>1. CASE Construct(c)
  BY <1>1 DEF Construct
<1>2. CASE Destroy(c)
  BY <1>2 DEF Destroy, Idle
<1>3. ASSUME NEW b \in BOOLEAN, Connect(c, b)
      PROVE  IInv'
  BY <1>3 DEF Connect, Idle
<1>4. CASE ConnectSocket(c)
  <2>1. TypeOK'
    BY <1>4, ReturnEffect DEF ConnectSocket, Allocate, AfterSocket
  <2>2. PCInv'
    BY <1>4 DEF ConnectSocket, Allocate, AfterSocket, Return
  <2> QED
    BY <2>1, <2>2
<1>5. CASE ConnectBind(c)
  <2>1. TypeOK'
    BY <1>5, ReturnEffect DEF ConnectBind, Advance, HandleAfterFailure
  <2>2. PCInv'
    BY <1>5 DEF ConnectBind, Advance, Return, HandleAfterFailure
  <2> QED
    BY <2>1, <2>2
<1>6. CASE ConnectConnect(c)
  <2>1. TypeOK'
    BY <1>6, ReturnEffect DEF ConnectConnect, Advance, HandleAfterFailure
  <2>2. PCInv'
    BY <1>6 DEF ConnectConnect, Advance, Return, HandleAfterFailure
  <2> QED
    BY <2>1, <2>2
<1>7. CASE AppImport(c)
  BY <1>7 DEF AppImport, ImportHandle, Idle
<1> QED
  BY <1>1, <1>2, <1>3, <1>4, <1>5, <1>6, <1>7 DEF ConnStep

\* Each step of a listen_socket keeps the invariant.
LEMMA ListenerKeepsIInv ==
  ASSUME IInv, NEW l \in Listeners, ListenerStep(l)
  PROVE  IInv'
<1> USE DEF IInv, TypeOK, PCInv, FileTypeOK, SocketState, Objects, ConnPC,
            ListenPC, Close, Goto, SetFd, connVars, acceptVars
<1>1. CASE BeginListen(l)
  BY <1>1 DEF BeginListen
<1>2. CASE ListenSocket(l)
  BY <1>2 DEF ListenSocket, Allocate, CheckFailed
<1>3. CASE ListenBind(l)
  BY <1>3 DEF ListenBind, Advance, CheckFailed
<1>4. CASE ListenListen(l)
  BY <1>4 DEF ListenListen, Advance, CheckFailed
<1>5. CASE ListenGetsockname(l)
  BY <1>5 DEF ListenGetsockname, CheckFailed
<1>6. CASE DestroyListener(l)
  BY <1>6 DEF DestroyListener
<1>7. ASSUME NEW c \in Conns, Accept(l, c)
      PROVE  IInv'
  BY <1>7 DEF Accept, Idle
<1>8. CASE AcceptFails(l)
  BY <1>8 DEF AcceptFails
<1>9. CASE AcceptReturns(l)
  BY <1>9 DEF AcceptReturns, Allocate
<1>10. CASE AcceptImport(l)
  BY <1>10 DEF AcceptImport, ImportHandle
<1>11. CASE ListenThrows(l)
  BY <1>11 DEF ListenThrows
<1>12. CASE AcceptThrows(l)
  BY <1>12 DEF AcceptThrows
<1> QED
  BY <1>1, <1>2, <1>3, <1>4, <1>5, <1>6, <1>7, <1>8, <1>9, <1>10, <1>11, <1>12
     DEF ListenerStep

\* Each step of any thread keeps the invariant.
LEMMA NextKeepsIInv == IInv /\ [Next]_vars => IInv'
<1> SUFFICES ASSUME IInv, [Next]_vars PROVE IInv'
  OBVIOUS
<1>1. CASE AppOpen
  BY <1>1 DEF AppOpen, IInv, TypeOK, PCInv, FileTypeOK, SocketState, Allocate,
              connVars, acceptVars
<1>2. CASE AppClose
  BY <1>2 DEF AppClose, IInv, TypeOK, PCInv, FileTypeOK, SocketState, Close,
              connVars, acceptVars
<1>3. CASE UNCHANGED vars
  BY <1>3 DEF vars, IInv, TypeOK, PCInv, FileTypeOK, connVars, acceptVars
<1> QED
  BY <1>1, <1>2, <1>3, ConnKeepsIInv, ListenerKeepsIInv DEF Next

\* The members keep their types, an object makes only its class's calls, and the
\* locals of accept are set exactly while it runs.
THEOREM Invariance == Spec => []IInv
BY InitIInv, NextKeepsIInv, PTL DEF Spec

\* In particular the type invariant of SocketHandles.
THEOREM TypeCorrect == Spec => []TypeOK
<1>1. IInv => TypeOK
  BY DEF IInv
<1> QED
  BY <1>1, Invariance, PTL

-----------------------------------------------------------------------------
(* How Holds changes with the variables it is defined from. *)

\* The objects, the accept calls and the application are the owners.
LEMMA OwnerElements ==
  /\ \A o \in Objects : <<"object", o>> \in Owner
  /\ \A l \in Listeners : <<"call", l>> \in Owner
  /\ <<"app", "app">> \in Owner
BY DEF Owner

\* There are no other owners.
LEMMA OwnerCases ==
  ASSUME NEW w \in Owner
  PROVE  \/ \E o \in Objects : w = <<"object", o>>
         \/ \E l \in Listeners : w = <<"call", l>>
         \/ w = <<"app", "app">>
BY DEF Owner

\* What each kind of owner holds.
LEMMA HoldsValues ==
  /\ \A o \in Objects : Holds[<<"object", o>>] = Handle(d_fd[o])
  /\ \A l \in Listeners : Holds[<<"call", l>>] = Handle(fd[l])
  /\ Holds[<<"app", "app">>] = app
BY OwnerElements DEF Holds

\* To show what Holds becomes it is enough to compare it owner by owner.
LEMMA HoldsNext ==
  ASSUME NEW H, H = [w \in Owner |-> H[w]],
         \A o \in Objects : H[<<"object", o>>] = Handle(d_fd'[o]),
         \A l \in Listeners : H[<<"call", l>>] = Handle(fd'[l]),
         H[<<"app", "app">>] = app'
  PROVE  Holds' = H
<1>1. /\ \A o \in Objects : Holds'[<<"object", o>>] = Handle(d_fd'[o])
      /\ \A l \in Listeners : Holds'[<<"call", l>>] = Handle(fd'[l])
      /\ Holds'[<<"app", "app">>] = app'
  BY OwnerElements DEF Holds, Handle, Owner
<1>2. Holds' = [w \in Owner |-> Holds'[w]]
  BY DEF Holds, Owner
<1>3. \A w \in Owner : Holds'[w] = H[w]
  BY <1>1, OwnerCases
<1> QED
  BY <1>2, <1>3

\* Holds is the function of its values.
LEMMA HoldsFunction == Holds = [w \in Owner |-> Holds[w]]
BY DEF Holds, Owner

\* Holds changes only with d_fd, accept's fd and app.
LEMMA HoldsUnchanged ==
  ASSUME UNCHANGED <<d_fd, fd, app>>
  PROVE  Holds' = Holds
<1>1. /\ \A o \in Objects : Holds[<<"object", o>>] = Handle(d_fd'[o])
      /\ \A l \in Listeners : Holds[<<"call", l>>] = Handle(fd'[l])
      /\ Holds[<<"app", "app">>] = app'
  BY HoldsValues
<1> QED
  BY <1>1, HoldsFunction, HoldsNext

\* Assigning one d_fd changes what that object holds.
LEMMA HoldsObject ==
  ASSUME IInv, NEW o \in Objects, NEW h, SetFd(o, h), UNCHANGED <<fd, app>>
  PROVE  Holds' = [Holds EXCEPT ![<<"object", o>>] = Handle(h)]
<1> DEFINE H == [Holds EXCEPT ![<<"object", o>>] = Handle(h)]
<1>1. H = [w \in Owner |-> H[w]]
  BY HoldsFunction
<1>2. /\ \A q \in Objects : H[<<"object", q>>] = Handle(d_fd'[q])
      /\ \A l \in Listeners : H[<<"call", l>>] = Handle(fd'[l])
      /\ H[<<"app", "app">>] = app'
  BY HoldsFunction, HoldsValues, OwnerElements DEF IInv, TypeOK, SetFd
<1> HIDE DEF H
<1>3. Holds' = H
  BY <1>1, <1>2, HoldsNext
<1> QED
  BY <1>3 DEF H

\* Assigning accept's fd changes what that call holds.
LEMMA HoldsCall ==
  ASSUME IInv, NEW l \in Listeners, NEW h \in Fd,
         fd' = [fd EXCEPT ![l] = h], UNCHANGED <<d_fd, app>>
  PROVE  Holds' = [Holds EXCEPT ![<<"call", l>>] = Handle(h)]
<1> DEFINE H == [Holds EXCEPT ![<<"call", l>>] = Handle(h)]
<1>1. H = [w \in Owner |-> H[w]]
  BY HoldsFunction
<1>2. /\ \A q \in Objects : H[<<"object", q>>] = Handle(d_fd'[q])
      /\ \A m \in Listeners : H[<<"call", m>>] = Handle(fd'[m])
      /\ H[<<"app", "app">>] = app'
  BY HoldsFunction, HoldsValues, OwnerElements DEF IInv, TypeOK
<1> HIDE DEF H
<1>3. Holds' = H
  BY <1>1, <1>2, HoldsNext
<1> QED
  BY <1>3 DEF H

\* What the application holds is app.
LEMMA HoldsApp ==
  ASSUME NEW S, app' = S, UNCHANGED <<d_fd, fd>>
  PROVE  Holds' = [Holds EXCEPT ![<<"app", "app">>] = S]
<1> DEFINE H == [Holds EXCEPT ![<<"app", "app">>] = S]
<1>1. H = [w \in Owner |-> H[w]]
  BY HoldsFunction
<1>2. /\ \A q \in Objects : H[<<"object", q>>] = Handle(d_fd'[q])
      /\ \A m \in Listeners : H[<<"call", m>>] = Handle(fd'[m])
      /\ H[<<"app", "app">>] = app'
  BY HoldsFunction, HoldsValues, OwnerElements
<1> HIDE DEF H
<1>3. Holds' = H
  BY <1>1, <1>2, HoldsNext
<1> QED
  BY <1>3 DEF H

\* import by an accept: the descriptor moves from the call to the socket.
LEMMA HoldsImport ==
  ASSUME IInv, NEW l \in Listeners, NEW c \in Conns, fd[l] \in Fd,
         SetFd(c, fd[l]), fd' = [fd EXCEPT ![l] = NoFd], UNCHANGED app
  PROVE  Holds' = [Holds EXCEPT ![<<"call", l>>] = @ \ {fd[l]},
                                ![<<"object", c>>] = {fd[l]}]
<1> DEFINE H == [Holds EXCEPT ![<<"call", l>>] = @ \ {fd[l]},
                              ![<<"object", c>>] = {fd[l]}]
<1>1. H = [w \in Owner |-> H[w]]
  BY HoldsFunction
<1>2. \A q \in Objects : H[<<"object", q>>] = Handle(d_fd'[q])
  BY HoldsFunction, HoldsValues, OwnerElements
     DEF IInv, TypeOK, SetFd, Handle, Objects
<1>3. \A m \in Listeners : H[<<"call", m>>] = Handle(fd'[m])
  BY HoldsFunction, HoldsValues, OwnerElements DEF IInv, TypeOK, Handle
<1>4. H[<<"app", "app">>] = app'
  BY HoldsFunction, HoldsValues, OwnerElements
<1> HIDE DEF H
<1>5. Holds' = H
  BY <1>1, <1>2, <1>3, <1>4, HoldsNext
<1> QED
  BY <1>5 DEF H

\* import by the application: the descriptor moves from it to the socket.
LEMMA HoldsAppImport ==
  ASSUME IInv, NEW c \in Conns, NEW h \in Fd, SetFd(c, h),
         app' = app \ {h}, UNCHANGED fd
  PROVE  Holds' = [Holds EXCEPT ![<<"app", "app">>] = @ \ {h},
                                ![<<"object", c>>] = {h}]
<1> DEFINE H == [Holds EXCEPT ![<<"app", "app">>] = @ \ {h},
                              ![<<"object", c>>] = {h}]
<1>1. H = [w \in Owner |-> H[w]]
  BY HoldsFunction
<1>2. \A q \in Objects : H[<<"object", q>>] = Handle(d_fd'[q])
  BY HoldsFunction, HoldsValues, OwnerElements
     DEF IInv, TypeOK, SetFd, Handle, Objects
<1>3. /\ \A m \in Listeners : H[<<"call", m>>] = Handle(fd'[m])
      /\ H[<<"app", "app">>] = app'
  BY HoldsFunction, HoldsValues, OwnerElements
<1> HIDE DEF H
<1>4. Holds' = H
  BY <1>1, <1>2, <1>3, HoldsNext
<1> QED
  BY <1>4 DEF H

(* How Open changes with the calls on the descriptor table. *)

\* A new descriptor is one that was not open.
LEMMA OpenAllocate ==
  ASSUME IInv, NEW h \in Fd, NEW s \in SocketState \ {"free"}, Allocate(h, s)
  PROVE  h \notin Open /\ Open' = Open \cup {h}
BY DEF IInv, TypeOK, FileTypeOK, Allocate, Open

\* close removes its argument from the open descriptors, -1 none.
LEMMA OpenClose ==
  ASSUME NEW h, Close(h)
  PROVE  Open' = Open \ {h}
BY DEF Close, Open

\* bind, listen and connect open and close nothing.
LEMMA OpenAdvance ==
  ASSUME IInv, NEW h, NEW s \in SocketState \ {"free"}, Advance(h, s)
  PROVE  Open' = Open
BY DEF IInv, TypeOK, FileTypeOK, Advance, Open, SocketState

-----------------------------------------------------------------------------
(* Each way to change the table and a handle is a step of the abstract     *)
(* specification.                                                          *)

\* A step that leaves Open and Holds alone is a stutter of the abstract one.
LEMMA StutterStep ==
  ASSUME UNCHANGED <<file, d_fd, fd, app>>
  PROVE  UNCHANGED Ownership!vars
BY HoldsUnchanged DEF Ownership!vars, Open

\* A system call on an object's open descriptor changes its state only.
LEMMA AdvanceStep ==
  ASSUME IInv, NEW h, NEW s \in SocketState \ {"free"}, Advance(h, s),
         UNCHANGED <<d_fd, fd, app>>
  PROVE  UNCHANGED Ownership!vars
BY HoldsUnchanged, OpenAdvance DEF Ownership!vars

\* socket in a connect or a listen_socket constructor.
LEMMA AcquireStep ==
  ASSUME IInv, NEW o \in Objects, NEW h \in Fd, NEW s \in SocketState \ {"free"},
         d_fd[o] = NoFd, Allocate(h, s), SetFd(o, h), UNCHANGED <<fd, app>>
  PROVE  Ownership!Managed
<1>1. Holds' = [Holds EXCEPT ![<<"object", o>>] = @ \cup {h}]
  BY HoldsObject, HoldsValues DEF Handle
<1> QED
  BY <1>1, OpenAllocate, OwnerElements DEF Ownership!Managed, Ownership!Acquire

\* An object closes its descriptor, if it has one, and takes no other.
LEMMA ReleaseStep ==
  ASSUME IInv, NEW o \in Objects, Close(d_fd[o]), SetFd(o, NoFd),
         UNCHANGED <<fd, app>>
  PROVE  [Ownership!Managed]_(Ownership!vars)
<1>1. CASE d_fd[o] = NoFd
  <2>1. UNCHANGED file /\ UNCHANGED d_fd
    BY <1>1 DEF Close, SetFd, IInv, TypeOK, FileTypeOK
  <2> QED
    BY <2>1, StutterStep
<1>2. CASE d_fd[o] \in Fd
  <2>1. Holds[<<"object", o>>] = {d_fd[o]}
    BY <1>2, HoldsValues DEF Handle
  <2>2. Holds' = [Holds EXCEPT ![<<"object", o>>] = @ \ {d_fd[o]}]
    BY <2>1, HoldsObject DEF Handle
  <2> QED
    BY <1>2, <2>1, <2>2, OpenClose, OwnerElements
       DEF Ownership!Managed, Ownership!Release
<1> QED
  BY <1>1, <1>2 DEF IInv, TypeOK

\* import closes what socket c had and takes over the descriptor p held.
LEMMA TransferStep ==
  ASSUME IInv, NEW c \in Conns, NEW p \in Owner, NEW h \in Holds[p] \cap Fd,
         p # <<"object", c>>, Close(d_fd[c]),
         Holds' = [Holds EXCEPT ![p] = @ \ {h}, ![<<"object", c>>] = {h}]
  PROVE  Ownership!Managed
<1>1. Holds[<<"object", c>>] = Handle(d_fd[c])
  BY HoldsValues DEF Objects
<1>2. Open' = Open \ {d_fd[c]}
  BY OpenClose
<1>3. Open' = Open \ Holds[<<"object", c>>]
  BY <1>1, <1>2 DEF Handle, Open
<1> QED
  BY <1>3, OwnerElements DEF Ownership!Managed, Ownership!Transfer, Objects

\* Each step of a connected_socket is one of the abstract specification.
LEMMA ConnRefines ==
  ASSUME IInv, NEW c \in Conns, ConnStep(c)
  PROVE  [Ownership!Managed]_(Ownership!vars)
<1> USE DEF Objects
<1>0. IInv /\ c \in Objects
  OBVIOUS
<1>1. CASE Construct(c)
  BY <1>1, StutterStep DEF Construct, SetFd, IInv, TypeOK, PCInv, acceptVars
<1>2. CASE Destroy(c)
  BY <1>2, ReleaseStep DEF Destroy, acceptVars
<1>3. ASSUME NEW b \in BOOLEAN, Connect(c, b)
      PROVE  [Ownership!Managed]_(Ownership!vars)
  BY <1>3, ReleaseStep DEF Connect, acceptVars
<1>4. CASE ConnectSocket(c)
  <2>1. d_fd[c] = NoFd
    BY <1>4 DEF ConnectSocket, IInv, PCInv
  <2>2. ASSUME NEW h \in Fd, Allocate(h, "created"), SetFd(c, h),
               UNCHANGED <<fd, app>>
        PROVE  Ownership!Managed
    BY <2>1, <2>2, AcquireStep DEF SocketState
  <2>3. ASSUME SetFd(c, NoFd), UNCHANGED <<file, fd, app>>
        PROVE  UNCHANGED Ownership!vars
    <3>1. UNCHANGED d_fd
      BY <2>1, <2>3 DEF SetFd, IInv, TypeOK
    <3> QED
      BY <2>3, <3>1, StutterStep
  <2> QED
    BY <1>4, <2>2, <2>3 DEF ConnectSocket, acceptVars
<1>5. CASE ConnectBind(c)
  BY <1>5, AdvanceStep, StutterStep
     DEF ConnectBind, HandleAfterFailure, SocketState, acceptVars
<1>6. CASE ConnectConnect(c)
  BY <1>6, AdvanceStep, StutterStep
     DEF ConnectConnect, HandleAfterFailure, SocketState, acceptVars
<1>7. CASE AppImport(c)
  <2> PICK h \in app \cup {NoFd} : ImportHandle(c, h) /\ app' = app \ {h}
    BY <1>7 DEF AppImport
  <2>1. UNCHANGED fd
    BY <1>7 DEF AppImport, acceptVars
  <2>2. CASE h = NoFd
    <3>1. UNCHANGED app
      BY <2>2 DEF IInv, TypeOK
    <3> QED
      BY <2>1, <2>2, <3>1, ReleaseStep DEF ImportHandle
  <2>3. CASE h \in app
    <3>1. h \in Fd /\ h \in Holds[<<"app", "app">>]
      BY <2>3, HoldsValues DEF IInv, TypeOK
    <3>2. Holds' = [Holds EXCEPT ![<<"app", "app">>] = @ \ {h},
                                 ![<<"object", c>>] = {h}]
      BY <2>1, <3>1, HoldsAppImport DEF ImportHandle
    <3> QED
      BY <3>1, <3>2, OwnerElements, TransferStep DEF ImportHandle
  <2> QED
    BY <2>2, <2>3
<1> QED
  BY <1>1, <1>2, <1>3, <1>4, <1>5, <1>6, <1>7 DEF ConnStep

\* Each step of a listen_socket but one is one of the abstract specification in
\* which nothing is lost.
LEMMA ListenerRefines ==
  ASSUME IInv, NEW l \in Listeners, ListenerStep(l), ~ListenThrows(l)
  PROVE  [Ownership!Managed]_(Ownership!vars)
<1> USE DEF Objects
<1>1. CASE BeginListen(l)
  BY <1>1, StutterStep DEF BeginListen, SetFd, IInv, TypeOK, PCInv, acceptVars
<1>2. CASE ListenSocket(l)
  <2>1. d_fd[l] = NoFd
    BY <1>2 DEF ListenSocket, IInv, PCInv
  <2>2. ASSUME NEW h \in Fd, Allocate(h, "created"), SetFd(l, h),
               UNCHANGED <<fd, app>>
        PROVE  Ownership!Managed
    BY <2>1, <2>2, AcquireStep DEF SocketState
  <2>3. ASSUME SetFd(l, NoFd), UNCHANGED <<file, fd, app>>
        PROVE  UNCHANGED Ownership!vars
    <3>1. UNCHANGED d_fd
      BY <2>1, <2>3 DEF SetFd, IInv, TypeOK
    <3> QED
      BY <2>3, <3>1, StutterStep
  <2> QED
    BY <1>2, <2>2, <2>3 DEF ListenSocket, acceptVars
<1>3. CASE ListenBind(l)
  BY <1>3, AdvanceStep, StutterStep DEF ListenBind, SocketState, acceptVars
<1>4. CASE ListenListen(l)
  BY <1>4, AdvanceStep, StutterStep DEF ListenListen, SocketState, acceptVars
<1>5. CASE ListenGetsockname(l)
  BY <1>5, StutterStep DEF ListenGetsockname, acceptVars
<1>6. CASE DestroyListener(l)
  BY <1>6, ReleaseStep DEF DestroyListener, acceptVars
<1>7. ASSUME NEW c \in Conns, Accept(l, c)
      PROVE  UNCHANGED Ownership!vars
  BY <1>7, StutterStep DEF Accept
<1>8. CASE AcceptFails(l)
  BY <1>8, StutterStep DEF AcceptFails
<1>9. CASE AcceptReturns(l)
  <2> PICK h \in Fd : Allocate(h, "connected") /\ fd' = [fd EXCEPT ![l] = h]
    BY <1>9 DEF AcceptReturns
  <2>1. UNCHANGED <<d_fd, app>>
    BY <1>9 DEF AcceptReturns
  <2>2. fd[l] = NoFd
    BY <1>9 DEF AcceptReturns, IInv, TypeOK, PCInv
  <2>3. Holds' = [Holds EXCEPT ![<<"call", l>>] = @ \cup {h}]
    <3>1. Holds' = [Holds EXCEPT ![<<"call", l>>] = Handle(h)]
      BY <2>1, HoldsCall
    <3>2. Holds[<<"call", l>>] \cup {h} = Handle(h)
      BY <2>2, HoldsValues DEF Handle
    <3> QED
      BY <3>1, <3>2
  <2> QED
    BY <2>3, OpenAllocate, OwnerElements
       DEF Ownership!Managed, Ownership!Acquire, SocketState
<1>10. CASE AcceptImport(l)
  <2> DEFINE c == target[l]
  <2>1. c \in Conns /\ fd[l] \in Fd
    BY <1>10 DEF AcceptImport, IInv, PCInv
  <2>2. Close(d_fd[c]) /\ SetFd(c, fd[l]) /\ UNCHANGED app
    BY <1>10 DEF AcceptImport, ImportHandle
  <2>3. Holds' = [Holds EXCEPT ![<<"call", l>>] = @ \ {fd[l]},
                               ![<<"object", c>>] = {fd[l]}]
    BY <1>10, <2>1, <2>2, HoldsImport DEF AcceptImport
  <2>4. fd[l] \in Holds[<<"call", l>>]
    BY <2>1, HoldsValues DEF Handle
  <2> HIDE DEF c
  <2> QED
    BY <2>1, <2>2, <2>3, <2>4, OwnerElements, TransferStep
<1>11. CASE AcceptThrows(l)
  BY <1>11, StutterStep DEF AcceptThrows
<1> QED
  BY <1>1, <1>2, <1>3, <1>4, <1>5, <1>6, <1>7, <1>8, <1>9, <1>10, <1>11
     DEF ListenerStep

\* The throwing constructor: the descriptor that listener l got stays open, and
\* l holds it no more.
LEMMA ThrowLoses ==
  ASSUME IInv, NEW l \in Listeners, ListenThrows(l)
  PROVE  /\ d_fd[l] \in Fd
         /\ Holds[<<"object", l>>] = {d_fd[l]}
         /\ Ownership!Lose(<<"object", l>>, d_fd[l])
<1>0. d_fd[l] \in Fd
  BY DEF ListenThrows, IInv, PCInv, Objects
<1>1. SetFd(l, NoFd) /\ UNCHANGED <<file, fd, app>>
  BY DEF ListenThrows, acceptVars
<1>2. Holds[<<"object", l>>] = {d_fd[l]}
  BY <1>0, HoldsValues DEF Handle, Objects
<1>3. Holds' = [Holds EXCEPT ![<<"object", l>>] = @ \ {d_fd[l]}]
  BY <1>1, <1>2, HoldsObject DEF Handle, Objects
<1> QED
  BY <1>0, <1>1, <1>2, <1>3 DEF Ownership!Lose, Open

\* Each step of the sockets is an abstract step that loses nothing, a stutter, or
\* the throw.
LEMMA NextRefines ==
  ASSUME IInv, [Next]_vars
  PROVE  \/ [Ownership!Managed]_(Ownership!vars)
         \/ \E l \in Listeners : ListenThrows(l)
<1> SUFFICES ASSUME \A l \in Listeners : ~ListenThrows(l)
             PROVE  [Ownership!Managed]_(Ownership!vars)
  OBVIOUS
<1> DEFINE a == <<"app", "app">>
<1>1. CASE AppOpen
  <2> PICK h \in Fd, s \in {"created", "connected"} :
        Allocate(h, s) /\ app' = app \cup {h}
    BY <1>1 DEF AppOpen
  <2>1. Holds' = [Holds EXCEPT ![a] = @ \cup {h}]
    BY <1>1, HoldsApp, HoldsValues DEF AppOpen, acceptVars
  <2> QED
    BY <2>1, OpenAllocate, OwnerElements
       DEF Ownership!Managed, Ownership!Acquire, SocketState
<1>2. CASE AppClose
  <2> PICK h \in app : Close(h) /\ app' = app \ {h}
    BY <1>2 DEF AppClose
  <2>1. Holds' = [Holds EXCEPT ![a] = @ \ {h}]
    BY <1>2, HoldsApp, HoldsValues DEF AppClose, acceptVars
  <2>2. h \in Holds[a] /\ h \in Fd
    BY HoldsValues DEF IInv, TypeOK
  <2> QED
    BY <2>1, <2>2, OpenClose, OwnerElements
       DEF Ownership!Managed, Ownership!Release
<1>3. CASE UNCHANGED vars
  BY <1>3, StutterStep DEF vars, acceptVars
<1> QED
  BY <1>1, <1>2, <1>3, ConnRefines, ListenerRefines DEF Next

\* An initial state is an abstract initial state.
LEMMA InitRefines == Init => Ownership!Init
<1> SUFFICES ASSUME Init PROVE Ownership!Init
  OBVIOUS
<1>1. Open = {}
  BY DEF Init, FileInit, Open
<1>2. \A w \in Owner : Holds[w] = {}
  BY OwnerCases, HoldsValues DEF Init, Handle
<1> QED
  BY <1>1, <1>2, HoldsFunction DEF Ownership!Init

\* connected_socket and listen_socket implement the abstract ownership, in which
\* only a listener ever loses a descriptor.
THEOREM Refinement == Spec => ImplementsOwnership
<1>1. IInv /\ [Next]_vars => [Ownership!Next]_(Ownership!vars)
  <2> SUFFICES ASSUME IInv, [Next]_vars
               PROVE  [Ownership!Next]_(Ownership!vars)
    OBVIOUS
  <2>1. ASSUME NEW l \in Listeners, ListenThrows(l) PROVE Ownership!Next
    <3>1. <<"object", l>> \in Owner \cap ({"object"} \X Listeners)
      BY OwnerElements DEF Objects
    <3> QED
      BY <2>1, <3>1, ThrowLoses DEF Ownership!Next
  <2> QED
    BY <2>1, NextRefines DEF Ownership!Next
<1> QED
  BY <1>1, Invariance, InitRefines, PTL
     DEF Spec, ImplementsOwnership, Ownership!Spec

\* Whoever holds a descriptor has it to itself, and it is open.
THEOREM Partitioned == Spec => []Ownership!Partition
BY Refinement, Ownership!PartitionHolds, PTL
   DEF ImplementsOwnership

\* No descriptor is in the hands of two objects, calls or the application.
THEOREM ExclusiveOwnershipHolds == Spec => []ExclusiveOwnership
<1>1. Ownership!Partition => ExclusiveOwnership
  BY DEF Ownership!Partition, Ownership!Exclusive, ExclusiveOwnership
<1> QED
  BY <1>1, Partitioned, PTL

\* No object, call or the application holds a closed descriptor.
THEOREM NoDanglingHandleHolds == Spec => []NoDanglingHandle
<1>1. Ownership!Partition => NoDanglingHandle
  BY DEF Ownership!Partition, Ownership!Accounted, NoDanglingHandle
<1> QED
  BY <1>1, Partitioned, PTL

\* Whatever else fails, a descriptor is lost only by a constructor that throws
\* after listen: in every other step each open one keeps somebody who closes it.
THEOREM LossBounded == Spec => LostOnlyByThrow
<1> DEFINE Step ==
      Lost' # Lost =>
        \E l \in Listeners :
          /\ pc[l] = "getsockname" /\ pc'[l] = "dead"
          /\ Lost' = Lost \cup {d_fd[l]}
<1>1. IInv /\ Ownership!Partition /\ [Next]_vars => [Step]_vars
  <2> SUFFICES ASSUME IInv, Ownership!Partition, [Next]_vars
               PROVE  Step
    OBVIOUS
  <2>1. CASE [Ownership!Managed]_(Ownership!vars)
    BY <2>1, Ownership!ManagedLosesNothing
       DEF Ownership!Lost, Lost
  <2>2. ASSUME NEW l \in Listeners, ListenThrows(l)
        PROVE  Step
    <3>1. pc[l] = "getsockname" /\ pc'[l] = "dead"
      BY <2>2 DEF ListenThrows, Goto, IInv, TypeOK, Objects
    <3> DEFINE o == <<"object", l>>
    <3>2. o \in Owner
      BY OwnerElements DEF Objects
    <3>3. /\ Holds[o] = {d_fd[l]}
          /\ Holds' = [Holds EXCEPT ![o] = @ \ {d_fd[l]}]
          /\ Open' = Open
      BY <2>2, ThrowLoses DEF Ownership!Lose
    <3>4. \A p \in Owner : p # o => d_fd[l] \notin Holds[p]
      BY <3>2, <3>3 DEF Ownership!Partition, Ownership!Exclusive
    <3>5. d_fd[l] \in Open
      BY <3>2, <3>3 DEF Ownership!Partition, Ownership!Accounted
    <3> HIDE DEF o
    <3>6. \A p \in Owner : Holds'[p] = Holds[p] \ {d_fd[l]}
      BY <3>2, <3>3, <3>4, HoldsFunction
    <3>7. Lost' = Lost \cup {d_fd[l]}
      BY <3>2, <3>3, <3>5, <3>6 DEF Lost
    <3> QED
      BY <3>1, <3>7
  <2> QED
    BY <2>1, <2>2, NextRefines
<1> QED
  BY <1>1, Invariance, Partitioned, PTL DEF Spec, LostOnlyByThrow

-----------------------------------------------------------------------------
(* The state of the socket behind an object's descriptor is the one its own  *)
(* calls produced.  A step changes the table at one descriptor only, which   *)
(* its own object, call or the application holds or which was free; by the   *)
(* theorems above no other object has it.                                    *)

\* The invariant with the ownership that follows from it.
OwnedInv == IInv /\ ExclusiveOwnership /\ NoDanglingHandle

\* What CallsInOrder, ListenerOkay and ConnectTruthful say of the object q.
StateOK(q) ==
  /\ pc[q] \in {"bind", "connect", "listen", "getsockname"} =>
       /\ d_fd[q] \in Fd
       /\ pc[q] = "bind" => file[d_fd[q]] = "created"
       /\ pc[q] = "listen" => file[d_fd[q]] = "bound"
       /\ pc[q] = "getsockname" => file[d_fd[q]] = "listening"
       /\ pc[q] = "connect" =>
            file[d_fd[q]] = IF wantsBind[q] THEN "bound" ELSE "created"
  /\ q \in Listeners =>
       (pc[q] \in {"idle", "accept", "import"} /\ d_last_error[q] = "none" =>
          d_fd[q] \in Fd /\ file[d_fd[q]] = "listening")
  /\ q \in Conns =>
       (outcome[q] = "success" =>
          d_fd[q] \in Fd /\ file[d_fd[q]] = "connected")

StateInv == \A q \in Objects : StateOK(q)

\* The step is none of q's.
Undisturbed(q) ==
  /\ pc'[q] = pc[q]
  /\ d_fd'[q] = d_fd[q]
  /\ d_fd[q] \in Fd => file'[d_fd[q]] = file[d_fd[q]]
  /\ q \in Conns => wantsBind'[q] = wantsBind[q] /\ outcome'[q] = outcome[q]
  /\ q \in Listeners => d_last_error'[q] = d_last_error[q]

\* An object whose descriptor and variables a step leaves alone stays right.
LEMMA UndisturbedOK ==
  ASSUME IInv, NEW q \in Objects, StateOK(q), Undisturbed(q)
  PROVE  StateOK(q)'
BY DEF StateOK, Undisturbed, IInv, TypeOK, ConnPC, ListenPC, Objects

\* A call on a descriptor leaves the sockets behind all others alone.
LEMMA OtherFile ==
  ASSUME IInv, NEW f \in Fd, NEW h, f # h,
         \/ Close(h)
         \/ \E s \in SocketState : Allocate(h, s) \/ Advance(h, s)
         \/ UNCHANGED file
  PROVE  file'[f] = file[f]
BY DEF IInv, TypeOK, FileTypeOK, Close, Allocate, Advance

\* A descriptor that one object has, no other has.
LEMMA Distinct ==
  ASSUME OwnedInv, NEW o \in Objects, NEW q \in Objects, o # q, d_fd[q] \in Fd
  PROVE  d_fd[o] # d_fd[q]
<1>1. Holds[<<"object", q>>] = {d_fd[q]}
  BY HoldsValues DEF Handle
<1>2. Holds[<<"object", o>>] = Handle(d_fd[o])
  BY HoldsValues
<1>3. Holds[<<"object", o>>] \cap Holds[<<"object", q>>] = {}
  BY OwnerElements DEF OwnedInv, ExclusiveOwnership
<1> QED
  BY <1>1, <1>2, <1>3 DEF Handle

\* Neither is it free, or the application's.
LEMMA NotFreeNotApp ==
  ASSUME OwnedInv, NEW q \in Objects, d_fd[q] \in Fd
  PROVE  file[d_fd[q]] # "free" /\ d_fd[q] \notin app
<1>1. Holds[<<"object", q>>] = {d_fd[q]} /\ Holds[<<"app", "app">>] = app
  BY HoldsValues DEF Handle
<1>2. Holds[<<"object", q>>] \subseteq Open
  BY OwnerElements DEF OwnedInv, NoDanglingHandle
<1>3. Holds[<<"object", q>>] \cap Holds[<<"app", "app">>] = {}
  BY OwnerElements DEF OwnedInv, ExclusiveOwnership
<1> QED
  BY <1>1, <1>2, <1>3 DEF Open

\* The step is a call of object o: it changes the table at o's descriptor, or
\* at a free one, and the members of o only.
StepOf(o) ==
  /\ \/ Close(d_fd[o])
     \/ \E h \in Fd : Allocate(h, "created") \/ Allocate(h, "connected")
     \/ \E s \in SocketState : Advance(d_fd[o], s)
     \/ UNCHANGED file
  /\ \A q \in Objects \ {o} :
       /\ pc'[q] = pc[q]
       /\ d_fd'[q] = d_fd[q]
       /\ q \in Conns => wantsBind'[q] = wantsBind[q] /\ outcome'[q] = outcome[q]
       /\ q \in Listeners => d_last_error'[q] = d_last_error[q]

\* So it leaves every other object's socket as it was.
LEMMA OthersOK ==
  ASSUME OwnedInv, StateInv, NEW o \in Objects, StepOf(o),
         NEW q \in Objects \ {o}
  PROVE  StateOK(q)'
<1>1. ASSUME d_fd[q] \in Fd PROVE file'[d_fd[q]] = file[d_fd[q]]
  <2>1. d_fd[o] # d_fd[q]
    BY <1>1, Distinct
  <2>2. \A h \in Fd : file[h] = "free" => h # d_fd[q]
    BY <1>1, NotFreeNotApp
  <2>3. CASE Close(d_fd[o])
    BY <1>1, <2>1, <2>3, OtherFile DEF OwnedInv
  <2>4. ASSUME NEW h \in Fd, NEW s \in {"created", "connected"}, Allocate(h, s)
        PROVE  file'[d_fd[q]] = file[d_fd[q]]
    BY <1>1, <2>2, <2>4, OtherFile DEF OwnedInv, Allocate, SocketState
  <2>5. ASSUME NEW s \in SocketState, Advance(d_fd[o], s)
        PROVE  file'[d_fd[q]] = file[d_fd[q]]
    BY <1>1, <2>1, <2>5, OtherFile DEF OwnedInv
  <2> QED
    BY <2>3, <2>4, <2>5 DEF StepOf
<1>2. Undisturbed(q)
  BY <1>1 DEF StepOf, Undisturbed
<1> QED
  BY <1>2, UndisturbedOK DEF OwnedInv, StateInv

-----------------------------------------------------------------------------
\* Each step of a connected_socket keeps the states right.
LEMMA ConnKeepsState ==
  ASSUME OwnedInv, StateInv, NEW c \in Conns, ConnStep(c)
  PROVE  StateInv'
<1> SUFFICES StepOf(c) /\ StateOK(c)'
  BY OthersOK DEF StateInv, Objects
<1> USE DEF OwnedInv, IInv, TypeOK, PCInv, FileTypeOK, SocketState, Objects,
            ConnPC, ListenPC, Goto, SetFd, connVars, acceptVars, StepOf
<1>1. CASE Construct(c)
  BY <1>1 DEF Construct, StateOK
<1>2. CASE Destroy(c)
  BY <1>2 DEF Destroy, StateOK
<1>3. ASSUME NEW b \in BOOLEAN, Connect(c, b)
      PROVE  StepOf(c) /\ StateOK(c)'
  BY <1>3 DEF Connect, StateOK
<1>4. CASE ConnectSocket(c)
  <2>1. StepOf(c)
    BY <1>4 DEF ConnectSocket, Return
  <2>2. StateOK(c)'
    BY <1>4 DEF ConnectSocket, Return, Allocate, AfterSocket, StateOK
  <2> QED
    BY <2>1, <2>2
<1>5. CASE ConnectBind(c)
  <2>1. StepOf(c)
    BY <1>5 DEF ConnectBind, Return, HandleAfterFailure
  <2>2. StateOK(c)'
    BY <1>5 DEF ConnectBind, Return, HandleAfterFailure, Advance, StateOK,
              StateInv
  <2> QED
    BY <2>1, <2>2
<1>6. CASE ConnectConnect(c)
  <2>1. StepOf(c)
    BY <1>6 DEF ConnectConnect, Return, HandleAfterFailure
  <2>2. StateOK(c)'
    BY <1>6 DEF ConnectConnect, Return, HandleAfterFailure, Advance, StateOK,
              StateInv
  <2> QED
    BY <2>1, <2>2
<1>7. CASE AppImport(c)
  BY <1>7 DEF AppImport, ImportHandle, Idle, StateOK
<1> QED
  BY <1>1, <1>2, <1>3, <1>4, <1>5, <1>6, <1>7 DEF ConnStep

\* Each step of a listen_socket keeps the states right.
LEMMA ListenerKeepsState ==
  ASSUME OwnedInv, StateInv, NEW l \in Listeners, ListenerStep(l)
  PROVE  StateInv'
<1> USE DEF OwnedInv, IInv, TypeOK, PCInv, FileTypeOK, SocketState, Objects,
            ConnPC, ListenPC, Goto, SetFd, connVars, acceptVars, StepOf
<1>0. ASSUME StepOf(l), StateOK(l)' PROVE StateInv'
  BY <1>0, OthersOK DEF StateInv
<1>1. CASE BeginListen(l)
  BY <1>0, <1>1 DEF BeginListen, StateOK
<1>2. CASE ListenSocket(l)
  <2>1. StepOf(l)
    BY <1>2 DEF ListenSocket, CheckFailed
  <2>2. StateOK(l)'
    BY <1>2 DEF ListenSocket, CheckFailed, Allocate, StateOK
  <2> QED
    BY <1>0, <2>1, <2>2
<1>3. CASE ListenBind(l)
  <2>1. StepOf(l)
    BY <1>3 DEF ListenBind, CheckFailed
  <2>2. StateOK(l)'
    BY <1>3 DEF ListenBind, CheckFailed, Advance, StateOK, StateInv
  <2> QED
    BY <1>0, <2>1, <2>2
<1>4. CASE ListenListen(l)
  <2>1. StepOf(l)
    BY <1>4 DEF ListenListen, CheckFailed
  <2>2. StateOK(l)'
    BY <1>4 DEF ListenListen, CheckFailed, Advance, StateOK, StateInv
  <2> QED
    BY <1>0, <2>1, <2>2
<1>5. CASE ListenGetsockname(l)
  BY <1>0, <1>5 DEF ListenGetsockname, CheckFailed, StateOK, StateInv
<1>6. CASE DestroyListener(l)
  BY <1>0, <1>6 DEF DestroyListener, StateOK
<1>7. ASSUME NEW c \in Conns, Accept(l, c)
      PROVE  StateInv'
  BY <1>0, <1>7 DEF Accept, StateOK, StateInv
<1>8. CASE AcceptFails(l)
  BY <1>0, <1>8 DEF AcceptFails, StateOK, StateInv
<1>9. CASE AcceptReturns(l)
  <2>1. StepOf(l)
    BY <1>9 DEF AcceptReturns
  <2>2. StateOK(l)'
    BY <1>9 DEF AcceptReturns, Allocate, StateOK, StateInv
  <2> QED
    BY <1>0, <2>1, <2>2
<1>10. CASE AcceptImport(l)
  <2>0. target[l] \in Conns
    BY <1>10 DEF AcceptImport
  <2> PICK c \in Conns : c = target[l]
    BY <2>0
  <2>1. pc[c] = "idle" /\ fd[l] \in Fd
    BY <1>10 DEF AcceptImport
  <2>2. ASSUME NEW q \in Objects, q # c
        PROVE  StateOK(q)'
    <3>1. ASSUME d_fd[q] \in Fd PROVE file'[d_fd[q]] = file[d_fd[q]]
      BY <1>10, <2>1, <2>2, <3>1, Distinct, OtherFile
         DEF AcceptImport, ImportHandle
    <3>2. d_fd'[q] = d_fd[q] /\ StateOK(q)
      BY <1>10, <2>1, <2>2 DEF AcceptImport, ImportHandle, StateInv
    <3>3. CASE q = l
      BY <1>10, <3>1, <3>2, <3>3 DEF AcceptImport, StateOK
    <3>4. CASE q # l
      BY <1>10, <2>2, <3>1, <3>2, <3>4, UndisturbedOK
         DEF AcceptImport, Undisturbed
    <3> QED
      BY <3>3, <3>4
  <2>3. d_fd'[c] = fd[l] /\ pc'[c] = "idle" /\ outcome'[c] = "none"
    BY <1>10, <2>1 DEF AcceptImport, ImportHandle
  <2>4. StateOK(c)'
    BY <2>1, <2>3 DEF StateOK
  <2> QED
    BY <2>2, <2>4 DEF StateInv
<1>11. CASE ListenThrows(l)
  BY <1>0, <1>11 DEF ListenThrows, StateOK
<1>12. CASE AcceptThrows(l)
  BY <1>0, <1>12 DEF AcceptThrows, StateOK, StateInv
<1> QED
  BY <1>1, <1>2, <1>3, <1>4, <1>5, <1>6, <1>7, <1>8, <1>9, <1>10, <1>11, <1>12
     DEF ListenerStep

\* Each step of any thread keeps the states right.
LEMMA NextKeepsState == OwnedInv /\ StateInv /\ [Next]_vars => StateInv'
<1> SUFFICES ASSUME OwnedInv, StateInv, [Next]_vars PROVE StateInv'
  OBVIOUS
<1>1. ASSUME UNCHANGED <<d_fd, pc, connVars, d_last_error>>,
             \A f \in Fd : file[f] = "free" \/ f \in app \/ file'[f] = file[f]
      PROVE  StateInv'
  <2> SUFFICES ASSUME NEW q \in Objects PROVE StateOK(q)'
    BY DEF StateInv
  <2>1. Undisturbed(q)
    BY <1>1, NotFreeNotApp DEF Undisturbed, connVars
  <2> QED
    BY <2>1, UndisturbedOK DEF OwnedInv, StateInv
<1>2. CASE AppOpen
  BY <1>1, <1>2
     DEF AppOpen, Allocate, connVars, OwnedInv, IInv, TypeOK, FileTypeOK
<1>3. CASE AppClose
  BY <1>1, <1>3 DEF AppClose, Close, connVars
<1>4. CASE UNCHANGED vars
  BY <1>1, <1>4 DEF vars, connVars
<1> QED
  BY <1>2, <1>3, <1>4, ConnKeepsState, ListenerKeepsState DEF Next

\* Every object's descriptor is in the state its own calls produced.
THEOREM StateInvariance == Spec => []StateInv
<1>1. Init => StateInv
  BY DEF Init, StateInv, StateOK, Objects
<1>2. Spec => []OwnedInv
  BY Invariance, ExclusiveOwnershipHolds, NoDanglingHandleHolds, PTL
     DEF OwnedInv
<1> QED
  BY <1>1, <1>2, NextKeepsState, PTL DEF Spec

\* A listener that compares to true listens.
THEOREM ListenerOkayHolds == Spec => []ListenerOkay
<1>1. StateInv => ListenerOkay
  BY DEF StateInv, StateOK, ListenerOkay, Objects
<1> QED
  BY <1>1, StateInvariance, PTL

\* A socket whose connect succeeded stays connected until its next operation.
THEOREM ConnectTruthfulHolds == Spec => []ConnectTruthful
<1>1. StateInv => ConnectTruthful
  BY DEF StateInv, StateOK, ConnectTruthful, Objects
<1> QED
  BY <1>1, StateInvariance, PTL

\* bind, listen, connect and getsockname find the descriptor as the preceding
\* call of the same object left it.
THEOREM CallsInOrderHolds == Spec => []CallsInOrder
<1>1. StateInv => CallsInOrder
  BY DEF StateInv, StateOK, CallsInOrder
<1> QED
  BY <1>1, StateInvariance, PTL
=============================================================================
