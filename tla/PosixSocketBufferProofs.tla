----------------------- MODULE PosixSocketBufferProofs -----------------------
(***************************************************************************)
(* Theorems about PosixSocketBuffer for any number of objects and          *)
(* descriptors.  Its descriptors are shared out between the members d_fd   *)
(* and the locals fd of running accepts; the invariant says so pair by     *)
(* pair, from which the sets of ExclusiveOpen and Lost follow.             *)
(***************************************************************************)
EXTENDS PosixSocketBuffer, TLAPS

\* No two members d_fd and no two locals fd are the same descriptor, and no
\* member is the same as a local.
Apart ==
  \A s, t \in Sockets :
    /\ s # t /\ d_fd[s] # NoFd => d_fd[s] # d_fd[t]
    /\ s # t /\ fd[s] # NoFd => fd[s] # fd[t]
    /\ fd[s] # NoFd => fd[s] # d_fd[t]

\* A descriptor an object has is open, one accept returned is connected too.
HeldOpen ==
  \A s \in Sockets :
    /\ d_fd[s] # NoFd => file[d_fd[s]] # "free"
    /\ fd[s] # NoFd => file[fd[s]] = "connected"

\* connect calls socket with nothing left to lose, no outcome is known while
\* connect or listen runs, and nobody uses a socket that is accepted into.
PCInv ==
  \A s \in Sockets :
    /\ pc[s] = "connect:socket" => d_fd[s] = NoFd
    /\ pc[s] \notin {"idle", "accept", "import"} => state[s] = "unknown"
    /\ target[s] \in Sockets \ {s} => pc[target[s]] = "idle"

IInv == TypeOK /\ Apart /\ HeldOpen /\ PCInv /\ ResultTruthful

USE NoFdAssumption, SocketsAssumption

\* The invariant holds when no object has been constructed.
LEMMA InitIInv == Init => IInv
BY DEF Init, IInv, TypeOK, PC, Apart, HeldOpen, PCInv, ResultTruthful,
       FileInit, FileTypeOK, SocketState

-----------------------------------------------------------------------------
(* Type correctness, one action at a time. *)

\* Each step of an object keeps the types.
LEMMA TypeStep ==
  ASSUME TypeOK, [Next]_vars
  PROVE  TypeOK'
<1> USE DEF TypeOK, PC, FileTypeOK, SocketState, acceptVars, Goto, SetFd,
            Become, Close
<1>1. ASSUME NEW s \in Sockets, Construct(s) PROVE TypeOK'
  BY <1>1 DEF Construct
<1>2. ASSUME NEW s \in Sockets, Destroy(s) PROVE TypeOK'
  BY <1>2 DEF Destroy, Idle
<1>3. ASSUME NEW s \in Sockets, NEW b \in BOOLEAN, Connect(s, b) PROVE TypeOK'
  BY <1>3 DEF Connect, Idle
<1>4. ASSUME NEW s \in Sockets, ConnectSocket(s) PROVE TypeOK'
  BY <1>4 DEF ConnectSocket, OpenSocket, Allocate
<1>5. ASSUME NEW s \in Sockets, ConnectBind(s) PROVE TypeOK'
  BY <1>5 DEF ConnectBind, TryMiddle, Advance, Fail
<1>6. ASSUME NEW s \in Sockets, ConnectConnect(s) PROVE TypeOK'
  BY <1>6 DEF ConnectConnect, TryLast, Advance, Fail
<1>7. ASSUME NEW s \in Sockets, Listen(s) PROVE TypeOK'
  BY <1>7 DEF Listen, Idle
<1>8. ASSUME NEW s \in Sockets, ListenSocket(s) PROVE TypeOK'
  BY <1>8 DEF ListenSocket, OpenSocket, Allocate
<1>9. ASSUME NEW s \in Sockets, ListenBind(s) PROVE TypeOK'
  BY <1>9 DEF ListenBind, TryMiddle, Advance, Fail
<1>10. ASSUME NEW s \in Sockets, ListenListen(s) PROVE TypeOK'
  BY <1>10 DEF ListenListen, TryLast, Advance, Fail
<1>11. ASSUME NEW s \in Sockets, NEW t \in Sockets, Accept(s, t) PROVE TypeOK'
  BY <1>11 DEF Accept, Idle
<1>12. ASSUME NEW s \in Sockets, AcceptFails(s) PROVE TypeOK'
  BY <1>12 DEF AcceptFails
<1>13. ASSUME NEW s \in Sockets, AcceptReturns(s) PROVE TypeOK'
  BY <1>13 DEF AcceptReturns, Allocate
<1>14. ASSUME NEW s \in Sockets, AcceptImport(s) PROVE TypeOK'
  BY <1>14 DEF AcceptImport, Import
<1>15. CASE UNCHANGED vars
  BY <1>15 DEF vars
<1> QED
  BY <1>1, <1>2, <1>3, <1>4, <1>5, <1>6, <1>7, <1>8, <1>9, <1>10, <1>11,
     <1>12, <1>13, <1>14, <1>15 DEF Next

\* Each step of an object keeps the rest of the invariant.
LEMMA IInvStep ==
  ASSUME IInv, [Next]_vars
  PROVE  (Apart /\ HeldOpen /\ PCInv /\ ResultTruthful)'
<1> DEFINE I == Apart /\ HeldOpen /\ PCInv /\ ResultTruthful
<1> USE DEF IInv, TypeOK, FileTypeOK, Apart, HeldOpen, PCInv, ResultTruthful,
            acceptVars, Goto, SetFd, Become, Close, Open
<1>1. ASSUME NEW s \in Sockets, Construct(s) PROVE I'
  BY <1>1 DEF Construct
<1>2. ASSUME NEW s \in Sockets, Destroy(s) PROVE I'
  BY <1>2 DEF Destroy, Idle
<1>3. ASSUME NEW s \in Sockets, NEW b \in BOOLEAN, Connect(s, b) PROVE I'
  BY <1>3 DEF Connect, Idle
<1>4. ASSUME NEW s \in Sockets, ConnectSocket(s) PROVE I'
  BY <1>4 DEF ConnectSocket, OpenSocket, Allocate
<1>5. ASSUME NEW s \in Sockets, ConnectBind(s) PROVE I'
  BY <1>5 DEF ConnectBind, TryMiddle, Advance, Fail
<1>6. ASSUME NEW s \in Sockets, ConnectConnect(s) PROVE I'
  BY <1>6 DEF ConnectConnect, TryLast, Advance, Fail
<1>7. ASSUME NEW s \in Sockets, Listen(s) PROVE I'
  BY <1>7 DEF Listen, Idle
<1>8. ASSUME NEW s \in Sockets, ListenSocket(s) PROVE I'
  BY <1>8 DEF ListenSocket, OpenSocket, Allocate
<1>9. ASSUME NEW s \in Sockets, ListenBind(s) PROVE I'
  BY <1>9 DEF ListenBind, TryMiddle, Advance, Fail
<1>10. ASSUME NEW s \in Sockets, ListenListen(s) PROVE I'
  BY <1>10 DEF ListenListen, TryLast, Advance, Fail
<1>11. ASSUME NEW s \in Sockets, NEW t \in Sockets, Accept(s, t) PROVE I'
  BY <1>11 DEF Accept, Idle
<1>12. ASSUME NEW s \in Sockets, AcceptFails(s) PROVE I'
  BY <1>12 DEF AcceptFails
<1>13. ASSUME NEW s \in Sockets, AcceptReturns(s) PROVE I'
  BY <1>13 DEF AcceptReturns, Allocate
<1>14. ASSUME NEW s \in Sockets, AcceptImport(s) PROVE I'
  BY <1>14 DEF AcceptImport, Import
<1>15. CASE UNCHANGED vars
  BY <1>15 DEF vars
<1> QED
  BY <1>1, <1>2, <1>3, <1>4, <1>5, <1>6, <1>7, <1>8, <1>9, <1>10, <1>11,
     <1>12, <1>13, <1>14, <1>15 DEF Next

\* Members and locals keep to the descriptors the table has open for them.
THEOREM Invariance == Spec => []IInv
<1>1. IInv /\ [Next]_vars => IInv'
  BY TypeStep, IInvStep DEF IInv
<1> QED
  BY InitIInv, <1>1, PTL DEF Spec

\* The members keep their types and accept's locals are set while it runs.
THEOREM TypeCorrect == Spec => []TypeOK
<1>1. IInv => TypeOK
  BY DEF IInv
<1> QED
  BY <1>1, Invariance, PTL

\* What connect, listen and accept reported stays true of the socket, whatever
\* the other objects do.
THEOREM ResultsTrue == Spec => []ResultTruthful
<1>1. IInv => ResultTruthful
  BY DEF IInv
<1> QED
  BY <1>1, Invariance, PTL

-----------------------------------------------------------------------------
(* From single handles to what the owners hold together. *)

\* What each kind of owner holds.
LEMMA HoldsValues ==
  \A s \in Sockets :
    /\ <<"object", s>> \in Owner
    /\ <<"call", s>> \in Owner
    /\ Holds[<<"object", s>>] = {d_fd[s]} \ {NoFd}
    /\ Holds[<<"call", s>>] = {fd[s]} \ {NoFd}
BY DEF Holds, Owner

\* An owner is an object or a running accept of one.
LEMMA OwnerCases ==
  \A o \in Owner : \E s \in Sockets :
    \/ o = <<"object", s>> /\ Holds[o] = {d_fd[s]} \ {NoFd}
    \/ o = <<"call", s>> /\ Holds[o] = {fd[s]} \ {NoFd}
<1> SUFFICES ASSUME NEW o \in Owner
             PROVE  \E s \in Sockets :
                      \/ o = <<"object", s>> /\ Holds[o] = {d_fd[s]} \ {NoFd}
                      \/ o = <<"call", s>> /\ Holds[o] = {fd[s]} \ {NoFd}
  OBVIOUS
<1>1. PICK s \in Sockets : o = <<"object", s>> \/ o = <<"call", s>>
  BY DEF Owner
<1> QED
  BY <1>1, HoldsValues

\* Only members and locals hold descriptors.
LEMMA HeldMember ==
  \A f \in Fd : f \in Held <=> \E s \in Sockets : d_fd[s] = f \/ fd[s] = f
<1> SUFFICES ASSUME NEW f \in Fd
             PROVE  f \in Held <=> \E s \in Sockets : d_fd[s] = f \/ fd[s] = f
  OBVIOUS
<1>1. ASSUME NEW s \in Sockets, d_fd[s] = f \/ fd[s] = f
      PROVE  f \in Held
  <2>1. f \in Holds[<<"object", s>>] \/ f \in Holds[<<"call", s>>]
    BY <1>1, HoldsValues
  <2> QED
    BY <2>1, HoldsValues DEF Held
<1>2. ASSUME f \in Held
      PROVE  \E s \in Sockets : d_fd[s] = f \/ fd[s] = f
  <2>1. PICK o \in Owner : f \in Holds[o]
    BY <1>2 DEF Held
  <2> QED
    BY <2>1, OwnerCases
<1> QED
  BY <1>1, <1>2

\* Handles that are pairwise different make sets that are disjoint.
LEMMA ApartExclusive == IInv => ExclusiveOpen
<1> SUFFICES ASSUME IInv PROVE ExclusiveOpen
  OBVIOUS
<1>1. Held \subseteq Open
  <2>1. ASSUME NEW o \in Owner PROVE Holds[o] \subseteq Open
    BY OwnerCases
       DEF IInv, TypeOK, HeldOpen, FileTypeOK, SocketState, Open
  <2> QED
    BY <2>1 DEF Held
<1>2. ASSUME NEW o \in Owner, NEW p \in Owner, o # p
      PROVE  Holds[o] \cap Holds[p] = {}
  <2>1. PICK s \in Sockets :
          \/ o = <<"object", s>> /\ Holds[o] = {d_fd[s]} \ {NoFd}
          \/ o = <<"call", s>> /\ Holds[o] = {fd[s]} \ {NoFd}
    BY OwnerCases
  <2>2. PICK t \in Sockets :
          \/ p = <<"object", t>> /\ Holds[p] = {d_fd[t]} \ {NoFd}
          \/ p = <<"call", t>> /\ Holds[p] = {fd[t]} \ {NoFd}
    BY OwnerCases
  <2> QED
    BY <1>2, <2>1, <2>2 DEF IInv, Apart
<1> QED
  BY <1>1, <1>2 DEF ExclusiveOpen

\* No two objects close the same descriptor, and none uses one that another
\* thread has closed and the process has given out again.
THEOREM Exclusive == Spec => []ExclusiveOpen
BY ApartExclusive, Invariance, PTL

-----------------------------------------------------------------------------
(* What is lost: only by the socket call of a listen. *)

\* A descriptor is lost when it is open and no member or local is it.
LEMMA LostMember ==
  \A f : f \in Lost <=> /\ f \in Fd /\ file[f] # "free"
                        /\ \A s \in Sockets : d_fd[s] # f /\ fd[s] # f
BY HeldMember DEF Lost, Open

\* The same of the state after a step.
LEMMA LostMemberNext ==
  \A f : f \in Lost' <=> /\ f \in Fd /\ file'[f] # "free"
                         /\ \A s \in Sockets : d_fd'[s] # f /\ fd'[s] # f
<1>1. (\A f : f \in Lost <=> /\ f \in Fd /\ file[f] # "free"
                             /\ \A s \in Sockets : d_fd[s] # f /\ fd[s] # f)'
  BY LostMember, PTL
<1> QED
  BY <1>1

\* Closing the descriptor of a member that forgets it loses none.
LEMMA CloseLosesNothing ==
  ASSUME IInv, NEW t \in Sockets, Close(d_fd[t]),
         d_fd' = [d_fd EXCEPT ![t] = NoFd], UNCHANGED fd
  PROVE  Lost' = Lost
<1>1. \A u \in Sockets : d_fd'[u] = IF u = t THEN NoFd ELSE d_fd[u]
  BY DEF IInv, TypeOK
<1>2. \A f \in Fd : file'[f] = IF f = d_fd[t] THEN "free" ELSE file[f]
  BY DEF Close
<1>3. ASSUME NEW f \in Fd PROVE f \in Lost' <=> f \in Lost
  <2>1. CASE f = d_fd[t]
    BY <1>2, <2>1, LostMember, LostMemberNext
  <2>2. CASE f # d_fd[t]
    BY <1>1, <1>2, <2>2, LostMember, LostMemberNext
  <2> QED
    BY <2>1, <2>2
<1> QED
  BY <1>3, LostMember, LostMemberNext

\* import closes what its object had and takes over the local of the accept.
LEMMA ImportLosesNothing ==
  ASSUME IInv, NEW s \in Sockets, NEW t \in Sockets, fd[s] # NoFd,
         Close(d_fd[t]), d_fd' = [d_fd EXCEPT ![t] = fd[s]],
         fd' = [fd EXCEPT ![s] = NoFd]
  PROVE  Lost' = Lost
<1>1. /\ \A u \in Sockets : d_fd'[u] = IF u = t THEN fd[s] ELSE d_fd[u]
      /\ \A u \in Sockets : fd'[u] = IF u = s THEN NoFd ELSE fd[u]
  BY DEF IInv, TypeOK
<1>2. \A f \in Fd : file'[f] = IF f = d_fd[t] THEN "free" ELSE file[f]
  BY DEF Close
<1>3. ASSUME NEW f \in Fd PROVE f \in Lost' <=> f \in Lost
  <2>1. CASE f = d_fd[t]
    BY <1>2, <2>1, LostMember, LostMemberNext
  <2>2. CASE f = fd[s]
    BY <1>1, <2>2, LostMember, LostMemberNext
  <2>3. CASE f # d_fd[t] /\ f # fd[s]
    BY <1>1, <1>2, <2>3, LostMember, LostMemberNext
  <2> QED
    BY <2>1, <2>2, <2>3
<1> QED
  BY <1>3, LostMember, LostMemberNext

\* A step that is not the socket call of a listen loses and finds nothing.
LEMMA NothingLost ==
  ASSUME IInv, [Next]_vars, \A s \in Sockets : ~ListenSocket(s)
  PROVE  Lost' = Lost
<1>1. ASSUME NEW s \in Sockets, Destroy(s) PROVE Lost' = Lost
  BY <1>1, CloseLosesNothing DEF Destroy, SetFd, acceptVars
<1>2. ASSUME NEW s \in Sockets, NEW b \in BOOLEAN, Connect(s, b)
      PROVE  Lost' = Lost
  BY <1>2, CloseLosesNothing DEF Connect, SetFd, acceptVars
<1>3. ASSUME NEW s \in Sockets, AcceptImport(s) PROVE Lost' = Lost
  <2>1. target[s] \in Sockets /\ fd[s] # NoFd
    BY <1>3 DEF AcceptImport, IInv, TypeOK
  <2> QED
    BY <1>3, <2>1, ImportLosesNothing DEF AcceptImport, Import, SetFd
<1> SUFFICES ASSUME NEW f,
                    \A s \in Sockets : /\ ~Destroy(s) /\ ~AcceptImport(s)
                                       /\ \A b \in BOOLEAN : ~Connect(s, b)
             PROVE  f \in Lost' <=> f \in Lost
  BY <1>1, <1>2, <1>3
<1> USE LostMember, LostMemberNext
    DEF IInv, TypeOK, FileTypeOK, SocketState, Apart, HeldOpen, PCInv,
        acceptVars, Goto, SetFd, Open
<1> DEFINE Same == f \in Lost' <=> f \in Lost
<1>4. ASSUME NEW s \in Sockets, Construct(s) PROVE Same
  BY <1>4 DEF Construct
<1>5. ASSUME NEW s \in Sockets, ConnectSocket(s) PROVE Same
  BY <1>5 DEF ConnectSocket, OpenSocket, Allocate
<1>6. ASSUME NEW s \in Sockets, ConnectBind(s) PROVE Same
  BY <1>6 DEF ConnectBind, TryMiddle, Advance, Fail
<1>7. ASSUME NEW s \in Sockets, ConnectConnect(s) PROVE Same
  BY <1>7 DEF ConnectConnect, TryLast, Advance, Fail
<1>8. ASSUME NEW s \in Sockets, Listen(s) PROVE Same
  BY <1>8 DEF Listen
<1>9. ASSUME NEW s \in Sockets, ListenBind(s) PROVE Same
  BY <1>9 DEF ListenBind, TryMiddle, Advance, Fail
<1>10. ASSUME NEW s \in Sockets, ListenListen(s) PROVE Same
  BY <1>10 DEF ListenListen, TryLast, Advance, Fail
<1>11. ASSUME NEW s \in Sockets, NEW t \in Sockets, Accept(s, t) PROVE Same
  BY <1>11 DEF Accept
<1>12. ASSUME NEW s \in Sockets, AcceptFails(s) PROVE Same
  BY <1>12 DEF AcceptFails
<1>13. ASSUME NEW s \in Sockets, AcceptReturns(s) PROVE Same
  BY <1>13 DEF AcceptReturns, Allocate
<1>14. CASE UNCHANGED vars
  BY <1>14 DEF vars
<1> QED
  BY <1>4, <1>5, <1>6, <1>7, <1>8, <1>9, <1>10, <1>11, <1>12, <1>13, <1>14
     DEF Next

\* The socket call of a listen loses the descriptor d_fd had, if any.
LEMMA ListenLoses ==
  ASSUME IInv, NEW s \in Sockets, ListenSocket(s)
  PROVE  Lost' = Lost \/ Lost' = Lost \cup {d_fd[s]}
<1> USE LostMember, LostMemberNext, ListenSocket(s)
    DEF ListenSocket, OpenSocket, IInv, TypeOK, FileTypeOK, SocketState, Apart,
        HeldOpen, acceptVars, Goto, SetFd, Allocate
<1>1. CASE d_fd[s] = NoFd
  <2>1. ASSUME NEW f PROVE f \in Lost' <=> f \in Lost
    BY <1>1
  <2> QED
    BY <2>1
<1>2. CASE d_fd[s] # NoFd
  <2>1. ASSUME NEW f PROVE f \in Lost' <=> f \in Lost \/ f = d_fd[s]
    BY <1>2
  <2> QED
    BY <2>1
<1> QED
  BY <1>1, <1>2

\* Only listen loses a descriptor, and only the one its object had: the failure
\* paths, the reconnects and the accepts over an open target lose none.
THEOREM LossBounded == Spec => LostOnlyByListen
<1>1. IInv /\ [Next]_vars =>
        [Lost' # Lost =>
           \E s \in Sockets :
             pc[s] = "listen:socket" /\ Lost' = Lost \cup {d_fd[s]}]_vars
  <2> SUFFICES ASSUME IInv, [Next]_vars, Lost' # Lost
               PROVE  \E s \in Sockets : /\ pc[s] = "listen:socket"
                                         /\ Lost' = Lost \cup {d_fd[s]}
    OBVIOUS
  <2>1. PICK s \in Sockets : ListenSocket(s)
    BY NothingLost
  <2> QED
    BY <2>1, ListenLoses DEF ListenSocket
<1> QED
  BY <1>1, Invariance, PTL DEF Spec, LostOnlyByListen
=============================================================================
