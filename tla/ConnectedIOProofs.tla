-------------------------- MODULE ConnectedIOProofs --------------------------
(***************************************************************************)
(* That the outcomes which reader and writer keep are exact and are those  *)
(* of the present connection, for any numbers of connections, lengths,     *)
(* rooms and spans.  The four invariants are inductive together: the types *)
(* bound the counts, and the counts are what keeps the types (what the     *)
(* peer has received is part of what was written).                         *)
(***************************************************************************)
EXTENDS ConnectedIO, TLAPS

USE ConnectedIOAssumption DEF NoHandle, User, nonblocking

Inv == TypeOK /\ CountsExact /\ EndIsReal /\ ErrorIsReal

\* The least of two numbers is a number that exceeds none.
LEMMA MinOfTwo ==
  ASSUME NEW a \in Nat, NEW b \in Nat
  PROVE  Min({a, b}) \in Nat /\ Min({a, b}) <= a /\ Min({a, b}) <= b
<1>1. \E x \in {a, b} : \A y \in {a, b} : x <= y
  OBVIOUS
<1> QED
  BY <1>1 DEF Min

\* The same of three.
LEMMA MinOfThree ==
  ASSUME NEW a \in Nat, NEW b \in Nat, NEW c \in Nat
  PROVE  /\ Min({a, b, c}) \in Nat
         /\ Min({a, b, c}) <= a /\ Min({a, b, c}) <= b /\ Min({a, b, c}) <= c
<1>1. \E x \in {a, b, c} : \A y \in {a, b, c} : x <= y
  OBVIOUS
<1> QED
  BY <1>1 DEF Min

\* The counts are numbers within their bounds.
LEMMA Numbers ==
  ASSUME Inv
  PROVE  /\ arrived \in Nat /\ queued \in Nat
         /\ arrived <= Room /\ queued <= Room
         /\ peerSent \in Nat /\ peerGot \in Nat
         /\ peerSent <= Length /\ peerGot <= Length
         /\ \A u \in User : moved[u] \in Nat /\ moved[u] <= Length
         /\ moved["reader"] + arrived = peerSent
         /\ moved["writer"] = queued + peerGot
BY DEF Inv, TypeOK, StreamTypeOK, ResultTypeOK, CountsExact

\* The socket, reader and writer are constructed in a state that Inv allows.
LEMMA InitInv == Init => Inv
<1> SUFFICES ASSUME Init PROVE Inv
  OBVIOUS
<1>1. SocketTypeOK
  BY DEF Init, SocketTypeOK
<1>2. StreamTypeOK
  BY DEF Init, StreamTypeOK
<1>3. ResultTypeOK
  BY DEF Init, ResultTypeOK, User, Error, NoHandle
<1>4. CountsExact
  BY DEF Init, CountsExact, User
<1>5. EndIsReal /\ ErrorIsReal
  BY DEF Init, EndIsReal, ErrorIsReal, Current
<1> QED
  BY <1>1, <1>2, <1>3, <1>4, <1>5 DEF Inv, TypeOK

\* After a reconnect, or a connect that failed, no last call is of the present
\* connection, and none of its bytes are anywhere.
LEMMA ReconnectKeepsInv ==
  ASSUME Inv, Reconnect \/ ConnectFails
  PROVE  Inv'
<1> USE DEF Inv, TypeOK, Reconnect, ConnectFails, NewConnection
<1>1. SocketTypeOK' /\ connections' \in connections..MaxConnections
  BY DEF SocketTypeOK
<1>2. StreamTypeOK'
  BY DEF StreamTypeOK
<1>3. ResultTypeOK'
  <2>1. ASSUME NEW u \in User
        PROVE  last[u] \in [size : SpanSize \cup {0}, on : 0..connections']
    <3>1. last[u] \in [size : SpanSize \cup {0}, on : 0..connections]
      BY DEF ResultTypeOK
    <3>2. 0..connections \subseteq 0..connections'
      BY <1>1 DEF SocketTypeOK
    <3> QED
      BY <3>1, <3>2
  <2> QED
    BY <2>1 DEF ResultTypeOK
<1>4. CountsExact'
  BY DEF CountsExact, User
<1>5. ASSUME NEW u \in User PROVE ~Current(u)'
  <2>1. last'[u].on \in 0..connections /\ connections \in Nat
    BY DEF SocketTypeOK, ResultTypeOK
  <2> QED
    BY <2>1 DEF Current
<1> QED
  BY <1>1, <1>2, <1>3, <1>4, <1>5 DEF EndIsReal, ErrorIsReal, User

\* What a call keeps of its outcome, and the other's last call.
LEMMA KeepKeeps ==
  ASSUME Inv, NEW u \in User, NEW n \in SpanSize, NEW error \in Error,
         NEW count \in Nat, Keep(u, n, error, count),
         moved[u] + count <= Length
  PROVE  /\ d_last_error' \in [User -> Error]
         /\ d_last_bytes' \in [User -> Nat]
         /\ last' \in [User -> [size : SpanSize \cup {0}, on : 0..connections]]
         /\ moved' \in [User -> 0..Length]
         /\ d_last_error'[u] = error /\ d_last_bytes'[u] = count
         /\ last'[u].size = n /\ moved'[u] = moved[u] + count
         /\ \A v \in User \ {u} :
              /\ d_last_error'[v] = d_last_error[v]
              /\ d_last_bytes'[v] = d_last_bytes[v]
              /\ last'[v] = last[v] /\ moved'[v] = moved[v]
BY DEF Inv, TypeOK, SocketTypeOK, ResultTypeOK, Keep

\* The call of u has the outcome error and count, which is that of the present
\* connection, and the peer's state is as before or known to be reset now.
Outcome(u, n, error, count) ==
  /\ Keep(u, n, error, count)
  /\ error \in Error /\ count \in Nat
  /\ moved[u] + count <= Length
  /\ peer' # peer => peer = "reset pending" /\ peer' = "reset"
  /\ {arrived', queued'} \subseteq 0..Room
  /\ IF u = "reader" THEN arrived' = arrived - count /\ queued' = queued
                     ELSE queued' = queued + count /\ arrived' = arrived
  /\ d_fd # NoHandle =>
       /\ error # "EBADF"
       /\ error \in {"ECONNRESET", "EPIPE"} => peer' = "reset"
       /\ error = "EAGAIN" => nonblocking
       /\ u = "reader" /\ error = "none" /\ count = 0 /\ n > 0
            => arrived' = 0 /\ peer' # "open"

\* Whatever a call returns, the four invariants stay true.
LEMMA OutcomeKeepsInv ==
  ASSUME Inv, NEW u \in User, NEW n \in SpanSize, NEW error, NEW count,
         Outcome(u, n, error, count)
  PROVE  Inv'
<1> USE DEF Outcome
<1>0. UNCHANGED <<d_fd, connections, flags, peerSent, peerGot>>
  BY DEF Keep, socketVars, peerVars
<1>1. /\ d_last_error' \in [User -> Error]
      /\ d_last_bytes' \in [User -> Nat]
      /\ last' \in [User -> [size : SpanSize \cup {0}, on : 0..connections]]
      /\ moved' \in [User -> 0..Length]
      /\ d_last_error'[u] = error /\ d_last_bytes'[u] = count
      /\ last'[u].size = n /\ moved'[u] = moved[u] + count
      /\ \A v \in User \ {u} :
           /\ d_last_error'[v] = d_last_error[v]
           /\ d_last_bytes'[v] = d_last_bytes[v]
           /\ last'[v] = last[v] /\ moved'[v] = moved[v]
  BY KeepKeeps
<1>2. TypeOK'
  BY <1>0, <1>1 DEF Inv, TypeOK, SocketTypeOK, StreamTypeOK, ResultTypeOK, Broken
<1>3. CountsExact'
  <2>1. CASE u = "reader"
    <3>1. /\ moved'["reader"] = moved["reader"] + count
          /\ moved'["writer"] = moved["writer"]
          /\ arrived' = arrived - count /\ queued' = queued /\ count \in Nat
      BY <1>1, <2>1
    <3> QED
      BY ONLY <1>0, <3>1, Inv, Numbers DEF CountsExact
  <2>2. CASE u = "writer"
    <3>1. /\ moved'["writer"] = moved["writer"] + count
          /\ moved'["reader"] = moved["reader"]
          /\ queued' = queued + count /\ arrived' = arrived /\ count \in Nat
      BY <1>1, <2>2
    <3> QED
      BY ONLY <1>0, <3>1, Inv, Numbers DEF CountsExact
  <2> QED
    BY <2>1, <2>2
<1>4. EndIsReal'
  <2>1. CASE u = "reader"
    BY <1>0, <1>1, <2>1
       DEF EndIsReal, Current, SeesEnd, okay, last_bytes, would_have_blocked
  <2>2. CASE u = "writer"
    BY <1>0, <1>1, <2>2
       DEF Inv, EndIsReal, Current, SeesEnd, okay, last_bytes, would_have_blocked
  <2> QED
    BY <2>1, <2>2
<1>5. ErrorIsReal'
  BY <1>0, <1>1 DEF Inv, ErrorIsReal, Current, would_have_blocked
<1> QED
  BY <1>2, <1>3, <1>4, <1>5 DEF Inv

\* A failed call moves nothing.
LEMMA FailKeepsInv ==
  ASSUME Inv, NEW u \in User, NEW n \in SpanSize, NEW error \in Error \ {"none"},
         Fail(u, n, error),
         peer' # peer => peer = "reset pending" /\ peer' = "reset",
         d_fd # NoHandle =>
           /\ error # "EBADF"
           /\ error \in {"ECONNRESET", "EPIPE"} => peer' = "reset"
           /\ error = "EAGAIN" => nonblocking
  PROVE  Inv'
<1>1. Keep(u, n, error, 0) /\ arrived' = arrived /\ queued' = queued
  BY DEF Fail, FailureCount
<1>2. /\ moved[u] + 0 <= Length
      /\ arrived' = arrived - 0 /\ queued' = queued + 0
      /\ {arrived', queued'} \subseteq 0..Room
  BY ONLY <1>1, Inv, u \in User, ConnectedIOAssumption, Numbers
<1>3. Outcome(u, n, error, 0)
  BY <1>1, <1>2 DEF Outcome
<1> QED
  BY <1>3, OutcomeKeepsInv

\* The failures that reader and writer have in common.
LEMMA FailuresKeepInv ==
  ASSUME Inv, NEW u \in User, NEW n \in SpanSize,
         NotConnected(u, n) \/ ReturnReset(u, n) \/ Wait(u, n)
  PROVE  Inv'
<1>1. CASE NotConnected(u, n)
  BY <1>1, FailKeepsInv DEF NotConnected, Connected, Handle, Error
<1>2. CASE ReturnReset(u, n)
  BY <1>2, FailKeepsInv DEF ReturnReset, Error
<1>3. CASE Wait(u, n)
  <2>1. CASE nonblocking
    BY <1>3, <2>1, FailKeepsInv DEF Wait, Error
  <2>2. CASE ~nonblocking
    BY <1>3, <2>2, FailKeepsInv DEF Wait, Error
  <2> QED
    BY <2>1, <2>2
<1> QED
  BY <1>1, <1>2, <1>3

\* connected_reader::read, whatever its outcome.
LEMMA ReadKeepsInv ==
  ASSUME Inv, NEW n \in SpanSize, Read(n)
  PROVE  Inv'
<1> DEFINE room == Min({n, arrived})
<1>0. n \in Nat /\ arrived \in 0..Room /\ arrived \in Nat
  BY DEF Inv, TypeOK, StreamTypeOK
<1>1. CASE ReadCopies(n)
  <2>1. room \in Nat /\ room <= n /\ room <= arrived
    BY <1>0, MinOfTwo
  <2>2. PICK k \in 1..room : /\ Keep("reader", n, "none", k)
                             /\ arrived' = arrived - k
    BY <1>1 DEF ReadCopies
  <2>3. moved["reader"] + k <= Length
    BY <1>0, <2>1, <2>2, Numbers
  <2>4. Outcome("reader", n, "none", k)
    BY <1>0, <1>1, <2>1, <2>2, <2>3, Numbers
       DEF ReadCopies, Outcome, Error
  <2> QED
    BY <2>4, OutcomeKeepsInv
<1>2. CASE (n = 0 \/ ReadEnds(n)) /\ ReadsZero(n)
  <2>1. Outcome("reader", n, "none", 0)
    BY <1>0, <1>2, Numbers DEF ReadEnds, ReadsZero, Dry, Outcome, Error
  <2> QED
    BY <2>1, OutcomeKeepsInv
<1> QED
  BY <1>1, <1>2, FailuresKeepInv DEF Read, ReadEnds, ReadWaits

\* connected_writer::write, whatever its outcome.
LEMMA WriteKeepsInv ==
  ASSUME Inv, NEW n \in SpanSize, Write(n)
  PROVE  Inv'
<1> DEFINE left == Length - moved["writer"]
           room == Min({n, Room - queued, left})
<1>1. CASE WriteCopies(n)
  <2>0. n \in Nat /\ left \in Nat /\ Room - queued \in Nat
    BY DEF Inv, TypeOK, StreamTypeOK, ResultTypeOK
  <2>1. room \in Nat /\ room <= Room - queued /\ room <= left
    BY <2>0, MinOfThree
  <2>2. PICK k \in 0..room : /\ Keep("writer", n, "none", k)
                             /\ queued' = queued + k
    BY <1>1, <2>1 DEF WriteCopies
  <2>3. Outcome("writer", n, "none", k)
    BY <1>1, <2>0, <2>1, <2>2, Numbers
       DEF WriteCopies, Outcome, Error
  <2> QED
    BY <2>3, OutcomeKeepsInv
<1>2. CASE WritePipe(n)
  BY <1>2, FailKeepsInv DEF WritePipe, Error
<1> QED
  BY <1>1, <1>2, FailuresKeepInv DEF Write, WriteWaits

\* The peer adds to what has arrived only as long as it has not ended, and what
\* it receives was written before.
LEMMA PeerKeepsInv ==
  ASSUME Inv, PeerSend \/ PeerReceive \/ PeerEnds
  PROVE  Inv'
<1> USE DEF socketVars, peerVars, resultVars
<1>1. SocketTypeOK' /\ ResultTypeOK'
  BY DEF PeerSend, PeerReceive, PeerEnds, Inv, TypeOK, SocketTypeOK, ResultTypeOK
<1>2. StreamTypeOK' /\ CountsExact'
  <2>1. CASE PeerSend
    BY <2>1, Numbers DEF PeerSend, Inv, TypeOK, StreamTypeOK, CountsExact
  <2>2. CASE PeerReceive
    BY <2>2, Numbers DEF PeerReceive, Inv, TypeOK, StreamTypeOK, CountsExact
  <2>3. CASE PeerEnds
    BY <2>3, Numbers DEF PeerEnds, Inv, TypeOK, StreamTypeOK, CountsExact, Broken
  <2> QED
    BY <2>1, <2>2, <2>3
<1>3. EndIsReal'
  BY DEF PeerSend, PeerReceive, PeerEnds, Inv, TypeOK, StreamTypeOK, EndIsReal,
     Current, SeesEnd, okay, last_bytes, would_have_blocked, Broken
<1>4. ErrorIsReal'
  BY DEF PeerSend, PeerReceive, PeerEnds, Inv, ErrorIsReal, Current,
     would_have_blocked, Broken
<1> QED
  BY <1>1, <1>2, <1>3, <1>4 DEF Inv, TypeOK

\* Nothing changes, and Inv with it.
LEMMA StutterKeepsInv ==
  ASSUME Inv, UNCHANGED vars
  PROVE  Inv'
<1> USE DEF vars, socketVars, peerVars, resultVars
<1>1. TypeOK'
  BY DEF Inv, TypeOK, SocketTypeOK, StreamTypeOK, ResultTypeOK
<1>2. CountsExact' /\ EndIsReal' /\ ErrorIsReal'
  BY DEF Inv, CountsExact, EndIsReal, ErrorIsReal, Current, SeesEnd, okay,
     last_bytes, would_have_blocked
<1> QED
  BY <1>1, <1>2 DEF Inv

\* Every reachable state has the four invariants.
THEOREM Invariance == Spec => []Inv
<1>1. Inv /\ [Next]_vars => Inv'
  BY ReconnectKeepsInv, ReadKeepsInv, WriteKeepsInv, PeerKeepsInv,
     StutterKeepsInv DEF Next
<1> QED
  BY InitInv, <1>1, PTL DEF Spec

\* The variables keep their types and the kernel's room is not overrun.
THEOREM TypeCorrect == Spec => []TypeOK
BY Invariance, PTL DEF Inv

\* The counts that read and write report add up to the streams.
THEOREM CountsExactHolds == Spec => []CountsExact
BY Invariance, PTL DEF Inv

\* A read of no bytes without an error is the end of the connection.
THEOREM EndIsRealHolds == Spec => []EndIsReal
BY Invariance, PTL DEF Inv

\* An error is one of the present connection.
THEOREM ErrorIsRealHolds == Spec => []ErrorIsReal
BY Invariance, PTL DEF Inv
=============================================================================
