------------------------ MODULE AddressRetrievalProofs ------------------------
(***************************************************************************)
(* Theorems about AddressRetrieval for names and addresses of any length.  *)
(* The buffer never gets smaller than the one inside the object, and after *)
(* the system call it holds as much of the name as fits: with the two, the *)
(* last resize either keeps all of the name or is a growth.                *)
(***************************************************************************)
EXTENDS AddressRetrieval, TLAPS

\* Whose name the method that runs asks for.
Wanted == IF method \in Accepts THEN "peer" ELSE "own"

\* What the system call that has just returned left in the buffer.
Filled ==
  pc = "resize" =>
    /\ len = name /\ method \notin Constructors
    /\ content = [of |-> Wanted, bytes |-> IF name <= capacity THEN name
                                                               ELSE capacity]

\* The listener's address has the size it was bound with.
Bound == pc = "call" /\ method \in Constructors => size = BoundSize

\* The buffer is at least the one inside the object.
Roomy == SdoSize <= capacity

IInv ==
  /\ TypeOK
  /\ Roomy
  /\ Filled
  /\ Bound
  /\ LocalAddressComplete
  /\ PeerAddressLost

USE SizesAssumption

\* The parameters' lengths are natural numbers and a sockaddr's is not zero.
LEMMA Sizes ==
  /\ SockaddrSize \in Nat /\ SdoSize \in Nat /\ BoundSize \in Nat
  /\ \A n \in NameSizes : n \in Nat /\ n > 0
BY DEF SizesAssumption

\* The invariant holds of an address that has just been constructed.
LEMMA InitIInv == Init => IInv
BY Sizes DEF Init, IInv, TypeOK, Roomy, Filled, Bound, LocalAddressComplete,
   PeerAddressLost, Contents, Old, Accepts, Queries, Methods

\* Resizing keeps size, capacity and contents in proportion, and never makes
\* the buffer smaller.
LEMMA ResizeToEffect ==
  ASSUME NEW n \in Nat, NEW c \in Nat, NEW kept \in Contents, kept.bytes <= c,
         ResizeTo(n, c, kept)
  PROVE  /\ size' = n /\ capacity' \in Nat /\ content' \in Contents
         /\ size' <= capacity' /\ c <= capacity' /\ content'.bytes <= capacity'
BY DEF ResizeTo, Contents, Old

\* The call of a method starts with a buffer at least as large as before, but
\* for local_address of connected_socket, which has a new one.
LEMMA BeginKeepsIInv ==
  ASSUME IInv, NEW m \in Methods, NEW n \in NameSizes, Begin(m, n)
  PROVE  IInv'
<1>1. FirstSize(m) \in Nat /\ FirstCapacity(m) \in Nat /\ SdoSize <= FirstCapacity(m)
  BY Sizes DEF FirstSize, FirstCapacity, IInv, TypeOK, Roomy
<1>2. Old \in Contents /\ Old.bytes = 0
  BY DEF Old, Contents
<1>3. TypeOK' /\ Roomy'
  BY <1>1, <1>2, ResizeToEffect, Sizes DEF Begin, IInv, TypeOK, Roomy
<1>4. (Filled /\ Bound /\ LocalAddressComplete /\ PeerAddressLost)'
  BY <1>1, <1>2, ResizeToEffect
     DEF Begin, Filled, Bound, FirstSize, Constructors, LocalAddressComplete,
         PeerAddressLost
<1> QED
  BY <1>3, <1>4 DEF IInv

\* accept or getsockname fills the buffer.
LEMMA SuccessKeepsIInv ==
  ASSUME IInv, CallSucceeds
  PROVE  IInv'
<1>1. content' \in Contents /\ content'.bytes <= capacity
  BY Sizes DEF CallSucceeds, Room, Contents, IInv, TypeOK
<1>2. TypeOK' /\ Roomy'
  BY <1>1 DEF CallSucceeds, IInv, TypeOK, Roomy
<1>3. Filled' /\ Bound'
  BY DEF CallSucceeds, Filled, Bound, Wanted, Room
<1>4. LocalAddressComplete'
  <2>1. CASE method \in Constructors
    <3>1. size = BoundSize /\ BoundSize <= capacity /\ method \notin Accepts
      BY <2>1 DEF CallSucceeds, Bound, IInv, TypeOK, Constructors, Accepts
    <3>2. name <= BoundSize => content' = [of |-> "own", bytes |-> name]
      BY <3>1, Sizes DEF CallSucceeds, Room, IInv, TypeOK
    <3> QED
      BY <2>1, <3>1, <3>2
         DEF CallSucceeds, LocalAddressComplete, Constructors, Queries
  <2>2. CASE method \notin Constructors
    BY <2>2 DEF CallSucceeds, LocalAddressComplete
  <2> QED
    BY <2>1, <2>2
<1>5. PeerAddressLost'
  BY DEF CallSucceeds, PeerAddressLost, Constructors, Accepts
<1> QED
  BY <1>2, <1>3, <1>4, <1>5 DEF IInv

\* accept or getsockname fails.
LEMMA FailureKeepsIInv ==
  ASSUME IInv, CallFails
  PROVE  IInv'
<1>1. CASE method \notin Queries
  BY <1>1 DEF CallFails, IInv, TypeOK, Roomy, Filled, Bound, LocalAddressComplete,
              PeerAddressLost, address
<1>2. CASE method \in Queries
  <2>1. ResizeTo(0, capacity, content)
    BY <1>2 DEF CallFails
  <2>2. TypeOK' /\ Roomy' /\ size' = 0
    BY <2>1, ResizeToEffect, Sizes DEF CallFails, IInv, TypeOK, Roomy
  <2>3. (Filled /\ Bound /\ LocalAddressComplete /\ PeerAddressLost)'
    BY <2>2 DEF CallFails, Filled, Bound, LocalAddressComplete, PeerAddressLost
  <2> QED
    BY <2>2, <2>3 DEF IInv
<1> QED
  BY <1>1, <1>2

\* The resize after the call gives the address the length of the name.
LEMMA ResizeKeepsIInv ==
  ASSUME IInv, ResizeToLength
  PROVE  IInv'
<1>1. /\ len = name /\ name \in Nat /\ capacity \in Nat
      /\ method \notin Constructors
      /\ content = [of |-> Wanted, bytes |-> IF name <= capacity THEN name
                                                                 ELSE capacity]
      /\ ResizeTo(name, capacity, content)
  BY Sizes DEF ResizeToLength, IInv, TypeOK, Filled
<1>2. TypeOK' /\ Roomy' /\ size' = name'
  BY <1>1, ResizeToEffect, Sizes DEF ResizeToLength, IInv, TypeOK, Roomy
<1>3. Filled' /\ Bound'
  BY <1>1 DEF ResizeToLength, Filled, Bound
<1>4. LocalAddressComplete'
  BY <1>1, <1>2 DEF ResizeToLength, ResizeTo, AsksAgain, LocalAddressComplete,
                    Holds, Wanted, Accepts, Queries
<1>5. PeerAddressLost'
  <2>1. CASE name <= capacity
    BY <1>1, <2>1 DEF ResizeToLength, ResizeTo, PeerAddressLost, Wanted
  <2>2. CASE name > capacity
    BY <1>1, <2>2, Sizes DEF ResizeToLength, PeerAddressLost, IInv, Roomy
  <2> QED
    BY <1>1, <2>1, <2>2
<1> QED
  BY <1>2, <1>3, <1>4, <1>5 DEF IInv

\* Sizes, capacities and names keep in step whatever methods are called.
THEOREM Invariance == Spec => []IInv
<1>1. IInv /\ [Next]_vars => IInv'
  <2> SUFFICES ASSUME IInv, [Next]_vars PROVE IInv'
    OBVIOUS
  <2>1. CASE ResizeAborts
    BY <2>1 DEF ResizeAborts, IInv, TypeOK, Roomy, Filled, Bound,
                LocalAddressComplete, PeerAddressLost, address
  <2>2. CASE UNCHANGED vars
    BY <2>2 DEF vars, IInv, TypeOK, Roomy, Filled, Bound, Wanted,
                LocalAddressComplete, PeerAddressLost, Holds, address
  <2> QED
    BY <2>1, <2>2, BeginKeepsIInv, SuccessKeepsIInv, FailureKeepsIInv,
       ResizeKeepsIInv DEF Next, Call
<1> QED
  BY InitIInv, <1>1, PTL DEF Spec

\* The buffer is as large as the size and the bytes in it say.
THEOREM TypeCorrect == Spec => []TypeOK
<1>1. IInv => TypeOK
  BY DEF IInv
<1> QED
  BY <1>1, Invariance, PTL

\* local_address returns the whole name, however long it is and whatever the
\* address was used for before, and the listener's address has one that fits.
THEOREM LocalComplete == Spec => []LocalAddressComplete
<1>1. IInv => LocalAddressComplete
  BY DEF IInv
<1> QED
  BY <1>1, Invariance, PTL

\* accept returns all of a peer's address that fits the address it was given,
\* and nothing of one that does not.
THEOREM PeerComplete == Spec => PeerAddressComplete
<1>1. ASSUME IInv, [Next]_vars, method \in Accepts, pc # "success",
             pc' = "success"
      PROVE  IF name <= capacity THEN Holds("peer")' ELSE (content.of)' # "peer"
  <2>1. ResizeToLength
    BY <1>1 DEF Next, Call, Begin, CallSucceeds, CallFails, ResizeAborts, vars,
                Accepts, Constructors
  <2>2. /\ len = name /\ name \in Nat /\ capacity \in Nat /\ name' = name
        /\ content = [of |-> "peer", bytes |-> IF name <= capacity THEN name
                                                                  ELSE capacity]
        /\ ResizeTo(name, capacity, content)
    BY <1>1, <2>1, Sizes DEF ResizeToLength, IInv, TypeOK, Filled, Wanted
  <2>3. CASE name <= capacity
    BY <2>2, <2>3 DEF ResizeTo, Holds
  <2>4. CASE name > capacity
    BY <2>2, <2>4 DEF ResizeTo, Old
  <2> QED
    BY <2>2, <2>3, <2>4
<1>2. IInv /\ [Next]_vars =>
        [(method \in Accepts /\ pc # "success" /\ pc' = "success") =>
           (IF name <= capacity THEN Holds("peer")' ELSE (content.of)' # "peer")]_vars
  BY <1>1
<1> QED
  BY <1>2, Invariance, PTL DEF Spec, PeerAddressComplete

\* It returns nothing only of a peer whose address is longer than the buffer
\* inside the object.
THEOREM PeerLost == Spec => []PeerAddressLost
<1>1. IInv => PeerAddressLost
  BY DEF IInv
<1> QED
  BY <1>1, Invariance, PTL
=============================================================================
