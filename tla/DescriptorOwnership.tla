------------------------- MODULE DescriptorOwnership -------------------------
(***************************************************************************)
(* What the socket classes promise about file descriptors: a descriptor    *)
(* that is open has at most one owner, only its owner closes it, and only  *)
(* certain owners may lose one.  An owner is an object, a running accept   *)
(* call (which holds the new descriptor in a local variable until it is    *)
(* imported) or the application around the library.                        *)
(***************************************************************************)
EXTENDS TLAPS

CONSTANTS Fd,      \* the descriptors a process can have open
          Owner,   \* everything that can hold a descriptor
          Losers   \* the owners that may go without closing what they hold

VARIABLES open,    \* the descriptors open in the process
          holds    \* holds[o]: the descriptors o is responsible for

vars == <<open, holds>>

TypeOK ==
  /\ open \in SUBSET Fd
  /\ holds \in [Owner -> SUBSET Fd]

Init ==
  /\ open = {}
  /\ holds = [o \in Owner |-> {}]

\* A system call creates a descriptor, which o holds from then on.
Acquire(o, fd) ==
  /\ fd \notin open
  /\ open' = open \cup {fd}
  /\ holds' = [holds EXCEPT ![o] = @ \cup {fd}]

\* An owner closes a descriptor it holds.
Release(o, fd) ==
  /\ fd \in holds[o]
  /\ open' = open \ {fd}
  /\ holds' = [holds EXCEPT ![o] = @ \ {fd}]

\* p hands fd to o, which closes what it held before.
Transfer(p, o, fd) ==
  /\ p # o
  /\ fd \in holds[p]
  /\ open' = open \ holds[o]
  /\ holds' = [holds EXCEPT ![p] = @ \ {fd}, ![o] = {fd}]

\* o is gone, and the descriptor it held stays open for ever.
Lose(o, fd) ==
  /\ fd \in holds[o]
  /\ holds' = [holds EXCEPT ![o] = @ \ {fd}]
  /\ UNCHANGED open

\* A step in which the owners account for every descriptor.
Managed ==
  \E o \in Owner, fd \in Fd :
    \/ Acquire(o, fd)
    \/ Release(o, fd)
    \/ \E p \in Owner : Transfer(p, o, fd)

Next ==
  \/ Managed
  \/ \E o \in Owner \cap Losers, fd \in Fd : Lose(o, fd)

Spec == Init /\ [][Next]_vars

-----------------------------------------------------------------------------
\* No descriptor has two owners: what one object closes, no other relies on.
Exclusive ==
  \A o, p \in Owner : o # p => holds[o] \cap holds[p] = {}

\* What is held is open: no number dangles.
Accounted == UNION {holds[o] : o \in Owner} \subseteq open

Lost == open \ UNION {holds[o] : o \in Owner}

Partition == TypeOK /\ Exclusive /\ Accounted

\* Until it closes or passes it on, an owner has an open descriptor to itself.
\* Whatever maps its steps to those of this module shares none and keeps none
\* that is closed.
THEOREM PartitionHolds == Spec => []Partition
<1>1. Init => Partition
  BY DEF Init, Partition, TypeOK, Exclusive, Accounted
<1>2. Partition /\ [Next]_vars => Partition'
  <2> SUFFICES ASSUME Partition, [Next]_vars PROVE Partition'
    OBVIOUS
  <2> USE DEF Partition, TypeOK, Exclusive, Accounted
  <2>1. ASSUME NEW o \in Owner, NEW fd \in Fd, Acquire(o, fd)
        PROVE  Partition'
    BY <2>1 DEF Acquire
  <2>2. ASSUME NEW o \in Owner, NEW fd \in Fd, Release(o, fd)
        PROVE  Partition'
    BY <2>2 DEF Release
  <2>3. ASSUME NEW o \in Owner, NEW fd \in Fd, NEW p \in Owner,
               Transfer(p, o, fd)
        PROVE  Partition'
    BY <2>3 DEF Transfer
  <2>4. ASSUME NEW o \in Owner, NEW fd \in Fd, Lose(o, fd)
        PROVE  Partition'
    BY <2>4 DEF Lose
  <2>5. CASE UNCHANGED vars
    BY <2>5 DEF vars
  <2> QED
    BY <2>1, <2>2, <2>3, <2>4, <2>5 DEF Next, Managed
<1> QED
  BY <1>1, <1>2, PTL DEF Spec

\* The steps other than Lose neither lose a descriptor nor find a lost one.
THEOREM ManagedLosesNothing == Partition /\ [Managed]_vars => Lost' = Lost
<1> SUFFICES ASSUME Partition, [Managed]_vars PROVE Lost' = Lost
  OBVIOUS
<1> USE DEF Partition, TypeOK, Exclusive, Accounted, Lost
<1>1. ASSUME NEW o \in Owner, NEW fd \in Fd, Acquire(o, fd)
      PROVE  Lost' = Lost
  BY <1>1 DEF Acquire
<1>2. ASSUME NEW o \in Owner, NEW fd \in Fd, Release(o, fd)
      PROVE  Lost' = Lost
  BY <1>2 DEF Release
<1>3. ASSUME NEW o \in Owner, NEW fd \in Fd, NEW p \in Owner,
             Transfer(p, o, fd)
      PROVE  Lost' = Lost
  BY <1>3 DEF Transfer
<1>4. CASE UNCHANGED vars
  BY <1>4 DEF vars
<1> QED
  BY <1>1, <1>2, <1>3, <1>4 DEF Managed
=============================================================================
