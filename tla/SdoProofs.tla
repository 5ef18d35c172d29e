------------------------------ MODULE SdoProofs ------------------------------
(***************************************************************************)
(* Theorems about Sdo for any number of arrays and blocks and any sizes.   *)
(* The invariant says which blocks are whose: those of the arrays that may *)
(* be used.  Of an array whose growth threw it says nothing: its pointer   *)
(* may be that of a block since given to another, which its destructor     *)
(* then frees.                                                             *)
(***************************************************************************)
EXTENDS Sdo, TLAPS

\* The variables other than d_size and heap have their types.
StorageTypes ==
  /\ alive \in SUBSET Array
  /\ d_capacity \in [Array -> SmallSize..(SmallSize + MaxSize)]
  /\ d_data \in [Array -> [1..SmallSize -> Char \cup Block]]
  /\ live \in SUBSET Block
  /\ cells \in [Block -> Seq(Char)]
  /\ dangling \subseteq alive

\* Places without an object and small arrays have no pointer, and an array that
\* is large and may be used has a block.
PointersInv ==
  /\ \A o \in Array \ alive : d_capacity[o] = SmallSize
  /\ \A o \in Array : ~IsLarge(o) => d_ptr(o) \in Char
  /\ \A o \in Usable : Allocated(o)

\* Two of them have different ones.
Separate ==
  \A o, p \in Usable : IsLarge(o) /\ IsLarge(p) /\ d_ptr(o) = d_ptr(p) => o = p

\* Each block is the storage of such an array, and as large as the array says.
Backed ==
  /\ \A b \in live : \E o \in Usable : IsLarge(o) /\ d_ptr(o) = b
  /\ \A o \in Usable : IsLarge(o) => Len(cells[d_ptr(o)]) = d_capacity[o]

HeapInv == StorageTypes /\ PointersInv /\ Separate /\ Backed

SizesInv ==
  /\ d_size \in [Array -> 0..MaxSize]
  /\ \A o \in Array : d_size[o] <= d_capacity[o]

IInv == HeapInv /\ SizesInv

\* The facts about the parameters the proofs use.
LEMMA Parameters ==
  /\ SmallSize \in Nat /\ SmallSize > 0 /\ MaxSize \in Nat
  /\ 1 \in 1..SmallSize
  /\ Zero \in Char /\ Junk \in Char
  /\ \A b \in Block : b \notin Char
BY SdoAssumption DEF Char

\* The invariant holds when no array exists.
LEMMA InitIInv == Init => IInv
<1> SUFFICES ASSUME Init PROVE IInv
  OBVIOUS
<1> USE Parameters DEF Init
<1>1. StorageTypes
  BY DEF StorageTypes
<1>2. PointersInv
  BY DEF PointersInv, IsLarge, d_ptr, Usable
<1>3. Separate /\ Backed
  BY DEF Separate, Backed, Usable
<1>4. SizesInv
  BY DEF SizesInv
<1> QED
  BY <1>1, <1>2, <1>3, <1>4 DEF IInv, HeapInv

-----------------------------------------------------------------------------
(* Lemmas about memory. *)

\* Memory that was never written is a sequence of characters.
LEMMA Unwritten ==
  ASSUME NEW n \in Nat
  PROVE  [i \in 1..n |-> Junk] \in Seq(Char) /\ Len([i \in 1..n |-> Junk]) = n
BY Parameters

\* Writing characters to a block leaves a block of characters as large.
LEMMA OverwriteBlock ==
  ASSUME NEW old \in Seq(Char), NEW s, \A i \in DOMAIN s : s[i] \in Char
  PROVE  /\ Overwrite(old, s) \in Seq(Char)
         /\ Len(Overwrite(old, s)) = Len(old)
<1> DEFINE new == [i \in 1..Len(old) |-> IF i \in DOMAIN s THEN s[i] ELSE old[i]]
<1>1. Overwrite(old, s) = new
  BY DEF Overwrite
<1>2. new \in Seq(Char) /\ Len(new) = Len(old)
  OBVIOUS
<1> QED
  BY <1>1, <1>2

\* Writing characters to the union of a small array leaves no pointer there.
LEMMA OverwriteUnion ==
  ASSUME NEW old \in [1..SmallSize -> Char \cup Block], old[1] \in Char,
         NEW s, \A i \in DOMAIN s : s[i] \in Char
  PROVE  /\ Overwrite(old, s) \in [1..SmallSize -> Char \cup Block]
         /\ Overwrite(old, s)[1] \in Char
BY Parameters DEF Overwrite

\* Writing to a new block.
LEMMA OverwriteNew ==
  ASSUME NEW n \in 0..MaxSize, NEW s, \A i \in DOMAIN s : s[i] \in Char
  PROVE  /\ Overwrite([i \in 1..n |-> Junk], s) \in Seq(Char)
         /\ Len(Overwrite([i \in 1..n |-> Junk], s)) = n
BY Parameters, Unwritten, OverwriteBlock

\* Setting the pointers of two unions.
LEMMA SetPointers ==
  ASSUME NEW f \in [Array -> [1..SmallSize -> Char \cup Block]],
         NEW o \in Array, NEW p \in Array,
         NEW x \in Char \cup Block, NEW y \in Char \cup Block
  PROVE  [f EXCEPT ![o][1] = x, ![p][1] = y]
           \in [Array -> [1..SmallSize -> Char \cup Block]]
<1> DEFINE g == [f EXCEPT ![o][1] = x]
<1>1. g \in [Array -> [1..SmallSize -> Char \cup Block]]
  BY Parameters
<1> HIDE DEF g
<1>2. [g EXCEPT ![p][1] = y] \in [Array -> [1..SmallSize -> Char \cup Block]]
  BY <1>1, Parameters
<1> QED
  BY <1>2 DEF g

-----------------------------------------------------------------------------
(* What the parts of an operation do to the storage. *)

\* Writing the elements of an array that can be used.
LEMMA StoreKeeps ==
  ASSUME HeapInv, NEW o \in Array, Allocated(o),
         NEW s, \A i \in DOMAIN s : s[i] \in Char,
         Store(o, s), UNCHANGED <<d_capacity, live, dangling>>,
         alive' = alive \cup {o}, Usable' = Usable \cup {o},
         IsLarge(o) => o \in Usable
  PROVE  HeapInv'
<1> USE Parameters DEF HeapInv, StorageTypes, PointersInv, Separate, Backed,
        IsLarge, d_ptr, Allocated
<1>1. CASE IsLarge(o)
  <2>1. /\ alive' = alive /\ Usable' = Usable /\ d_data' = d_data
        /\ d_ptr(o) \in Block
        /\ cells' = [cells EXCEPT ![d_ptr(o)] = Overwrite(@, s)]
    BY <1>1 DEF Store, Usable
  <2>2. /\ Overwrite(cells[d_ptr(o)], s) \in Seq(Char)
        /\ Len(Overwrite(cells[d_ptr(o)], s)) = Len(cells[d_ptr(o)])
    BY <2>1, OverwriteBlock
  <2> QED
    BY <1>1, <2>1, <2>2
<1>2. CASE ~IsLarge(o)
  <2>1. cells' = cells /\ d_data' = [d_data EXCEPT ![o] = Overwrite(@, s)]
    BY <1>2 DEF Store
  <2>2. /\ Overwrite(d_data[o], s) \in [1..SmallSize -> Char \cup Block]
        /\ Overwrite(d_data[o], s)[1] \in Char
    BY <1>2, OverwriteUnion
  <2> QED
    BY <1>2, <2>1, <2>2
<1> QED
  BY <1>1, <1>2

\* reserve and the writes after it, on a new object or one that can be used.
LEMMA ReserveAndStoreKeeps ==
  ASSUME HeapInv, NEW o \in Array, o \notin alive \/ o \in Usable,
         NEW n \in 0..MaxSize, NEW s, \A i \in DOMAIN s : s[i] \in Char,
         ReserveAndStore(o, n, s), alive' = alive \cup {o}
  PROVE  /\ HeapInv'
         /\ n <= d_capacity'[o] /\ d_capacity[o] <= d_capacity'[o]
         /\ \A q \in Array \ {o} : d_capacity'[q] = d_capacity[q]
         /\ Allocated(o)'
<1> USE Parameters DEF HeapInv, StorageTypes, PointersInv, Separate, Backed,
        IsLarge, d_ptr, Allocated
<1>1. /\ Allocated(o) /\ (IsLarge(o) => o \in Usable)
      /\ dangling' = dangling /\ Usable' = Usable \cup {o}
      /\ dangling' \subseteq alive'
  BY DEF Usable, ReserveAndStore
<1>2. CASE Fits(o, n) /\ Store(o, s) /\ UNCHANGED <<d_capacity, live, dangling>>
  <2>1. HeapInv'
    BY <1>1, <1>2, StoreKeeps
  <2>2. Allocated(o)'
    BY <1>1, <1>2 DEF Store
  <2> QED
    BY <1>2, <2>1, <2>2 DEF Fits
<1>3. CASE ~Fits(o, n)
  <2>1. PICK b \in Block \ (live \ BlocksOf(o)) :
          /\ live' = (live \ BlocksOf(o)) \cup {b}
          /\ d_data' = [d_data EXCEPT ![o][1] = b]
          /\ cells' = [c \in Block |->
                         CASE c = b -> Overwrite([i \in 1..n |-> Junk], s)
                           [] c # b /\ c \in BlocksOf(o) -> <<>>
                           [] OTHER -> cells[c]]
    BY <1>3 DEF ReserveAndStore
  <2>2. d_capacity' = [d_capacity EXCEPT ![o] = n] /\ n > d_capacity[o]
    BY <1>3 DEF ReserveAndStore, Fits
  <2>3. /\ \A q \in Array \ {o} : d_data'[q] = d_data[q] /\ d_capacity'[q] = d_capacity[q]
        /\ d_data'[o][1] = b /\ d_capacity'[o] = n
        /\ n \in SmallSize..(SmallSize + MaxSize) /\ n > SmallSize
    BY <2>1, <2>2
  <2>4. /\ cells'[b] \in Seq(Char) /\ Len(cells'[b]) = n
        /\ \A c \in Block : c # b /\ c \notin BlocksOf(o) => cells'[c] = cells[c]
        /\ \A c \in Block : c # b /\ c \in BlocksOf(o) => cells'[c] = <<>>
    <3> DEFINE fresh == Overwrite([i \in 1..n |-> Junk], s)
    <3>1. fresh \in Seq(Char) /\ Len(fresh) = n
      <4>1. \A i \in DOMAIN s : s[i] \in Char
        OBVIOUS
      <4> QED
        BY ONLY <4>1, OverwriteNew, n \in 0..MaxSize
    <3> HIDE DEF fresh
    <3>2. cells' = [c \in Block |->
                      CASE c = b -> fresh
                        [] c # b /\ c \in BlocksOf(o) -> <<>>
                        [] OTHER -> cells[c]]
      BY <2>1 DEF fresh
    <3> QED
      BY ONLY <3>1, <3>2, b \in Block
  <2>5. ASSUME NEW q \in Usable \ {o}, IsLarge(q)
        PROVE  /\ q \in Array /\ d_ptr(q) \in Block
               /\ d_ptr(q) # b /\ d_ptr(q) \notin BlocksOf(o) /\ d_ptr(q) \in live'
    BY <1>1, <2>1, <2>5 DEF BlocksOf, Usable
  <2>7. StorageTypes'
    <3>1. d_data' \in [Array -> [1..SmallSize -> Char \cup Block]]
      BY <2>1
    <3>2. cells' \in [Block -> Seq(Char)]
      <4>1. ASSUME NEW c \in Block PROVE cells'[c] \in Seq(Char)
        <5>1. cells[c] \in Seq(Char) /\ <<>> \in Seq(Char)
          OBVIOUS
        <5> QED
          BY ONLY <2>4, <5>1, c \in Block
      <4> QED
        BY <2>1, <4>1
    <3> QED
      <4>1. d_capacity' \in [Array -> SmallSize..(SmallSize + MaxSize)]
        BY <2>2, <2>3
      <4>2. live' \in SUBSET Block
        BY <2>1
      <4> QED
        BY <1>1, <3>1, <3>2, <4>1, <4>2
  <2>8. PointersInv'
    <3>1. ASSUME NEW q \in Usable' PROVE Allocated(q)'
      BY <1>1, <2>1, <2>3, <2>5 DEF Usable
    <3>2. ASSUME NEW q \in Array PROVE (~IsLarge(q) => d_ptr(q) \in Char)'
      BY <2>3
    <3>3. ASSUME NEW q \in Array \ alive' PROVE d_capacity'[q] = SmallSize
      BY <2>3
    <3> QED
      BY <3>1, <3>2, <3>3
  <2>9. Separate'
    <3>1. ASSUME NEW q \in Usable', NEW r \in Usable', IsLarge(q)', IsLarge(r)',
                 d_ptr(q)' = d_ptr(r)'
          PROVE  q = r
      <4>1. /\ q # o => q \in Usable \ {o} /\ q \in Array /\ IsLarge(q)
            /\ r # o => r \in Usable \ {o} /\ r \in Array /\ IsLarge(r)
        BY <1>1, <2>3, <3>1 DEF Usable
      <4> QED
        BY <2>3, <2>5, <3>1, <4>1
    <3> QED
      BY <3>1
  <2>10. Backed'
    <3>1. ASSUME NEW c \in live', c # b
          PROVE  \E q \in Usable \ {o} : IsLarge(q) /\ d_ptr(q) = c
      <4>1. c \in live /\ c \notin BlocksOf(o)
        BY <2>1, <3>1
      <4> QED
        BY <4>1 DEF BlocksOf
    <3>2. ASSUME NEW c \in live'
          PROVE  \E q \in Usable' : (IsLarge(q) /\ d_ptr(q) = c)'
      <4>1. CASE c = b
        BY <1>1, <2>3, <4>1
      <4>2. CASE c # b
        <5>1. PICK q \in Usable \ {o} : IsLarge(q) /\ d_ptr(q) = c
          BY <3>1, <3>2, <4>2
        <5> QED
          BY <1>1, <2>3, <2>5, <5>1
      <4> QED
        BY <4>1, <4>2
    <3>3. ASSUME NEW q \in Usable', IsLarge(q)'
          PROVE  (Len(cells[d_ptr(q)]) = d_capacity[q])'
      <4>1. CASE q = o
        BY <2>3, <2>4, <4>1
      <4>2. CASE q # o
        <5>1. q \in Usable \ {o} /\ q \in Array /\ IsLarge(q)
          BY <1>1, <2>3, <3>3, <4>2 DEF Usable
        <5> QED
          BY <2>3, <2>4, <2>5, <5>1
      <4> QED
        BY <4>1, <4>2
    <3> QED
      BY <3>2, <3>3
  <2> QED
    <3>1. n <= d_capacity'[o] /\ d_capacity[o] <= d_capacity'[o]
      BY <2>2, <2>3
    <3>2. Allocated(o)'
      BY <2>1, <2>3
    <3> QED
      BY <2>3, <2>7, <2>8, <2>9, <2>10, <3>1, <3>2 DEF HeapInv
<1> QED
  BY <1>2, <1>3 DEF ReserveAndStore

\* An exception in reserve frees the old storage and leaves no other.
LEMMA ReserveThrowsKeeps ==
  ASSUME HeapInv, NEW o \in Usable, NEW n \in 0..MaxSize, ReserveThrows(o, n),
         UNCHANGED alive
  PROVE  /\ HeapInv'
         /\ n <= d_capacity'[o] /\ d_capacity[o] <= d_capacity'[o]
         /\ \A q \in Array \ {o} : d_capacity'[q] = d_capacity[q]
<1> USE Parameters DEF HeapInv, StorageTypes, PointersInv, Separate, Backed,
        IsLarge, d_ptr, Allocated
<1>1. o \in alive /\ o \in Array /\ Allocated(o)
  BY DEF Usable
<1>2. /\ live' = live \ BlocksOf(o)
      /\ cells' = [c \in Block |-> IF c \in BlocksOf(o) THEN <<>> ELSE cells[c]]
      /\ d_capacity' = [d_capacity EXCEPT ![o] = n] /\ n > d_capacity[o]
      /\ d_data' = d_data
      /\ dangling' \subseteq alive' /\ Usable' = Usable \ {o}
  BY <1>1 DEF ReserveThrows, Release, Fits, Usable
<1>3. /\ \A q \in Array \ {o} : d_capacity'[q] = d_capacity[q]
      /\ d_capacity'[o] = n
      /\ n \in SmallSize..(SmallSize + MaxSize) /\ n > SmallSize
  BY <1>1, <1>2
<1>4. ASSUME NEW q \in Usable', IsLarge(q)'
      PROVE  /\ q \in Usable /\ q \in Array \ {o} /\ IsLarge(q)
             /\ d_ptr(q) \in Block
             /\ d_ptr(q) \notin BlocksOf(o) /\ d_ptr(q) \in live'
  BY <1>1, <1>2, <1>3, <1>4 DEF BlocksOf, Usable
<1>5. StorageTypes'
  <2>1. d_capacity' \in [Array -> SmallSize..(SmallSize + MaxSize)]
    BY <1>2, <1>3
  <2>2. cells' \in [Block -> Seq(Char)]
    BY <1>2
  <2> QED
    BY <1>2, <2>1, <2>2
<1>6. PointersInv'
  BY <1>1, <1>2, <1>3, <1>4
<1>7. Separate'
  BY <1>2, <1>4
<1>8. Backed'
  <2>1. ASSUME NEW c \in live'
        PROVE  \E q \in Usable' : (IsLarge(q) /\ d_ptr(q) = c)'
    <3>1. PICK q \in Usable : IsLarge(q) /\ d_ptr(q) = c
      BY <1>2
    <3>2. q # o
      BY <1>2, <3>1 DEF BlocksOf
    <3> QED
      BY <1>2, <1>3, <3>1, <3>2 DEF Usable
  <2>2. ASSUME NEW q \in Usable', IsLarge(q)'
        PROVE  (Len(cells[d_ptr(q)]) = d_capacity[q])'
    BY <1>2, <1>3, <1>4, <2>2
  <2> QED
    BY <2>1, <2>2
<1> QED
  BY <1>2, <1>3, <1>5, <1>6, <1>7, <1>8

\* Arrays on the heap change hands: no block is allocated, freed or shared.
LEMMA TakeHeapKeeps ==
  ASSUME HeapInv, NEW o \in Array, o \notin alive \/ o \in Usable,
         NEW p \in Usable, IsLarge(p), TakeHeap(o, p), alive' = alive \cup {o}
  PROVE  HeapInv' /\ Allocated(o)' /\ Allocated(p)'
<1> USE Parameters DEF HeapInv, StorageTypes, PointersInv, Separate, Backed,
        IsLarge, d_ptr, Allocated
<1>1. /\ p \in alive /\ p \in Array /\ d_ptr(p) \in live
      /\ IsLarge(o) => o \in Usable /\ d_ptr(o) \in live
      /\ dangling' = dangling /\ Usable' = Usable \cup {o}
      /\ dangling' \subseteq alive'
  BY DEF Usable, TakeHeap
<1>2. /\ live' = live /\ cells' = cells
      /\ \A q \in Array \ {o, p} : /\ d_data'[q] = d_data[q]
                                   /\ d_capacity'[q] = d_capacity[q]
      /\ d_data'[o][1] = d_ptr(p) /\ d_capacity'[o] = d_capacity[p]
      /\ d_data'[p][1] = d_ptr(o) /\ d_capacity'[p] = d_capacity[o]
  BY <1>1 DEF TakeHeap, Swap
<1>3. StorageTypes'
  <2>1. d_data' \in [Array -> [1..SmallSize -> Char \cup Block]]
    <3>1. d_ptr(p) \in Char \cup Block /\ d_ptr(o) \in Char \cup Block
      BY <1>1
    <3>2. d_data' = [d_data EXCEPT ![o][1] = d_ptr(p), ![p][1] = d_ptr(o)]
      BY DEF TakeHeap
    <3>3. d_data \in [Array -> [1..SmallSize -> Char \cup Block]]
      OBVIOUS
    <3> QED
      BY ONLY <1>1, <3>1, <3>2, <3>3, SetPointers, o \in Array
  <2>2. d_capacity' \in [Array -> SmallSize..(SmallSize + MaxSize)]
    BY <1>1 DEF TakeHeap, Swap
  <2> QED
    BY <1>1, <1>2, <2>1, <2>2
<1>4. PointersInv'
  <2>1. ASSUME NEW q \in Usable' PROVE Allocated(q)'
    BY <1>1, <1>2 DEF Usable
  <2>2. ASSUME NEW q \in Array
        PROVE  /\ (~IsLarge(q) => d_ptr(q) \in Char)'
               /\ q \notin alive' => d_capacity'[q] = SmallSize
    BY <1>1, <1>2
  <2> QED
    BY <2>1, <2>2
<1> DEFINE Was(q) == CASE q = o -> p [] q # o /\ q = p -> o [] OTHER -> q
<1>5. ASSUME NEW q \in Usable', IsLarge(q)'
      PROVE  /\ Was(q) \in Usable /\ IsLarge(Was(q))
             /\ d_ptr(Was(q)) = d_ptr(q)'
             /\ d_capacity[Was(q)] = d_capacity'[q]
  <2>1. CASE q = o
    BY <1>1, <1>2, <1>5, <2>1
  <2>2. CASE q # o /\ q = p
    BY <1>1, <1>2, <1>5, <2>2
  <2>3. CASE q # o /\ q # p
    BY <1>1, <1>2, <1>5, <2>3 DEF Usable
  <2> QED
    BY <2>1, <2>2, <2>3
<1>6. \A q, r \in Usable' : Was(q) = Was(r) => q = r
  OBVIOUS
<1>7. ASSUME NEW b \in live
      PROVE  \E q \in Usable' : (IsLarge(q) /\ d_ptr(q) = b)'
  <2>1. PICK q \in Usable : IsLarge(q) /\ d_ptr(q) = b
    OBVIOUS
  <2>2. /\ Was(q) \in Usable'
        /\ d_capacity'[Was(q)] = d_capacity[q]
        /\ d_data'[Was(q)][1] = d_data[q][1]
    BY <1>1, <1>2 DEF Usable
  <2> QED
    BY <2>1, <2>2
<1> HIDE DEF Was
<1>8. Separate'
  BY <1>5, <1>6
<1>9. Backed'
  <2>1. ASSUME NEW q \in Usable', IsLarge(q)'
        PROVE  (Len(cells[d_ptr(q)]) = d_capacity[q])'
    <3>1. Len(cells[d_ptr(Was(q))]) = d_capacity[Was(q)]
      BY <1>5, <2>1
    <3> QED
      BY <1>2, <1>5, <2>1, <3>1
  <2> QED
    BY <1>2, <1>7, <2>1
<1> QED
  BY <1>1, <1>2, <1>3, <1>4, <1>8, <1>9

\* The destructor gives its block back, or that of the array which has it now
\* and which cannot be used any more.
LEMMA DestroyKeeps ==
  ASSUME HeapInv, NEW o \in Array, Destroy(o), BlocksOf(o) \subseteq live \cup {Zero}
  PROVE  HeapInv'
<1> USE Parameters DEF HeapInv, StorageTypes, PointersInv, Separate, Backed,
        IsLarge, d_ptr, Allocated
<1>1. /\ o \in alive
      /\ live' = live \ BlocksOf(o) /\ alive' = alive \ {o}
      /\ cells' = [c \in Block |-> IF c \in BlocksOf(o) THEN <<>> ELSE cells[c]]
      /\ dangling' = (dangling \ {o}) \cup
                      {p \in Usable \ {o} : BlocksOf(p) \cap BlocksOf(o) # {}}
  BY DEF Destroy, Release
<1>2. /\ \A q \in Array \ {o} : /\ d_data'[q] = d_data[q]
                                /\ d_capacity'[q] = d_capacity[q]
      /\ d_data'[o][1] = Zero /\ d_capacity'[o] = SmallSize
  BY DEF Destroy
<1>3. /\ dangling' \subseteq alive'
      /\ Usable' = {q \in Usable \ {o} : BlocksOf(q) \cap BlocksOf(o) = {}}
  BY <1>1 DEF Usable
<1>4. ASSUME NEW q \in Usable'
      PROVE  /\ q \in Usable /\ q \in Array \ {o}
             /\ IsLarge(q) <=> IsLarge(q)'
             /\ d_ptr(q)' = d_ptr(q)
             /\ IsLarge(q) => /\ d_ptr(q) \notin BlocksOf(o)
                              /\ d_ptr(q) \in live' /\ d_ptr(q) \in Block
  <2>1. q \in Usable /\ q \in Array \ {o}
    BY <1>3 DEF Usable
  <2>2. IsLarge(q) => d_ptr(q) \notin BlocksOf(o)
    BY <1>3 DEF BlocksOf
  <2> QED
    BY <1>1, <1>2, <2>1, <2>2
<1>5. StorageTypes'
  <2>1. d_data' \in [Array -> [1..SmallSize -> Char \cup Block]]
    BY DEF Destroy
  <2>2. d_capacity' \in [Array -> SmallSize..(SmallSize + MaxSize)]
    BY DEF Destroy
  <2>3. cells' \in [Block -> Seq(Char)]
    BY <1>1
  <2> QED
    BY <1>1, <1>3, <2>1, <2>2, <2>3
<1>6. PointersInv'
  <2>1. ASSUME NEW q \in Array
        PROVE  /\ (~IsLarge(q) => d_ptr(q) \in Char)'
               /\ q \notin alive' => d_capacity'[q] = SmallSize
    BY <1>1, <1>2
  <2> QED
    BY <1>4, <2>1
<1>7. Separate'
  BY <1>4
<1>8. Backed'
  <2>1. ASSUME NEW c \in live'
        PROVE  \E q \in Usable' : (IsLarge(q) /\ d_ptr(q) = c)'
    <3>1. PICK q \in Usable : IsLarge(q) /\ d_ptr(q) = c
      BY <1>1
    <3>2. c \notin BlocksOf(o) /\ BlocksOf(q) = {c}
      BY <1>1, <3>1 DEF BlocksOf
    <3>3. q # o
      BY <3>2
    <3>4. q \in Usable'
      BY <1>3, <3>2, <3>3
    <3> QED
      BY <1>4, <3>1, <3>4
  <2>2. ASSUME NEW q \in Usable', IsLarge(q)'
        PROVE  (Len(cells[d_ptr(q)]) = d_capacity[q])'
    BY <1>1, <1>2, <1>4, <2>2
  <2> QED
    BY <2>1, <2>2
<1> QED
  BY <1>5, <1>6, <1>7, <1>8

-----------------------------------------------------------------------------
(* Each operation keeps the invariant. *)

\* The elements of an array that may be used are characters.
LEMMA ContentsChars ==
  ASSUME IInv, NEW p \in Usable
  PROVE  \A i \in DOMAIN Contents(p) : Contents(p)[i] \in Char
<1> SUFFICES ASSUME NEW i \in 1..d_size[p] PROVE Element(p, i) \in Char
  BY DEF Contents
<1> USE Parameters DEF IInv, HeapInv, StorageTypes, PointersInv, Backed, SizesInv,
        IsLarge, d_ptr, Allocated
<1>0. p \in Array
  BY DEF Usable
<1>1. CASE IsLarge(p)
  <2>1. cells[d_ptr(p)] \in Seq(Char) /\ d_ptr(p) \in live
    BY <1>0, <1>1
  <2>2. i \in 1..Len(cells[d_ptr(p)])
    BY <1>0, <1>1, <2>1
  <2> QED
    BY <1>1, <2>1, <2>2 DEF Element
<1>2. CASE ~IsLarge(p)
  BY <1>2 DEF Element
<1> QED
  BY <1>1, <1>2

\* One array's size changes and its capacity has room for it.
LEMMA SizeKeeps ==
  ASSUME SizesInv, HeapInv, HeapInv', NEW o \in Array, NEW n \in 0..MaxSize,
         d_size' = [d_size EXCEPT ![o] = n], n <= d_capacity'[o],
         \A q \in Array \ {o} : d_capacity'[q] = d_capacity[q]
  PROVE  SizesInv'
BY Parameters DEF SizesInv, HeapInv, StorageTypes

\* Nothing is stored in an array that is only made, resized or given room.
LEMMA NoElements == \A i \in DOMAIN <<>> : <<>>[i] \in Char
OBVIOUS

\* The constructor.
LEMMA ConstructKeeps ==
  ASSUME IInv, NEW o \in Array, NEW n \in 0..MaxSize, Construct(o, n)
  PROVE  IInv'
<1>1. /\ o \notin alive /\ alive' = alive \cup {o}
      /\ d_size' = [d_size EXCEPT ![o] = n] /\ ReserveAndStore(o, n, <<>>)
  BY DEF Construct
<1> QED
  BY <1>1, NoElements, ReserveAndStoreKeeps, SizeKeeps DEF IInv

\* resize, with or without room for the new size.
LEMMA ResizeKeeps ==
  ASSUME IInv, NEW o \in Array, NEW n \in 0..MaxSize, Resize(o, n)
  PROVE  IInv'
<1>1. /\ o \in Usable /\ alive' = alive /\ alive' = alive \cup {o}
      /\ d_size' = [d_size EXCEPT ![o] = n]
      /\ ReserveAndStore(o, n, <<>>) \/ ReserveThrows(o, n)
  BY DEF Resize, Usable
<1> QED
  BY <1>1, NoElements, ReserveAndStoreKeeps, ReserveThrowsKeeps, SizeKeeps DEF IInv

\* reserve, which leaves the size as it is.
LEMMA ReserveKeeps ==
  ASSUME IInv, NEW o \in Array, NEW n \in 0..MaxSize, Reserve(o, n)
  PROVE  IInv'
<1>1. /\ o \in Usable /\ alive' = alive /\ alive' = alive \cup {o}
      /\ d_size' = d_size
      /\ ReserveAndStore(o, n, <<>>) \/ ReserveThrows(o, n)
  BY DEF Reserve, Usable
<1>2. /\ HeapInv' /\ d_capacity[o] <= d_capacity'[o]
      /\ \A q \in Array \ {o} : d_capacity'[q] = d_capacity[q]
  BY <1>1, NoElements, ReserveAndStoreKeeps, ReserveThrowsKeeps DEF IInv
<1>3. ASSUME NEW q \in Array PROVE d_size[q] <= d_capacity'[q]
  <2>1. /\ d_size[q] \in Nat /\ d_capacity[q] \in Nat /\ d_capacity'[q] \in Nat
        /\ d_size[q] <= d_capacity[q]
    BY <1>2, Parameters DEF IInv, SizesInv, HeapInv, StorageTypes
  <2> QED
    BY <1>2, <2>1
<1> QED
  BY <1>1, <1>2, <1>3 DEF IInv, SizesInv

\* A write to an element.
LEMMA WriteKeeps ==
  ASSUME IInv, NEW o \in Array, NEW i, NEW v \in Value, Write(o, i, v)
  PROVE  IInv'
<1>1. /\ Allocated(o) /\ alive' = alive \cup {o} /\ Usable' = Usable \cup {o}
      /\ IsLarge(o) => o \in Usable
      /\ Store(o, [j \in {i} |-> v])
      /\ UNCHANGED <<d_capacity, d_size, live, dangling>>
  BY DEF Write, Usable, IInv, HeapInv, PointersInv
<1>2. \A j \in DOMAIN [k \in {i} |-> v] : [k \in {i} |-> v][j] \in Char
  BY DEF Char
<1>3. HeapInv'
  <2> DEFINE s == [k \in {i} |-> v]
  <2>1. Store(o, s) /\ \A j \in DOMAIN s : s[j] \in Char
    BY <1>1, <1>2
  <2> HIDE DEF s
  <2> QED
    BY <1>1, <2>1, StoreKeeps DEF IInv
<1> QED
  BY <1>1, <1>3 DEF IInv, SizesInv

\* Copies, which store the elements of the source.
LEMMA CopyKeeps ==
  ASSUME IInv, NEW o \in Array, NEW p \in Array, Copy(o, p)
  PROVE  IInv'
<1>1. d_size[p] \in 0..MaxSize
  BY DEF IInv, SizesInv
<1>2. CASE ReserveAndStore(o, d_size[p], Contents(p)) /\ alive' = alive \cup {o}
  <2>1. o \notin alive \/ o \in Usable
    BY DEF Copy
  <2> QED
    BY <1>1, <1>2, <2>1, ContentsChars, ReserveAndStoreKeeps, SizeKeeps
       DEF Copy, IInv
<1>3. CASE o \in alive /\ ReserveThrows(o, d_size[p]) /\ UNCHANGED alive
  <2>1. o \in Usable
    BY <1>3 DEF Copy
  <2> QED
    BY <1>1, <1>3, <2>1, ReserveThrowsKeeps, SizeKeeps DEF Copy, IInv
<1> QED
  BY <1>2, <1>3 DEF Copy

\* Moves, which copy a small array and exchange blocks otherwise.
LEMMA MoveKeeps ==
  ASSUME IInv, NEW o \in Array, NEW p \in Array, Move(o, p)
  PROVE  IInv'
<1>1. CASE d_capacity[p] = SmallSize /\ Copy(o, p)
  BY <1>1, CopyKeeps
<1>2. CASE /\ d_capacity[p] # SmallSize /\ TakeHeap(o, p)
           /\ alive' = alive \cup {o}
  <2>1. /\ o \notin alive \/ o \in Usable
        /\ p \in Usable
    BY DEF Move
  <2>2. IsLarge(p)
    BY <1>2, Parameters DEF IsLarge, IInv, HeapInv, StorageTypes
  <2>3. HeapInv'
    BY <1>2, <2>1, <2>2, TakeHeapKeeps DEF IInv
  <2>4. SizesInv'
    BY <1>2 DEF TakeHeap, Swap, IInv, HeapInv, StorageTypes, SizesInv
  <2> QED
    BY <2>3, <2>4 DEF IInv
<1> QED
  BY <1>1, <1>2 DEF Move

\* Any operation.
LEMMA NextKeeps == IInv /\ [Next]_vars => IInv'
<1> SUFFICES ASSUME IInv, [Next]_vars PROVE IInv'
  OBVIOUS
<1>1. ASSUME NEW o \in Array, Destroy(o) PROVE IInv'
  <2>1. CASE BlocksOf(o) \subseteq live \cup {Zero}
    <3>1. HeapInv'
      BY <1>1, <2>1, DestroyKeeps DEF IInv
    <3>2. SizesInv'
      <4>1. /\ d_capacity' = [d_capacity EXCEPT ![o] = SmallSize]
            /\ d_size' = [d_size EXCEPT ![o] = 0]
        BY <1>1, <2>1 DEF Destroy
      <4> QED
        BY <4>1, Parameters DEF IInv, HeapInv, StorageTypes, SizesInv
    <3> QED
      BY <3>1, <3>2 DEF IInv
  <2>2. CASE ~(BlocksOf(o) \subseteq live \cup {Zero})
    <3>1. UNCHANGED <<alive, d_capacity, d_size, d_data, live, cells, dangling>>
      BY <1>1, <2>2 DEF Destroy
    <3> QED
      BY <3>1 DEF IInv, HeapInv, SizesInv, StorageTypes, PointersInv, Separate,
                  Backed, IsLarge, d_ptr, Usable, Allocated
  <2> QED
    BY <2>1, <2>2
<1>2. CASE UNCHANGED vars
  BY <1>2 DEF vars, IInv, HeapInv, SizesInv, StorageTypes, PointersInv, Separate,
              Backed, IsLarge, d_ptr, Usable, Allocated
<1> QED
  BY <1>1, <1>2, ConstructKeeps, ResizeKeeps, ReserveKeeps, WriteKeeps, CopyKeeps,
     MoveKeeps DEF Next

-----------------------------------------------------------------------------
(* The theorems. *)

\* Whatever is done with the arrays, bad_allocs and the destructions after them
\* included, the blocks of those that may be used are theirs alone.
THEOREM Invariance == Spec => []IInv
BY InitIInv, NextKeeps, PTL DEF Spec

\* Only the destructor ends the heap's soundness.
LEMMA HeapChanges ==
  ASSUME Next
  PROVE  heap' = heap \/ \E o \in Array : Destroy(o) /\ heap' = "corrupt"
<1>1. ASSUME NEW o \in Array, Destroy(o)
      PROVE  heap' = heap \/ heap' = "corrupt"
  BY <1>1 DEF Destroy
<1>2. ASSUME NEW o \in Array, NEW p \in Array, Copy(o, p) \/ Move(o, p)
      PROVE  heap' = heap
  BY <1>2 DEF Copy, Move, TakeHeap
<1> QED
  BY <1>1, <1>2 DEF Next, Construct, Resize, Reserve, Write

\* The members have their types, and no array is larger than its capacity.
THEOREM TypeCorrect == Spec => []TypeOK
<1> DEFINE HeapOK == heap \in {"sound", "corrupt"}
<1>1. Init => HeapOK
  BY DEF Init
<1>2. HeapOK /\ [Next]_vars => HeapOK'
  BY HeapChanges DEF vars
<1>3. IInv /\ HeapOK => TypeOK
  BY DEF IInv, HeapInv, SizesInv, StorageTypes, TypeOK
<1> QED
  BY <1>1, <1>2, <1>3, Invariance, PTL DEF Spec

\* No block is lost or shared, and each has the capacity its array believes it
\* has.
THEOREM Owned == Spec => []HeapOwned
<1>1. IInv => HeapOwned
  <2> SUFFICES ASSUME IInv PROVE HeapOwned
    OBVIOUS
  <2> USE DEF IInv, HeapInv, StorageTypes, PointersInv, Separate, Backed, Allocated
  <2>1. ASSUME NEW b \in live PROVE \E o \in Usable : b \in BlocksOf(o)
    BY DEF BlocksOf
  <2>2. ASSUME NEW o \in Usable PROVE BlocksOf(o) \subseteq live
    BY DEF BlocksOf
  <2>3. live = UNION {BlocksOf(o) : o \in Usable}
    BY <2>1, <2>2
  <2> QED
    BY <2>3 DEF HeapOwned
<1> QED
  BY <1>1, Invariance, PTL

\* A move of a small array fits any target, one of a large array exchanges
\* blocks: neither allocates, so noexcept is true of it.
THEOREM MovesNeverAllocate == Spec => MoveNeverAllocates
<1>1. ASSUME IInv, NEW o \in Array, NEW p \in Array, Move(o, p)
      PROVE  live' = live /\ dangling' = dangling /\ alive' = alive \cup {o}
  <2>1. CASE d_capacity[p] = SmallSize /\ Copy(o, p)
    <3>1. Fits(o, d_size[p])
      <4>1. /\ d_capacity[o] \in Nat /\ SmallSize <= d_capacity[o]
            /\ d_size[p] \in Nat /\ d_size[p] <= SmallSize
        BY <1>1, <2>1, Parameters DEF IInv, HeapInv, StorageTypes, SizesInv
      <4> QED
        BY <4>1, Parameters DEF Fits
    <3> QED
      BY <2>1, <3>1 DEF Copy, ReserveAndStore, ReserveThrows
  <2>2. CASE TakeHeap(o, p) /\ alive' = alive \cup {o}
    BY <2>2 DEF TakeHeap
  <2> QED
    BY <1>1, <2>1, <2>2 DEF Move
<1>2. IInv /\ [Next]_vars =>
        [\A o, p \in Array :
           Move(o, p) => /\ live' = live /\ dangling' = dangling
                         /\ alive' = alive \cup {o}]_vars
  BY <1>1
<1> QED
  BY <1>2, Invariance, PTL DEF Spec, MoveNeverAllocates

\* Each of the arrays that may be used keeps its storage, unless its own reserve
\* throws or the destructor of one whose reserve threw takes it; and the heap is
\* ruined by such a destructor only.
THEOREM StorageLoss == Spec => StorageLostByThrow
<1> DEFINE Kept(q) ==
             \/ Allocated(q)'
             \/ q \in dangling
             \/ \E n \in 0..MaxSize : ReserveThrows(q, n)
             \/ \E r \in dangling : Destroy(r) /\ d_ptr(r) = d_ptr(q)
<1>1. ASSUME IInv, IInv', Next, NEW q \in alive'
      PROVE  Kept(q)
  <2> SUFFICES ASSUME q \in dangling', q \notin dangling
               PROVE  Kept(q)
    BY <1>1 DEF IInv, HeapInv, PointersInv, Usable
  <2>0. \A p \in Array : d_size[p] \in 0..MaxSize
    BY <1>1 DEF IInv, SizesInv
  <2>1. ASSUME NEW o \in Array, NEW n \in 0..MaxSize,
               dangling' = dangling \/ ReserveThrows(o, n)
        PROVE  Kept(q)
    BY <2>1 DEF ReserveThrows
  <2>2. ASSUME NEW o \in Array, NEW n \in 0..MaxSize,
               Construct(o, n) \/ Resize(o, n) \/ Reserve(o, n)
        PROVE  Kept(q)
    BY <2>1, <2>2 DEF Construct, Resize, Reserve, ReserveAndStore
  <2>3. ASSUME NEW o \in Array, Destroy(o) PROVE Kept(q)
    <3>1. /\ q \in Usable \ {o} /\ BlocksOf(q) \cap BlocksOf(o) # {}
          /\ o \in alive
      BY <2>3 DEF Destroy
    <3>2. IsLarge(q) /\ IsLarge(o) /\ d_ptr(q) = d_ptr(o)
      BY <3>1 DEF BlocksOf
    <3>3. o \in dangling
      BY <1>1, <3>1, <3>2 DEF Usable, IInv, HeapInv, Separate
    <3> QED
      BY <2>3, <3>2, <3>3
  <2>4. ASSUME NEW o \in Array, NEW p \in Array, Copy(o, p) PROVE Kept(q)
    BY <2>0, <2>1, <2>4 DEF Copy, ReserveAndStore
  <2>5. ASSUME NEW o \in Array, NEW p \in Array, Move(o, p) PROVE Kept(q)
    BY <2>4, <2>5 DEF Move, TakeHeap
  <2>6. ASSUME NEW o \in Array, NEW i, NEW v \in Value, Write(o, i, v)
        PROVE  Kept(q)
    BY <2>6 DEF Write
  <2> HIDE DEF Kept
  <2> QED
    BY <1>1, <2>2, <2>3, <2>4, <2>5, <2>6 DEF Next
<1>2. ASSUME IInv, Next PROVE heap' = heap \/ \E q \in dangling : Destroy(q)
  <2>1. ASSUME NEW o \in Array, Destroy(o), o \notin dangling
        PROVE  heap' = heap
    <3>1. BlocksOf(o) \subseteq live
      BY <1>2, <2>1
         DEF Destroy, Usable, BlocksOf, IInv, HeapInv, PointersInv, Allocated
    <3> QED
      BY <2>1, <3>1 DEF Destroy
  <2> QED
    BY <1>2, <2>1, HeapChanges
<1>3. IInv /\ IInv' /\ [Next]_vars =>
        [/\ \A o \in alive' :
              \/ Allocated(o)'
              \/ o \in dangling
              \/ \E n \in 0..MaxSize : ReserveThrows(o, n)
              \/ \E q \in dangling : Destroy(q) /\ d_ptr(q) = d_ptr(o)
         /\ heap' = heap \/ \E q \in dangling : Destroy(q)]_vars
  BY <1>1, <1>2
<1> QED
  BY <1>3, Invariance, PTL DEF Spec, StorageLostByThrow

-----------------------------------------------------------------------------
(* The arrays as values: Sdo implements DynamicArray. *)

\* The value DynamicArray sees of each place.
ValueOf == [o \in Array |-> CASE o \in Usable   -> Contents(o)
                              [] o \in dangling -> Broken
                              [] OTHER          -> NoArray]

\* The elements of an array make a sequence of its size, and are a value.
LEMMA ContentsValue ==
  ASSUME IInv, NEW o \in Usable
  PROVE  /\ Contents(o) \in [1..d_size[o] -> Char]
         /\ Contents(o) \in Seq(Char) /\ Len(Contents(o)) = d_size[o]
         /\ Contents(o) \in Arrays!Values
         /\ Contents(o) \notin {NoArray, Broken}
<1>1. d_size[o] \in 0..MaxSize /\ d_size[o] \in Nat
  <2>1. o \in Array
    BY DEF Usable, IInv, HeapInv, StorageTypes
  <2> QED
    BY <2>1, Parameters DEF IInv, SizesInv
<1>2. Contents(o) = [i \in 1..d_size[o] |-> Contents(o)[i]]
  BY DEF Contents
<1>3. \A i \in 1..d_size[o] : Contents(o)[i] \in Char
  BY ContentsChars DEF Contents
<1>4. Contents(o) \in [1..d_size[o] -> Char]
  BY <1>2, <1>3
<1>5. Contents(o) \in Seq(Char) /\ Len(Contents(o)) = d_size[o]
  BY <1>1, <1>4
<1>6. Contents(o) \in Arrays!Values
  BY <1>1, <1>4 DEF Arrays!Values
<1>7. Contents(o) \notin {NoArray, Broken}
  BY <1>1, <1>4, SdoAssumption DEF Char
<1> QED
  BY <1>4, <1>5, <1>6, <1>7

\* A place has an array in DynamicArray exactly if it has one here, and its
\* array is broken exactly if its growth threw or its storage was taken.
ValueInv ==
  /\ ValueOf \in [Array -> Arrays!Values \cup {NoArray, Broken}]
  /\ \A o \in Array :
       /\ o \in Usable => /\ ValueOf[o] = Contents(o)
                          /\ ValueOf[o] \notin {NoArray, Broken}
                          /\ Contents(o) \in [1..d_size[o] -> Char]
                          /\ Contents(o) \in Arrays!Values
       /\ o \in dangling => ValueOf[o] = Broken
       /\ o \notin alive => ValueOf[o] = NoArray

\* The invariant gives the places their values.
LEMMA ValueIs == IInv => ValueInv
<1> SUFFICES ASSUME IInv PROVE ValueInv
  OBVIOUS
<1>1. ASSUME NEW o \in Array
      PROVE  /\ o \in Usable => /\ ValueOf[o] = Contents(o)
                                /\ ValueOf[o] \notin {NoArray, Broken}
                                /\ Contents(o) \in [1..d_size[o] -> Char]
                                /\ Contents(o) \in Arrays!Values
             /\ o \in dangling => ValueOf[o] = Broken
             /\ o \notin alive => ValueOf[o] = NoArray
  <2>1. o \in Usable => ValueOf[o] = Contents(o)
    BY DEF ValueOf, Usable
  <2>2. o \in dangling => ValueOf[o] = Broken
    BY DEF ValueOf, Usable
  <2>3. o \notin alive => ValueOf[o] = NoArray
    BY DEF ValueOf, Usable, IInv, HeapInv, StorageTypes
  <2> QED
    BY <2>1, <2>2, <2>3, ContentsValue
<1>2. ASSUME NEW o \in Array
      PROVE  ValueOf[o] \in Arrays!Values \cup {NoArray, Broken}
  BY <1>1 DEF Usable
<1>3. ValueOf = [o \in Array |-> ValueOf[o]]
  BY DEF ValueOf
<1>4. ValueOf \in [Array -> Arrays!Values \cup {NoArray, Broken}]
  BY <1>2, <1>3
<1> QED
  BY <1>1, <1>4 DEF ValueInv

\* So it is in the state a step leads to.
LEMMA ValueNext ==
  ASSUME IInv', NEW o \in Array
  PROVE  /\ ValueOf' \in [Array -> Arrays!Values \cup {NoArray, Broken}]
         /\ o \in Usable' => /\ ValueOf'[o] = Contents(o)'
                             /\ Contents(o)' \in [1..d_size'[o] -> Char]
                             /\ Contents(o)' \in Arrays!Values
         /\ o \in dangling' => ValueOf'[o] = Broken
         /\ o \notin alive' => ValueOf'[o] = NoArray
<1>1. ValueInv'
  BY ValueIs, PTL
<1> QED
  BY <1>1 DEF ValueInv

\* An array keeps its elements if nothing it refers to changes.
LEMMA ElementsKept ==
  ASSUME HeapInv, NEW q \in Usable, d_size'[q] = d_size[q],
         d_capacity'[q] = d_capacity[q], d_data'[q] = d_data[q],
         \/ ~IsLarge(q)
         \/ d_ptr(q) \in live' /\ cells'[d_ptr(q)] = cells[d_ptr(q)]
  PROVE  Contents(q)' = Contents(q)
<1>1. IsLarge(q)' = IsLarge(q) /\ d_ptr(q)' = d_ptr(q)
  BY DEF IsLarge, d_ptr
<1>2. IsLarge(q) => d_ptr(q) \in live
  BY DEF HeapInv, PointersInv, Allocated
<1>3. ASSUME NEW i \in 1..d_size[q] PROVE Element(q, i)' = Element(q, i)
  BY <1>1, <1>2 DEF Element
<1> QED
  BY <1>3 DEF Contents

\* reserve and what is stored after it leave the other arrays alone.
LEMMA OthersKept ==
  ASSUME HeapInv, NEW o \in Array, o \notin alive \/ o \in Usable,
         NEW n, NEW s,
         \/ ReserveAndStore(o, n, s)
         \/ o \in Usable /\ ReserveThrows(o, n),
         NEW q \in Usable \ {o}, d_size'[q] = d_size[q]
  PROVE  Contents(q)' = Contents(q)
<1> USE DEF HeapInv, StorageTypes
<1>0. q \in Array
  BY DEF Usable
<1>1. d_capacity'[q] = d_capacity[q] /\ d_data'[q] = d_data[q]
  BY <1>0 DEF ReserveAndStore, ReserveThrows, Store
<1>2. ASSUME IsLarge(q)
      PROVE  d_ptr(q) \in live' /\ cells'[d_ptr(q)] = cells[d_ptr(q)]
  <2>0. d_ptr(q) \in live /\ d_ptr(q) \in Block
    BY <1>2 DEF PointersInv, Allocated
  <2>1. IsLarge(o) => o \in Usable /\ d_ptr(o) \in live /\ d_ptr(o) # d_ptr(q)
    BY <1>2, Parameters DEF Usable, Allocated, PointersInv, Separate, IsLarge
  <2>2. d_ptr(q) \notin BlocksOf(o)
    BY <2>1 DEF BlocksOf
  <2>3. CASE Fits(o, n) /\ Store(o, s) /\ UNCHANGED <<d_capacity, live, dangling>>
    BY <2>0, <2>1, <2>3 DEF Store
  <2>4. CASE ReserveThrows(o, n)
    BY <2>0, <2>2, <2>4 DEF ReserveThrows, Release
  <2>5. CASE ReserveAndStore(o, n, s) /\ ~Fits(o, n)
    <3>1. PICK b \in Block \ (live \ BlocksOf(o)) :
            /\ live' = (live \ BlocksOf(o)) \cup {b}
            /\ cells' = [c \in Block |->
                           CASE c = b -> Overwrite([i \in 1..n |-> Junk], s)
                             [] c # b /\ c \in BlocksOf(o) -> <<>>
                             [] OTHER -> cells[c]]
      BY <2>5 DEF ReserveAndStore
    <3> QED
      BY <2>0, <2>2, <3>1
  <2> QED
    BY <2>3, <2>4, <2>5 DEF ReserveAndStore
<1> QED
  BY <1>1, <1>2, ElementsKept

\* What was stored is read, and what was not is what it was if the array did
\* not move.
LEMMA ElementsStored ==
  ASSUME HeapInv, NEW o \in Array, o \notin alive \/ o \in Usable,
         NEW n \in 0..MaxSize, NEW s, \A i \in DOMAIN s : s[i] \in Char,
         ReserveAndStore(o, n, s), alive' = alive \cup {o},
         NEW i \in 1..d_capacity'[o]
  PROVE  /\ i \in DOMAIN s => Element(o, i)' = s[i]
         /\ i \notin DOMAIN s /\ Fits(o, n) => Element(o, i)' = Element(o, i)
<1> USE Parameters DEF HeapInv, StorageTypes, IsLarge, d_ptr
<1>0. Allocated(o) /\ (IsLarge(o) => o \in Usable)
  BY DEF Usable, PointersInv, Allocated
<1>1. CASE Fits(o, n) /\ Store(o, s) /\ UNCHANGED <<d_capacity, live, dangling>>
  <2>1. CASE IsLarge(o)
    <3>1. /\ d_ptr(o) \in live /\ d_ptr(o) \in Block
          /\ i \in DOMAIN cells[d_ptr(o)]
      BY <1>0, <1>1, <2>1 DEF Allocated, Backed
    <3>2. /\ d_data' = d_data
          /\ cells'[d_ptr(o)] = Overwrite(cells[d_ptr(o)], s)
      BY <1>1, <2>1, <3>1 DEF Store
    <3>3. cells'[d_ptr(o)][i] = IF i \in DOMAIN s THEN s[i] ELSE cells[d_ptr(o)][i]
      BY <3>1, <3>2 DEF Overwrite
    <3> QED
      BY <1>1, <2>1, <3>1, <3>2, <3>3 DEF Element
  <2>2. CASE ~IsLarge(o)
    <3>1. i \in 1..SmallSize
      BY <1>1, <2>2
    <3>2. d_data'[o][i] = IF i \in DOMAIN s THEN s[i] ELSE d_data[o][i]
      BY <1>1, <2>2, <3>1 DEF Store, Overwrite
    <3> QED
      BY <1>1, <2>2, <3>2 DEF Element
  <2> QED
    BY <2>1, <2>2
<1>2. CASE ~Fits(o, n)
  <2>1. PICK b \in Block \ (live \ BlocksOf(o)) :
          /\ live' = (live \ BlocksOf(o)) \cup {b}
          /\ d_data' = [d_data EXCEPT ![o][1] = b]
          /\ cells'[b] = Overwrite([j \in 1..n |-> Junk], s)
    BY <1>2 DEF ReserveAndStore
  <2>2. d_capacity'[o] = n /\ n > SmallSize
    BY <1>2 DEF ReserveAndStore, Fits
  <2>3. i \in DOMAIN s => cells'[b][i] = s[i]
    BY <2>1, <2>2 DEF Overwrite
  <2>4. d_data'[o][1] = b
    BY <2>1
  <2> QED
    BY <1>2, <2>1, <2>2, <2>3, <2>4 DEF Element
<1> QED
  BY <1>1, <1>2 DEF ReserveAndStore

\* reserve and what is stored after it change one value.
LEMMA OthersSame ==
  ASSUME IInv, IInv', NEW o \in Array, o \notin alive \/ o \in Usable,
         NEW n, NEW s,
         \/ ReserveAndStore(o, n, s) /\ alive' = alive \cup {o}
         \/ o \in Usable /\ ReserveThrows(o, n) /\ alive' = alive,
         \A q \in Array \ {o} : d_size'[q] = d_size[q]
  PROVE  \A q \in Array \ {o} : ValueOf'[q] = ValueOf[q]
<1> SUFFICES ASSUME NEW q \in Array \ {o} PROVE ValueOf'[q] = ValueOf[q]
  OBVIOUS
<1>1. /\ q \in alive' <=> q \in alive
      /\ q \in dangling' <=> q \in dangling
      /\ q \in Usable' <=> q \in Usable
  BY DEF ReserveAndStore, ReserveThrows, Usable
<1>2. CASE q \in Usable
  <2>1. Contents(q)' = Contents(q)
    BY <1>2, OthersKept DEF IInv
  <2> QED
    BY <1>1, <1>2, <2>1, ValueIs, ValueNext DEF ValueInv
<1>3. CASE q \notin Usable
  BY <1>1, <1>3, ValueIs, ValueNext DEF Usable, ValueInv
<1> QED
  BY <1>2, <1>3

\* The constructor makes a new array and changes no other.
LEMMA ConstructImplements ==
  ASSUME IInv, IInv', NEW o \in Array, NEW n \in 0..MaxSize, Construct(o, n)
  PROVE  Arrays!Construct(o)
<1>1. /\ o \notin alive /\ alive' = alive \cup {o} /\ o \in Usable'
      /\ d_size' = [d_size EXCEPT ![o] = n] /\ ReserveAndStore(o, n, <<>>)
  BY DEF Construct, ReserveAndStore, Usable, IInv, HeapInv, StorageTypes
<1>2. \A q \in Array \ {o} : ValueOf'[q] = ValueOf[q]
  <2>1. \A q \in Array \ {o} : d_size'[q] = d_size[q]
    BY <1>1 DEF IInv, SizesInv
  <2> QED
    BY <1>1, <2>1, OthersSame
<1>3. /\ ValueOf' \in [Array -> Arrays!Values \cup {NoArray, Broken}]
      /\ ValueOf'[o] \in Arrays!Values
  BY <1>1, ValueNext
<1>4. ValueOf[o] = NoArray
  BY <1>1, ValueIs DEF ValueInv
<1> QED
  BY <1>2, <1>3, <1>4 DEF Arrays!Construct, Arrays!ChangesOnly, ValueOf

\* reserve that throws breaks the array it is called on and changes no other.
LEMMA ThrowImplements ==
  ASSUME IInv, IInv', NEW o \in Usable, NEW n, ReserveThrows(o, n),
         alive' = alive, \A q \in Array \ {o} : d_size'[q] = d_size[q]
  PROVE  Arrays!Break(o)
<1>1. o \in Array /\ o \in dangling'
  BY DEF Usable, ReserveThrows, IInv, HeapInv, StorageTypes
<1>2. \A q \in Array \ {o} : ValueOf'[q] = ValueOf[q]
  BY <1>1, OthersSame
<1>3. ValueOf'[o] = Broken /\ ValueOf[o] \notin {NoArray, Broken}
  BY <1>1, ValueIs, ValueNext DEF ValueInv
<1>4. ValueOf' = [ValueOf EXCEPT ![o] = Broken]
  BY <1>2, <1>3 DEF ValueOf
<1> QED
  BY <1>3, <1>4 DEF Arrays!Break, Arrays!Exists, ValueOf

\* The destructor removes an array and breaks one other at most, and that only
\* if it is the destructor of a broken one; or it deletes what is no block.
LEMMA DestroyImplements ==
  ASSUME IInv, IInv', NEW o \in Array, Destroy(o)
  PROVE  Arrays!Destroy(o) \/ ValueOf' = ValueOf
<1>1. CASE ~(BlocksOf(o) \subseteq live \cup {Zero})
  <2>1. UNCHANGED <<alive, d_capacity, d_size, d_data, live, cells, dangling>>
    BY <1>1 DEF Destroy
  <2> QED
    BY <2>1 DEF ValueOf, Contents, Element, IsLarge, d_ptr, Usable
<1>2. CASE BlocksOf(o) \subseteq live \cup {Zero}
  <2> DEFINE Robbed == {p \in Usable \ {o} : BlocksOf(p) \cap BlocksOf(o) # {}}
  <2>1. /\ alive' = alive \ {o} /\ dangling' = (dangling \ {o}) \cup Robbed
        /\ Usable' = Usable \ ({o} \cup Robbed) /\ o \in alive /\ Robbed \subseteq Array
        /\ Release(o)
    BY <1>2 DEF Destroy, Usable, IInv, HeapInv, StorageTypes
  <2>2. ASSUME NEW q \in Array \ {o}, q \notin Robbed PROVE ValueOf'[q] = ValueOf[q]
    <3>1. CASE q \in Usable
      <4>1. /\ d_size'[q] = d_size[q] /\ d_capacity'[q] = d_capacity[q]
            /\ d_data'[q] = d_data[q]
        BY <1>2 DEF Destroy, IInv, SizesInv, HeapInv, StorageTypes
      <4>2. ASSUME IsLarge(q)
            PROVE  d_ptr(q) \in live' /\ cells'[d_ptr(q)] = cells[d_ptr(q)]
        <5>1. d_ptr(q) \notin BlocksOf(o) /\ d_ptr(q) \in live /\ d_ptr(q) \in Block
          BY <2>2, <3>1, <4>2
             DEF BlocksOf, Allocated, IInv, HeapInv, PointersInv, StorageTypes
        <5> QED
          BY <2>1, <5>1 DEF Release
      <4>3. Contents(q)' = Contents(q)
        BY <3>1, <4>1, <4>2, ElementsKept DEF IInv
      <4> QED
        BY <2>1, <2>2, <3>1, <4>3, ValueIs, ValueNext DEF ValueInv
    <3>2. CASE q \notin Usable
      BY <2>1, <2>2, <3>2, ValueIs, ValueNext DEF Usable, ValueInv
    <3> QED
      BY <3>1, <3>2
  <2>3. ValueOf'[o] = NoArray
    BY <2>1, ValueNext
  <2>4. CASE Robbed = {}
    <3>1. ValueOf' = [ValueOf EXCEPT ![o] = NoArray]
      BY <2>2, <2>3, <2>4 DEF ValueOf
    <3> QED
      BY <3>1 DEF Arrays!Destroy, ValueOf
  <2>5. CASE Robbed # {}
    <3>1. PICK r \in Robbed : TRUE
      BY <2>5
    <3>2. /\ r \in Usable /\ r # o /\ r \in Array
          /\ IsLarge(r) /\ IsLarge(o) /\ d_ptr(r) = d_ptr(o)
      BY <2>1, <3>1 DEF BlocksOf
    <3>3. Robbed = {r}
      <4>1. ASSUME NEW p \in Robbed PROVE p = r
        BY <3>2, <4>1 DEF BlocksOf, IInv, HeapInv, Separate
      <4> QED
        BY <3>1, <4>1
    <3>4. o \in dangling
      BY <2>1, <3>2 DEF Usable, IInv, HeapInv, Separate
    <3>5. /\ ValueOf[o] = Broken /\ ValueOf[r] \notin {NoArray, Broken}
          /\ ValueOf'[r] = Broken
      BY <2>1, <3>1, <3>2, <3>4, ValueIs, ValueNext DEF ValueInv
    <3> HIDE DEF Robbed
    <3>6. ValueOf' = [ValueOf EXCEPT ![o] = NoArray, ![r] = Broken]
      <4>1. \A q \in Array :
              ValueOf'[q] = IF q = r THEN Broken ELSE IF q = o THEN NoArray ELSE ValueOf[q]
        BY <2>2, <2>3, <3>2, <3>3, <3>5
      <4> QED
        BY <3>2, <4>1 DEF ValueOf
    <3> QED
      BY <3>2, <3>5, <3>6 DEF Arrays!Destroy, Arrays!Exists, ValueOf
  <2> QED
    BY <2>4, <2>5
<1> QED
  BY <1>1, <1>2

\* resize keeps the elements of an array that has the room for its new size.
LEMMA ResizeImplements ==
  ASSUME IInv, IInv', NEW o \in Usable, NEW n \in 0..MaxSize,
         d_size' = [d_size EXCEPT ![o] = n], alive' = alive,
         ReserveAndStore(o, n, <<>>)
  PROVE  Arrays!Resize(o, n)
<1>1. o \in alive /\ o \in Array /\ alive' = alive \cup {o} /\ o \in Usable'
  BY DEF Usable, IInv, HeapInv, StorageTypes, ReserveAndStore
<1>2. \A q \in Array \ {o} : ValueOf'[q] = ValueOf[q]
  <2>1. \A q \in Array \ {o} : d_size'[q] = d_size[q]
    BY <1>1 DEF IInv, SizesInv
  <2> QED
    BY <1>1, <2>1, OthersSame
<1>3. d_size'[o] = n
  BY <1>1 DEF IInv, SizesInv
<1>4. /\ ValueOf' \in [Array -> Arrays!Values \cup {NoArray, Broken}]
      /\ ValueOf'[o] = Contents(o)' /\ ValueOf'[o] \in [1..n -> Char]
  BY <1>1, <1>3, ValueNext
<1>5. /\ ValueOf[o] = Contents(o) /\ ValueOf[o] \notin {NoArray, Broken}
      /\ Contents(o) \in Seq(Char) /\ Len(Contents(o)) = d_size[o]
  BY <1>1, ContentsValue, ValueIs DEF ValueInv
<1>6. /\ n \in Nat /\ d_size[o] \in Nat /\ d_capacity[o] \in Nat
      /\ d_size[o] <= d_capacity[o] /\ n <= d_capacity'[o]
  BY <1>1, <1>3, Parameters DEF IInv, SizesInv, HeapInv, StorageTypes
<1>7. ASSUME n <= d_size[o]
      PROVE  Contents(o)' = SubSeq(Contents(o), 1, n)
  <2>1. Fits(o, n)
    BY <1>6, <1>7 DEF Fits
  <2>3. ASSUME NEW i \in 1..n PROVE Element(o, i)' = Element(o, i)
    <3>1. i \in 1..d_capacity'[o]
      BY <1>1, <1>6, Parameters DEF IInv, HeapInv, StorageTypes
    <3>2. i \notin DOMAIN <<>>
      OBVIOUS
    <3> QED
      BY <1>1, <2>1, <3>1, <3>2, NoElements, ElementsStored DEF IInv
  <2>4. Contents(o)' = [i \in 1..n |-> Element(o, i)]
    BY <1>3, <2>3 DEF Contents
  <2>5. SubSeq(Contents(o), 1, n) = [i \in 1..n |-> Contents(o)[i]]
    BY <1>5, <1>6, <1>7
  <2>6. \A i \in 1..n : Contents(o)[i] = Element(o, i)
    BY <1>6, <1>7 DEF Contents
  <2> QED
    BY <2>4, <2>5, <2>6
<1> QED
  BY <1>2, <1>4, <1>5, <1>7
     DEF Arrays!Resize, Arrays!Exists, Arrays!ChangesOnly, ValueOf

\* reserve changes no size and no other array.
LEMMA ReserveImplements ==
  ASSUME IInv, IInv', NEW o \in Array, NEW n \in 0..MaxSize, Reserve(o, n)
  PROVE  Arrays!Reserve(o) \/ Arrays!Break(o)
<1>1. /\ o \in Usable /\ o \in alive /\ alive' = alive
      /\ alive' = alive \cup {o} /\ d_size' = d_size
      /\ ReserveAndStore(o, n, <<>>) \/ ReserveThrows(o, n)
  BY DEF Reserve, Usable
<1>2. CASE ReserveThrows(o, n)
  BY <1>1, <1>2, ThrowImplements
<1>3. CASE ReserveAndStore(o, n, <<>>)
  <2>1. \A q \in Array \ {o} : ValueOf'[q] = ValueOf[q]
    BY <1>1, OthersSame
  <2>2. /\ ValueOf' \in [Array -> Arrays!Values \cup {NoArray, Broken}]
        /\ ValueOf'[o] \in [1..d_size[o] -> Char]
    <3>1. o \in Usable'
      BY <1>1, <1>3 DEF ReserveAndStore, Usable
    <3> QED
      BY <1>1, <3>1, ValueNext
  <2>3. ValueOf[o] \notin {NoArray, Broken} /\ Len(ValueOf[o]) = d_size[o]
    BY <1>1, ContentsValue, ValueIs DEF ValueInv
  <2> QED
    BY <2>1, <2>2, <2>3
       DEF Arrays!Reserve, Arrays!Exists, Arrays!ChangesOnly, ValueOf
<1> QED
  BY <1>1, <1>2, <1>3

\* A write changes one element of one array.
LEMMA WriteImplements ==
  ASSUME IInv, IInv', NEW o \in Array, NEW i, NEW v \in Value, Write(o, i, v)
  PROVE  Arrays!Write(o, i, v) /\ i \in 1..MaxSize
<1> DEFINE s == [j \in {i} |-> v]
<1>1. /\ o \in Usable /\ o \in alive /\ alive' = alive /\ o \in Usable'
      /\ alive' = alive \cup {o} /\ d_size' = d_size /\ d_capacity' = d_capacity
      /\ i \in 1..d_size[o]
  BY DEF Write, Usable
<1>2. /\ d_size[o] \in 0..MaxSize /\ d_size[o] \in Nat /\ d_capacity[o] \in Nat
      /\ d_size[o] <= d_capacity[o] /\ 0 \in 0..MaxSize
  BY Parameters DEF IInv, SizesInv, HeapInv, StorageTypes
<1>3. ReserveAndStore(o, 0, s) /\ Fits(o, 0)
  <2>1. Fits(o, 0)
    BY <1>2 DEF Fits
  <2> QED
    BY <2>1 DEF Write, ReserveAndStore
<1>4. \A j \in DOMAIN s : s[j] \in Char
  BY DEF Char
<1>5. /\ i \in DOMAIN s /\ s[i] = v
      /\ \A j : j # i => j \notin DOMAIN s
  OBVIOUS
<1> HIDE DEF s
<1>6. \A q \in Array \ {o} : ValueOf'[q] = ValueOf[q]
  BY <1>1, <1>3, OthersSame
<1>7. ASSUME NEW j \in 1..d_size[o]
      PROVE  Element(o, j)' = IF j = i THEN v ELSE Element(o, j)
  <2>1. j \in 1..d_capacity'[o]
    BY <1>1, <1>2
  <2> QED
    BY <1>1, <1>2, <1>3, <1>4, <1>5, <2>1, ElementsStored DEF IInv
<1>8. Contents(o)' = [Contents(o) EXCEPT ![i] = v]
  BY <1>1, <1>7 DEF Contents
<1>9. /\ ValueOf[o] = Contents(o) /\ ValueOf[o] \notin {NoArray, Broken}
      /\ Len(ValueOf[o]) = d_size[o]
      /\ ValueOf'[o] = Contents(o)'
  BY <1>1, ContentsValue, ValueIs, ValueNext DEF ValueInv
<1>10. ValueOf' = [ValueOf EXCEPT ![o][i] = v]
  BY <1>6, <1>8, <1>9 DEF ValueOf
<1>11. i \in 1..MaxSize
  BY <1>1, <1>2, Parameters
<1> QED
  BY <1>1, <1>9, <1>10, <1>11 DEF Arrays!Write, Arrays!Exists, ValueOf

\* A copy gives the target the elements of the source or breaks it.
LEMMA CopyImplements ==
  ASSUME IInv, IInv', NEW o \in Array, NEW p \in Array, Copy(o, p)
  PROVE  Arrays!Copy(o, p) \/ Arrays!Break(o)
<1>1. /\ o \notin alive \/ o \in Usable
      /\ p \in Usable /\ p \in alive
      /\ d_size' = [d_size EXCEPT ![o] = d_size[p]]
  BY DEF Copy, Usable
<1>2. d_size[p] \in 0..MaxSize /\ d_size'[o] = d_size[p]
  BY <1>1 DEF IInv, SizesInv
<1>3. CASE ReserveAndStore(o, d_size[p], Contents(p)) /\ alive' = alive \cup {o}
  <2>1. \A q \in Array \ {o} : ValueOf'[q] = ValueOf[q]
    <3>1. \A q \in Array \ {o} : d_size'[q] = d_size[q]
      BY <1>1 DEF IInv, SizesInv
    <3> QED
      BY <1>1, <1>3, <3>1, OthersSame
  <2>2. DOMAIN Contents(p) = 1..d_size[p]
    BY DEF Contents
  <2>3. ASSUME NEW i \in 1..d_size[p] PROVE Element(o, i)' = Contents(p)[i]
    <3>1. i \in 1..d_capacity'[o]
      BY <1>2, Parameters DEF IInv, SizesInv, HeapInv, StorageTypes
    <3> QED
      BY <1>1, <1>2, <1>3, <2>2, <3>1, ContentsChars, ElementsStored DEF IInv
  <2>4. Contents(o)' = Contents(p)
    BY <1>2, <2>3 DEF Contents
  <2>5. /\ ValueOf[p] = Contents(p) /\ ValueOf[p] \notin {NoArray, Broken}
        /\ ValueOf'[o] = Contents(o)' /\ ValueOf[o] # Broken
    <3>1. o \in Usable'
      BY <1>1, <1>3 DEF ReserveAndStore, Usable, IInv, HeapInv, StorageTypes
    <3>2. ValueOf[o] # Broken
      BY <1>1, ValueIs, SdoAssumption DEF ValueInv
    <3> QED
      BY <1>1, <3>1, <3>2, ValueIs, ValueNext DEF ValueInv
  <2>6. ValueOf' = [ValueOf EXCEPT ![o] = ValueOf[p]]
    BY <2>1, <2>4, <2>5 DEF ValueOf
  <2> QED
    BY <2>5, <2>6 DEF Arrays!Copy, Arrays!Exists, ValueOf
<1>4. CASE o \in alive /\ ReserveThrows(o, d_size[p]) /\ UNCHANGED alive
  <2>1. \A q \in Array \ {o} : d_size'[q] = d_size[q]
    BY <1>1 DEF IInv, SizesInv
  <2> QED
    BY <1>1, <1>4, <2>1, ThrowImplements
<1> QED
  BY <1>3, <1>4 DEF Copy

\* Exchanging blocks moves the elements to the target.
LEMMA TakeHeapImplements ==
  ASSUME IInv, IInv', NEW o \in Array, o \notin alive \/ o \in Usable,
         NEW p \in Usable, IsLarge(p), TakeHeap(o, p), alive' = alive \cup {o},
         o # p
  PROVE  Arrays!Move(o, p)
<1> USE DEF IInv, HeapInv, StorageTypes, SizesInv
<1>1. /\ p \in Array /\ d_ptr(p) \in live /\ live' = live /\ cells' = cells
      /\ dangling' = dangling /\ Usable' = Usable \cup {o}
  BY DEF Usable, PointersInv, Allocated, TakeHeap
<1>2. /\ d_size'[o] = d_size[p] /\ d_capacity'[o] = d_capacity[p]
      /\ d_ptr(o)' = d_ptr(p)
  BY <1>1, Parameters DEF TakeHeap, Swap, d_ptr
<1>3. ASSUME NEW q \in Array \ {o, p} PROVE ValueOf'[q] = ValueOf[q]
  <2>1. CASE q \in Usable
    <3>1. /\ d_size'[q] = d_size[q] /\ d_capacity'[q] = d_capacity[q]
          /\ d_data'[q] = d_data[q]
      BY <1>1 DEF TakeHeap, Swap
    <3>2. Contents(q)' = Contents(q)
      BY <1>1, <2>1, <3>1, ElementsKept DEF PointersInv, Allocated
    <3> QED
      BY <1>1, <2>1, <3>2, ValueIs, ValueNext DEF ValueInv
  <2>2. CASE q \notin Usable
    BY <1>1, <2>2, ValueIs, ValueNext DEF Usable, ValueInv
  <2> QED
    BY <2>1, <2>2
<1>4. Contents(o)' = Contents(p)
  <2>1. IsLarge(o)'
    BY <1>2 DEF IsLarge
  <2>2. ASSUME NEW i PROVE Element(o, i)' = Element(p, i)
    BY <1>1, <1>2, <2>1 DEF Element
  <2> QED
    BY <1>2, <2>2 DEF Contents
<1>5. /\ ValueOf' \in [Array -> Arrays!Values \cup {NoArray, Broken}]
      /\ ValueOf'[o] = Contents(o)' /\ ValueOf'[p] \in Arrays!Values
  BY <1>1, ValueNext
<1>6. ValueOf[p] = Contents(p) /\ ValueOf[p] \notin {NoArray, Broken}
  BY <1>1, ValueIs DEF ValueInv
<1>7. ValueOf[o] # Broken
  BY ValueIs, SdoAssumption DEF ValueInv
<1> QED
  BY <1>3, <1>4, <1>5, <1>6, <1>7
     DEF Arrays!Move, Arrays!Exists, Arrays!ChangesOnly, ValueOf

\* Move assignment of a large array to itself changes nothing.
LEMMA SelfMove ==
  ASSUME IInv, NEW o \in Usable, TakeHeap(o, o), alive' = alive \cup {o}
  PROVE  UNCHANGED vars
<1>1. o \in alive /\ o \in Array
  BY DEF Usable, IInv, HeapInv, StorageTypes
<1>2. d_capacity' = d_capacity /\ d_size' = d_size
  BY <1>1 DEF TakeHeap, Swap, IInv, HeapInv, StorageTypes, SizesInv
<1>3. d_data' = d_data
  BY <1>1, Parameters DEF TakeHeap, d_ptr, IInv, HeapInv, StorageTypes
<1> QED
  BY <1>1, <1>2, <1>3 DEF TakeHeap, vars

\* Each step is one of DynamicArray or changes no value.
LEMMA NextImplements ==
  ASSUME IInv, IInv', [Next]_vars
  PROVE  Arrays!Next \/ ValueOf' = ValueOf
<1>1. ASSUME NEW o \in Array, NEW n \in 0..MaxSize,
             Construct(o, n) \/ Resize(o, n) \/ Reserve(o, n)
      PROVE  Arrays!Next
  <2>1. CASE Resize(o, n)
    <3>1. CASE ReserveAndStore(o, n, <<>>)
      BY <2>1, <3>1, ResizeImplements DEF Resize, Arrays!Next
    <3>2. CASE ReserveThrows(o, n)
      <4>1. \A q \in Array \ {o} : d_size'[q] = d_size[q]
        BY <2>1 DEF Resize, IInv, SizesInv
      <4> QED
        BY <2>1, <3>2, <4>1, ThrowImplements DEF Resize, Arrays!Next
    <3> QED
      BY <2>1, <3>1, <3>2 DEF Resize
  <2>2. CASE Construct(o, n) \/ Reserve(o, n)
    BY <2>2, ConstructImplements, ReserveImplements DEF Arrays!Next
  <2> QED
    BY <1>1, <2>1, <2>2
<1>2. ASSUME NEW o \in Array, Destroy(o) PROVE Arrays!Next \/ ValueOf' = ValueOf
  BY <1>2, DestroyImplements DEF Arrays!Next
<1>3. ASSUME NEW o \in Array, NEW i, NEW v \in Value, Write(o, i, v)
      PROVE  Arrays!Next
  <2>1. v \in Char
    BY DEF Char
  <2> QED
    BY <1>3, <2>1, WriteImplements DEF Arrays!Next
<1>4. ASSUME NEW o \in Array, NEW p \in Array, Copy(o, p) PROVE Arrays!Next
  BY <1>4, CopyImplements DEF Arrays!Next
<1>5. ASSUME NEW o \in Array, NEW p \in Array, Move(o, p)
      PROVE  Arrays!Next \/ ValueOf' = ValueOf
  <2>1. CASE Copy(o, p)
    BY <1>4, <2>1
  <2>2. CASE /\ d_capacity[p] # SmallSize /\ TakeHeap(o, p)
             /\ alive' = alive \cup {o}
    <3>1. /\ o \notin alive \/ o \in Usable
          /\ p \in Usable
      BY <1>5 DEF Move
    <3>2. IsLarge(p)
      BY <2>2, Parameters DEF IsLarge, IInv, HeapInv, StorageTypes
    <3>3. CASE o = p
      BY <2>2, <3>1, <3>3, SelfMove
         DEF vars, ValueOf, Contents, Element, IsLarge, d_ptr, Usable
    <3>4. CASE o # p
      BY <2>2, <3>1, <3>2, <3>4, TakeHeapImplements DEF Arrays!Next
    <3> QED
      BY <3>3, <3>4
  <2> QED
    BY <1>5, <2>1, <2>2 DEF Move
<1>6. CASE UNCHANGED vars
  BY <1>6 DEF vars, ValueOf, Contents, Element, IsLarge, d_ptr, Usable
<1> QED
  BY <1>1, <1>2, <1>3, <1>4, <1>5, <1>6 DEF Next

\* The arrays behave as independent values whatever is copied, moved, grown or
\* destroyed, in whatever order, and wherever bad_allocs happen, but that such an
\* array is broken and its destruction may break one other.
THEOREM Refinement == Spec => ImplementsArray
<1>1. Init => Arrays!Init
  BY DEF Init, Arrays!Init, Usable
<1>2. IInv /\ IInv' /\ [Next]_vars =>
        [Arrays!Next]_([o \in Array |-> CASE o \in Usable   -> Contents(o)
                                          [] o \in dangling -> Broken
                                          [] OTHER          -> NoArray])
  BY NextImplements DEF ValueOf
<1> QED
  BY <1>1, <1>2, Invariance, PTL DEF Spec, ImplementsArray, Arrays!Spec
=============================================================================
