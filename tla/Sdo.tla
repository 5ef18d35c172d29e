--------------------------------- MODULE Sdo ---------------------------------
(***************************************************************************)
(* mem::sdo<_smallSize>: an array kept inside the object while it fits     *)
(* SmallSize elements and on the heap otherwise.  The union of d_ptr and   *)
(* d_data is modelled as such: the pointer lies over the first element, so *)
(* each may be read where the other was written.                           *)
(***************************************************************************)
EXTENDS Sequences, Naturals

CONSTANTS Array,      \* sdo objects
          SmallSize,  \* the template parameter _smallSize
          MaxSize,    \* bound on the sizes and capacities asked for
          Block,      \* blocks the heap can give out
          Value,      \* values written to elements
          Zero,       \* the initial value of d_data
          Junk,       \* the value of memory never written
          NoArray,    \* stands for the value of an object that does not exist
          Broken      \* and of one without storage

ASSUME SdoAssumption ==
  /\ SmallSize \in Nat \ {0}
  /\ MaxSize \in Nat
  /\ Zero \in Value
  /\ Junk \notin Value
  /\ Block \cap (Value \cup {Junk}) = {}
  /\ NoArray # Broken
  /\ \A n \in 0..MaxSize : {NoArray, Broken} \cap [1..n -> Value \cup {Junk}] = {}

Char == Value \cup {Junk}

VARIABLES alive,       \* the objects that exist
          d_capacity,
          d_size,
          d_data,      \* the union: element 1 is a character or d_ptr
          live,        \* the blocks allocated
          cells,       \* cells[b]: the characters in block b
          dangling,    \* the objects left with a pointer to no block of theirs
          heap         \* "corrupt" once what is no block has been deleted

vars == <<alive, d_capacity, d_size, d_data, live, cells, dangling, heap>>

\* Every variable holds a value of its C++ type, and no array is larger than
\* its capacity.
TypeOK ==
  /\ alive \in SUBSET Array
  /\ d_capacity \in [Array -> SmallSize..(SmallSize + MaxSize)]
  /\ d_size \in [Array -> 0..MaxSize]
  /\ d_data \in [Array -> [1..SmallSize -> Char \cup Block]]
  /\ live \in SUBSET Block
  /\ \A b \in Block : cells[b] \in Seq(Char)
  /\ \A o \in Array : d_size[o] <= d_capacity[o]
  /\ dangling \subseteq alive
  /\ heap \in {"sound", "corrupt"}

\* An object that does not exist has the values its constructor starts from.
Init ==
  /\ alive = {}
  /\ d_capacity = [o \in Array |-> SmallSize]
  /\ d_size = [o \in Array |-> 0]
  /\ d_data = [o \in Array |-> [i \in 1..SmallSize |-> Zero]]
  /\ live = {}
  /\ cells = [b \in Block |-> <<>>]
  /\ dangling = {}
  /\ heap = "sound"

IsLarge(o) == d_capacity[o] > SmallSize

d_ptr(o) == d_data[o][1]

\* The objects that may be used.  Of one that has lost its storage every use is
\* undefined and not modelled but the last, which C++ makes: its destruction.
Usable == alive \ dangling

\* *data() at i: an element of d_data, or of the block d_ptr points to.
Element(o, i) ==
  CASE ~IsLarge(o) /\ d_data[o][i] \in Char -> d_data[o][i]
    [] IsLarge(o) /\ d_ptr(o) \in live      -> cells[d_ptr(o)][i]
    [] OTHER                                -> Junk

Contents(o) == [i \in 1..d_size[o] |-> Element(o, i)]

Overwrite(old, new) ==
  [i \in DOMAIN old |-> IF i \in DOMAIN new THEN new[i] ELSE old[i]]

-----------------------------------------------------------------------------
\* Defect: the old block is not deleted.
BlocksOfMutantLeak(o) == {}

\* What delete[] d_ptr is given.
BlocksOf(o) == IF IsLarge(o) THEN {d_ptr(o)} ELSE {}

\* Defect: off by one.
FitsMutantOffByOne(o, n) == d_capacity[o] + 1 >= n

Fits(o, n) == d_capacity[o] >= n

\* The elements from data() on become those of s.
Store(o, s) ==
  IF IsLarge(o)
  THEN /\ cells' = [cells EXCEPT ![d_ptr(o)] = Overwrite(@, s)]
       /\ UNCHANGED d_data
  ELSE /\ d_data' = [d_data EXCEPT ![o] = Overwrite(@, s)]
       /\ UNCHANGED cells

\* reserve(n), then s is written to the first elements.  new char[n] leaves
\* the elements unwritten; the old ones are gone.
ReserveAndStore(o, n, s) ==
  \/ /\ Fits(o, n)
     /\ Store(o, s)
     /\ UNCHANGED <<d_capacity, live, dangling>>
  \/ /\ ~Fits(o, n)
     /\ \E b \in Block \ (live \ BlocksOf(o)) :
          /\ live' = (live \ BlocksOf(o)) \cup {b}
          /\ d_data' = [d_data EXCEPT ![o][1] = b]
          /\ cells' = [c \in Block |->
                         CASE c = b -> Overwrite([i \in 1..n |-> Junk], s)
                           [] c # b /\ c \in BlocksOf(o) -> <<>>
                           [] OTHER -> cells[c]]
     /\ d_capacity' = [d_capacity EXCEPT ![o] = n]
     /\ UNCHANGED dangling

\* delete[] d_ptr, where the code calls it.
Release(o) ==
  /\ live' = live \ BlocksOf(o)
  /\ cells' = [b \in Block |-> IF b \in BlocksOf(o) THEN <<>> ELSE cells[b]]

\* new throws in reserve(n), called on an object that exists: d_capacity has
\* its new value, and d_ptr is still the deleted pointer or made of characters.
ReserveThrows(o, n) ==
  /\ ~Fits(o, n)
  /\ d_capacity' = [d_capacity EXCEPT ![o] = n]
  /\ Release(o)
  /\ dangling' = dangling \cup {o}
  /\ UNCHANGED d_data

-----------------------------------------------------------------------------
\* sdo(size).  If new throws there is no object and nothing has changed.
Construct(o, n) ==
  /\ o \notin alive
  /\ alive' = alive \cup {o}
  /\ d_size' = [d_size EXCEPT ![o] = n]
  /\ ReserveAndStore(o, n, <<>>)
  /\ UNCHANGED heap

\* The destructor looks at nothing but the capacity.  A pointer left behind may
\* by now be the block of another array, which loses it, or no block at all; if
\* it lies over zeros it is null, and nothing is deleted.
Destroy(o) ==
  /\ o \in alive
  /\ IF BlocksOf(o) \subseteq live \cup {Zero}
     THEN /\ alive' = alive \ {o}
          /\ Release(o)
          /\ dangling' = (dangling \ {o}) \cup
               {p \in Usable \ {o} : BlocksOf(p) \cap BlocksOf(o) # {}}
          /\ d_capacity' = [d_capacity EXCEPT ![o] = SmallSize]
          /\ d_size' = [d_size EXCEPT ![o] = 0]
          /\ d_data' = [d_data EXCEPT ![o] = [i \in 1..SmallSize |-> Zero]]
          /\ UNCHANGED heap
     ELSE /\ heap' = "corrupt"
          /\ UNCHANGED <<alive, d_capacity, d_size, d_data, live, cells, dangling>>

Resize(o, n) ==
  /\ o \in Usable
  /\ d_size' = [d_size EXCEPT ![o] = n]
  /\ ReserveAndStore(o, n, <<>>) \/ ReserveThrows(o, n)
  /\ UNCHANGED <<alive, heap>>

Reserve(o, n) ==
  /\ o \in Usable
  /\ ReserveAndStore(o, n, <<>>) \/ ReserveThrows(o, n)
  /\ UNCHANGED <<alive, d_size, heap>>

\* A character is written through data().
Write(o, i, v) ==
  /\ o \in Usable
  /\ i \in 1..d_size[o]
  /\ Store(o, [j \in {i} |-> v])
  /\ UNCHANGED <<alive, d_capacity, d_size, live, dangling, heap>>

\* Copy construction when o does not exist yet, copy assignment otherwise.
Copy(o, p) ==
  /\ o \notin alive \/ o \in Usable
  /\ p \in Usable
  /\ d_size' = [d_size EXCEPT ![o] = d_size[p]]
  /\ \/ /\ ReserveAndStore(o, d_size[p], Contents(p))
        /\ alive' = alive \cup {o}
     \/ /\ o \in alive
        /\ ReserveThrows(o, d_size[p])
        /\ UNCHANGED alive
  /\ UNCHANGED heap

Swap(f, o, p) == [f EXCEPT ![o] = f[p], ![p] = f[o]]

\* Defect: the pointer is copied and not swapped.
TakeHeapMutantShare(o, p) ==
  /\ d_capacity' = [d_capacity EXCEPT ![o] = d_capacity[p]]
  /\ d_size' = [d_size EXCEPT ![o] = d_size[p]]
  /\ d_data' = [d_data EXCEPT ![o][1] = d_ptr(p)]
  /\ UNCHANGED <<live, cells, dangling, heap>>

\* The moves of an array on the heap: capacity, size and pointer change places.
TakeHeap(o, p) ==
  /\ d_capacity' = Swap(d_capacity, o, p)
  /\ d_size' = Swap(d_size, o, p)
  /\ d_data' = [d_data EXCEPT ![o][1] = d_ptr(p), ![p][1] = d_ptr(o)]
  /\ UNCHANGED <<live, cells, dangling, heap>>

\* Defect: every array is moved by copying it.
MoveMutantCopy(o, p) == Copy(o, p)

\* Move construction when o does not exist yet, move assignment otherwise.
Move(o, p) ==
  /\ o \notin alive \/ o \in Usable
  /\ p \in Usable
  /\ \/ d_capacity[p] = SmallSize /\ Copy(o, p)
     \/ /\ d_capacity[p] # SmallSize
        /\ TakeHeap(o, p)
        /\ alive' = alive \cup {o}

Next ==
  /\ heap = "sound"
  /\ \E o \in Array :
      \/ \E n \in 0..MaxSize : Construct(o, n) \/ Resize(o, n) \/ Reserve(o, n)
      \/ Destroy(o)
      \/ \E i \in 1..MaxSize, v \in Value : Write(o, i, v)
      \/ \E p \in Array : Copy(o, p) \/ Move(o, p)

Spec == Init /\ [][Next]_vars

-----------------------------------------------------------------------------
(* Properties *)

\* Each block on the heap is the storage of exactly one of the arrays that may be
\* used, as large as its capacity says: none is lost or shared, through any
\* sequence of copies, moves (of arrays onto themselves too), growth, bad_allocs
\* and destructions of what they leave behind.
HeapOwned ==
  /\ live = UNION {BlocksOf(o) : o \in Usable}
  /\ \A o, p \in Usable :
       IsLarge(o) /\ IsLarge(p) /\ d_ptr(o) = d_ptr(p) => o = p
  /\ \A o \in Usable :
       IsLarge(o) => Len(cells[d_ptr(o)]) = d_capacity[o]

\* A move touches no heap block and does not throw, which is why it may be
\* noexcept (mem_sdo.h:53-55): a source without a heap block fits any target.
MoveNeverAllocates ==
  [][\A o, p \in Array :
       Move(o, p) => /\ live' = live /\ dangling' = dangling
                     /\ alive' = alive \cup {o}]_vars

\* The arrays behave as independent values, however their storage is shared
\* out between the objects and the heap; but one whose growth threw is broken,
\* and its destruction may break another.
Arrays == INSTANCE DynamicArray WITH
  value <- [o \in Array |-> CASE o \in Usable   -> Contents(o)
                              [] o \in dangling -> Broken
                              [] OTHER          -> NoArray]

ImplementsArray == Arrays!Spec

Allocated(o) == IsLarge(o) => d_ptr(o) \in live

\* An array loses its storage only to a bad_alloc in its own reserve
\* (mem_sdo.h:89-94) or to the destructor of an array that such a bad_alloc left
\* with what is now this one's block; and only such a destructor deletes what is
\* no block.  No other operation takes the storage of an array that is alive.
StorageLostByThrow ==
  [][/\ \A o \in alive' :
          \/ Allocated(o)'
          \/ o \in dangling
          \/ \E n \in 0..MaxSize : ReserveThrows(o, n)
          \/ \E q \in dangling : Destroy(q) /\ d_ptr(q) = d_ptr(o)
     /\ heap' = heap \/ \E q \in dangling : Destroy(q)]_vars
=============================================================================
