---------------------------- MODULE DynamicArray ----------------------------
(***************************************************************************)
(* What mem::sdo promises ("small data optimized dynamic array"): arrays   *)
(* that are values.  An operation changes the array it is called on, a     *)
(* move also the one it takes from, and no other array; a copy or a move   *)
(* gives the source's elements.  What it does not say: an array that       *)
(* cannot get the storage it needs is broken, and its end may break        *)
(* another.                                                                *)
(***************************************************************************)
EXTENDS Sequences, Naturals

CONSTANTS Array,    \* the places where an array can be
          Char,     \* the values of an element
          MaxSize,  \* the size no array exceeds
          NoArray,  \* the value of a place without an array
          Broken    \* and of one whose array has lost its elements' storage

Values == UNION {[1..n -> Char] : n \in 0..MaxSize}

VARIABLE value      \* the elements of each array

Init == value = [o \in Array |-> NoArray]

Exists(o) == value[o] \notin {NoArray, Broken}

\* The arrays other than those of S keep their elements.
ChangesOnly(S) ==
  /\ value' \in [Array -> Values \cup {NoArray, Broken}]
  /\ \A q \in Array \ S : value'[q] = value[q]

\* The elements of a new array are unspecified.
Construct(o) ==
  /\ value[o] = NoArray
  /\ ChangesOnly({o})
  /\ value'[o] \in Values

\* The array cannot get the storage it needs.
Break(o) ==
  /\ Exists(o)
  /\ value' = [value EXCEPT ![o] = Broken]

\* The end of a broken array may break one other.
Destroy(o) ==
  \/ value' = [value EXCEPT ![o] = NoArray]
  \/ /\ value[o] = Broken
     /\ \E q \in Array \ {o} :
          /\ Exists(q)
          /\ value' = [value EXCEPT ![o] = NoArray, ![q] = Broken]

Copy(o, p) ==
  /\ Exists(p) /\ value[o] # Broken
  /\ value' = [value EXCEPT ![o] = value[p]]

\* What a move leaves in the source is unspecified.
Move(o, p) ==
  /\ Exists(p) /\ value[o] # Broken
  /\ o # p
  /\ ChangesOnly({o, p})
  /\ value'[o] = value[p]
  /\ value'[p] \in Values

\* A smaller size keeps the first elements.  A larger one keeps none for
\* sure: the elements are lost when the array has to move.
Resize(o, n) ==
  /\ Exists(o)
  /\ ChangesOnly({o})
  /\ value'[o] \in [1..n -> Char]
  /\ n <= Len(value[o]) => value'[o] = SubSeq(value[o], 1, n)

\* reserve keeps the size, and nothing else for sure.
Reserve(o) ==
  /\ Exists(o)
  /\ ChangesOnly({o})
  /\ value'[o] \in [1..Len(value[o]) -> Char]

Write(o, i, c) ==
  /\ Exists(o)
  /\ i \in 1..Len(value[o])
  /\ value' = [value EXCEPT ![o][i] = c]

Next ==
  \E o \in Array :
    \/ Construct(o)
    \/ Destroy(o) \/ Break(o)
    \/ \E p \in Array : Copy(o, p) \/ Move(o, p)
    \/ \E n \in 0..MaxSize : Resize(o, n)
    \/ Reserve(o)
    \/ \E i \in 1..MaxSize, c \in Char : Write(o, i, c)

Spec == Init /\ [][Next]_value
=============================================================================
