------------------------ MODULE NativeAddressesProofs ------------------------
(***************************************************************************)
(* Theorems about NativeAddresses for any number of objects, any width of  *)
(* the fields and any sizes of the arrays.  The invariant says of the name *)
(* an object should show which cells hold it; every operation writes the   *)
(* cells of the new name and leaves no other name to show.                 *)
(***************************************************************************)
EXTENDS NativeAddresses, SequenceTheorems, WellFoundedInduction,
        TLAPS

Value == 0..(Byte - 1)

\* Arrays of cells: only the first cell can be a family.
Row == {c \in Seq(Cell) : /\ Len(c) \in SdoSize..SizeofUn
                          /\ \A i \in 2..Len(c) : c[i] \in Value \cup {Junk}}

\* The paths that a name can have, which contain no NUL.
Text0 == {t \in Seq(1..(Byte - 1)) : Len(t) <= PathMax}

InNames == [family : {INET}, port : Nat, host : Value]
UnNames == [family : {UNIX}, path : Text0]
Name == {Empty, Unknown} \cup InNames \cup UnNames

\* The cells c begin with the name of a sockaddr_un with the path t.
HasPath(c, t) ==
  /\ c[1] = UNIX
  /\ \A i \in 1..Len(t) : c[i + 1] = t[i]
  /\ Len(t) < PathMax => c[Len(t) + 2] = 0

\* An array with the cells c and the size n shows the name.
Shows(c, n, name) ==
  /\ name = Empty => n = 0
  /\ name \in InNames => /\ n >= SizeofIn
                         /\ c[1] = INET
                         /\ c[2] = name.port % Byte
                         /\ c[3] = name.host
  /\ name \in UnNames => /\ n >= SizeofUn \/ n >= 2 + Len(name.path)
                         /\ HasPath(c, name.path)

IInv ==
  /\ class \in [Address -> {"ipv4_address", "unix_address"}]
  /\ size \in [Address -> {0} \cup SizeofIn..SizeofUn]
  /\ cells \in [Address -> Row]
  /\ given \in [Address -> Name]
  /\ \A o \in Address : /\ size[o] <= Len(cells[o])
                        /\ Shows(cells[o], size[o], given[o])

-----------------------------------------------------------------------------
(* Constants and names *)

\* What the constants are.
LEMMA Numbers ==
  /\ Byte \in Nat /\ Byte > 1 /\ PathMax \in Nat /\ SdoSize \in Nat
  /\ SizeofIn = 3 /\ SizeofUn = 1 + PathMax
  /\ SizeofIn <= SdoSize /\ SdoSize <= PathMax
  /\ Junk \notin Nat
BY NativeAddressesAssumption DEF SizeofIn, SizeofUn

\* The kinds of names are told apart by their families.
LEMMA Families ==
  /\ Empty \in Name /\ Empty.family = UNSPEC /\ Empty # Unknown
  /\ Unknown \in Name /\ Unknown.family = Junk
  /\ \A x \in InNames : /\ x.family = INET /\ x.port \in Nat /\ x.host \in Value
                        /\ x # Empty /\ x # Unknown /\ x \notin UnNames
                        /\ x = InName(x.port, x.host)
  /\ \A x \in UnNames : /\ x.family = UNIX /\ x.path \in Text0
                        /\ x # Empty /\ x # Unknown /\ x \notin InNames
  /\ INET # UNIX /\ INET # UNSPEC /\ UNIX # UNSPEC
  /\ Junk \notin {INET, UNIX, UNSPEC}
<1> USE DEF INET, UNIX, UNSPEC, Empty, Unknown
<1>1. Junk \notin {INET, UNIX, UNSPEC}
  BY Numbers
<1>2. /\ Empty \in Name /\ Empty.family = UNSPEC /\ Empty # Unknown
      /\ Unknown \in Name /\ Unknown.family = Junk
  BY <1>1 DEF Name
<1>3. \A x \in InNames : /\ x.family = INET /\ x.port \in Nat /\ x.host \in Value
                         /\ x = InName(x.port, x.host)
  BY DEF InNames, InName
<1>4. \A x \in UnNames : x.family = UNIX /\ x.path \in Text0
  BY DEF UnNames
<1> QED
  BY <1>1, <1>2, <1>3, <1>4

-----------------------------------------------------------------------------
(* Cells *)

\* Writing s over a row leaves a row, with s in its place and the rest as it
\* was.
LEMMA PutRow ==
  \A c \in Row : \A i \in Nat \ {0} : \A s \in Seq(Cell) :
    (\A j \in 1..Len(s) : (i = 1 /\ j = 1) \/ s[j] \in Value \cup {Junk}) =>
      /\ Put(c, i, s) \in Row
      /\ Len(Put(c, i, s)) = Len(c)
      /\ \A j \in 1..Len(c) :
           Put(c, i, s)[j] = IF j >= i /\ j < i + Len(s) THEN s[j - i + 1] ELSE c[j]
<1> SUFFICES ASSUME NEW c \in Row, NEW i \in Nat \ {0}, NEW s \in Seq(Cell),
                    \A j \in 1..Len(s) : (i = 1 /\ j = 1) \/ s[j] \in Value \cup {Junk}
             PROVE  /\ Put(c, i, s) \in Row
                    /\ Len(Put(c, i, s)) = Len(c)
                    /\ \A j \in 1..Len(c) :
                         Put(c, i, s)[j] = IF j >= i /\ j < i + Len(s)
                                           THEN s[j - i + 1] ELSE c[j]
  OBVIOUS
<1>1. c \in Seq(Cell) /\ Len(c) \in Nat /\ DOMAIN c = 1..Len(c)
  BY DEF Row
<1>2. Len(s) \in Nat /\ \A j \in 1..Len(s) : s[j] \in Cell
  OBVIOUS
<1>3. Put(c, i, s) = [j \in 1..Len(c) |-> IF j >= i /\ j < i + Len(s)
                                          THEN s[j - i + 1] ELSE c[j]]
  BY <1>1 DEF Put
<1> DEFINE e(j) == IF j >= i /\ j < i + Len(s) THEN s[j - i + 1] ELSE c[j]
<1>4. \A j \in 1..Len(c) : e(j) \in Cell
  <2> TAKE j \in 1..Len(c)
  <2>1. CASE j >= i /\ j < i + Len(s)
    <3>1. j - i + 1 \in 1..Len(s)
      BY <1>1, <1>2, <2>1
    <3> QED
      BY <1>2, <2>1, <3>1
  <2>2. CASE ~(j >= i /\ j < i + Len(s))
    BY <1>1, <2>2, ElementOfSeq
  <2> QED
    BY <2>1, <2>2
<1>5. \A j \in 2..Len(c) : e(j) \in Value \cup {Junk}
  <2> TAKE j \in 2..Len(c)
  <2>1. CASE j >= i /\ j < i + Len(s)
    <3>1. j - i + 1 \in 1..Len(s) /\ ~(i = 1 /\ j - i + 1 = 1)
      BY <1>1, <1>2, <2>1
    <3> QED
      BY <1>2, <2>1, <3>1
  <2>2. CASE ~(j >= i /\ j < i + Len(s))
    BY <2>2 DEF Row
  <2> QED
    BY <2>1, <2>2
<1> HIDE DEF e
<1>6. [j \in 1..Len(c) |-> e(j)] \in Seq(Cell) /\ Len([j \in 1..Len(c) |-> e(j)]) = Len(c)
  BY <1>1, <1>4, IsASeq
<1>7. /\ Put(c, i, s) \in Seq(Cell)
      /\ Len(Put(c, i, s)) = Len(c)
      /\ \A j \in 1..Len(c) : Put(c, i, s)[j] = e(j)
  BY <1>3, <1>6 DEF e
<1>8. Put(c, i, s) \in Row
  BY <1>1, <1>5, <1>7 DEF Row
<1> QED
  BY <1>7, <1>8 DEF e

\* Writing one cell of a field.
LEMMA PutCell ==
  ASSUME NEW c \in Row, NEW i \in 2..Len(c), NEW v \in Value \cup {Junk}
  PROVE  /\ Put(c, i, <<v>>) \in Row /\ Len(Put(c, i, <<v>>)) = Len(c)
         /\ \A j \in 1..Len(c) : Put(c, i, <<v>>)[j] = IF j = i THEN v ELSE c[j]
<1> DEFINE s == <<v>>
<1>1. v \in Cell
  BY DEF Cell, Value
<1>2. s \in Seq(Cell) /\ Len(s) = 1 /\ s[1] = v
  BY <1>1
<1>3. Len(c) \in Nat /\ i \in Nat \ {0}
  BY DEF Row
<1> HIDE DEF s
<1>4. \A j \in 1..Len(s) : (i = 1 /\ j = 1) \/ s[j] \in Value \cup {Junk}
  BY <1>2
<1>5. /\ Put(c, i, s) \in Row
      /\ Len(Put(c, i, s)) = Len(c)
      /\ \A j \in 1..Len(c) :
           Put(c, i, s)[j] = IF j >= i /\ j < i + Len(s) THEN s[j - i + 1] ELSE c[j]
  BY <1>2, <1>3, <1>4, PutRow
<1>6. \A j \in 1..Len(c) : Put(c, i, s)[j] = IF j = i THEN v ELSE c[j]
  <2> TAKE j \in 1..Len(c)
  <2>1. j >= i /\ j < i + Len(s) <=> j = i
    BY <1>2, <1>3
  <2>2. j = i => j - i + 1 = 1
    BY <1>3
  <2> QED
    BY <1>2, <1>5, <2>1, <2>2
<1> QED
  BY <1>5, <1>6 DEF s

\* A row that is resized has room for its size; it keeps its cells unless it
\* has to grow.
LEMMA SizedRow ==
  \A c \in Row : \A n \in 0..SizeofUn :
    /\ Sized(c, n) \in Row
    /\ Len(Sized(c, n)) >= n /\ Len(Sized(c, n)) >= Len(c)
    /\ n <= Len(c) => Sized(c, n) = c
<1> SUFFICES ASSUME NEW c \in Row, NEW n \in 0..SizeofUn
             PROVE  /\ Sized(c, n) \in Row
                    /\ Len(Sized(c, n)) >= n /\ Len(Sized(c, n)) >= Len(c)
                    /\ n <= Len(c) => Sized(c, n) = c
  OBVIOUS
<1>1. Len(c) \in Nat /\ Len(c) \in SdoSize..SizeofUn /\ n \in Nat
  BY Numbers DEF Row
<1>2. CASE n <= Len(c)
  BY <1>1, <1>2 DEF Sized
<1>3. CASE ~(n <= Len(c))
  <2>1. Junk \in Cell
    BY DEF Cell
  <2>2. [i \in 1..n |-> Junk] \in Seq(Cell)
    BY <1>1, <2>1
  <2>3. Len([i \in 1..n |-> Junk]) = n
    BY <1>1
  <2>4. [i \in 1..n |-> Junk] \in Row
    BY <1>1, <1>3, <2>2, <2>3, Numbers DEF Row
  <2> QED
    BY <1>1, <1>3, <2>3, <2>4 DEF Sized
<1> QED
  BY <1>2, <1>3

\* The array of a new object.
LEMMA FreshRow == Fresh \in Row /\ Len(Fresh) = SdoSize
<1>1. 0 \in Cell /\ SdoSize \in Nat
  BY Numbers DEF Cell, UNSPEC
<1>2. Fresh \in Seq(Cell) /\ Len(Fresh) = SdoSize /\ \A i \in 1..SdoSize : Fresh[i] = 0
  BY <1>1 DEF Fresh
<1> QED
  BY <1>2, Numbers DEF Row, Value

-----------------------------------------------------------------------------
(* Paths *)

\* The text of s is s up to its first NUL.
LEMMA TextPrefix ==
  \A s \in Seq(Cell) :
    /\ Text(s) \in Seq(Cell) /\ Len(Text(s)) \in 0..Len(s)
    /\ \A i \in 1..Len(Text(s)) : Text(s)[i] = s[i] /\ s[i] # 0
    /\ Len(Text(s)) < Len(s) => s[Len(Text(s)) + 1] = 0
<1> SUFFICES ASSUME NEW s \in Seq(Cell)
             PROVE  /\ Text(s) \in Seq(Cell) /\ Len(Text(s)) \in 0..Len(s)
                    /\ \A i \in 1..Len(Text(s)) : Text(s)[i] = s[i] /\ s[i] # 0
                    /\ Len(Text(s)) < Len(s) => s[Len(Text(s)) + 1] = 0
  OBVIOUS
<1> DEFINE I == {i \in 1..Len(s) : s[i] = 0}
<1>1. Text(s) = IF (IF I # {} THEN Min(I) ELSE 0) = 0 THEN s
                ELSE SubSeq(s, 1, (IF I # {} THEN Min(I) ELSE 0) - 1)
  BY DEF Text, SelectInSeq
<1>2. Len(s) \in Nat /\ \A i \in 1..Len(s) : s[i] \in Cell
  OBVIOUS
<1>3. CASE I = {}
  <2>1. Text(s) = s
    BY <1>1, <1>3
  <2>2. \A i \in 1..Len(s) : s[i] # 0
    BY <1>3
  <2> QED
    BY <1>2, <2>1, <2>2
<1>4. CASE I # {}
  <2>1. I \in SUBSET Nat
    BY <1>2
  <2>2. \E m \in I : \A i \in I : m <= i
    <3> DEFINE R == OpToRel(<, Nat)
    <3>1. IsWellFoundedOn(R, Nat)
      BY NatLessThanWellFounded
    <3>2. \A x, y \in Nat : <<y, x>> \in R <=> y < x
      BY DEF OpToRel
    <3> HIDE DEF R
    <3>3. PICK m \in I : \A i \in I : ~ (<<i, m>> \in R)
      BY <1>4, <2>1, <3>1, WFMin
    <3>4. m \in Nat /\ \A i \in I : i \in Nat
      BY <2>1
    <3>5. \A i \in I : ~ (i < m)
      BY <3>2, <3>3, <3>4, Zenon
    <3>6. \A i \in I : m <= i
      BY ONLY <3>4, <3>5
    <3> QED
      BY <3>6, Zenon
  <2>3. Min(I) \in I /\ \A i \in I : Min(I) <= i
    BY <2>2 DEF Min
  <2> DEFINE m == Min(I)
  <2> HIDE DEF m
  <2>4. m \in 1..Len(s) /\ s[m] = 0 /\ \A i \in I : m <= i
    BY <2>3 DEF m
  <2>5. Text(s) = SubSeq(s, 1, m - 1)
    <3>1. Text(s) = IF m = 0 THEN s ELSE SubSeq(s, 1, m - 1)
      BY <1>1, <1>4, Zenon DEF m
    <3> QED
      BY <2>4, <3>1
  <2>6. \A i \in 1..(m - 1) : s[i] # 0 /\ s[i] \in Cell
    BY <1>2, <2>4
  <2>7. /\ SubSeq(s, 1, m - 1) \in Seq(Cell)
        /\ Len(SubSeq(s, 1, m - 1)) = m - 1
        /\ \A i \in 1..(m - 1) : SubSeq(s, 1, m - 1)[i] = s[i]
    BY <1>2, <2>4, <2>6, SubSeqProperties
  <2> QED
    BY <1>2, <2>4, <2>5, <2>6, <2>7
<1> QED
  BY <1>3, <1>4

\* Cells that hold a path and, if it is short, a NUL behind it have that text.
LEMMA TextOf ==
  ASSUME NEW s \in Seq(Cell), NEW t \in Text0,
         Len(t) <= Len(s), \A i \in 1..Len(t) : s[i] = t[i],
         Len(t) < Len(s) => s[Len(t) + 1] = 0
  PROVE  Text(s) = t
<1>1. /\ Text(s) \in Seq(Cell) /\ Len(Text(s)) \in 0..Len(s)
      /\ \A i \in 1..Len(Text(s)) : Text(s)[i] = s[i] /\ s[i] # 0
      /\ Len(Text(s)) < Len(s) => s[Len(Text(s)) + 1] = 0
  BY TextPrefix
<1>2. /\ t \in Seq(1..(Byte - 1)) /\ Len(t) \in Nat /\ Len(s) \in Nat
      /\ \A i \in 1..Len(t) : t[i] \in 1..(Byte - 1) /\ t[i] # 0
  BY Numbers DEF Text0
<1>3. Len(Text(s)) = Len(t)
  <2>1. ~(Len(Text(s)) < Len(t))
    <3> SUFFICES ASSUME Len(Text(s)) < Len(t) PROVE FALSE
      OBVIOUS
    <3>1. Len(Text(s)) + 1 \in 1..Len(t) /\ Len(Text(s)) < Len(s)
      BY <1>1, <1>2
    <3>2. s[Len(Text(s)) + 1] = 0
      BY <1>1, <3>1
    <3> QED
      BY <1>2, <3>1, <3>2
  <2>2. ~(Len(t) < Len(Text(s)))
    <3> SUFFICES ASSUME Len(t) < Len(Text(s)) PROVE FALSE
      OBVIOUS
    <3>1. Len(t) + 1 \in 1..Len(Text(s)) /\ Len(t) < Len(s)
      BY <1>1, <1>2
    <3> QED
      BY <1>1, <3>1
  <2> QED
    BY <1>1, <1>2, <2>1, <2>2
<1>4. t \in Seq(Cell)
  <2>1. 1..(Byte - 1) \subseteq Cell
    BY Numbers DEF Cell
  <2> QED
    BY <1>2, <2>1, SeqMonotonic
<1>5. \A i \in 1..Len(t) : Text(s)[i] = t[i]
  BY <1>1, <1>3
<1> QED
  BY <1>1, <1>3, <1>4, <1>5, SeqEqual

\* A path is a sequence of values.
LEMMA PathValues ==
  \A s \in Path : s \in Seq(Value) /\ s \in Seq(Cell) /\ Len(s) <= PathMax
<1> TAKE s \in Path
<1>1. PICK n \in 0..PathMax : s \in [1..n -> Value]
  BY DEF Path, BoundedSeq, SeqOf, Value
<1>2. n \in Nat
  BY Numbers
<1>3. s \in Seq(Value) /\ Len(s) = n
  BY <1>1, <1>2
<1>4. Value \subseteq Cell
  BY DEF Value, Cell
<1> QED
  BY <1>1, <1>3, <1>4, SeqMonotonic

\* The text of a path is one that a name can have.
LEMMA TextOfPath == \A s \in Path : Text(s) \in Text0 /\ UnName(s) \in UnNames
<1> TAKE s \in Path
<1>1. s \in Seq(Value) /\ s \in Seq(Cell) /\ Len(s) <= PathMax
  BY PathValues
<1>2. /\ Text(s) \in Seq(Cell) /\ Len(Text(s)) \in 0..Len(s)
      /\ \A i \in 1..Len(Text(s)) : Text(s)[i] = s[i] /\ s[i] # 0
  BY <1>1, TextPrefix
<1>3. Len(s) \in Nat /\ \A i \in 1..Len(s) : s[i] \in 0..(Byte - 1)
  BY ONLY <1>1, ElementOfSeq, LenProperties DEF Value
<1>4. \A i \in 1..Len(Text(s)) : Text(s)[i] \in 1..(Byte - 1)
  BY <1>2, <1>3, Numbers
<1>5. Text(s) \in Seq(1..(Byte - 1))
  <2>1. Text(s) \in [1..Len(Text(s)) -> 1..(Byte - 1)] /\ Len(Text(s)) \in Nat
    BY <1>2, <1>4, LenProperties
  <2> QED
    BY <2>1, SeqDef
<1>6. Len(Text(s)) <= PathMax
  BY <1>1, <1>2, <1>3, Numbers
<1>7. Text(s) \in Text0
  BY <1>5, <1>6 DEF Text0
<1> QED
  BY <1>7 DEF UnNames, UnName

-----------------------------------------------------------------------------
(* Cells and the names they show *)

\* What the width of a field leaves of a number.
LEMMA Widths ==
  /\ \A port \in Nat : port % Byte \in Value
  /\ \A v \in Value : v % Byte = v /\ v \in Nat /\ v \in Cell
<1>1. \A port \in Nat : port % Byte \in Value
  BY Numbers DEF Value
<1>2. \A v \in Value : v % Byte = v /\ v \in Nat
  BY Numbers DEF Value
<1> QED
  BY <1>1, <1>2 DEF Cell, Value

\* The least of two numbers.
LEMMA MinOfTwo ==
  \A a, b \in Nat : Min({a, b}) \in {a, b} /\ Min({a, b}) <= a /\ Min({a, b}) <= b
<1> TAKE a, b \in Nat
<1>1. \E m \in {a, b} : \A i \in {a, b} : m <= i
  OBVIOUS
<1>2. Min({a, b}) \in {a, b} /\ \A i \in {a, b} : Min({a, b}) <= i
  BY <1>1 DEF Min
<1> QED
  BY <1>2

\* A name is shown by the cells within the size alone.
LEMMA PrefixShows ==
  ASSUME NEW c, NEW d, NEW n \in Nat, n <= SizeofUn,
         \A i \in 1..n : d[i] = c[i],
         NEW name \in Name, Shows(c, n, name)
  PROVE  Shows(d, n, name)
<1>1. ASSUME name \in InNames
      PROVE  /\ n >= SizeofIn
             /\ d[1] = INET
             /\ d[2] = name.port % Byte
             /\ d[3] = name.host
  <2>1. n >= SizeofIn /\ c[1] = INET /\ c[2] = name.port % Byte /\ c[3] = name.host
    BY <1>1 DEF Shows
  <2>2. 1 \in 1..n /\ 2 \in 1..n /\ 3 \in 1..n
    BY <2>1, Numbers
  <2> QED
    BY <2>1, <2>2
<1>2. ASSUME name \in UnNames
      PROVE  /\ n >= SizeofUn \/ n >= 2 + Len(name.path)
             /\ HasPath(d, name.path)
  <2> DEFINE t == name.path
  <2>1. t \in Text0 /\ Len(t) \in Nat /\ Len(t) <= PathMax
    BY <1>2, Families DEF Text0
  <2>2. n >= SizeofUn \/ n >= 2 + Len(t)
    BY <1>2 DEF Shows
  <2>3. HasPath(c, t)
    BY <1>2 DEF Shows
  <2> HIDE DEF t
  <2>4. 1 \in 1..n /\ \A i \in 1..Len(t) : i + 1 \in 1..n
    BY <2>1, <2>2, Numbers
  <2>5. Len(t) < PathMax => Len(t) + 2 \in 1..n
    BY <2>1, <2>2, Numbers
  <2>6. HasPath(d, t)
    BY <2>1, <2>3, <2>4, <2>5 DEF HasPath
  <2> QED
    BY <2>2, <2>6 DEF t
<1>3. name = Empty => n = 0
  BY DEF Shows
<1> QED
  BY <1>1, <1>2, <1>3 DEF Shows

\* No cells have to show what an object is not known to show.
LEMMA UnknownShown == \A c, n : Shows(c, n, Unknown) /\ Shows(c, 0, Empty)
BY Families DEF Shows

\* The cells of a sockaddr_in show its port and its host.
LEMMA InShown ==
  ASSUME NEW c, NEW n \in Nat, n >= SizeofIn,
         NEW port \in Nat, NEW host \in Value,
         c[1] = INET, c[2] = port % Byte, c[3] = host
  PROVE  Shows(c, n, InName(port, host)) /\ InName(port, host) \in InNames
<1> DEFINE x == InName(port, host)
<1>1. x \in InNames /\ x.port = port /\ x.host = host
  BY DEF InNames, InName
<1>2. x # Empty /\ x \notin UnNames
  BY <1>1, Families
<1> HIDE DEF x
<1>3. Shows(c, n, x)
  BY <1>1, <1>2 DEF Shows
<1> QED
  BY <1>1, <1>3 DEF x

\* The cells of a sockaddr_un show its path.
LEMMA UnShown ==
  ASSUME NEW c, NEW n \in Nat, NEW t \in Text0, HasPath(c, t),
         n >= SizeofUn \/ n >= 2 + Len(t)
  PROVE  /\ Shows(c, n, [family |-> UNIX, path |-> t])
         /\ [family |-> UNIX, path |-> t] \in UnNames
<1> DEFINE x == [family |-> UNIX, path |-> t]
<1>1. x \in UnNames /\ x.path = t
  BY DEF UnNames
<1>2. x # Empty /\ x \notin InNames
  BY <1>1, Families
<1> HIDE DEF x
<1>3. Shows(c, n, x)
  BY <1>1, <1>2 DEF Shows
<1> QED
  BY <1>1, <1>3 DEF x

\* strncpy of a path over the cells of a sockaddr_un: they show the path.
LEMMA PathWritten ==
  ASSUME NEW c \in Row, Len(c) >= SizeofUn, NEW path \in Path
  PROVE  LET d == Put(c, 2, PathCells(path))
         IN  /\ d \in Row /\ Len(d) = Len(c)
             /\ c[1] = UNIX => Shows(d, SizeofUn, UnName(path))
<1> DEFINE s == PathCells(path)
           t == Text(path)
           d == Put(c, 2, s)
<1>1. /\ path \in Seq(Value) /\ path \in Seq(Cell) /\ Len(path) \in Nat
      /\ Len(path) <= PathMax
  BY PathValues
<1>2. t \in Text0
  BY TextOfPath
<1>3. /\ Len(t) \in Nat /\ Len(t) <= Len(path)
      /\ \A i \in 1..Len(t) : t[i] = path[i]
  BY <1>1, TextPrefix
<1>4. /\ s \in Seq(Cell) /\ Len(s) = PathMax
      /\ \A i \in 1..PathMax : /\ s[i] = IF i <= Len(t) THEN path[i] ELSE 0
                               /\ s[i] \in Value
  <2>1. 0 \in Value /\ Value \subseteq Cell /\ PathMax \in Nat
    BY Numbers DEF Value, Cell
  <2>2. \A i \in 1..PathMax : i <= Len(t) => path[i] \in Value
    BY <1>1, <1>3, ElementOfSeq
  <2>3. s = [i \in 1..PathMax |-> IF i <= Len(t) THEN path[i] ELSE 0]
    BY DEF PathCells
  <2> DEFINE e(i) == IF i <= Len(t) THEN path[i] ELSE 0
  <2>4. \A i \in 1..PathMax : e(i) \in Value
    BY <2>1, <2>2
  <2> HIDE DEF e, t, s
  <2>5. [i \in 1..PathMax |-> e(i)] \in Seq(Value) /\ Len([i \in 1..PathMax |-> e(i)]) = PathMax
    BY <2>1, <2>4, IsASeq
  <2>6. s = [i \in 1..PathMax |-> e(i)]
    BY <2>3 DEF e
  <2>7. s \in Seq(Value) /\ Len(s) = PathMax /\ \A i \in 1..PathMax : s[i] = e(i)
    BY <2>5, <2>6
  <2> QED
    BY <2>1, <2>4, <2>7, SeqMonotonic DEF e
<1> HIDE DEF s, t
<1>5. \A j \in 1..Len(s) : (2 = 1 /\ j = 1) \/ s[j] \in Value \cup {Junk}
  BY <1>4
<1>6. /\ d \in Row /\ Len(d) = Len(c)
      /\ \A j \in 1..Len(c) :
           d[j] = IF j >= 2 /\ j < 2 + Len(s) THEN s[j - 2 + 1] ELSE c[j]
  BY <1>4, <1>5, PutRow
<1> HIDE DEF d
<1>7. Len(c) \in Nat
  BY DEF Row
<1>8. d[1] = c[1] /\ \A i \in 1..PathMax : d[i + 1] = s[i]
  <2>1. d[1] = c[1]
    BY <1>4, <1>6, <1>7, Numbers
  <2>2. ASSUME NEW i \in 1..PathMax PROVE d[i + 1] = s[i]
    <3>1. i + 1 \in 1..Len(c) /\ i + 1 >= 2 /\ i + 1 < 2 + Len(s) /\ i + 1 - 2 + 1 = i
      BY <1>4, <1>7, Numbers
    <3> QED
      BY <1>6, <3>1
  <2> QED
    BY <2>1, <2>2
<1>9. ASSUME c[1] = UNIX PROVE HasPath(d, t)
  <2>1. ASSUME NEW i \in 1..Len(t) PROVE d[i + 1] = t[i]
    <3>1. i \in 1..PathMax /\ i <= Len(t)
      BY <1>1, <1>3, Numbers
    <3>2. d[i + 1] = s[i] /\ s[i] = path[i]
      BY <1>4, <1>8, <3>1
    <3> QED
      BY <1>3, <3>2
  <2>2. Len(t) < PathMax => d[Len(t) + 2] = 0
    <3> SUFFICES ASSUME Len(t) < PathMax PROVE d[Len(t) + 2] = 0
      OBVIOUS
    <3>1. Len(t) + 1 \in 1..PathMax /\ Len(t) + 1 + 1 = Len(t) + 2
      BY <1>3, Numbers
    <3> QED
      BY <1>3, <1>4, <1>8, <3>1
  <2> QED
    BY <1>8, <1>9, <2>1, <2>2 DEF HasPath
<1>10. SizeofUn \in Nat /\ UnName(path) = [family |-> UNIX, path |-> t]
  BY Numbers DEF UnName, t
<1> QED
  BY <1>2, <1>6, <1>9, <1>10, UnShown DEF d, s

-----------------------------------------------------------------------------
(* Operations *)

\* An object that shows its name is one the invariant allows.
LEMMA BecomeKeeps ==
  ASSUME IInv, NEW o \in Address, NEW cl \in {"ipv4_address", "unix_address"},
         NEW n \in {0} \cup SizeofIn..SizeofUn, NEW c \in Row, n <= Len(c),
         NEW name \in Name, Shows(c, n, name), Become(o, cl, n, c, name)
  PROVE  IInv'
<1>1. /\ class' \in [Address -> {"ipv4_address", "unix_address"}]
      /\ size' \in [Address -> {0} \cup SizeofIn..SizeofUn]
      /\ cells' \in [Address -> Row]
      /\ given' \in [Address -> Name]
  BY DEF IInv, Become
<1>2. /\ size'[o] = n /\ cells'[o] = c /\ given'[o] = name
      /\ \A q \in Address \ {o} : /\ size'[q] = size[q] /\ cells'[q] = cells[q]
                                  /\ given'[q] = given[q]
  BY DEF IInv, Become
<1>3. \A q \in Address : /\ size'[q] <= Len(cells'[q])
                         /\ Shows(cells'[q], size'[q], given'[q])
  BY <1>2 DEF IInv
<1> QED
  BY <1>1, <1>3 DEF IInv

\* What the invariant says of one object.
LEMMA ObjectOf ==
  ASSUME IInv, NEW o \in Address
  PROVE  /\ class[o] \in {"ipv4_address", "unix_address"}
         /\ size[o] \in {0} \cup SizeofIn..SizeofUn /\ size[o] \in Nat
         /\ size[o] <= SizeofUn
         /\ cells[o] \in Row /\ Len(cells[o]) \in Nat
         /\ Len(cells[o]) \in SdoSize..SizeofUn
         /\ given[o] \in Name
         /\ size[o] <= Len(cells[o])
         /\ Shows(cells[o], size[o], given[o])
<1>1. /\ size[o] \in {0} \cup SizeofIn..SizeofUn
      /\ cells[o] \in Row
  BY DEF IInv
<1>2. Len(cells[o]) \in Nat /\ Len(cells[o]) \in SdoSize..SizeofUn
  BY <1>1 DEF Row
<1>3. size[o] \in Nat /\ size[o] <= SizeofUn
  BY <1>1, Numbers
<1> QED
  BY <1>1, <1>2, <1>3 DEF IInv

\* A setter, resize or a name put into an object keeps its class.
LEMMA ChangeKeeps ==
  ASSUME IInv, NEW o \in Address, NEW n \in {0} \cup SizeofIn..SizeofUn,
         NEW c \in Row, n <= Len(c), NEW name \in Name, Shows(c, n, name),
         Change(o, n, c, name)
  PROVE  IInv'
BY ObjectOf, BecomeKeeps DEF Change

\* set_port
LEMMA SetPortKeeps ==
  ASSUME IInv, NEW o \in Address, NEW port \in Nat, SetPort(o, port)
  PROVE  IInv'
<1> DEFINE c == Put(cells[o], 2, <<PortCell(port)>>)
           name == IF given[o].family = INET THEN [given[o] EXCEPT !.port = port]
                                             ELSE Unknown
<1>1. size[o] >= SizeofIn /\ Change(o, size[o], c, name)
  BY DEF SetPort
<1>2. PortCell(port) = port % Byte /\ PortCell(port) \in Value /\ PortCell(port) \in Cell
  BY Widths DEF PortCell
<1>3. /\ c \in Row /\ Len(c) = Len(cells[o])
      /\ \A j \in 1..Len(cells[o]) :
           c[j] = IF j = 2 THEN PortCell(port) ELSE cells[o][j]
  <2>1. 2 \in 2..Len(cells[o])
    BY ObjectOf, Numbers
  <2> QED
    BY <1>2, <2>1, ObjectOf, PutCell
<1> HIDE DEF c
<1>4. /\ c[1] = cells[o][1]
      /\ c[2] = port % Byte
      /\ c[3] = cells[o][3]
  BY <1>2, <1>3, ObjectOf, Numbers
<1>5. name \in Name /\ Shows(c, size[o], name)
  <2>1. CASE given[o].family = INET
    <3>1. given[o] \in InNames
      BY <2>1, ObjectOf, Families DEF Name
    <3>2. cells[o][1] = INET /\ cells[o][3] = given[o].host /\ given[o].host \in Value
      BY <3>1, ObjectOf, Families DEF Shows
    <3>3. name = InName(port, given[o].host)
      BY <2>1, <3>1 DEF InNames, InName
    <3>4. Shows(c, size[o], InName(port, given[o].host)) /\ InName(port, given[o].host) \in InNames
      BY <1>1, <1>4, <3>2, InShown, ObjectOf
    <3> QED
      BY <3>3, <3>4 DEF Name
  <2>2. CASE given[o].family # INET
    BY <2>2, UnknownShown, Families
  <2> QED
    BY <2>1, <2>2
<1> HIDE DEF name
<1> QED
  BY <1>1, <1>3, <1>5, ObjectOf, ChangeKeeps

\* inet_pton writes no other value, and none over another family.
LEMMA HostWritten ==
  \A c \in Row : \A f : \A host \in Host :
    /\ HostCell(c, f, host) \in Value \cup {Junk}
    /\ HostCell(c, f, host) = IF f = INET /\ host < Byte THEN host ELSE c[3]
<1> TAKE c \in Row
<1> TAKE f
<1> TAKE host \in Host
<1>1. host \in Nat /\ (host < Byte => host \in Value)
  BY Numbers DEF Host, Value
<1>2. c[3] \in Value \cup {Junk}
  <2>1. Len(c) \in Nat /\ 3 \in 2..Len(c)
    BY Numbers DEF Row
  <2> QED
    BY <2>1 DEF Row
<1> QED
  BY <1>1, <1>2 DEF HostCell

\* set_address
LEMMA SetAddressKeeps ==
  ASSUME IInv, NEW o \in Address, NEW host \in Host, SetAddress(o, host)
  PROVE  IInv'
<1> DEFINE name == IF given[o].family = INET /\ host < Byte
                   THEN [given[o] EXCEPT !.host = host] ELSE given[o]
<1>1. PICK f \in IF cells[o][1] = Junk THEN {UNIX, INET} ELSE {cells[o][1]} :
        Change(o, size[o], Put(cells[o], 3, <<HostCell(cells[o], f, host)>>), name)
  BY DEF SetAddress
<1>2. size[o] >= SizeofIn
  BY DEF SetAddress
<1> DEFINE v == HostCell(cells[o], f, host)
           c == Put(cells[o], 3, <<v>>)
<1>3. /\ v \in Value \cup {Junk} /\ v \in Cell
      /\ v = IF f = INET /\ host < Byte THEN host ELSE cells[o][3]
  BY HostWritten, ObjectOf, Widths DEF Cell
<1> HIDE DEF v
<1>4. /\ c \in Row /\ Len(c) = Len(cells[o])
      /\ \A j \in 1..Len(cells[o]) :
           c[j] = IF j = 3 THEN v ELSE cells[o][j]
  <2>1. 3 \in 2..Len(cells[o])
    BY ObjectOf, Numbers
  <2> QED
    BY <1>3, <2>1, ObjectOf, PutCell
<1> HIDE DEF c
<1>5. c[3] = v /\ \A j \in 1..Len(cells[o]) : j # 3 => c[j] = cells[o][j]
  BY <1>4, ObjectOf, Numbers
<1>6. 1 \in 1..Len(cells[o]) /\ 2 \in 1..Len(cells[o])
  BY ObjectOf, Numbers
<1>7. name \in Name /\ Shows(c, size[o], name)
  <2>1. CASE given[o] \in InNames
    <3> DEFINE h == IF host < Byte THEN host ELSE given[o].host
    <3>1. /\ cells[o][1] = INET /\ cells[o][2] = given[o].port % Byte
          /\ cells[o][3] = given[o].host
      BY <2>1, ObjectOf DEF Shows
    <3>2. f = INET
      BY <1>1, <3>1, Families
    <3>3. c[1] = INET /\ c[2] = given[o].port % Byte /\ c[3] = h
      BY <1>3, <1>5, <1>6, <3>1, <3>2
    <3>4. h \in Value /\ given[o].port \in Nat
      BY <2>1, Families, Numbers DEF Host, Value
    <3>5. name = InName(given[o].port, h)
      BY <2>1, Families DEF InNames, InName
    <3> HIDE DEF h, name
    <3>6. Shows(c, size[o], InName(given[o].port, h)) /\ InName(given[o].port, h) \in InNames
      BY <1>2, <3>3, <3>4, InShown, ObjectOf
    <3> QED
      BY <3>5, <3>6 DEF Name
  <2>2. CASE given[o] \in UnNames
    <3>1. name = given[o] /\ cells[o][1] = UNIX
      BY <2>2, ObjectOf, Families DEF Shows, HasPath
    <3>2. f # INET
      BY <1>1, <3>1, Families
    <3>3. v = cells[o][3]
      BY <1>3, <3>2
    <3>4. \A j \in 1..size[o] : c[j] = cells[o][j]
      BY <1>5, <3>3, ObjectOf
    <3>5. /\ size[o] \in Nat /\ size[o] <= SizeofUn
          /\ given[o] \in Name /\ Shows(cells[o], size[o], given[o])
      BY ObjectOf
    <3> HIDE DEF name
    <3> QED
      BY <3>1, <3>4, <3>5, PrefixShows
  <2>3. CASE given[o] = Unknown
    BY <2>3, UnknownShown, Families
  <2>4. given[o] # Empty
    BY <1>2, ObjectOf, Numbers DEF Shows
  <2> QED
    BY <2>1, <2>2, <2>3, <2>4, ObjectOf DEF Name
<1> HIDE DEF name
<1> QED
  BY <1>1, <1>4, <1>7, ObjectOf, ChangeKeeps DEF c, v

\* set_path
LEMMA SetPathKeeps ==
  ASSUME IInv, NEW o \in Address, NEW path \in Path, SetPath(o, path)
  PROVE  IInv'
<1> DEFINE c == Put(cells[o], 2, PathCells(path))
           name == IF cells[o][1] = UNIX THEN UnName(path) ELSE Unknown
<1>1. size[o] >= SizeofUn /\ Change(o, size[o], c, name)
  BY DEF SetPath
<1>2. Len(cells[o]) >= SizeofUn /\ size[o] = SizeofUn
  BY <1>1, ObjectOf, Numbers
<1>3. /\ c \in Row /\ Len(c) = Len(cells[o])
      /\ cells[o][1] = UNIX => Shows(c, SizeofUn, UnName(path))
  BY <1>2, ObjectOf, PathWritten
<1>4. name \in Name /\ Shows(c, size[o], name)
  BY <1>2, <1>3, UnknownShown, TextOfPath, Families DEF Name
<1> HIDE DEF c, name
<1> QED
  BY <1>1, <1>3, <1>4, ObjectOf, ChangeKeeps

\* The cells of a sockaddr_in that are written at once.
LEMMA InWritten ==
  ASSUME NEW c \in Row, NEW port \in Nat, NEW host \in Value
  PROVE  LET d == Put(c, 1, <<INET, port % Byte, host>>)
         IN  /\ d \in Row /\ Len(d) = Len(c)
             /\ Shows(d, SizeofIn, InName(port, host))
<1> DEFINE s == <<INET, port % Byte, host>>
           d == Put(c, 1, s)
<1>1. port % Byte \in Value /\ port % Byte \in Cell /\ host \in Cell /\ INET \in Cell
  BY Widths DEF Cell
<1>2. s \in Seq(Cell) /\ Len(s) = 3 /\ s[1] = INET /\ s[2] = port % Byte /\ s[3] = host
  BY <1>1
<1>3. Len(c) \in Nat /\ Len(c) >= 3
  BY Numbers DEF Row
<1> HIDE DEF s
<1>4. \A j \in 1..Len(s) : (1 = 1 /\ j = 1) \/ s[j] \in Value \cup {Junk}
  BY <1>1, <1>2
<1>5. /\ d \in Row /\ Len(d) = Len(c)
      /\ \A j \in 1..Len(c) :
           d[j] = IF j >= 1 /\ j < 1 + Len(s) THEN s[j - 1 + 1] ELSE c[j]
  <2>1. c \in Row /\ 1 \in Nat \ {0} /\ s \in Seq(Cell)
    BY <1>2
  <2> QED
    BY ONLY <1>4, <2>1, PutRow
<1> HIDE DEF d
<1>6. d[1] = INET /\ d[2] = port % Byte /\ d[3] = host
  BY <1>2, <1>3, <1>5
<1>7. SizeofIn \in Nat
  BY Numbers
<1> QED
  BY <1>5, <1>6, <1>7, InShown DEF d, s

\* Both constructors of ipv4_address
LEMMA NewIpv4Keeps ==
  ASSUME IInv, NEW o \in Address, NEW port \in Nat, NEW host \in Host,
         NewIpv4(o, port, host)
  PROVE  IInv'
<1> DEFINE h == IF host < Byte THEN host ELSE 0
           c == Put(Fresh, 1, <<INET, port % Byte, h>>)
<1>1. h \in Value
  BY Numbers DEF Host, Value
<1>2. HostCell(Fresh, INET, host) = h
  <2>1. Fresh[3] = 0
    BY Numbers DEF Fresh
  <2> QED
    BY <2>1, FreshRow, HostWritten
<1> HIDE DEF h
<1>3. Become(o, "ipv4_address", SizeofIn, c, InName(port, h))
  BY <1>2 DEF NewIpv4, PortCell, InitialName, h
<1>4. /\ c \in Row /\ Len(c) = SdoSize
      /\ Shows(c, SizeofIn, InName(port, h))
  BY <1>1, FreshRow, InWritten
<1>5. InName(port, h) \in Name
  BY <1>1 DEF Name, InNames, InName
<1>6. SizeofIn \in {0} \cup SizeofIn..SizeofUn /\ SizeofIn <= SdoSize
  BY Numbers
<1> HIDE DEF c
<1> QED
  BY <1>3, <1>4, <1>5, <1>6, BecomeKeeps

\* The constructor of unix_address
LEMMA NewUnixKeeps ==
  ASSUME IInv, NEW o \in Address, NEW path \in Path \cup {LongPath}, NewUnix(o, path)
  PROVE  IInv'
<1> DEFINE b == Sized(Fresh, SizeofUn)
           c == Put(b, 1, <<UNIX>>)
<1>1. SizeofUn \in 0..SizeofUn /\ SizeofUn \in {0} \cup SizeofIn..SizeofUn
  BY Numbers
<1>2. b \in Row /\ Len(b) >= SizeofUn /\ Len(b) \in Nat
  BY <1>1, FreshRow, SizedRow DEF Row
<1> HIDE DEF b
<1>3. /\ c \in Row /\ Len(c) = Len(b) /\ c[1] = UNIX
  <2> DEFINE s == <<UNIX>>
  <2>1. s \in Seq(Cell) /\ Len(s) = 1 /\ s[1] = UNIX
    BY DEF Cell
  <2> HIDE DEF s
  <2>2. \A j \in 1..Len(s) : (1 = 1 /\ j = 1) \/ s[j] \in Value \cup {Junk}
    BY <2>1
  <2>3. /\ Put(b, 1, s) \in Row /\ Len(Put(b, 1, s)) = Len(b)
        /\ \A j \in 1..Len(b) :
             Put(b, 1, s)[j] = IF j >= 1 /\ j < 1 + Len(s) THEN s[j - 1 + 1] ELSE b[j]
    BY <1>2, <2>1, <2>2, PutRow
  <2>4. Put(b, 1, s)[1] = UNIX
    BY <1>2, <2>1, <2>3, Numbers
  <2> QED
    BY <2>3, <2>4 DEF s
<1> HIDE DEF c
<1>4. CASE Len(path) > PathMax
  <2>1. Become(o, "unix_address", SizeofUn, c, Unknown)
    BY <1>4 DEF NewUnix, c, b
  <2> QED
    BY <1>1, <1>2, <1>3, <2>1, UnknownShown, Families, BecomeKeeps
<1>5. CASE ~(Len(path) > PathMax)
  <2> DEFINE d == Put(c, 2, PathCells(path))
  <2>1. Become(o, "unix_address", SizeofUn, d, UnName(path))
    BY <1>5 DEF NewUnix, c, b
  <2>2. path \in Path
    <3>1. Len(LongPath) = PathMax + 1
      BY Numbers DEF LongPath
    <3> QED
      BY <1>5, <3>1, Numbers
  <2>3. d \in Row /\ Len(d) = Len(c) /\ Shows(d, SizeofUn, UnName(path))
    BY <1>2, <1>3, <2>2, PathWritten
  <2>4. UnName(path) \in Name
    BY <2>2, TextOfPath DEF Name
  <2> HIDE DEF d
  <2> QED
    BY <1>1, <1>2, <1>3, <2>1, <2>3, <2>4, BecomeKeeps
<1> QED
  BY <1>4, <1>5

\* clear
LEMMA ClearKeeps ==
  ASSUME IInv, NEW o \in Address, Clear(o)
  PROVE  IInv'
<1>1. Change(o, 0, cells[o], Empty)
  BY DEF Clear
<1>2. 0 <= Len(cells[o])
  BY ObjectOf
<1> QED
  BY <1>1, <1>2, ObjectOf, UnknownShown, Families, ChangeKeeps

\* resize
LEMMA ResizeKeeps ==
  ASSUME IInv, NEW o \in Address, NEW n \in SizeofIn..SizeofUn, Resize(o, n)
  PROVE  IInv'
<1> DEFINE c == Sized(cells[o], n)
           name == IF n <= Len(cells[o]) /\ NameSize(given[o]) \in 1..n
                   THEN given[o] ELSE Unknown
<1>1. Change(o, n, c, name)
  BY DEF Resize
<1>2. n \in 0..SizeofUn /\ n \in Nat /\ n >= SizeofIn
  BY Numbers
<1>3. c \in Row /\ Len(c) >= n /\ n <= Len(c) /\ (n <= Len(cells[o]) => c = cells[o])
  <2>1. c \in Row /\ Len(c) >= n /\ (n <= Len(cells[o]) => c = cells[o])
    BY <1>2, ObjectOf, SizedRow
  <2>2. Len(c) \in Nat
    BY <2>1 DEF Row
  <2> QED
    BY <1>2, <2>1, <2>2
<1>4. name \in Name /\ Shows(c, n, name)
  <2>1. CASE name = Unknown
    BY <2>1, UnknownShown, Families
  <2>2. CASE /\ name = given[o] /\ n <= Len(cells[o]) /\ NameSize(given[o]) \in 1..n
    <3>1. c = cells[o] /\ Shows(cells[o], size[o], given[o]) /\ given[o] \in Name
      BY <1>3, <2>2, ObjectOf
    <3>2. CASE given[o] \in InNames
      BY <1>2, <2>2, <3>1, <3>2, Families DEF Shows
    <3>3. CASE given[o] \in UnNames
      <4>1. /\ HasPath(cells[o], given[o].path) /\ given[o].path \in Text0
            /\ given[o] # Empty /\ given[o] \notin InNames
        BY <3>1, <3>3, Families DEF Shows
      <4>2. NameSize(given[o]) = Min({2 + Len(given[o].path), SizeofUn})
        BY <3>3, Families DEF NameSize
      <4>3. 2 + Len(given[o].path) \in Nat /\ SizeofUn \in Nat
        BY <4>1, Numbers DEF Text0
      <4>4. n >= SizeofUn \/ n >= 2 + Len(given[o].path)
        BY <2>2, <4>2, <4>3, MinOfTwo
      <4> QED
        BY <2>2, <3>1, <4>1, <4>4 DEF Shows
    <3>4. CASE given[o] = Empty
      BY <2>2, <3>4, Families DEF NameSize
    <3>5. CASE given[o] = Unknown
      BY <2>2, <3>5, UnknownShown, Families
    <3> QED
      BY <3>1, <3>2, <3>3, <3>4, <3>5 DEF Name
  <2> QED
    BY <2>1, <2>2
<1> HIDE DEF c, name
<1> QED
  BY <1>1, <1>3, <1>4, ChangeKeeps

\* reserve
LEMMA ReserveKeeps ==
  ASSUME IInv, NEW o \in Address, NEW n \in SizeofIn..SizeofUn, Reserve(o, n)
  PROVE  IInv'
<1> DEFINE c == Sized(cells[o], n)
           name == IF n <= Len(cells[o]) \/ given[o] = Empty THEN given[o] ELSE Unknown
<1>1. Change(o, size[o], c, name)
  BY DEF Reserve
<1>2. n \in 0..SizeofUn
  BY Numbers
<1>3. c \in Row /\ size[o] <= Len(c) /\ (n <= Len(cells[o]) => c = cells[o])
  <2>1. c \in Row /\ Len(c) >= Len(cells[o]) /\ (n <= Len(cells[o]) => c = cells[o])
    BY <1>2, ObjectOf, SizedRow
  <2>2. Len(c) \in Nat
    BY <2>1 DEF Row
  <2> QED
    BY <2>1, <2>2, ObjectOf
<1>4. name \in Name /\ Shows(c, size[o], name)
  <2>1. CASE n <= Len(cells[o])
    BY <1>3, <2>1, ObjectOf
  <2>2. CASE ~(n <= Len(cells[o])) /\ given[o] = Empty
    <3>1. size[o] = 0
      BY <2>2, ObjectOf DEF Shows
    <3> QED
      BY <2>2, <3>1, UnknownShown, Families
  <2>3. CASE ~(n <= Len(cells[o])) /\ given[o] # Empty
    BY <2>3, UnknownShown, Families
  <2> QED
    BY <2>1, <2>2, <2>3
<1> HIDE DEF c, name
<1> QED
  BY <1>1, <1>3, <1>4, ObjectOf, ChangeKeeps

\* Writing cells from the first on: those of s, then the rest.
LEMMA PutPrefix ==
  ASSUME NEW c \in Row, NEW s \in Seq(Cell), Len(s) <= Len(c),
         \A j \in 2..Len(s) : s[j] \in Value \cup {Junk}
  PROVE  /\ Put(c, 1, s) \in Row /\ Len(Put(c, 1, s)) = Len(c)
         /\ \A j \in 1..Len(s) : Put(c, 1, s)[j] = s[j]
<1>1. Len(s) \in Nat /\ Len(c) \in Nat
  BY DEF Row
<1>2. \A j \in 1..Len(s) : (1 = 1 /\ j = 1) \/ s[j] \in Value \cup {Junk}
  <2> TAKE j \in 1..Len(s)
  <2>1. j = 1 \/ j \in 2..Len(s)
    BY <1>1
  <2> QED
    BY <2>1
<1>3. c \in Row /\ 1 \in Nat \ {0} /\ s \in Seq(Cell)
  OBVIOUS
<1>4. /\ Put(c, 1, s) \in Row
      /\ Len(Put(c, 1, s)) = Len(c)
      /\ \A j \in 1..Len(c) :
           Put(c, 1, s)[j] = IF j >= 1 /\ j < 1 + Len(s) THEN s[j - 1 + 1] ELSE c[j]
  BY ONLY <1>2, <1>3, PutRow
<1>5. \A j \in 1..Len(s) : Put(c, 1, s)[j] = s[j]
  <2> TAKE j \in 1..Len(s)
  <2>1. j \in 1..Len(c) /\ j >= 1 /\ j < 1 + Len(s) /\ j - 1 + 1 = j
    BY <1>1
  <2> QED
    BY <1>4, <2>1
<1> QED
  BY <1>4, <1>5

\* A name of a socket is one that an object can have.
LEMMA SocketNames ==
  \A x \in SocketName :
    \/ \E p, h \in Value : x = InName(p, h)
    \/ \E t \in Text0 : x = [family |-> UNIX, path |-> t] /\ Len(t) \in 1..(PathMax - 1)
<1> TAKE x \in SocketName
<1>1. CASE x \in {InName(p, h) : p, h \in 0..(Byte - 1)}
  BY <1>1 DEF Value
<1>2. CASE x \in {UnName(s) : s \in {t \in Path : Len(Text(t)) \in 1..(PathMax - 1)}}
  <2>1. PICK s \in Path : x = UnName(s) /\ Len(Text(s)) \in 1..(PathMax - 1)
    BY <1>2
  <2>2. Text(s) \in Text0
    BY TextOfPath
  <2> QED
    BY <2>1, <2>2 DEF UnName
<1> QED
  BY <1>1, <1>2 DEF SocketName

\* accept and local_address, the name of an AF_INET socket
LEMMA FillInKeeps ==
  ASSUME IInv, NEW o \in Address, NEW p \in Value, NEW h \in Value,
         Fill(o, InName(p, h))
  PROVE  IInv'
<1> DEFINE x == InName(p, h)
           b == Sized(cells[o], SizeofIn)
           c == Put(b, 1, <<INET, p % Byte, h>>)
<1>1. x.family = INET /\ x.port = p /\ x.host = h
  BY DEF InName
<1>2. p % Byte = p /\ p \in Nat
  BY Widths
<1>3. NameSize(x) = SizeofIn /\ NameCells(x) = <<INET, p % Byte, h>>
  <2> HIDE DEF x
  <2>1. NameSize(x) = SizeofIn
    BY <1>1, Families DEF NameSize
  <2>2. NameCells(x) = <<INET, x.port, x.host>>
    BY <1>1 DEF NameCells
  <2> QED
    BY <1>1, <1>2, <2>1, <2>2
<1>4. Change(o, SizeofIn, c, x)
  <2>1. Change(o, NameSize(x), Put(Sized(cells[o], NameSize(x)), 1, NameCells(x)), x)
    BY DEF Fill
  <2> QED
    BY <1>3, <2>1
<1>5. SizeofIn \in 0..SizeofUn /\ SizeofIn \in {0} \cup SizeofIn..SizeofUn
  BY Numbers
<1>6. b \in Row /\ Len(b) >= SizeofIn
  BY <1>5, ObjectOf, SizedRow
<1> HIDE DEF b
<1>7. c \in Row /\ Len(c) = Len(b) /\ Shows(c, SizeofIn, x)
  BY <1>2, <1>6, InWritten
<1>8. x \in Name
  BY <1>2 DEF Name, InNames, InName
<1>9. SizeofIn <= Len(c)
  <2>1. Len(b) \in Nat
    BY <1>6 DEF Row
  <2> QED
    BY <1>6, <1>7, <2>1, Numbers
<1> HIDE DEF c, x
<1> QED
  BY <1>4, <1>5, <1>7, <1>8, <1>9, ChangeKeeps

\* The same of a socket bound to a path, with the NUL behind it
LEMMA FillUnKeeps ==
  ASSUME IInv, NEW o \in Address, NEW t \in Text0, Len(t) \in 1..(PathMax - 1),
         Fill(o, [family |-> UNIX, path |-> t])
  PROVE  IInv'
<1> DEFINE x == [family |-> UNIX, path |-> t]
           n == 2 + Len(t)
           b == Sized(cells[o], n)
           s == <<UNIX>> \o t \o <<0>>
           c == Put(b, 1, s)
<1>1. /\ t \in Seq(1..(Byte - 1)) /\ Len(t) \in Nat /\ Len(t) < PathMax /\ Len(t) >= 1
      /\ PathMax \in Nat
  BY Numbers DEF Text0
<1>2. t \in Seq(Cell) /\ \A i \in 1..Len(t) : t[i] \in Value
  <2>1. 1..(Byte - 1) \subseteq Value /\ Value \subseteq Cell
    BY Numbers DEF Value, Cell
  <2>2. t \in Seq(Value)
    BY <1>1, <2>1, SeqMonotonic
  <2> QED
    BY <2>1, <2>2, ElementOfSeq, SeqMonotonic
<1>3. NameSize(x) = n /\ NameCells(x) = s
  <2>1. NameSize(x) = Min({n, SizeofUn})
    BY Families DEF NameSize
  <2>2. n \in Nat /\ SizeofUn \in Nat /\ n <= SizeofUn
    BY <1>1, Numbers
  <2>3. Min({n, SizeofUn}) = n
    BY <2>2, MinOfTwo
  <2>4. NameCells(x) = s
    BY Families DEF NameCells
  <2> QED
    BY <2>1, <2>3, <2>4
<1>4. Change(o, n, c, x)
  <2>1. Change(o, NameSize(x), Put(Sized(cells[o], NameSize(x)), 1, NameCells(x)), x)
    BY DEF Fill
  <2> QED
    BY <1>3, <2>1
<1>5. n \in Nat /\ n \in 0..SizeofUn /\ n \in {0} \cup SizeofIn..SizeofUn
  BY <1>1, Numbers
<1>6. b \in Row /\ Len(b) >= n
  BY <1>5, ObjectOf, SizedRow
<1>7. /\ s \in Seq(Cell) /\ Len(s) = n /\ s[1] = UNIX /\ s[n] = 0
      /\ \A i \in 1..Len(t) : s[i + 1] = t[i]
  <2>1. UNIX \in Cell /\ 0 \in Cell
    BY DEF Cell, UNSPEC
  <2> DEFINE u == <<UNIX>> \o t
  <2>2. /\ u \in Seq(Cell) /\ Len(u) = 1 + Len(t) /\ u[1] = UNIX
        /\ \A i \in 1..Len(t) : u[i + 1] = t[i]
    <3>1. <<UNIX>> \in Seq(Cell) /\ Len(<<UNIX>>) = 1 /\ <<UNIX>>[1] = UNIX
      BY <2>1
    <3>2. /\ u \in Seq(Cell) /\ Len(u) = Len(<<UNIX>>) + Len(t)
          /\ \A i \in 1..(Len(<<UNIX>>) + Len(t)) :
               u[i] = IF i <= Len(<<UNIX>>) THEN <<UNIX>>[i] ELSE t[i - Len(<<UNIX>>)]
      BY <1>2, <3>1, ConcatProperties
    <3>3. u[1] = UNIX
      BY <1>1, <3>1, <3>2
    <3>4. ASSUME NEW i \in 1..Len(t) PROVE u[i + 1] = t[i]
      BY <1>1, <3>1, <3>2
    <3> QED
      BY <3>1, <3>2, <3>3, <3>4
  <2> HIDE DEF u
  <2>3. /\ u \o <<0>> \in Seq(Cell) /\ Len(u \o <<0>>) = Len(u) + 1
        /\ \A i \in 1..Len(u) : (u \o <<0>>)[i] = u[i]
        /\ (u \o <<0>>)[Len(u) + 1] = 0
    <3>1. <<0>> \in Seq(Cell) /\ Len(<<0>>) = 1 /\ <<0>>[1] = 0
      BY <2>1
    <3>2. /\ u \o <<0>> \in Seq(Cell) /\ Len(u \o <<0>>) = Len(u) + Len(<<0>>)
          /\ \A i \in 1..(Len(u) + Len(<<0>>)) :
               (u \o <<0>>)[i] = IF i <= Len(u) THEN u[i] ELSE <<0>>[i - Len(u)]
      BY <2>2, <3>1, ConcatProperties
    <3> QED
      BY <1>1, <2>2, <3>1, <3>2
  <2>4. s = u \o <<0>>
    BY DEF u
  <2>5. Len(s) = n /\ s[n] = 0 /\ s[1] = UNIX /\ s \in Seq(Cell)
    <3>1. Len(u) + 1 = n /\ 1 \in 1..Len(u)
      BY <1>1, <2>2
    <3> HIDE DEF s, n
    <3> QED
      BY <2>2, <2>3, <2>4, <3>1
  <2>6. ASSUME NEW i \in 1..Len(t) PROVE s[i + 1] = t[i]
    <3>1. i + 1 \in 1..Len(u)
      BY <1>1, <2>2
    <3> HIDE DEF s
    <3> QED
      BY <2>2, <2>3, <2>4, <3>1
  <2> HIDE DEF s, n
  <2> QED
    BY <2>5, <2>6
<1> HIDE DEF b, s
<1>8. \A j \in 2..Len(s) : s[j] \in Value \cup {Junk}
  <2> TAKE j \in 2..Len(s)
  <2>1. CASE j = n
    BY <1>7, <2>1, Numbers DEF Value
  <2>2. CASE j # n
    <3>1. j - 1 \in 1..Len(t) /\ j - 1 + 1 = j
      BY <1>1, <1>7, <2>2
    <3> QED
      BY <1>2, <1>7, <3>1
  <2> QED
    BY <2>1, <2>2
<1>9. c \in Row /\ Len(c) = Len(b) /\ \A j \in 1..Len(s) : c[j] = s[j]
  BY <1>6, <1>7, <1>8, PutPrefix
<1> HIDE DEF c
<1>10. HasPath(c, t)
  <2>1. c[1] = UNIX /\ c[n] = 0
    BY <1>1, <1>7, <1>9
  <2>2. ASSUME NEW i \in 1..Len(t) PROVE c[i + 1] = t[i]
    <3>1. i + 1 \in 1..Len(s)
      BY <1>1, <1>7
    <3> QED
      BY <1>7, <1>9, <3>1
  <2> QED
    BY <1>1, <2>1, <2>2 DEF HasPath
<1>11. n <= Len(c)
  <2>1. Len(b) \in Nat
    BY <1>6 DEF Row
  <2> QED
    BY <1>5, <1>6, <1>9, <2>1
<1>12. n >= 2 + Len(t)
  BY <1>1
<1> HIDE DEF n
<1>13. Shows(c, n, x) /\ x \in UnNames
  BY <1>5, <1>10, <1>12, UnShown
<1> HIDE DEF x
<1> QED
  BY <1>4, <1>5, <1>9, <1>11, <1>13, ChangeKeeps DEF Name

\* accept and local_address
LEMMA FillKeeps ==
  ASSUME IInv, NEW o \in Address, NEW name \in SocketName, Fill(o, name)
  PROVE  IInv'
BY SocketNames, FillInKeeps, FillUnKeeps

\* A copy of an object over any array.
LEMMA CopyOverKeeps ==
  ASSUME IInv, NEW o \in Address, NEW p \in Address,
         NEW cl \in {"ipv4_address", "unix_address"}, NEW a \in Row,
         CopyOver(o, cl, a, p)
  PROVE  IInv'
<1> DEFINE n == size[p]
           b == Sized(a, n)
           s == SubSeq(cells[p], 1, n)
           c == Put(b, 1, s)
<1>1. Become(o, cl, n, c, given[p])
  BY DEF CopyOver
<1>2. /\ n \in {0} \cup SizeofIn..SizeofUn /\ n \in Nat /\ n <= SizeofUn
      /\ cells[p] \in Row /\ Len(cells[p]) \in Nat /\ n <= Len(cells[p])
      /\ given[p] \in Name /\ Shows(cells[p], n, given[p])
  BY ObjectOf
<1> HIDE DEF n
<1>3. n \in 0..SizeofUn
  BY <1>2, Numbers
<1>4. b \in Row /\ Len(b) >= n /\ Len(b) \in Nat
  BY <1>3, SizedRow DEF Row
<1> HIDE DEF b
<1>5. /\ cells[p] \in Seq(Cell)
      /\ \A j \in 2..Len(cells[p]) : cells[p][j] \in Value \cup {Junk}
  BY <1>2 DEF Row
<1>6. /\ s \in Seq(Cell) /\ Len(s) = n
      /\ \A j \in 1..n : s[j] = cells[p][j]
  <2>1. \A j \in 1..n : cells[p][j] \in Cell
    <3> TAKE j \in 1..n
    <3>1. j \in 1..Len(cells[p])
      BY <1>2
    <3> QED
      BY <1>5, <3>1, ElementOfSeq
  <2>2. n - 1 + 1 = n /\ 1 <= n + 1
    BY <1>2
  <2>3. s = [j \in 1..n |-> cells[p][j]]
    BY <1>2, <1>5
  <2> DEFINE e(j) == cells[p][j]
  <2>4. \A j \in 1..n : e(j) \in Cell
    BY <2>1
  <2> HIDE DEF e
  <2>5. [j \in 1..n |-> e(j)] \in Seq(Cell) /\ Len([j \in 1..n |-> e(j)]) = n
    BY <1>2, <2>4, IsASeq
  <2> HIDE DEF s
  <2>6. s = [j \in 1..n |-> e(j)]
    BY <2>3 DEF e
  <2> QED
    BY <2>3, <2>5, <2>6
<1> HIDE DEF s
<1>7. /\ Len(s) <= Len(b)
      /\ \A j \in 2..Len(s) : s[j] \in Value \cup {Junk}
  <2>1. \A j \in 2..Len(s) : j \in 1..n /\ j \in 2..Len(cells[p])
    BY <1>2, <1>6
  <2> QED
    BY <1>2, <1>4, <1>5, <1>6, <2>1
<1>8. c \in Row /\ Len(c) = Len(b) /\ \A j \in 1..n : c[j] = cells[p][j]
  BY <1>4, <1>6, <1>7, PutPrefix
<1> HIDE DEF c
<1>9. Shows(c, n, given[p])
  BY <1>2, <1>8, PrefixShows
<1>10. n <= Len(c)
  BY <1>2, <1>4, <1>8
<1> QED
  BY <1>1, <1>2, <1>8, <1>9, <1>10, BecomeKeeps

\* Copy construction and assignment
LEMMA CopyKeeps ==
  ASSUME IInv, NEW o \in Address, NEW p \in Address, Copy(o, p)
  PROVE  IInv'
<1>1. CASE CopyOver(o, class[o], cells[o], p)
  BY <1>1, ObjectOf, CopyOverKeeps
<1>2. CASE CopyOver(o, class[p], Fresh, p)
  BY <1>2, ObjectOf, FreshRow, CopyOverKeeps
<1> QED
  BY <1>1, <1>2 DEF Copy

\* A move that takes the array over.
LEMMA SwapKeeps ==
  ASSUME IInv, NEW o \in Address, NEW p \in Address, o # p,
         NEW cl \in {"ipv4_address", "unix_address"},
         NEW n \in {0} \cup SizeofIn..SizeofUn, NEW a \in Row, n <= Len(a),
         Swap(o, cl, n, a, p)
  PROVE  IInv'
<1> DEFINE b == [i \in DOMAIN a |-> Junk]
           name == IF n = 0 THEN Empty ELSE Unknown
<1>1. b \in Row /\ Len(b) = Len(a)
  <2>1. a \in Seq(Cell) /\ Len(a) \in Nat /\ DOMAIN a = 1..Len(a) /\ Junk \in Cell
    BY DEF Row, Cell
  <2>2. b = [i \in 1..Len(a) |-> Junk]
    BY <2>1
  <2>3. b \in Seq(Cell) /\ Len(b) = Len(a) /\ \A i \in 1..Len(a) : b[i] = Junk
    BY <2>1, <2>2
  <2> HIDE DEF b
  <2>4. \A i \in 2..Len(b) : b[i] \in Value \cup {Junk}
    BY <2>1, <2>3
  <2> QED
    BY <2>3, <2>4 DEF Row
<1>2. name \in Name /\ Shows(b, n, name)
  BY UnknownShown, Families
<1>3. /\ class' = [class EXCEPT ![o] = cl]
      /\ size' = [size EXCEPT ![o] = size[p], ![p] = n]
      /\ cells' = [cells EXCEPT ![o] = cells[p], ![p] = b]
      /\ given' = [given EXCEPT ![o] = given[p], ![p] = name]
  BY DEF Swap
<1> HIDE DEF b, name
<1>4. /\ class' \in [Address -> {"ipv4_address", "unix_address"}]
      /\ size' \in [Address -> {0} \cup SizeofIn..SizeofUn]
      /\ cells' \in [Address -> Row]
      /\ given' \in [Address -> Name]
  <2>1. class' \in [Address -> {"ipv4_address", "unix_address"}]
    BY <1>3 DEF IInv
  <2>2. size' \in [Address -> {0} \cup SizeofIn..SizeofUn]
    BY <1>3 DEF IInv
  <2>3. cells' \in [Address -> Row]
    BY <1>1, <1>3 DEF IInv
  <2>4. given' \in [Address -> Name]
    BY <1>2, <1>3 DEF IInv
  <2> QED
    BY <2>1, <2>2, <2>3, <2>4
<1>5. /\ size'[o] = size[p] /\ cells'[o] = cells[p] /\ given'[o] = given[p]
      /\ size'[p] = n /\ cells'[p] = b /\ given'[p] = name
      /\ \A q \in Address \ {o, p} : /\ size'[q] = size[q] /\ cells'[q] = cells[q]
                                     /\ given'[q] = given[q]
  BY <1>3 DEF IInv
<1>6. \A q \in Address : /\ size'[q] <= Len(cells'[q])
                         /\ Shows(cells'[q], size'[q], given'[q])
  BY <1>1, <1>2, <1>5 DEF IInv
<1> QED
  BY <1>4, <1>6 DEF IInv

\* Move construction and assignment
LEMMA MoveKeeps ==
  ASSUME IInv, NEW o \in Address, NEW p \in Address, Move(o, p)
  PROVE  IInv'
<1>1. o # p
  BY DEF Move
<1>2. CASE Swap(o, class[o], size[o], cells[o], p)
  BY <1>1, <1>2, ObjectOf, SwapKeeps
<1>3. CASE Swap(o, class[p], 0, Fresh, p)
  <2>1. 0 <= Len(Fresh)
    BY FreshRow, Numbers
  <2> QED
    BY <1>1, <1>3, <2>1, ObjectOf, FreshRow, SwapKeeps
<1> QED
  BY <1>2, <1>3 DEF Move

-----------------------------------------------------------------------------
(* The invariant *)

\* Every object starts as the address 0.0.0.0 and port 0.
LEMMA InitInv == Init => IInv
<1> SUFFICES ASSUME Init PROVE IInv
  OBVIOUS
<1> DEFINE s == <<INET>>
           c == Put(Fresh, 1, s)
<1>1. s \in Seq(Cell) /\ Len(s) = 1 /\ s[1] = INET
  BY DEF Cell
<1>2. Fresh \in Row /\ Len(Fresh) = SdoSize /\ Len(s) <= Len(Fresh)
  BY <1>1, FreshRow, Numbers
<1> HIDE DEF s
<1>3. \A j \in 1..Len(s) : (1 = 1 /\ j = 1) \/ s[j] \in Value \cup {Junk}
  BY <1>1
<1>4. c \in Row /\ Len(c) = SdoSize /\ c[1] = INET /\ c[2] = 0 /\ c[3] = 0
  <2>1. 1 \in Nat \ {0}
    OBVIOUS
  <2>2. /\ c \in Row /\ Len(c) = Len(Fresh)
        /\ \A j \in 1..Len(Fresh) :
             c[j] = IF j >= 1 /\ j < 1 + Len(s) THEN s[j - 1 + 1] ELSE Fresh[j]
    BY ONLY <1>1, <1>2, <1>3, <2>1, PutRow
  <2>3. \A j \in 1..SdoSize : Fresh[j] = 0
    BY DEF Fresh
  <2>4. 1 \in 1..SdoSize /\ 2 \in 1..SdoSize /\ 3 \in 1..SdoSize
    BY Numbers
  <2> HIDE DEF c
  <2> QED
    BY <1>1, <1>2, <2>2, <2>3, <2>4
<1> HIDE DEF c
<1>5. 0 \in Value /\ 0 % Byte = 0 /\ 0 \in Nat
  BY Widths, Numbers DEF Value
<1>6. SizeofIn \in Nat /\ SizeofIn <= SdoSize /\ SizeofIn \in SizeofIn..SizeofUn
  BY Numbers
<1>7. Shows(c, SizeofIn, InName(0, 0)) /\ InName(0, 0) \in InNames
  BY <1>4, <1>5, <1>6, InShown
<1>8. /\ class = [q \in Address |-> "ipv4_address"]
      /\ size = [q \in Address |-> SizeofIn]
      /\ cells = [q \in Address |-> c]
      /\ given = [q \in Address |-> InName(0, 0)]
  BY DEF Init, c, s
<1> QED
  BY <1>4, <1>6, <1>7, <1>8 DEF IInv, Name

\* Every operation keeps the invariant.
LEMMA NextInv == IInv /\ [Next]_vars => IInv'
<1> SUFFICES ASSUME IInv, [Next]_vars PROVE IInv'
  OBVIOUS
<1>1. CASE UNCHANGED vars
  BY <1>1 DEF vars, IInv
<1>2. CASE Next
  <2>1. PICK o \in Address :
          \/ \E port \in Ports : SetPort(o, port)
          \/ \E port \in Ports \cup {0}, host \in Host : NewIpv4(o, port, host)
          \/ \E host \in Host : SetAddress(o, host)
          \/ \E path \in Path \cup {LongPath} : NewUnix(o, path) \/ SetPath(o, path)
          \/ Clear(o)
          \/ \E n \in {SizeofIn, SizeofUn} : Resize(o, n) \/ Reserve(o, n)
          \/ \E name \in SocketName : Fill(o, name)
          \/ \E p \in Address : Copy(o, p) \/ Move(o, p)
    BY <1>2 DEF Next
  <2>2. Ports \subseteq Nat
    BY NativeAddressesAssumption
  <2>3. ASSUME NEW port \in Ports, SetPort(o, port) PROVE IInv'
    BY <2>2, <2>3, SetPortKeeps
  <2>4. ASSUME NEW port \in Ports \cup {0}, NEW host \in Host, NewIpv4(o, port, host)
        PROVE  IInv'
    BY <2>2, <2>4, NewIpv4Keeps
  <2>5. ASSUME NEW host \in Host, SetAddress(o, host) PROVE IInv'
    BY <2>5, SetAddressKeeps
  <2>6. ASSUME NEW path \in Path \cup {LongPath}, NewUnix(o, path) PROVE IInv'
    BY <2>6, NewUnixKeeps
  <2>7. ASSUME NEW path \in Path \cup {LongPath}, SetPath(o, path) PROVE IInv'
    <3>1. Len(path) <= PathMax
      BY <2>7 DEF SetPath
    <3>2. Len(LongPath) = PathMax + 1
      BY Numbers DEF LongPath
    <3>3. path \in Path
      BY <3>1, <3>2, Numbers
    <3> QED
      BY <2>7, <3>3, SetPathKeeps
  <2>8. ASSUME Clear(o) PROVE IInv'
    BY <2>8, ClearKeeps
  <2>9. SizeofIn \in SizeofIn..SizeofUn /\ SizeofUn \in SizeofIn..SizeofUn
    BY Numbers
  <2>10. ASSUME NEW n \in {SizeofIn, SizeofUn}, Resize(o, n) PROVE IInv'
    BY <2>9, <2>10, ResizeKeeps
  <2>11. ASSUME NEW n \in {SizeofIn, SizeofUn}, Reserve(o, n) PROVE IInv'
    BY <2>9, <2>11, ReserveKeeps
  <2>12. ASSUME NEW name \in SocketName, Fill(o, name) PROVE IInv'
    BY <2>12, FillKeeps
  <2>13. ASSUME NEW p \in Address, Copy(o, p) PROVE IInv'
    BY <2>13, CopyKeeps
  <2>14. ASSUME NEW p \in Address, Move(o, p) PROVE IInv'
    BY <2>14, MoveKeeps
  <2> QED
    BY <2>1, <2>3, <2>4, <2>5, <2>6, <2>7, <2>8, <2>10, <2>11, <2>12, <2>13, <2>14
<1> QED
  BY <1>1, <1>2

\* The cells of every object hold the name it should show, whatever was in
\* its array before: the invariant of which the properties are consequences.
THEOREM Invariance == Spec => []IInv
BY InitInv, NextInv, PTL DEF Spec

\* The members have their types and no object is larger than its array.
THEOREM TypeCorrect == Spec => []TypeOK
<1>1. IInv => TypeOK
  <2> SUFFICES ASSUME IInv, NEW o \in Address
               PROVE  /\ Len(cells[o]) \in SdoSize..SizeofUn /\ size[o] <= Len(cells[o])
                      /\ \A i \in DOMAIN cells[o] :
                           cells[o][i] \in IF i = 1 THEN Cell ELSE 0..(Byte - 1) \cup {Junk}
    BY DEF IInv, TypeOK
  <2>1. cells[o] \in Row /\ Len(cells[o]) \in Nat /\ Len(cells[o]) \in SdoSize..SizeofUn
        /\ size[o] <= Len(cells[o])
    BY ObjectOf
  <2>2. cells[o] \in Seq(Cell) /\ DOMAIN cells[o] = 1..Len(cells[o])
    BY <2>1 DEF Row
  <2>3. \A i \in 2..Len(cells[o]) : cells[o][i] \in Value \cup {Junk}
    BY <2>1 DEF Row
  <2>4. ASSUME NEW i \in DOMAIN cells[o]
        PROVE  cells[o][i] \in IF i = 1 THEN Cell ELSE 0..(Byte - 1) \cup {Junk}
    <3>1. i = 1 \/ i \in 2..Len(cells[o])
      BY <2>1, <2>2
    <3> QED
      BY <2>2, <2>3, <3>1, ElementOfSeq DEF Value
  <2> QED
    BY <2>1, <2>4
<1> QED
  BY <1>1, Invariance, PTL

\* connect can rely on the comparison with nullptr: whatever an array held,
\* an object that was given a name has its family and a cleared one has none.
THEOREM FamilyIsShown == Spec => []FamilyShown
<1>1. IInv => FamilyShown
  <2> SUFFICES ASSUME IInv, NEW o \in Address, given[o] # Unknown
               PROVE  family(o) = given[o].family
    BY DEF FamilyShown
  <2>1. CASE given[o] = Empty
    BY <2>1, ObjectOf, Families DEF Shows, family
  <2>2. CASE given[o] \in InNames
    BY <2>2, ObjectOf, Families, Numbers DEF Shows, family
  <2>3. CASE given[o] \in UnNames
    <3>1. cells[o][1] = UNIX /\ given[o].family = UNIX /\ given[o].path \in Text0
      BY <2>3, ObjectOf, Families DEF Shows, HasPath
    <3>2. Len(given[o].path) \in Nat
      BY <3>1 DEF Text0
    <3>3. size[o] >= SizeofUn \/ size[o] >= 2 + Len(given[o].path)
      BY <2>3, ObjectOf DEF Shows
    <3>4. size[o] # 0
      BY <3>2, <3>3, ObjectOf, Numbers
    <3> QED
      BY <3>1, <3>4 DEF family
  <2> QED
    BY <2>1, <2>2, <2>3, ObjectOf DEF Name
<1> QED
  BY <1>1, Invariance, PTL

\* address() and port() give the last host and port, of the port the low bits,
\* whatever setters failed and whatever name the bytes held before.
THEOREM Ipv4IsShown == Spec => []Ipv4Shown
<1>1. IInv => Ipv4Shown
  <2> SUFFICES ASSUME IInv, NEW o \in Address, given[o].family = INET
               PROVE  /\ size[o] >= SizeofIn
                      /\ host_of(o) = given[o].host
                      /\ port_of(o) = given[o].port % Byte
    BY DEF Ipv4Shown
  <2>1. given[o] \in InNames
    BY ObjectOf, Families DEF Name
  <2> QED
    BY <2>1, ObjectOf DEF Shows, host_of, port_of
<1> QED
  BY <1>1, Invariance, PTL

\* path() gives the last path up to its first NUL, without the tail of a
\* longer one before it, and finds its end unless it is as long as sun_path.
THEOREM PathIsShown == Spec => []PathShown
<1>1. IInv => PathShown
  <2> SUFFICES ASSUME IInv, NEW o \in Address,
                      given[o].family = UNIX, size[o] >= SizeofUn
               PROVE  /\ path_of(o) = given[o].path
                      /\ Terminated(o) \/ Len(given[o].path) = PathMax
    BY DEF PathShown
  <2>1. given[o] \in UnNames
    BY ObjectOf, Families DEF Name
  <2> DEFINE t == given[o].path
             s == SubSeq(cells[o], 2, SizeofUn)
  <2>2. t \in Text0 /\ HasPath(cells[o], t)
    BY <2>1, ObjectOf, Families DEF Shows
  <2> HIDE DEF t
  <2>3. Len(t) \in Nat /\ Len(t) <= PathMax /\ PathMax \in Nat /\ SizeofUn = 1 + PathMax
    BY <2>2, Numbers DEF Text0
  <2>4. cells[o] \in Seq(Cell) /\ Len(cells[o]) \in Nat /\ SizeofUn <= Len(cells[o])
    BY ObjectOf, Numbers DEF Row
  <2>5. /\ s \in Seq(Cell) /\ Len(s) = PathMax
        /\ \A i \in 1..PathMax : s[i] = cells[o][i + 1]
    <3>1. \A i \in 2..SizeofUn : cells[o][i] \in Cell
      <4> TAKE i \in 2..SizeofUn
      <4>1. i \in 1..Len(cells[o])
        BY <2>3, <2>4
      <4> QED
        BY <2>4, <4>1, ElementOfSeq
    <3> DEFINE e(i) == cells[o][i + 1]
    <3>2. s = [i \in 1..PathMax |-> e(i)]
      BY <2>3, <2>4
    <3>3. \A i \in 1..PathMax : e(i) \in Cell
      BY <2>3, <3>1
    <3> HIDE DEF e, s
    <3>4. [i \in 1..PathMax |-> e(i)] \in Seq(Cell) /\ Len([i \in 1..PathMax |-> e(i)]) = PathMax
      BY <2>3, <3>3, IsASeq
    <3>5. \A i \in 1..PathMax : s[i] = e(i)
      BY <3>2
    <3> QED
      BY <3>2, <3>4, <3>5 DEF e
  <2> HIDE DEF s
  <2>6. \A i \in 1..Len(t) : s[i] = t[i]
    <3> TAKE i \in 1..Len(t)
    <3>1. i \in 1..PathMax
      BY <2>3
    <3> QED
      BY <2>2, <2>5, <3>1 DEF HasPath
  <2>7. ASSUME Len(t) < PathMax PROVE s[Len(t) + 1] = 0 /\ cells[o][Len(t) + 2] = 0
    <3>1. Len(t) + 1 \in 1..PathMax /\ Len(t) + 1 + 1 = Len(t) + 2
      BY <2>3, <2>7
    <3> QED
      BY <2>2, <2>5, <2>7, <3>1 DEF HasPath
  <2>8. Text(s) = t
    BY <2>2, <2>3, <2>5, <2>6, <2>7, TextOf
  <2>9. Terminated(o) \/ Len(t) = PathMax
    <3> SUFFICES ASSUME Len(t) < PathMax PROVE Terminated(o)
      BY <2>3
    <3>1. Len(t) + 2 \in 2..SizeofUn /\ cells[o][Len(t) + 2] = 0
      BY <2>3, <2>7
    <3> QED
      BY <3>1 DEF Terminated
  <2> QED
    BY <2>8, <2>9 DEF path_of, s, t
<1> QED
  BY <1>1, Invariance, PTL

=============================================================================
