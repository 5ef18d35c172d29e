--------------------------- MODULE EchoServerProofs ---------------------------
(***************************************************************************)
(* Theorems about EchoServer for any number of clients and any buffer      *)
(* sizes.  While the process runs the invariant says where a connection is *)
(* (waiting for accept, with one session, or given up by one) and what that *)
(* session's system call means for the bytes: a session whose client has   *)
(* not closed ends only when everything that client sent has been written  *)
(* back, and one whose client has closed writes nothing more after a reset. *)
(* Of this there remains, when the process has ended, that what a client   *)
(* got has no gap.                                                         *)
(***************************************************************************)
EXTENDS EchoServer, SequenceTheorems, FiniteSetTheorems, TLAPS

\* The types of the accepting thread and the session threads.
ServerTypes ==
  /\ main \in {"start", "accept", "exited", "killed", "aborted"}
  /\ queue \in Seq(Clients)
  /\ pc \in [Sessions -> {"none", "read", "write", "end"}]
  /\ serves \in [Sessions -> Clients \cup {NoClient}]

\* The types of the data, and the buffers not overrun.
BufferTypes ==
  /\ buffer \in [Sessions -> Seq(Byte)]
  /\ last_bytes \in [Sessions -> 0..BufferSize]
  /\ \A s \in Sessions : Len(buffer[s]) + last_bytes[s] <= BufferSize

ClientTypes ==
  /\ client \in [Clients -> {"new", "open", "shut", "done", "failed", "closed"}]
  /\ sent \in [Clients -> Nat]
  /\ \A c \in Clients : sent[c] <= ToSend[c]
  /\ got \in [Clients -> Seq(Byte)]

ConnTypes ==
  /\ conn \in [Clients -> Connection]
  /\ \A c \in Clients : /\ Len(conn[c].up) <= UpRoom
                        /\ Len(conn[c].down) <= DownRoom

\* There are descriptors for the connections that are served.
Room == Cardinality(Serving) <= MaxFds

\* A connection has one session at most.
Single ==
  \A s, t \in Sessions :
    serves[s] # NoClient /\ serves[s] = serves[t] => s = t

\* What the next system call of a session tells of its variables.
SessionInv ==
  \A s \in Sessions :
    /\ pc[s] = "none" => serves[s] = NoClient
    /\ pc[s] \in {"none", "read"} => buffer[s] = <<>>
    /\ pc[s] # "write" => last_bytes[s] = 0
    /\ pc[s] = "write" => serves[s] # NoClient

\* The connections that wait for accept are different ones without a session.
QueueInv ==
  /\ \A i, j \in DOMAIN queue : queue[i] = queue[j] => i = j
  /\ \A i \in DOMAIN queue :
       /\ client[queue[i]] # "new" /\ ~conn[queue[i]].downFin
       /\ \A s \in Sessions : serves[s] # queue[i]

\* A connection with a session was made by its client and not closed here.
ServedInv ==
  \A s \in Sessions :
    serves[s] # NoClient => client[serves[s]] # "new" /\ ~conn[serves[s]].downFin

\* Everything c sent has been read.
AllRead(c) == conn[c].upFin /\ conn[c].up = <<>>

\* Only a client that closes can reset its connection, one that has not said
\* that it is finished can still send, and the server closes after reading all.
ClientInv ==
  \A c \in Clients :
    /\ client[c] # "closed" => conn[c].err = "none"
    /\ client[c] \in {"new", "open"} => ~conn[c].upFin
    /\ client[c] = "new" => ~conn[c].downFin
    /\ conn[c].downFin /\ client[c] # "closed" => AllRead(c)

\* Unless its client closes, a session ends after it has read all and written
\* it back.
EndInv ==
  \A s \in Sessions :
    serves[s] # NoClient /\ client[serves[s]] # "closed" =>
      /\ pc[s] = "write" /\ buffer[s] = <<>> /\ last_bytes[s] = 0 =>
           AllRead(serves[s])
      /\ pc[s] = "end" => AllRead(serves[s]) /\ buffer[s] = <<>>

\* Until the client closes, the bytes it sent are all somewhere, in order.
Stream(c) ==
  got[c] \o conn[c].down \o Buffered(c) \o conn[c].up = Sent(c)

Unbroken == \A c \in Clients : client[c] # "closed" => Stream(c)

\* A client that has read the end of the stream had the whole echo by then.
Complete == \A c \in Clients : client[c] = "done" => got[c] = Sent(c)

\* What holds while the process runs.
RunInv ==
  /\ ServerTypes /\ BufferTypes /\ ClientTypes /\ ConnTypes /\ Room
  /\ Single /\ SessionInv /\ QueueInv /\ ServedInv /\ ClientInv /\ EndInv
  /\ Unbroken /\ Complete

\* The stream of a client that has closed is whole as long as nothing reset its
\* connection, and its session drops no byte of it.
Whole(c) ==
  /\ Stream(c)
  /\ conn[c].err = "none"
  /\ \A s \in Sessions : serves[s] = c /\ pc[s] = "end" => buffer[s] = <<>>

\* After a reset nothing is on its way to the client or will be: the error waits
\* for the session's next call, and when it is taken the session ends.
Cut(c) ==
  /\ conn[c].down = <<>> /\ IsPrefix(got[c], Sent(c))
  /\ conn[c].err = "none" =>
       /\ \A i \in DOMAIN queue : queue[i] # c
       /\ \A s \in Sessions : serves[s] = c => pc[s] = "end"

ClosedInv == \A c \in Clients : client[c] = "closed" => Whole(c) \/ Cut(c)

\* What a client got and what is on the way to it begins its stream.
Delivered == \A c \in Clients : IsPrefix(got[c] \o conn[c].down, Sent(c))

\* No step but the two below breaks a stream: a close that drops bytes on the way
\* to the client, and a session that gives up bytes it has not written.
StreamsKept == \A c \in Clients : Stream(c) => Stream(c)'

\* What is left when the process has ended.
EndedInv ==
  /\ ServerTypes /\ BufferTypes /\ ClientTypes /\ ConnTypes /\ Room
  /\ \A s \in Sessions : pc[s] = "none"
  /\ Delivered

IInv == IF Ended THEN EndedInv ELSE RunInv /\ ClosedInv

-----------------------------------------------------------------------------
(* Sequences *)

\* Concatenation of the streams' parts is associative.
LEMMA Associative ==
  \A x, y, z \in Seq(Byte) : (x \o y) \o z = x \o (y \o z)
<1> TAKE x, y, z \in Seq(Byte)
<1> QED
  BY ConcatAssociative

\* A byte that write hands to the kernel stays in its place in the stream.
LEMMA MoveHead ==
  \A a, d, b, u \in Seq(Byte) :
    b # <<>> => a \o Append(d, Head(b)) \o Tail(b) \o u = a \o d \o b \o u
<1> SUFFICES ASSUME NEW a \in Seq(Byte), NEW d \in Seq(Byte),
                    NEW b \in Seq(Byte), NEW u \in Seq(Byte), b # <<>>
             PROVE  a \o Append(d, Head(b)) \o Tail(b) = a \o d \o b
  OBVIOUS
<1>1. Head(b) \in Byte /\ Tail(b) \in Seq(Byte)
  BY HeadTailProperties
<1> DEFINE h == <<Head(b)>>
<1>2. h \in Seq(Byte)
  BY <1>1
<1>3. b = h \o Tail(b)
  <2>1. Len(b) \in Nat \ {0}
    BY EmptySeq
  <2>2. b = SubSeq(b, 1, Len(b))
    BY SubSeqFull
  <2>3. SubSeq(b, 1, Len(b)) = <<b[1]>> \o SubSeq(b, 2, Len(b))
    BY <2>1, SubSeqRecursiveFirst
  <2> QED
    BY <2>2, <2>3, TailIsSubSeq
<1>4. a \o Append(d, Head(b)) = (a \o d) \o h
  BY <1>1, <1>2, AppendIsConcat, ConcatAssociative
<1>5. a \o d \in Seq(Byte)
  BY ConcatProperties
<1>6. ((a \o d) \o h) \o Tail(b) = (a \o d) \o (h \o Tail(b))
  BY <1>1, <1>2, <1>5, ConcatAssociative
<1> HIDE DEF h
<1> QED
  BY <1>3, <1>4, <1>6

\* So does one that the client reads.
LEMMA ReceiveHead ==
  \A a, d \in Seq(Byte) :
    d # <<>> => Append(a, Head(d)) \o Tail(d) = a \o d
<1> SUFFICES ASSUME NEW a \in Seq(Byte), NEW d \in Seq(Byte), d # <<>>
             PROVE  Append(a, Head(d)) \o Tail(d) = a \o d
  OBVIOUS
<1>1. <<>> \in Seq(Byte) /\ a \o d \in Seq(Byte)
  BY EmptySeq, ConcatProperties
<1>2. Head(d) \in Byte /\ Tail(d) \in Seq(Byte)
  BY HeadTailProperties
<1>3. /\ <<>> \o Append(a, Head(d)) = Append(a, Head(d))
      /\ <<>> \o a = a
  BY <1>1, <1>2, AppendProperties, ConcatEmptySeq
<1>4. Append(a, Head(d)) \o Tail(d) \in Seq(Byte)
  BY <1>2, AppendProperties, ConcatProperties
<1>5. <<>> \o Append(a, Head(d)) \o Tail(d) \o <<>> = <<>> \o a \o d \o <<>>
  BY <1>1, MoveHead
<1> QED
  BY <1>1, <1>3, <1>4, <1>5, ConcatEmptySeq

\* A sequence begins what it is continued to.
LEMMA PrefixOfConcat ==
  \A x, y \in Seq(Byte) : IsPrefix(x, x \o y)
<1> SUFFICES ASSUME NEW x \in Seq(Byte), NEW y \in Seq(Byte)
             PROVE  IsPrefix(x, x \o y)
  OBVIOUS
<1> DEFINE z == x \o y
<1>1. /\ z \in Seq(Byte) /\ Len(z) = Len(x) + Len(y)
      /\ \A i \in 1..Len(x) : z[i] = x[i]
      /\ Len(x) \in Nat /\ Len(y) \in Nat
  <2>1. Len(x) \in Nat /\ Len(y) \in Nat
    OBVIOUS
  <2> QED
    BY <2>1, ConcatProperties
<1> HIDE DEF z
<1>2. /\ SubSeq(z, 1, Len(x)) \in Seq(Byte) /\ Len(SubSeq(z, 1, Len(x))) = Len(x)
      /\ \A i \in 1..Len(x) : SubSeq(z, 1, Len(x))[i] = z[i]
  <2>1. \A i \in 1..Len(x) : z[i] \in Byte
    BY <1>1, ElementOfSeq
  <2> QED
    BY <1>1, <2>1, SubSeqProperties
<1>3. SubSeq(x, 1, Len(x)) = x
  BY SubSeqFull
<1>4. SubSeq(z, 1, Len(x)) = x
  BY <1>1, <1>2, SeqEqual
<1> QED
  BY <1>1, <1>3, <1>4 DEF IsPrefix, z

\* The bytes that read returns and those it leaves are those there were.
LEMMA ReadSplit ==
  \A a, d, u \in Seq(Byte) : \A n \in 0..Len(u) :
    a \o d \o SubSeq(u, 1, n) \o SubSeq(u, n + 1, Len(u)) = a \o d \o <<>> \o u
<1> SUFFICES ASSUME NEW a \in Seq(Byte), NEW d \in Seq(Byte),
                    NEW u \in Seq(Byte), NEW n \in 0..Len(u)
             PROVE  a \o d \o SubSeq(u, 1, n) \o SubSeq(u, n + 1, Len(u))
                      = a \o d \o <<>> \o u
  OBVIOUS
<1>1. Len(u) \in Nat /\ \A i \in 1..Len(u) : u[i] \in Byte
  BY LenProperties, ElementOfSeq
<1>2. SubSeq(u, 1, n) \in Seq(Byte) /\ SubSeq(u, n + 1, Len(u)) \in Seq(Byte)
  BY <1>1, SubSeqProperties
<1>3. SubSeq(u, 1, n) \o SubSeq(u, n + 1, Len(u)) = u
  <2>1. SubSeq(u, 1, n) \o SubSeq(u, n + 1, Len(u)) = SubSeq(u, 1, Len(u))
    <3>1. /\ 1 \in 1..(Len(u) + 1) /\ n \in (1 - 1)..Len(u)
          /\ Len(u) \in n..Len(u)
      BY <1>1
    <3> QED
      BY <3>1, ConcatAdjacentSubSeq
  <2> QED
    BY <2>1, SubSeqFull
<1>4. a \o d \in Seq(Byte) /\ a \o d \o <<>> = a \o d
  BY ConcatProperties, ConcatEmptySeq
<1> DEFINE x == a \o d
           y == SubSeq(u, 1, n)
           z == SubSeq(u, n + 1, Len(u))
<1>5. y \o z = u
  BY <1>3
<1>6. x \in Seq(Byte)
  BY <1>4
<1>7. y \in Seq(Byte)
  BY <1>2
<1>8. z \in Seq(Byte)
  BY <1>2
<1> HIDE DEF x, y, z
<1>9. (x \o y) \o z = x \o (y \o z)
  BY <1>6, <1>7, <1>8, Associative
<1> QED
  BY <1>4, <1>5, <1>9 DEF x, y, z

\* A byte that is sent comes after all others.
LEMMA SendLast ==
  \A a, d, b, u \in Seq(Byte) : \A e \in Byte :
    a \o d \o b \o Append(u, e) = Append(a \o d \o b \o u, e)
<1> SUFFICES ASSUME NEW a \in Seq(Byte), NEW d \in Seq(Byte),
                    NEW b \in Seq(Byte), NEW u \in Seq(Byte), NEW e \in Byte
             PROVE  a \o d \o b \o Append(u, e) = Append(a \o d \o b \o u, e)
  OBVIOUS
<1>1. a \o d \o b \in Seq(Byte)
  BY ConcatProperties
<1> DEFINE x == a \o d \o b
<1>2. x \in Seq(Byte) /\ <<e>> \in Seq(Byte)
  BY <1>1
<1> HIDE DEF x
<1>3. x \o u \in Seq(Byte)
  BY <1>2, ConcatProperties
<1>4. x \o Append(u, e) = x \o (u \o <<e>>)
  BY AppendIsConcat
<1>5. x \o (u \o <<e>>) = (x \o u) \o <<e>>
  BY <1>2, ConcatAssociative
<1>6. Append(x \o u, e) = (x \o u) \o <<e>>
  BY <1>3, AppendIsConcat
<1> QED
  BY <1>4, <1>5, <1>6 DEF x

\* The first n bytes of a client.
LEMMA FirstBytes ==
  \A c \in Clients : \A n \in Nat :
    /\ n <= ToSend[c] => [i \in 1..n |-> <<c, i>>] \in Seq(Byte)
    /\ n + 1 <= ToSend[c] =>
         Append([i \in 1..n |-> <<c, i>>], <<c, n + 1>>)
           = [i \in 1..(n + 1) |-> <<c, i>>]
<1> SUFFICES ASSUME NEW c \in Clients, NEW n \in Nat
             PROVE
    /\ n <= ToSend[c] => [i \in 1..n |-> <<c, i>>] \in Seq(Byte)
    /\ n + 1 <= ToSend[c] =>
         Append([i \in 1..n |-> <<c, i>>], <<c, n + 1>>)
           = [i \in 1..(n + 1) |-> <<c, i>>]
  OBVIOUS
<1>1. ToSend[c] \in Nat
  BY EchoAssumption
<1>2. \A i \in Nat : i <= ToSend[c] => <<c, i>> \in Byte
  BY DEF Byte
<1>3. \A m \in Nat : m <= ToSend[c] => [i \in 1..m |-> <<c, i>>] \in Seq(Byte)
  BY <1>1, <1>2
<1>4. ASSUME n + 1 <= ToSend[c]
      PROVE  Append([i \in 1..n |-> <<c, i>>], <<c, n + 1>>)
               = [i \in 1..(n + 1) |-> <<c, i>>]
  <2> DEFINE f == [i \in 1..n |-> <<c, i>>]
             g == [i \in 1..(n + 1) |-> <<c, i>>]
  <2>1. f \in Seq(Byte) /\ g \in Seq(Byte) /\ <<c, n + 1>> \in Byte
    BY <1>1, <1>2, <1>3, <1>4
  <2>2. Len(f) = n /\ Len(g) = n + 1
    OBVIOUS
  <2>3. /\ \A i \in 1..n : f[i] = <<c, i>>
        /\ \A i \in 1..(n + 1) : g[i] = <<c, i>>
    OBVIOUS
  <2> HIDE DEF f, g
  <2>4. /\ Append(f, <<c, n + 1>>) \in Seq(Byte)
        /\ Len(Append(f, <<c, n + 1>>)) = n + 1
        /\ \A i \in 1..n : Append(f, <<c, n + 1>>)[i] = f[i]
        /\ Append(f, <<c, n + 1>>)[n + 1] = <<c, n + 1>>
    BY <2>1, <2>2, AppendProperties
  <2>5. \A i \in 1..(n + 1) : Append(f, <<c, n + 1>>)[i] = g[i]
    <3> TAKE i \in 1..(n + 1)
    <3>1. CASE i = n + 1
      BY <3>1, <2>3, <2>4
    <3>2. CASE i \in 1..n
      BY <3>2, <2>3, <2>4
    <3>3. i = n + 1 \/ i \in 1..n
      OBVIOUS
    <3> QED
      BY <3>1, <3>2, <3>3
  <2>6. Append(f, <<c, n + 1>>) = g
    BY <2>1, <2>2, <2>4, <2>5, SeqEqual
  <2> QED
    BY <2>6 DEF f, g
<1> QED
  BY <1>3, <1>4

-----------------------------------------------------------------------------
(* Connections *)

\* Giving a field of a connection a value leaves the others alone.
LEMMA WithUp ==
  \A k \in Connection : \A x \in Seq(Byte) :
    /\ [k EXCEPT !.up = x] \in Connection
    /\ [k EXCEPT !.up = x].up = x
    /\ [k EXCEPT !.up = x].down = k.down
    /\ [k EXCEPT !.up = x].upFin = k.upFin
    /\ [k EXCEPT !.up = x].downFin = k.downFin
    /\ [k EXCEPT !.up = x].err = k.err
BY DEF Connection

\* The same for the bytes on the way to the client,
LEMMA WithDown ==
  \A k \in Connection : \A x \in Seq(Byte) :
    /\ [k EXCEPT !.down = x] \in Connection
    /\ [k EXCEPT !.down = x].up = k.up
    /\ [k EXCEPT !.down = x].down = x
    /\ [k EXCEPT !.down = x].upFin = k.upFin
    /\ [k EXCEPT !.down = x].downFin = k.downFin
    /\ [k EXCEPT !.down = x].err = k.err
BY DEF Connection

\* the pending error,
LEMMA WithErr ==
  \A k \in Connection :
    /\ [k EXCEPT !.err = "none"] \in Connection
    /\ [k EXCEPT !.err = "none"].up = k.up
    /\ [k EXCEPT !.err = "none"].down = k.down
    /\ [k EXCEPT !.err = "none"].upFin = k.upFin
    /\ [k EXCEPT !.err = "none"].downFin = k.downFin
    /\ [k EXCEPT !.err = "none"].err = "none"
BY DEF Connection

\* the client's end of the stream
LEMMA WithUpFin ==
  \A k \in Connection :
    /\ [k EXCEPT !.upFin = TRUE] \in Connection
    /\ [k EXCEPT !.upFin = TRUE].up = k.up
    /\ [k EXCEPT !.upFin = TRUE].down = k.down
    /\ [k EXCEPT !.upFin = TRUE].upFin = TRUE
    /\ [k EXCEPT !.upFin = TRUE].downFin = k.downFin
    /\ [k EXCEPT !.upFin = TRUE].err = k.err
BY DEF Connection

\* and the server's.
LEMMA WithDownFin ==
  \A k \in Connection :
    /\ [k EXCEPT !.downFin = TRUE] \in Connection
    /\ [k EXCEPT !.downFin = TRUE].up = k.up
    /\ [k EXCEPT !.downFin = TRUE].down = k.down
    /\ [k EXCEPT !.downFin = TRUE].upFin = k.upFin
    /\ [k EXCEPT !.downFin = TRUE].downFin = TRUE
    /\ [k EXCEPT !.downFin = TRUE].err = k.err
BY DEF Connection

\* A reset drops the bytes on the way to the client and leaves an error.
LEMMA ResetConnection ==
  ASSUME ConnTypes, NEW c \in Clients
  PROVE  /\ Reset(c) \in Connection
         /\ Reset(c).up = conn[c].up /\ Reset(c).down = <<>>
         /\ Reset(c).downFin = conn[c].downFin /\ Reset(c).err # "none"
<1>1. conn[c] \in Connection
  BY DEF ConnTypes
<1>2. \A k \in Connection : \A e \in {"ECONNRESET", "EPIPE"} :
        LET r == [k EXCEPT !.down = <<>>, !.err = e]
        IN  /\ r \in Connection
            /\ r.up = k.up /\ r.down = <<>> /\ r.downFin = k.downFin
            /\ r.err = e
  BY EmptySeq DEF Connection
<1>3. PICK e \in {"ECONNRESET", "EPIPE"} :
        Reset(c) = [conn[c] EXCEPT !.down = <<>>, !.err = e]
  BY DEF Reset
<1>4. LET r == [conn[c] EXCEPT !.down = <<>>, !.err = e]
      IN  /\ r \in Connection
          /\ r.up = conn[c].up /\ r.down = <<>> /\ r.downFin = conn[c].downFin
          /\ r.err = e
  BY ONLY <1>1, <1>2, e \in {"ECONNRESET", "EPIPE"}, Zenon
<1> QED
  BY ONLY <1>3, <1>4, Zenon

-----------------------------------------------------------------------------
(* The session of a connection *)

\* What is on its way through the server is in its session's buffer.
LEMMA BufferedServed ==
  Single => \A s \in Sessions :
              serves[s] # NoClient => Buffered(serves[s]) = buffer[s]
<1> SUFFICES ASSUME Single, NEW s \in Sessions, serves[s] # NoClient
             PROVE  Buffered(serves[s]) = buffer[s]
  OBVIOUS
<1> DEFINE own == {t \in Serving : serves[t] = serves[s]}
<1>1. own = {s}
  BY DEF Single, Serving
<1> HIDE DEF own
<1>2. own # {} /\ (CHOOSE t \in own : TRUE) = s
  BY <1>1
<1> QED
  BY <1>2 DEF Buffered, own

\* Nothing is without one.
LEMMA BufferedNone ==
  \A c : (\A s \in Sessions : serves[s] # c) => Buffered(c) = <<>>
BY DEF Buffered, Serving

\* The same after a step.
LEMMA BufferedNext ==
  /\ (Single => \A s \in Sessions :
                  serves[s] # NoClient => Buffered(serves[s]) = buffer[s])'
  /\ (\A c : (\A s \in Sessions : serves[s] # c) => Buffered(c) = <<>>)'
<1>1. (Single => \A s \in Sessions :
                   serves[s] # NoClient => Buffered(serves[s]) = buffer[s])'
  BY BufferedServed, PTL
<1>2. (\A c : (\A s \in Sessions : serves[s] # c) => Buffered(c) = <<>>)'
  BY BufferedNone, PTL
<1> QED
  BY <1>1, <1>2

\* A step that leaves the session of c alone leaves what is buffered alone.
LEMMA BufferedSame ==
  ASSUME Single, Single', NEW c \in Clients,
         \A s \in Sessions : serves'[s] = c <=> serves[s] = c,
         \A s \in Sessions : serves[s] = c => buffer'[s] = buffer[s]
  PROVE  Buffered(c)' = Buffered(c)
<1>1. c # NoClient
  BY EchoAssumption
<1>2. CASE \E s \in Sessions : serves[s] = c
  <2>1. PICK s \in Sessions : serves[s] = c
    BY <1>2
  <2>2. Buffered(c) = buffer[s]
    BY <1>1, <2>1, BufferedServed
  <2>3. Buffered(c)' = buffer'[s]
    BY <1>1, <2>1, BufferedNext
  <2> QED
    BY <2>1, <2>2, <2>3
<1>3. CASE \A s \in Sessions : serves[s] # c
  <2>1. Buffered(c) = <<>>
    BY <1>3, BufferedNone
  <2>2. Buffered(c)' = <<>>
    BY <1>3, BufferedNext
  <2> QED
    BY <2>1, <2>2
<1> QED
  BY <1>2, <1>3

\* The parts of a stream are sequences of bytes.
LEMMA PartsAreStreams ==
  ASSUME ServerTypes, BufferTypes, ClientTypes, ConnTypes, Single
  PROVE  \A c \in Clients :
           /\ got[c] \in Seq(Byte) /\ Buffered(c) \in Seq(Byte)
           /\ conn[c].up \in Seq(Byte) /\ conn[c].down \in Seq(Byte)
<1> TAKE c \in Clients
<1>1. Buffered(c) \in Seq(Byte)
  <2>1. CASE \E s \in Sessions : serves[s] = c
    <3>1. PICK s \in Sessions : serves[s] = c
      BY <2>1
    <3>2. c # NoClient
      BY EchoAssumption
    <3>3. Buffered(c) = buffer[s]
      BY <3>1, <3>2, BufferedServed
    <3> QED
      BY <3>3 DEF BufferTypes
  <2>2. CASE \A s \in Sessions : serves[s] # c
    BY <2>2, BufferedNone, EmptySeq
  <2> QED
    BY <2>1, <2>2
<1> QED
  BY <1>1 DEF ClientTypes, ConnTypes, Connection

\* The number of bytes read returns: not more than there are or the buffer
\* holds, and none only if there are none.
LEMMA ReadSizeBounds ==
  ASSUME ConnTypes, NEW c \in Clients
  PROVE  /\ ReadSize(c) \in 0..Len(conn[c].up) /\ ReadSize(c) <= BufferSize
         /\ ReadSize(c) = 0 => conn[c].up = <<>>
<1> DEFINE u == conn[c].up
<1>1. u \in Seq(Byte) /\ BufferSize \in Nat \ {0}
  BY EchoAssumption DEF ConnTypes, Connection
<1> HIDE DEF u
<1>2. Len(u) \in Nat /\ (Len(u) = 0 => u = <<>>)
  BY <1>1
<1>3. \A m, n \in Nat : Min({m, n}) = IF m <= n THEN m ELSE n
  BY DEF Min
<1>4. ReadSize(c) = IF Len(u) <= BufferSize THEN Len(u) ELSE BufferSize
  BY <1>1, <1>2, <1>3 DEF ReadSize, u
<1> QED
  BY <1>1, <1>2, <1>4 DEF u

\* There are session slots and descriptors, finitely many.
LEMMA FiniteSlots ==
  /\ {MaxFds, MaxSessions, BufferSize, UpRoom, DownRoom} \subseteq Nat \ {0}
  /\ IsFiniteSet(Sessions) /\ IsFiniteSet(Serving)
  /\ Cardinality(Serving) \in Nat
<1>1. MaxSessions \in Nat
  BY EchoAssumption
<1>2. IsFiniteSet(Sessions)
  BY <1>1, FS_Interval DEF Sessions
<1>3. IsFiniteSet(Serving)
  BY <1>2, FS_Subset DEF Serving
<1> QED
  BY <1>2, <1>3, FS_CardinalityType, EchoAssumption

\* A stream none of whose parts a step touches stays whole.
LEMMA StreamSame ==
  ASSUME RunInv, Single', NEW c \in Clients,
         sent'[c] = sent[c], got'[c] = got[c],
         conn'[c].up = conn[c].up, conn'[c].down = conn[c].down,
         \A s \in Sessions : serves'[s] = c <=> serves[s] = c,
         \A s \in Sessions : serves[s] = c => buffer'[s] = buffer[s]
  PROVE  Stream(c) => Stream(c)'
<1>1. Buffered(c)' = Buffered(c)
  BY BufferedSame DEF RunInv
<1>2. Sent(c)' = Sent(c)
  BY DEF Sent
<1> QED
  BY <1>1, <1>2 DEF Stream

\* The streams of the clients that have not closed stay whole with the others.
LEMMA UnbrokenKept ==
  ASSUME Unbroken, StreamsKept,
         \A c \in Clients : client'[c] # "closed" => client[c] # "closed"
  PROVE  Unbroken'
BY DEF Unbroken, StreamsKept

\* What a step leaves alone of a client that has closed.
LEMMA ClosedSame ==
  ASSUME NEW c \in Clients, Whole(c) \/ Cut(c), Stream(c) => Stream(c)',
         got'[c] = got[c], sent'[c] = sent[c],
         conn'[c].err = conn[c].err, conn'[c].down = conn[c].down,
         (\A i \in DOMAIN queue : queue[i] # c)
           => \A i \in DOMAIN queue' : queue'[i] # c,
         \A s \in Sessions :
           serves'[s] = c => serves[s] = c /\ pc'[s] = pc[s] /\ buffer'[s] = buffer[s]
  PROVE  Whole(c)' \/ Cut(c)'
<1>1. CASE Whole(c)
  <2>1. Stream(c)' /\ conn'[c].err = "none"
    BY <1>1 DEF Whole
  <2>2. \A s \in Sessions : serves'[s] = c /\ pc'[s] = "end" => buffer'[s] = <<>>
    BY <1>1 DEF Whole
  <2> QED
    BY <2>1, <2>2 DEF Whole
<1>2. CASE Cut(c)
  <2>1. conn'[c].down = <<>> /\ IsPrefix(got'[c], Sent(c)')
    BY <1>2 DEF Cut, Sent
  <2>2. conn'[c].err = "none" =>
          /\ \A i \in DOMAIN queue' : queue'[i] # c
          /\ \A s \in Sessions : serves'[s] = c => pc'[s] = "end"
    BY <1>2 DEF Cut
  <2> QED
    BY <2>1, <2>2 DEF Cut
<1> QED
  BY <1>1, <1>2

\* A reset that no call has met yet stays one.
LEMMA CutSame ==
  ASSUME NEW c \in Clients, Cut(c), got'[c] = got[c], sent'[c] = sent[c],
         conn'[c].err # "none", conn'[c].down = conn[c].down
  PROVE  Cut(c)'
BY DEF Cut, Sent

\* A whole stream stays whole over a step of its session.
LEMMA WholeSame ==
  ASSUME NEW c \in Clients, Whole(c), Stream(c)', conn'[c].err = conn[c].err,
         \A s \in Sessions : serves'[s] = c /\ pc'[s] = "end" => buffer'[s] = <<>>
  PROVE  Whole(c)'
BY DEF Whole

\* What a client got and has on the way begins its stream, closed or not.
LEMMA StreamDelivered ==
  ASSUME ServerTypes, BufferTypes, ClientTypes, ConnTypes, Single,
         NEW c \in Clients, Stream(c)
  PROVE  IsPrefix(got[c] \o conn[c].down, Sent(c)) /\ IsPrefix(got[c], Sent(c))
<1> DEFINE a == got[c]
           d == conn[c].down
           b == Buffered(c)
           u == conn[c].up
<1>1. a \in Seq(Byte) /\ d \in Seq(Byte) /\ b \in Seq(Byte) /\ u \in Seq(Byte)
  BY PartsAreStreams
<1>2. a \o d \o b \o u = Sent(c)
  BY DEF Stream
<1> HIDE DEF a, d, b, u
<1>3. /\ a \o d \in Seq(Byte) /\ b \o u \in Seq(Byte)
      /\ d \o (b \o u) \in Seq(Byte)
  BY <1>1, ConcatProperties
<1>4. a \o d \o b \o u = (a \o d) \o (b \o u)
  BY <1>1, <1>3, ConcatAssociative
<1>5. (a \o d) \o (b \o u) = a \o (d \o (b \o u))
  BY <1>1, <1>3, ConcatAssociative
<1>6. IsPrefix(a \o d, (a \o d) \o (b \o u))
  BY <1>3, PrefixOfConcat
<1>7. IsPrefix(a, a \o (d \o (b \o u)))
  BY <1>1, <1>3, PrefixOfConcat
<1> QED
  BY <1>2, <1>4, <1>5, <1>6, <1>7 DEF a, d

LEMMA RunDelivered ==
  ASSUME RunInv, ClosedInv
  PROVE  Delivered
<1> SUFFICES ASSUME NEW c \in Clients
             PROVE  IsPrefix(got[c] \o conn[c].down, Sent(c))
  BY DEF Delivered
<1>1. CASE Stream(c)
  BY <1>1, StreamDelivered DEF RunInv
<1>2. CASE Cut(c)
  <2>1. got[c] \in Seq(Byte)
    BY DEF RunInv, ClientTypes
  <2>2. got[c] \o <<>> = got[c]
    BY <2>1, ConcatEmptySeq
  <2> QED
    BY <1>2, <2>2 DEF Cut
<1> QED
  BY <1>1, <1>2 DEF RunInv, Unbroken, ClosedInv, Whole

-----------------------------------------------------------------------------
(* The accepting thread *)

\* Listening disturbs nothing but main.
LEMMA ListenKeeps ==
  ASSUME RunInv, ClosedInv, Listen
  PROVE  RunInv' /\ ClosedInv'
<1> USE DEF RunInv, Listen, serverVars, clientVars
<1>1. ServerTypes'
  BY DEF ServerTypes
<1>2. (BufferTypes /\ ClientTypes /\ ConnTypes)'
  BY DEF BufferTypes, ClientTypes, ConnTypes
<1>3. (Room /\ Single)'
  BY DEF Room, Serving, Single
<1>4. SessionInv'
  BY DEF SessionInv
<1>5. (QueueInv /\ ServedInv)'
  BY DEF QueueInv, ServedInv
<1>6. (ClientInv /\ EndInv)'
  BY DEF ClientInv, EndInv, AllRead
<1>7. Complete'
  BY DEF Complete, Sent
<1>8. StreamsKept
  BY <1>3, StreamSame DEF StreamsKept
<1>9. Unbroken'
  BY <1>8, UnbrokenKept
<1>10. ClosedInv'
  <2> SUFFICES ASSUME NEW d \in Clients, client'[d] = "closed"
               PROVE  Whole(d)' \/ Cut(d)'
    BY DEF ClosedInv
  <2>1. Whole(d) \/ Cut(d)
    BY DEF ClosedInv
  <2> QED
    BY <1>8, <2>1, ClosedSame DEF StreamsKept
<1> QED
  BY <1>1, <1>2, <1>3, <1>4, <1>5, <1>6, <1>7, <1>9, <1>10

\* The head of the queue gets a session in an unused slot and a free descriptor.
LEMMA AcceptKeeps ==
  ASSUME RunInv, ClosedInv, NEW s \in Sessions, Accept(s)
  PROVE  RunInv' /\ ClosedInv'
<1> PICK c : c = Head(queue)
  OBVIOUS
<1>1. /\ pc[s] = "none"
      /\ pc' = [pc EXCEPT ![s] = "read"] /\ serves' = [serves EXCEPT ![s] = c]
      /\ queue' = Tail(queue)
      /\ UNCHANGED <<main, buffer, last_bytes, client, sent, got, conn>>
      /\ Cardinality(Serving) < MaxFds
  BY DEF Accept, NewSession, Goto, clientVars
<1>2. serves[s] = NoClient /\ buffer[s] = <<>> /\ last_bytes[s] = 0
  BY <1>1 DEF RunInv, SessionInv
<1>3. /\ queue \in Seq(Clients) /\ Len(queue) \in Nat \ {0}
      /\ queue' \in Seq(Clients) /\ Len(queue') = Len(queue) - 1
      /\ \A i \in 1..Len(queue') : queue'[i] = queue[i + 1]
  <2>1. queue \in Seq(Clients) /\ queue # <<>>
    BY DEF RunInv, ServerTypes, Accept
  <2> QED
    BY <1>1, <2>1, EmptySeq, HeadTailProperties
<1>4. c \in Clients /\ c = queue[1] /\ c # NoClient
  BY <1>3, EchoAssumption
<1>5. /\ client[c] # "new" /\ ~conn[c].downFin
      /\ \A t \in Sessions : serves[t] # c
  BY <1>3, <1>4 DEF RunInv, QueueInv
<1>6. /\ DOMAIN queue = 1..Len(queue) /\ DOMAIN queue' = 1..(Len(queue) - 1)
      /\ \A i \in DOMAIN queue' : i + 1 \in DOMAIN queue /\ queue'[i] = queue[i + 1]
  BY <1>3
<1>7. ServerTypes'
  BY <1>1, <1>3, <1>4 DEF RunInv, ServerTypes
<1>8. /\ serves'[s] = c
      /\ \A t \in Sessions : t # s => serves'[t] = serves[t] /\ pc'[t] = pc[t]
      /\ pc'[s] = "read"
  BY <1>1 DEF RunInv, ServerTypes
<1>9. (BufferTypes /\ ClientTypes /\ ConnTypes)'
  BY <1>1 DEF RunInv, BufferTypes, ClientTypes, ConnTypes
<1>10. Room'
  <2>1. Serving' = Serving \cup {s} /\ s \notin Serving
    BY <1>2, <1>4, <1>8 DEF Serving
  <2>2. Cardinality(Serving') = Cardinality(Serving) + 1
    BY <2>1, FiniteSlots, FS_AddElement
  <2> QED
    BY <1>1, <2>2, FiniteSlots DEF Room
<1>11. Single'
  BY <1>4, <1>5, <1>8 DEF RunInv, Single
<1>12. SessionInv'
  BY <1>1, <1>2, <1>4, <1>8 DEF RunInv, SessionInv
<1>13. QueueInv'
  <2>1. \A i \in DOMAIN queue' : queue'[i] # c
    BY <1>3, <1>4, <1>6 DEF RunInv, QueueInv
  <2>2. \A i, j \in DOMAIN queue' : queue'[i] = queue'[j] => i = j
    BY <1>3, <1>6 DEF RunInv, QueueInv
  <2>3. \A i \in DOMAIN queue' :
          /\ client[queue'[i]] # "new" /\ ~conn[queue'[i]].downFin
          /\ \A t \in Sessions : serves[t] # queue'[i]
    BY <1>6 DEF RunInv, QueueInv
  <2>4. \A i \in DOMAIN queue' : \A t \in Sessions : serves'[t] # queue'[i]
    BY <1>8, <2>1, <2>3
  <2> QED
    BY <1>1, <2>2, <2>3, <2>4 DEF QueueInv
<1>14. ServedInv'
  BY <1>1, <1>5, <1>8 DEF RunInv, ServedInv
<1>15. (ClientInv /\ Complete)'
  BY <1>1 DEF RunInv, ClientInv, AllRead, Complete, Sent
<1>16. EndInv'
  BY <1>1, <1>8 DEF RunInv, EndInv, AllRead
<1>17. StreamsKept
  <2> SUFFICES ASSUME NEW d \in Clients, Stream(d)
               PROVE  Stream(d)'
    BY DEF StreamsKept
  <2>1. CASE d # c
    <3>1. \A t \in Sessions : serves'[t] = d <=> serves[t] = d
      BY <1>2, <1>8, <2>1, EchoAssumption
    <3> QED
      BY <1>1, <1>11, <3>1, StreamSame
  <2>2. CASE d = c
    <3>1. Buffered(c) = <<>>
      BY <1>5, BufferedNone
    <3>2. Buffered(c)' = <<>>
      BY <1>1, <1>2, <1>4, <1>8, <1>11, BufferedNext
    <3>3. Sent(c)' = Sent(c)
      BY <1>1 DEF Sent
    <3> QED
      BY <1>1, <2>2, <3>1, <3>2, <3>3 DEF Stream
  <2> QED
    BY <2>1, <2>2
<1>18. Unbroken'
  BY <1>1, <1>17, UnbrokenKept DEF RunInv
<1>19. ClosedInv'
  <2> SUFFICES ASSUME NEW d \in Clients, client'[d] = "closed"
               PROVE  Whole(d)' \/ Cut(d)'
    BY DEF ClosedInv
  <2>1. Whole(d) \/ Cut(d)
    BY <1>1 DEF ClosedInv
  <2>2. Stream(d) => Stream(d)'
    BY <1>17 DEF StreamsKept
  <2>3. CASE d # c
    <3>1. \A t \in Sessions : serves'[t] = d =>
            serves[t] = d /\ pc'[t] = pc[t] /\ buffer'[t] = buffer[t]
      BY <1>1, <1>8, <2>3
    <3>2. (\A i \in DOMAIN queue : queue[i] # d)
            => \A i \in DOMAIN queue' : queue'[i] # d
      BY <1>6
    <3> QED
      BY <1>1, <2>1, <2>2, <3>1, <3>2, ClosedSame
  <2>4. CASE d = c
    <3>1. CASE Whole(c)
      <4>1. Stream(c)'
        BY <2>2, <2>4, <3>1 DEF Whole
      <4>2. \A t \in Sessions : serves'[t] = c => pc'[t] = "read"
        BY <1>5, <1>8
      <4>3. \A t \in Sessions : serves'[t] = c /\ pc'[t] = "end" => buffer'[t] = <<>>
        BY <4>2
      <4> QED
        BY <1>1, <1>4, <2>4, <3>1, <4>1, <4>3, WholeSame
    <3>2. CASE Cut(c)
      <4>1. conn[c].err # "none"
        BY <1>3, <1>4, <1>6, <3>2 DEF Cut
      <4> QED
        BY <1>1, <1>4, <2>4, <3>2, <4>1, CutSame
    <3> QED
      BY <2>1, <2>4, <3>1, <3>2
  <2> QED
    BY <2>3, <2>4
<1> QED
  BY <1>7, <1>9, <1>10, <1>11, <1>12, <1>13, <1>14, <1>15, <1>16, <1>18,
     <1>19 DEF RunInv

\* A session without a connection serves nobody.
LEMMA AcceptFailsKeeps ==
  ASSUME RunInv, ClosedInv, NEW s \in Sessions, AcceptFails(s)
  PROVE  RunInv' /\ ClosedInv'
<1>1. /\ pc[s] = "none"
      /\ pc' = [pc EXCEPT ![s] = "read"]
      /\ serves' = [serves EXCEPT ![s] = NoClient]
      /\ UNCHANGED <<main, queue, buffer, last_bytes, client, sent, got, conn>>
  BY DEF AcceptFails, NewSession, Goto, clientVars
<1>2. serves[s] = NoClient /\ buffer[s] = <<>> /\ last_bytes[s] = 0
  BY <1>1 DEF RunInv, SessionInv
<1>3. /\ serves' = serves
      /\ \A t \in Sessions : t # s => pc'[t] = pc[t]
      /\ pc'[s] = "read"
  BY <1>1, <1>2 DEF RunInv, ServerTypes
<1>4. ServerTypes'
  BY <1>1, <1>3 DEF RunInv, ServerTypes
<1>5. (BufferTypes /\ ClientTypes /\ ConnTypes)'
  BY <1>1 DEF RunInv, BufferTypes, ClientTypes, ConnTypes
<1>6. (Room /\ Single)'
  BY <1>3 DEF RunInv, Room, Serving, Single
<1>7. SessionInv'
  BY <1>1, <1>2, <1>3 DEF RunInv, SessionInv
<1>8. (QueueInv /\ ServedInv)'
  BY <1>1, <1>3 DEF RunInv, QueueInv, ServedInv
<1>9. (ClientInv /\ Complete)'
  BY <1>1 DEF RunInv, ClientInv, AllRead, Complete, Sent
<1>10. EndInv'
  BY <1>1, <1>3 DEF RunInv, EndInv, AllRead
<1>11. StreamsKept
  BY <1>1, <1>3, <1>6, StreamSame DEF StreamsKept
<1>12. Unbroken'
  BY <1>1, <1>11, UnbrokenKept DEF RunInv
<1>13. ClosedInv'
  <2> SUFFICES ASSUME NEW d \in Clients, client'[d] = "closed"
               PROVE  Whole(d)' \/ Cut(d)'
    BY DEF ClosedInv
  <2>1. Whole(d) \/ Cut(d)
    BY <1>1 DEF ClosedInv
  <2>2. \A t \in Sessions : serves'[t] = d =>
          serves[t] = d /\ pc'[t] = pc[t] /\ buffer'[t] = buffer[t]
    BY <1>1, <1>2, <1>3, EchoAssumption
  <2> QED
    BY <1>1, <1>11, <2>1, <2>2, ClosedSame DEF StreamsKept
<1> QED
  BY <1>4, <1>5, <1>6, <1>7, <1>8, <1>9, <1>10, <1>12, <1>13 DEF RunInv

-----------------------------------------------------------------------------
(* A session *)

\* Bytes move from the connection to the empty buffer; reading none means that
\* the client has ended its stream.
LEMMA ReadReturnsKeeps ==
  ASSUME RunInv, ClosedInv, NEW s \in Sessions, ReadReturns(s)
  PROVE  RunInv' /\ ClosedInv'
<1> PICK c, u, n : c = serves[s] /\ u = conn[c].up /\ n = ReadSize(c)
  OBVIOUS
<1>1. /\ pc[s] = "read" /\ c # NoClient /\ (u # <<>> \/ conn[c].upFin)
      /\ buffer' = [buffer EXCEPT ![s] = SubSeq(u, 1, n)]
      /\ conn' = [conn EXCEPT ![c].up = SubSeq(u, n + 1, Len(u))]
      /\ pc' = [pc EXCEPT ![s] = "write"]
      /\ UNCHANGED <<main, queue, serves, last_bytes, client, sent, got>>
  BY DEF ReadReturns, Goto, clientVars
<1>2. c \in Clients
  BY <1>1 DEF RunInv, ServerTypes
<1>3. buffer[s] = <<>> /\ last_bytes[s] = 0
  BY <1>1 DEF RunInv, SessionInv
<1>4. /\ n \in 0..Len(u) /\ n <= BufferSize /\ (n = 0 => u = <<>>)
      /\ u \in Seq(Byte) /\ Len(u) \in Nat
  BY <1>2, ReadSizeBounds DEF RunInv, ConnTypes, Connection
<1>5. /\ SubSeq(u, 1, n) \in Seq(Byte) /\ Len(SubSeq(u, 1, n)) = n
      /\ SubSeq(u, n + 1, Len(u)) \in Seq(Byte)
      /\ Len(SubSeq(u, n + 1, Len(u))) <= Len(u)
  <2>1. \A i \in 1..Len(u) : u[i] \in Byte
    BY <1>4, ElementOfSeq
  <2> QED
    BY <1>4, <2>1, SubSeqProperties
<1>6. /\ buffer'[s] = SubSeq(u, 1, n) /\ pc'[s] = "write"
      /\ \A t \in Sessions : t # s => buffer'[t] = buffer[t] /\ pc'[t] = pc[t]
  BY <1>1 DEF RunInv, ServerTypes, BufferTypes
<1>7. /\ conn'[c] = [conn[c] EXCEPT !.up = SubSeq(u, n + 1, Len(u))]
      /\ \A d \in Clients : d # c => conn'[d] = conn[d]
  BY <1>1, <1>2 DEF RunInv, ConnTypes
<1>8. /\ conn'[c].up = SubSeq(u, n + 1, Len(u))
      /\ conn'[c].down = conn[c].down /\ conn'[c].upFin = conn[c].upFin
      /\ conn'[c].downFin = conn[c].downFin /\ conn'[c].err = conn[c].err
      /\ conn'[c] \in Connection
  <2>1. conn[c] \in Connection
    BY <1>2 DEF RunInv, ConnTypes
  <2> QED
    <3> DEFINE x == SubSeq(u, n + 1, Len(u))
    <3>1. x \in Seq(Byte)
      BY <1>5
    <3>2. conn'[c] = [conn[c] EXCEPT !.up = x]
      BY <1>7
    <3> HIDE DEF x
    <3>3. /\ conn'[c].up = x
          /\ conn'[c].down = conn[c].down /\ conn'[c].upFin = conn[c].upFin
          /\ conn'[c].downFin = conn[c].downFin /\ conn'[c].err = conn[c].err
          /\ conn'[c] \in Connection
      BY ONLY <2>1, <3>1, <3>2, WithUp
    <3> QED
      BY <3>3 DEF x
<1>9. (ServerTypes /\ ClientTypes)'
  BY <1>1 DEF RunInv, ServerTypes, ClientTypes
<1>10. BufferTypes'
  <2>1. buffer' \in [Sessions -> Seq(Byte)] /\ last_bytes' \in [Sessions -> 0..BufferSize]
    BY <1>1, <1>5 DEF RunInv, BufferTypes
  <2>2. \A t \in Sessions : Len(buffer'[t]) + last_bytes'[t] <= BufferSize
    BY <1>1, <1>3, <1>4, <1>5, <1>6 DEF RunInv, BufferTypes
  <2> QED
    BY <2>1, <2>2 DEF BufferTypes
<1>11. ConnTypes'
  <2>1. conn' \in [Clients -> Connection]
    BY <1>1, <1>2, <1>7, <1>8 DEF RunInv, ConnTypes
  <2>2. \A d \in Clients : Len(conn'[d].up) <= UpRoom /\ Len(conn'[d].down) <= DownRoom
    <3> TAKE d \in Clients
    <3>1. CASE d # c
      BY <1>7, <3>1 DEF RunInv, ConnTypes
    <3>2. CASE d = c
      <4>1. Len(u) <= UpRoom /\ Len(conn[c].down) <= DownRoom /\ UpRoom \in Nat
        BY <1>2, FiniteSlots DEF RunInv, ConnTypes
      <4>2. Len(SubSeq(u, n + 1, Len(u))) \in Nat
        BY <1>5
      <4> QED
        BY ONLY <1>4, <1>5, <1>8, <3>2, <4>1, <4>2
    <3> QED
      BY <3>1, <3>2
  <2> QED
    BY <2>1, <2>2 DEF ConnTypes
<1>12. (Room /\ Single)'
  BY <1>1 DEF RunInv, Room, Serving, Single
<1>13. SessionInv'
  BY <1>1, <1>3, <1>6 DEF RunInv, SessionInv
<1>14. (QueueInv /\ ServedInv)'
  <2>1. \A d \in Clients : conn'[d].downFin = conn[d].downFin
    BY <1>7, <1>8
  <2>2. \A i \in DOMAIN queue : queue[i] \in Clients
    BY DEF RunInv, ServerTypes
  <2>3. QueueInv'
    BY <1>1, <2>1, <2>2 DEF RunInv, QueueInv
  <2>4. ServedInv'
    BY <1>1, <2>1 DEF RunInv, ServedInv, ServerTypes
  <2> QED
    BY <2>3, <2>4
<1>15. ClientInv'
  <2>1. \A d \in Clients : d # c => AllRead(d)' = AllRead(d)
    BY <1>7 DEF AllRead
  <2>2. ~conn[c].downFin
    BY <1>1 DEF RunInv, ServedInv
  <2> QED
    BY <1>1, <1>7, <1>8, <2>1, <2>2 DEF RunInv, ClientInv
<1>16. Complete'
  BY <1>1 DEF RunInv, Complete, Sent
<1>17. EndInv'
  <2> SUFFICES ASSUME NEW t \in Sessions, serves[t] # NoClient,
                      client[serves[t]] # "closed"
               PROVE  /\ pc'[t] = "write" /\ buffer'[t] = <<>> /\ last_bytes'[t] = 0 =>
                           conn'[serves[t]].upFin /\ conn'[serves[t]].up = <<>>
                      /\ pc'[t] = "end" => /\ conn'[serves[t]].upFin
                                           /\ conn'[serves[t]].up = <<>>
                                           /\ buffer'[t] = <<>>
    BY <1>1 DEF EndInv, AllRead
  <2>1. CASE t # s
    <3>1. serves[t] # c /\ serves[t] \in Clients
      BY <2>1 DEF RunInv, Single, ServerTypes
    <3> QED
      BY <1>1, <1>6, <1>7, <2>1, <3>1 DEF RunInv, EndInv, AllRead
  <2>2. CASE t = s
    <3>1. ASSUME buffer'[s] = <<>>
          PROVE  conn'[c].upFin /\ conn'[c].up = <<>>
      <4>1. n = 0 /\ u = <<>>
        BY <1>4, <1>5, <1>6, <3>1, EmptySeq
      <4>2. SubSeq(u, n + 1, Len(u)) = <<>>
        BY <1>4, <4>1, SubSeqEmpty
      <4> QED
        BY <1>1, <1>8, <4>1, <4>2
    <3> QED
      BY <1>6, <2>2, <3>1
  <2> QED
    BY <2>1, <2>2
<1>18. StreamsKept
  <2> SUFFICES ASSUME NEW d \in Clients, Stream(d)
               PROVE  Stream(d)'
    BY DEF StreamsKept
  <2>1. CASE d # c
    BY <1>1, <1>6, <1>7, <1>12, <2>1, StreamSame
  <2>2. CASE d = c
    <3>1. Buffered(c) = <<>> /\ Buffered(c)' = SubSeq(u, 1, n)
      BY <1>1, <1>3, <1>6, <1>12, BufferedServed, BufferedNext DEF RunInv
    <3>2. Sent(c)' = Sent(c)
      BY <1>1 DEF Sent
    <3>3. got[c] \in Seq(Byte) /\ conn[c].down \in Seq(Byte)
      BY <1>2, PartsAreStreams DEF RunInv
    <3>4. got[c] \o conn[c].down \o <<>> \o u = Sent(c)
      BY <2>2, <3>1 DEF Stream
    <3>5. got[c] \o conn[c].down \o SubSeq(u, 1, n) \o SubSeq(u, n + 1, Len(u))
            = got[c] \o conn[c].down \o <<>> \o u
      <4>1. u \in Seq(Byte) /\ n \in 0..Len(u)
        BY <1>4
      <4> QED
        BY ONLY <3>3, <4>1, ReadSplit
    <3>6. got'[c] = got[c]
      BY <1>1
    <3> QED
      BY <1>8, <2>2, <3>1, <3>2, <3>4, <3>5, <3>6 DEF Stream
  <2> QED
    BY <2>1, <2>2
<1>19. Unbroken'
  BY <1>1, <1>18, UnbrokenKept DEF RunInv
<1>20. ClosedInv'
  <2> SUFFICES ASSUME NEW d \in Clients, client'[d] = "closed"
               PROVE  Whole(d)' \/ Cut(d)'
    BY DEF ClosedInv
  <2>1. Whole(d) \/ Cut(d)
    BY <1>1 DEF ClosedInv
  <2>2. Stream(d) => Stream(d)'
    BY <1>18 DEF StreamsKept
  <2>3. CASE d # c
    BY <1>1, <1>6, <1>7, <2>1, <2>2, <2>3, ClosedSame
  <2>4. CASE d = c
    <3>1. CASE Whole(c)
      <4>1. Stream(c)'
        BY <2>2, <2>4, <3>1 DEF Whole
      <4>2. \A t \in Sessions : serves'[t] = c => t = s
        BY <1>1 DEF RunInv, Single
      <4>3. \A t \in Sessions : serves'[t] = c /\ pc'[t] = "end" => buffer'[t] = <<>>
        BY <1>6, <4>2
      <4> QED
        BY <1>2, <1>8, <2>4, <3>1, <4>1, <4>3, WholeSame
    <3>2. CASE Cut(c)
      <4>1. conn[c].err # "none"
        BY <1>1, <3>2 DEF Cut
      <4> QED
        BY <1>1, <1>2, <1>8, <2>4, <3>2, <4>1, CutSame
    <3> QED
      BY <2>1, <2>4, <3>1, <3>2
  <2> QED
    BY <2>3, <2>4
<1> QED
  BY <1>9, <1>10, <1>11, <1>12, <1>13, <1>14, <1>15, <1>16, <1>17, <1>19,
     <1>20 DEF RunInv

\* Only a client that has closed makes read fail.
LEMMA ReadFailsKeeps ==
  ASSUME RunInv, ClosedInv, NEW s \in Sessions, ReadFails(s)
  PROVE  RunInv' /\ ClosedInv'
<1> PICK c : c = serves[s]
  OBVIOUS
<1>1. /\ pc[s] = "read" /\ pc' = [pc EXCEPT ![s] = "end"]
      /\ UNCHANGED <<main, queue, serves, buffer, last_bytes, client, sent, got>>
  BY DEF ReadFails, Goto, clientVars
<1>2. \/ c = NoClient /\ conn' = conn
      \/ /\ c # NoClient /\ conn[c].err # "none"
         /\ conn' = [conn EXCEPT ![c].err = "none"]
  BY DEF ReadFails
<1>3. /\ buffer[s] = <<>> /\ last_bytes[s] = 0
      /\ pc'[s] = "end" /\ \A t \in Sessions : t # s => pc'[t] = pc[t]
  BY <1>1 DEF RunInv, SessionInv, ServerTypes
<1>4. c # NoClient => c \in Clients /\ client[c] = "closed"
  BY <1>2, EchoAssumption DEF RunInv, ServerTypes, ClientInv
<1>5. /\ conn' \in [Clients -> Connection]
      /\ \A d \in Clients :
           /\ conn'[d].up = conn[d].up /\ conn'[d].down = conn[d].down
           /\ conn'[d].upFin = conn[d].upFin /\ conn'[d].downFin = conn[d].downFin
           /\ d # c => conn'[d] = conn[d]
  <2>1. conn \in [Clients -> Connection]
    BY DEF RunInv, ConnTypes
  <2>2. CASE conn' = conn
    BY <2>1, <2>2
  <2>3. CASE c \in Clients /\ conn' = [conn EXCEPT ![c].err = "none"]
    <3>1. conn[c] \in Connection /\ conn'[c] = [conn[c] EXCEPT !.err = "none"]
      BY <2>1, <2>3
    <3>2. /\ conn'[c] \in Connection
          /\ conn'[c].up = conn[c].up /\ conn'[c].down = conn[c].down
          /\ conn'[c].upFin = conn[c].upFin /\ conn'[c].downFin = conn[c].downFin
      BY ONLY <3>1, WithErr
    <3>3. \A d \in Clients : d # c => conn'[d] = conn[d]
      BY <2>1, <2>3
    <3>4. conn' \in [Clients -> Connection]
      BY <2>1, <2>3, <3>1, <3>2
    <3> QED
      BY <3>2, <3>3, <3>4
  <2> QED
    BY <1>2, <1>4, <2>2, <2>3
<1>6. (ServerTypes /\ BufferTypes /\ ClientTypes)'
  BY <1>1 DEF RunInv, ServerTypes, BufferTypes, ClientTypes
<1>7. ConnTypes'
  BY <1>5 DEF RunInv, ConnTypes
<1>8. (Room /\ Single)'
  BY <1>1 DEF RunInv, Room, Serving, Single
<1>9. SessionInv'
  BY <1>1, <1>3 DEF RunInv, SessionInv
<1>10. QueueInv'
  <2>1. \A i \in DOMAIN queue : queue[i] \in Clients
    BY DEF RunInv, ServerTypes
  <2> QED
    BY <1>1, <1>5, <2>1 DEF RunInv, QueueInv
<1>11. ServedInv'
  BY <1>1, <1>5 DEF RunInv, ServedInv, ServerTypes
<1>12. ClientInv'
  <2>1. \A d \in Clients : AllRead(d)' <=> AllRead(d)
    BY <1>5 DEF AllRead
  <2>2. \A d \in Clients : client[d] # "closed" => conn'[d].err = conn[d].err
    <3> TAKE d \in Clients
    <3> HAVE client[d] # "closed"
    <3>1. d # c
      BY <1>4, EchoAssumption
    <3>2. conn'[d] = conn[d]
      BY <1>5, <3>1
    <3> QED
      BY <3>2
  <2> QED
    BY <1>1, <1>5, <2>1, <2>2 DEF RunInv, ClientInv
<1>13. EndInv'
  <2> SUFFICES ASSUME NEW t \in Sessions, serves[t] # NoClient,
                      client[serves[t]] # "closed"
               PROVE  /\ pc'[t] = "write" /\ buffer[t] = <<>> /\ last_bytes[t] = 0 =>
                           conn'[serves[t]].upFin /\ conn'[serves[t]].up = <<>>
                      /\ pc'[t] = "end" => /\ conn'[serves[t]].upFin
                                           /\ conn'[serves[t]].up = <<>>
                                           /\ buffer[t] = <<>>
    BY <1>1 DEF EndInv, AllRead
  <2>1. t # s /\ serves[t] \in Clients
    BY <1>4 DEF RunInv, ServerTypes
  <2> QED
    BY <1>3, <1>5, <2>1 DEF RunInv, EndInv, AllRead
<1>14. Complete'
  BY <1>1 DEF RunInv, Complete, Sent
<1>15. StreamsKept
  BY <1>1, <1>5, <1>8, StreamSame DEF StreamsKept
<1>16. Unbroken'
  BY <1>1, <1>15, UnbrokenKept DEF RunInv
<1>17. ClosedInv'
  <2> SUFFICES ASSUME NEW d \in Clients, client'[d] = "closed"
               PROVE  Whole(d)' \/ Cut(d)'
    BY DEF ClosedInv
  <2>1. Whole(d) \/ Cut(d)
    BY <1>1 DEF ClosedInv
  <2>2. Stream(d) => Stream(d)'
    BY <1>15 DEF StreamsKept
  <2>3. CASE d # c
    BY <1>1, <1>3, <1>5, <2>1, <2>2, <2>3, ClosedSame
  <2>4. CASE d = c
    <3>1. Cut(c) /\ c # NoClient /\ conn[c].err # "none"
      BY <1>1, <1>2, <2>1, <2>4, EchoAssumption DEF Whole
    <3>2. \A t \in Sessions : serves'[t] = c => t = s
      BY <1>1, <3>1 DEF RunInv, Single
    <3>3. \A i \in DOMAIN queue' : queue'[i] # c
      BY <1>1 DEF RunInv, QueueInv
    <3>4. conn'[c].down = <<>> /\ IsPrefix(got'[c], Sent(c)')
      BY <1>1, <1>5, <2>4, <3>1 DEF Cut, Sent
    <3> QED
      BY <1>1, <1>3, <2>4, <3>2, <3>3, <3>4 DEF Cut
  <2> QED
    BY <2>3, <2>4
<1> QED
  BY <1>6, <1>7, <1>8, <1>9, <1>10, <1>11, <1>12, <1>13, <1>14, <1>16, <1>17
     DEF RunInv

\* A byte moves from the buffer to the connection.
LEMMA WriteCopiesKeeps ==
  ASSUME RunInv, ClosedInv, NEW s \in Sessions, WriteCopies(s)
  PROVE  RunInv' /\ ClosedInv'
<1> PICK c : c = serves[s]
  OBVIOUS
<1>1. /\ pc[s] = "write" /\ buffer[s] # <<>> /\ Len(conn[c].down) < DownRoom
      /\ conn[c].err = "none"
      /\ conn' = [conn EXCEPT ![c].down = Append(@, Head(buffer[s]))]
      /\ buffer' = [buffer EXCEPT ![s] = Tail(@)]
      /\ last_bytes' = [last_bytes EXCEPT ![s] = @ + 1]
      /\ UNCHANGED <<main, queue, pc, serves, client, sent, got>>
  BY DEF WriteCopies, clientVars
<1>2. c # NoClient /\ c \in Clients
  BY <1>1 DEF RunInv, SessionInv, ServerTypes
<1>3. /\ conn[c] \in Connection /\ conn[c].down \in Seq(Byte)
      /\ conn[c].up \in Seq(Byte) /\ got[c] \in Seq(Byte)
      /\ buffer[s] \in Seq(Byte)
  BY <1>2 DEF RunInv, ConnTypes, Connection, BufferTypes, ClientTypes
<1> DEFINE x == Append(conn[c].down, Head(buffer[s]))
<1>4. /\ Head(buffer[s]) \in Byte /\ Tail(buffer[s]) \in Seq(Byte)
      /\ Len(Tail(buffer[s])) = Len(buffer[s]) - 1
  BY <1>1, <1>3, HeadTailProperties
<1>5. x \in Seq(Byte) /\ Len(x) = Len(conn[c].down) + 1
  BY <1>3, <1>4, AppendProperties
<1>6. /\ conn'[c] = [conn[c] EXCEPT !.down = x]
      /\ \A d \in Clients : d # c => conn'[d] = conn[d]
  BY <1>1, <1>2 DEF RunInv, ConnTypes
<1>7. /\ buffer'[s] = Tail(buffer[s]) /\ last_bytes'[s] = last_bytes[s] + 1
      /\ \A t \in Sessions : t # s => /\ buffer'[t] = buffer[t]
                                     /\ last_bytes'[t] = last_bytes[t]
  BY <1>1 DEF RunInv, BufferTypes
<1> HIDE DEF x
<1>8. /\ conn'[c] \in Connection /\ conn'[c].down = x
      /\ conn'[c].up = conn[c].up /\ conn'[c].upFin = conn[c].upFin
      /\ conn'[c].downFin = conn[c].downFin /\ conn'[c].err = conn[c].err
  <2>1. conn[c] \in Connection /\ x \in Seq(Byte)
    BY <1>3, <1>5
  <2> QED
    BY ONLY <2>1, <1>6, WithDown
<1>9. (ServerTypes /\ ClientTypes)'
  BY <1>1 DEF RunInv, ServerTypes, ClientTypes
<1>10. BufferTypes'
  <2>1. /\ last_bytes \in [Sessions -> 0..BufferSize] /\ BufferSize \in Nat
        /\ buffer \in [Sessions -> Seq(Byte)]
        /\ \A t \in Sessions : Len(buffer[t]) + last_bytes[t] <= BufferSize
    BY FiniteSlots DEF RunInv, BufferTypes
  <2>2. Len(buffer[s]) \in Nat \ {0}
    BY <1>1, <1>3, EmptySeq
  <2>3. last_bytes[s] + 1 \in 0..BufferSize
    BY <2>1, <2>2
  <2>4. /\ buffer' \in [Sessions -> Seq(Byte)]
        /\ last_bytes' \in [Sessions -> 0..BufferSize]
    BY <1>1, <1>4, <2>1, <2>3
  <2>5. \A t \in Sessions : Len(buffer'[t]) + last_bytes'[t] <= BufferSize
    <3>1. Len(buffer'[s]) + last_bytes'[s] = Len(buffer[s]) + last_bytes[s]
      BY <1>4, <1>7, <2>1, <2>2
    <3> QED
      BY <1>7, <2>1, <3>1
  <2> QED
    BY <2>4, <2>5 DEF BufferTypes
<1>11. ConnTypes'
  <2>1. conn' \in [Clients -> Connection]
    BY <1>1, <1>2, <1>6, <1>8 DEF RunInv, ConnTypes
  <2>2. \A d \in Clients : Len(conn'[d].up) <= UpRoom /\ Len(conn'[d].down) <= DownRoom
    <3>1. Len(conn[c].down) \in Nat /\ DownRoom \in Nat /\ Len(conn[c].up) <= UpRoom
      BY <1>2, <1>3, FiniteSlots DEF RunInv, ConnTypes
    <3>2. Len(conn'[c].up) <= UpRoom /\ Len(conn'[c].down) <= DownRoom
      BY <1>1, <1>5, <1>8, <3>1
    <3> QED
      BY <1>6, <3>2 DEF RunInv, ConnTypes
  <2> QED
    BY <2>1, <2>2 DEF ConnTypes
<1>12. (Room /\ Single)'
  BY <1>1 DEF RunInv, Room, Serving, Single
<1>13. SessionInv'
  BY <1>1, <1>2, <1>7 DEF RunInv, SessionInv
<1>14. \A d \in Clients :
         /\ conn'[d].downFin = conn[d].downFin /\ conn'[d].upFin = conn[d].upFin
         /\ conn'[d].up = conn[d].up /\ conn'[d].err = conn[d].err
  BY <1>6, <1>8
<1>15. QueueInv'
  <2>1. \A i \in DOMAIN queue : queue[i] \in Clients
    BY DEF RunInv, ServerTypes
  <2> QED
    BY <1>1, <1>14, <2>1 DEF RunInv, QueueInv
<1>16. ServedInv'
  BY <1>1, <1>14 DEF RunInv, ServedInv, ServerTypes
<1>17. ClientInv'
  BY <1>1, <1>14 DEF RunInv, ClientInv, AllRead
<1>18. EndInv'
  <2> SUFFICES ASSUME NEW t \in Sessions, serves[t] # NoClient,
                      client[serves[t]] # "closed"
               PROVE  /\ pc[t] = "write" /\ buffer'[t] = <<>> /\ last_bytes'[t] = 0 =>
                           conn'[serves[t]].upFin /\ conn'[serves[t]].up = <<>>
                      /\ pc[t] = "end" => /\ conn'[serves[t]].upFin
                                          /\ conn'[serves[t]].up = <<>>
                                          /\ buffer'[t] = <<>>
    BY <1>1 DEF EndInv, AllRead
  <2>1. serves[t] \in Clients
    BY DEF RunInv, ServerTypes
  <2>2. CASE t # s
    BY <1>7, <1>14, <2>1, <2>2 DEF RunInv, EndInv, AllRead
  <2>3. CASE t = s
    <3>1. last_bytes'[s] # 0
      BY <1>7 DEF RunInv, BufferTypes
    <3> QED
      BY <1>1, <2>3, <3>1
  <2> QED
    BY <2>2, <2>3
<1>19. Complete'
  BY <1>1 DEF RunInv, Complete, Sent
<1>20. StreamsKept
  <2> SUFFICES ASSUME NEW d \in Clients, Stream(d)
               PROVE  Stream(d)'
    BY DEF StreamsKept
  <2>1. CASE d # c
    BY <1>1, <1>6, <1>7, <1>12, <2>1, StreamSame
  <2>2. CASE d = c
    <3>1. Buffered(c) = buffer[s] /\ Buffered(c)' = Tail(buffer[s])
      BY <1>1, <1>2, <1>7, <1>12, BufferedServed, BufferedNext DEF RunInv
    <3>2. Sent(c)' = Sent(c) /\ got'[c] = got[c]
      BY <1>1 DEF Sent
    <3>3. got[c] \o conn[c].down \o buffer[s] \o conn[c].up = Sent(c)
      BY <2>2, <3>1 DEF Stream
    <3>4. got[c] \o Append(conn[c].down, Head(buffer[s])) \o Tail(buffer[s])
            \o conn[c].up = got[c] \o conn[c].down \o buffer[s] \o conn[c].up
      <4> DEFINE a == got[c]
                 d0 == conn[c].down
                 b == buffer[s]
                 u == conn[c].up
      <4>1. /\ a \in Seq(Byte)
            /\ d0 \in Seq(Byte)
            /\ b \in Seq(Byte)
            /\ u \in Seq(Byte)
            /\ b # <<>>
        BY <1>1, <1>3
      <4> HIDE DEF a, d0, b, u
      <4>2. a \o Append(d0, Head(b)) \o Tail(b) \o u = a \o d0 \o b \o u
        <5>1. \A e, f, g \in Seq(Byte) :
                f # <<>> => a \o Append(e, Head(f)) \o Tail(f) \o g = a \o e \o f \o g
          BY ONLY <4>1, MoveHead, Zenon
        <5>2. \A f, g \in Seq(Byte) :
                f # <<>> => a \o Append(d0, Head(f)) \o Tail(f) \o g = a \o d0 \o f \o g
          BY ONLY <4>1, <5>1, Zenon
        <5> QED
          BY ONLY <4>1, <5>2, Zenon
      <4> QED
        BY <4>2 DEF a, d0, b, u
    <3> QED
      BY <1>8, <2>2, <3>1, <3>2, <3>3, <3>4 DEF x, Stream
  <2> QED
    BY <2>1, <2>2
<1>21. Unbroken'
  BY <1>1, <1>20, UnbrokenKept DEF RunInv
<1>22. ClosedInv'
  <2> SUFFICES ASSUME NEW d \in Clients, client'[d] = "closed"
               PROVE  Whole(d)' \/ Cut(d)'
    BY DEF ClosedInv
  <2>1. Whole(d) \/ Cut(d)
    BY <1>1 DEF ClosedInv
  <2>2. Stream(d) => Stream(d)'
    BY <1>20 DEF StreamsKept
  <2>3. CASE d # c
    BY <1>1, <1>6, <1>7, <2>1, <2>2, <2>3, ClosedSame
  <2>4. CASE d = c
    <3>1. Whole(c)
      BY <1>1, <2>1, <2>4 DEF Cut
    <3>2. Stream(c)'
      BY <2>2, <2>4, <3>1 DEF Whole
    <3>3. \A t \in Sessions : serves'[t] = c => pc'[t] = "write"
      BY <1>1, <1>2 DEF RunInv, Single
    <3>4. \A t \in Sessions : serves'[t] = c /\ pc'[t] = "end" => buffer'[t] = <<>>
      BY <3>3
    <3> QED
      BY <1>2, <1>8, <2>4, <3>1, <3>2, <3>4, WholeSame
  <2> QED
    BY <2>3, <2>4
<1> QED
  BY <1>9, <1>10, <1>11, <1>12, <1>13, <1>15, <1>16, <1>17, <1>18, <1>19,
     <1>21, <1>22 DEF RunInv

\* The buffer is dropped: it is empty unless the client has closed.
LEMMA WriteReturnsKeeps ==
  ASSUME RunInv, ClosedInv, NEW s \in Sessions, WriteReturns(s)
  PROVE  RunInv' /\ ClosedInv'
<1> PICK c : c = serves[s]
  OBVIOUS
<1>1. /\ pc[s] = "write" /\ WriteDone(s)
      /\ pc' = [pc EXCEPT ![s] = AfterWrite(s)]
      /\ buffer' = [buffer EXCEPT ![s] = <<>>]
      /\ last_bytes' = [last_bytes EXCEPT ![s] = 0]
      /\ UNCHANGED <<main, queue, serves, client, sent, got, conn>>
  BY DEF WriteReturns, Goto, clientVars
<1>2. c # NoClient /\ c \in Clients
  BY <1>1 DEF RunInv, SessionInv, ServerTypes
<1>3. client[c] # "closed" => buffer[s] = <<>>
  BY <1>1, <1>2 DEF RunInv, ClientInv, WriteDone
<1>4. /\ pc'[s] = AfterWrite(s) /\ buffer'[s] = <<>> /\ last_bytes'[s] = 0
      /\ \A t \in Sessions : t # s => /\ pc'[t] = pc[t] /\ buffer'[t] = buffer[t]
                                     /\ last_bytes'[t] = last_bytes[t]
  BY <1>1 DEF RunInv, ServerTypes, BufferTypes
<1>5. AfterWrite(s) \in {"end", "read"} /\ (AfterWrite(s) = "end" => last_bytes[s] = 0)
  BY DEF AfterWrite
<1>6. (ServerTypes /\ ClientTypes /\ ConnTypes)'
  BY <1>1, <1>5 DEF RunInv, ServerTypes, ClientTypes, ConnTypes
<1>7. BufferTypes'
  <2>1. <<>> \in Seq(Byte) /\ Len(<<>>) = 0 /\ BufferSize \in Nat
    BY EmptySeq, FiniteSlots
  <2>2. /\ buffer' \in [Sessions -> Seq(Byte)]
        /\ last_bytes' \in [Sessions -> 0..BufferSize]
    BY <1>1, <2>1 DEF RunInv, BufferTypes
  <2>3. \A t \in Sessions : Len(buffer'[t]) + last_bytes'[t] <= BufferSize
    <3>1. Len(buffer'[s]) + last_bytes'[s] <= BufferSize
      BY <1>4, <2>1
    <3> QED
      BY <1>4, <3>1 DEF RunInv, BufferTypes
  <2> QED
    BY <2>2, <2>3 DEF BufferTypes
<1>8. (Room /\ Single)'
  BY <1>1 DEF RunInv, Room, Serving, Single
<1>9. SessionInv'
  BY <1>1, <1>2, <1>4, <1>5 DEF RunInv, SessionInv
<1>10. (QueueInv /\ ServedInv)'
  BY <1>1 DEF RunInv, QueueInv, ServedInv
<1>11. (ClientInv /\ Complete)'
  BY <1>1 DEF RunInv, ClientInv, AllRead, Complete, Sent
<1>12. EndInv'
  <2> SUFFICES ASSUME NEW t \in Sessions, serves[t] # NoClient,
                      client[serves[t]] # "closed"
               PROVE  /\ pc'[t] = "write" /\ buffer'[t] = <<>> /\ last_bytes'[t] = 0 =>
                           AllRead(serves[t])
                      /\ pc'[t] = "end" => AllRead(serves[t]) /\ buffer'[t] = <<>>
    BY <1>1 DEF EndInv, AllRead
  <2>1. CASE t # s
    BY <1>4, <2>1 DEF RunInv, EndInv
  <2>2. CASE t = s
    <3>1. ASSUME AfterWrite(s) = "end"
          PROVE  AllRead(c)
      BY <1>1, <1>3, <1>5, <2>2, <3>1 DEF RunInv, EndInv
    <3> QED
      BY <1>4, <1>5, <2>2, <3>1
  <2> QED
    BY <2>1, <2>2
<1>13. \A d \in Clients :
         (d = c => buffer[s] = <<>>) /\ Stream(d) => Stream(d)'
  <2> SUFFICES ASSUME NEW d \in Clients, d = c => buffer[s] = <<>>, Stream(d)
               PROVE  Stream(d)'
    OBVIOUS
  <2>1. \A t \in Sessions : serves[t] = d => buffer'[t] = buffer[t]
    BY <1>1, <1>4
  <2> QED
    BY <1>1, <1>8, <2>1, StreamSame
<1>14. Unbroken'
  BY <1>1, <1>3, <1>13 DEF RunInv, Unbroken
<1>15. ClosedInv'
  <2> SUFFICES ASSUME NEW d \in Clients, client'[d] = "closed"
               PROVE  Whole(d)' \/ Cut(d)'
    BY DEF ClosedInv
  <2>1. Whole(d) \/ Cut(d)
    BY <1>1 DEF ClosedInv
  <2>2. CASE d # c
    <3>1. Stream(d) => Stream(d)'
      BY <1>13, <2>2
    <3> QED
      BY <1>1, <1>4, <2>1, <2>2, <3>1, ClosedSame
  <2>3. CASE d = c
    <3>1. CASE Whole(c)
      <4>1. buffer[s] = <<>>
        BY <1>1, <3>1 DEF Whole, WriteDone
      <4>2. Stream(c)'
        BY <1>2, <1>13, <3>1, <4>1 DEF Whole
      <4>3. \A t \in Sessions : serves'[t] = c /\ pc'[t] = "end" => buffer'[t] = <<>>
        BY <1>1, <1>2, <1>4 DEF RunInv, Single
      <4> QED
        BY <1>1, <1>2, <2>3, <3>1, <4>2, <4>3, WholeSame
    <3>2. CASE Cut(c)
      <4>1. conn[c].err # "none"
        BY <1>1, <3>2 DEF Cut
      <4> QED
        BY <1>1, <1>2, <2>3, <3>2, <4>1, CutSame
    <3> QED
      BY <2>1, <2>3, <3>1, <3>2
  <2> QED
    BY <2>2, <2>3
<1> QED
  BY <1>6, <1>7, <1>8, <1>9, <1>10, <1>11, <1>12, <1>14, <1>15 DEF RunInv

\* Only a client that has closed makes write fail, or kills the process.
LEMMA WriteFailsKeeps ==
  ASSUME RunInv, ClosedInv, NEW s \in Sessions, WriteFails(s), ~Ended'
  PROVE  RunInv' /\ ClosedInv'
<1> PICK c : c = serves[s]
  OBVIOUS
<1>1. /\ pc[s] = "write" /\ last_bytes[s] = 0 /\ conn[c].err # "none"
      /\ conn' = [conn EXCEPT ![c].err = "none"]
      /\ pc' = [pc EXCEPT ![s] = "end"]
      /\ UNCHANGED <<main, queue, serves, buffer, last_bytes, client, sent, got>>
  BY DEF WriteFails, Die, Goto, Ended, clientVars
<1>2. pc'[s] = "end" /\ \A t \in Sessions : t # s => pc'[t] = pc[t]
  BY <1>1 DEF RunInv, ServerTypes
<1>3. c # NoClient /\ c \in Clients /\ client[c] = "closed"
  BY <1>1 DEF RunInv, SessionInv, ServerTypes, ClientInv
<1>4. /\ conn' \in [Clients -> Connection]
      /\ \A d \in Clients :
           /\ conn'[d].up = conn[d].up /\ conn'[d].down = conn[d].down
           /\ conn'[d].upFin = conn[d].upFin /\ conn'[d].downFin = conn[d].downFin
           /\ d # c => conn'[d] = conn[d]
  <2>1. conn \in [Clients -> Connection]
    BY DEF RunInv, ConnTypes
  <2>2. conn[c] \in Connection /\ conn'[c] = [conn[c] EXCEPT !.err = "none"]
    BY <1>1, <1>3, <2>1
  <2>3. /\ conn'[c] \in Connection
        /\ conn'[c].up = conn[c].up /\ conn'[c].down = conn[c].down
        /\ conn'[c].upFin = conn[c].upFin /\ conn'[c].downFin = conn[c].downFin
    BY ONLY <2>2, WithErr
  <2>4. \A d \in Clients : d # c => conn'[d] = conn[d]
    BY <1>1, <2>1
  <2>5. conn' \in [Clients -> Connection]
    BY <1>1, <1>3, <2>1, <2>2, <2>3
  <2> QED
    BY <2>3, <2>4, <2>5
<1>5. \A i \in DOMAIN queue : queue[i] \in Clients
  BY DEF RunInv, ServerTypes
<1>6. ServerTypes'
  BY <1>1, <1>2 DEF RunInv, ServerTypes
<1>7. (BufferTypes /\ ClientTypes)'
  BY <1>1 DEF RunInv, BufferTypes, ClientTypes
<1>8. ConnTypes'
  BY <1>4 DEF RunInv, ConnTypes
<1>9. (Room /\ Single)'
  BY <1>1 DEF RunInv, Room, Serving, Single
<1>10. SessionInv'
  BY <1>1, <1>2, <1>3 DEF RunInv, SessionInv, ServerTypes
<1>11. QueueInv'
  BY <1>1, <1>4, <1>5 DEF RunInv, QueueInv
<1>12. ServedInv'
  BY <1>1, <1>4 DEF RunInv, ServedInv, ServerTypes
<1>13. ClientInv'
  <2>1. \A d \in Clients : AllRead(d)' <=> AllRead(d)
    BY <1>4 DEF AllRead
  <2>2. \A d \in Clients : client[d] # "closed" => conn'[d].err = conn[d].err
    BY <1>3, <1>4
  <2> QED
    BY <1>1, <1>4, <2>1, <2>2 DEF RunInv, ClientInv
<1>14. EndInv'
  <2> SUFFICES ASSUME NEW t \in Sessions, serves[t] # NoClient,
                      client[serves[t]] # "closed"
               PROVE  /\ pc'[t] = "write" /\ buffer[t] = <<>> /\ last_bytes[t] = 0 =>
                           conn'[serves[t]].upFin /\ conn'[serves[t]].up = <<>>
                      /\ pc'[t] = "end" => /\ conn'[serves[t]].upFin
                                           /\ conn'[serves[t]].up = <<>>
                                           /\ buffer[t] = <<>>
    BY <1>1 DEF EndInv, AllRead
  <2>1. t # s /\ serves[t] \in Clients
    BY <1>3 DEF RunInv, ServerTypes
  <2>2. pc'[t] = pc[t]
    BY <1>2, <2>1
  <2> QED
    BY <1>4, <2>1, <2>2 DEF RunInv, EndInv, AllRead
<1>15. Complete'
  BY <1>1 DEF RunInv, Complete, Sent
<1>16. StreamsKept
  BY <1>1, <1>4, <1>9, StreamSame DEF StreamsKept
<1>17. Unbroken'
  BY <1>1, <1>16, UnbrokenKept DEF RunInv
<1>18. ClosedInv'
  <2> SUFFICES ASSUME NEW d \in Clients, client'[d] = "closed"
               PROVE  Whole(d)' \/ Cut(d)'
    BY DEF ClosedInv
  <2>1. Whole(d) \/ Cut(d)
    BY <1>1 DEF ClosedInv
  <2>2. Stream(d) => Stream(d)'
    BY <1>16 DEF StreamsKept
  <2>3. CASE d # c
    BY <1>1, <1>2, <1>4, <2>1, <2>2, <2>3, ClosedSame
  <2>4. CASE d = c
    <3>1. Cut(c) /\ c # NoClient /\ conn[c].err # "none"
      BY <1>1, <1>3, <2>1, <2>4 DEF Whole
    <3>2. \A t \in Sessions : serves'[t] = c => t = s
      BY <1>1, <3>1 DEF RunInv, Single
    <3>3. \A i \in DOMAIN queue' : queue'[i] # c
      BY <1>1 DEF RunInv, QueueInv
    <3>4. conn'[c].down = <<>> /\ IsPrefix(got'[c], Sent(c)')
      BY <1>1, <1>4, <2>4, <3>1 DEF Cut, Sent
    <3> QED
      BY <1>2, <1>3, <2>4, <3>2, <3>3, <3>4 DEF Cut
  <2> QED
    BY <2>3, <2>4
<1> QED
  BY <1>6, <1>7, <1>8, <1>9, <1>10, <1>11, <1>12, <1>13, <1>14, <1>15,
     <1>17, <1>18 DEF RunInv

\* The session gives its connection up; the buffer it drops is empty unless the
\* client has closed.
LEMMA EndKeeps ==
  ASSUME RunInv, ClosedInv, NEW s \in Sessions, End(s)
  PROVE  RunInv' /\ ClosedInv'
<1> PICK c : c = serves[s]
  OBVIOUS
<1>1. /\ pc[s] = "end" /\ pc' = [pc EXCEPT ![s] = "none"]
      /\ serves' = [serves EXCEPT ![s] = NoClient]
      /\ buffer' = [buffer EXCEPT ![s] = <<>>]
      /\ UNCHANGED <<main, queue, last_bytes, client, sent, got>>
  BY DEF End, Goto, clientVars
<1>2. \/ c = NoClient /\ conn' = conn
      \/ c # NoClient /\ conn' = [conn EXCEPT ![c].downFin = TRUE]
  BY DEF End
<1>3. last_bytes[s] = 0
  BY <1>1 DEF RunInv, SessionInv
<1>4. c # NoClient => /\ c \in Clients /\ client[c] # "new"
                      /\ client[c] # "closed" => AllRead(c) /\ buffer[s] = <<>>
  BY <1>1 DEF RunInv, ServerTypes, ServedInv, EndInv
<1>5. /\ pc'[s] = "none" /\ serves'[s] = NoClient /\ buffer'[s] = <<>>
      /\ \A t \in Sessions : t # s => /\ pc'[t] = pc[t] /\ serves'[t] = serves[t]
                                     /\ buffer'[t] = buffer[t]
  BY <1>1 DEF RunInv, ServerTypes, BufferTypes
<1>6. /\ conn' \in [Clients -> Connection]
      /\ \A d \in Clients :
           /\ conn'[d].up = conn[d].up /\ conn'[d].down = conn[d].down
           /\ conn'[d].upFin = conn[d].upFin /\ conn'[d].err = conn[d].err
           /\ d # c => conn'[d] = conn[d]
  <2>1. conn \in [Clients -> Connection]
    BY DEF RunInv, ConnTypes
  <2>2. CASE conn' = conn
    BY <2>1, <2>2
  <2>3. CASE c \in Clients /\ conn' = [conn EXCEPT ![c].downFin = TRUE]
    <3>1. conn[c] \in Connection /\ conn'[c] = [conn[c] EXCEPT !.downFin = TRUE]
      BY <2>1, <2>3
    <3>2. /\ conn'[c] \in Connection
          /\ conn'[c].up = conn[c].up /\ conn'[c].down = conn[c].down
          /\ conn'[c].upFin = conn[c].upFin /\ conn'[c].err = conn[c].err
      BY ONLY <3>1, WithDownFin
    <3>3. \A d \in Clients : d # c => conn'[d] = conn[d]
      BY <2>1, <2>3
    <3>4. conn' \in [Clients -> Connection]
      BY <2>1, <2>3, <3>1, <3>2
    <3> QED
      BY <3>2, <3>3, <3>4
  <2> QED
    BY <1>2, <1>4, <2>2, <2>3
<1>7. (ServerTypes /\ ClientTypes)'
  BY <1>1 DEF RunInv, ServerTypes, ClientTypes
<1>8. BufferTypes'
  <2>1. <<>> \in Seq(Byte) /\ Len(<<>>) = 0 /\ BufferSize \in Nat
    BY EmptySeq, FiniteSlots
  <2>2. buffer' \in [Sessions -> Seq(Byte)] /\ last_bytes' \in [Sessions -> 0..BufferSize]
    BY <1>1, <2>1 DEF RunInv, BufferTypes
  <2>3. \A t \in Sessions : Len(buffer'[t]) + last_bytes'[t] <= BufferSize
    BY <1>1, <1>3, <1>5, <2>1 DEF RunInv, BufferTypes
  <2> QED
    BY <2>2, <2>3 DEF BufferTypes
<1>9. ConnTypes'
  BY <1>6 DEF RunInv, ConnTypes
<1>10. Room'
  <2>1. Serving' \subseteq Serving
    BY <1>5 DEF Serving
  <2>2. Cardinality(Serving') <= Cardinality(Serving) /\ Cardinality(Serving') \in Nat
    BY <2>1, FiniteSlots, FS_Subset, FS_CardinalityType
  <2> QED
    BY <2>2, FiniteSlots DEF RunInv, Room
<1>11. Single'
  BY <1>5 DEF RunInv, Single
<1>12. SessionInv'
  BY <1>1, <1>3, <1>5 DEF RunInv, SessionInv
<1>13. QueueInv'
  <2>1. \A i \in DOMAIN queue : /\ queue[i] \in Clients /\ queue[i] # c
                                /\ queue[i] # NoClient
    BY EchoAssumption DEF RunInv, ServerTypes, QueueInv
  <2>2. \A i \in DOMAIN queue : \A t \in Sessions : serves'[t] # queue[i]
    BY <1>5, <2>1 DEF RunInv, QueueInv
  <2>3. \A i \in DOMAIN queue : conn'[queue[i]] = conn[queue[i]]
    BY <1>6, <2>1
  <2> QED
    BY <1>1, <2>2, <2>3 DEF RunInv, QueueInv
<1>14. ServedInv'
  <2> SUFFICES ASSUME NEW t \in Sessions, serves'[t] # NoClient
               PROVE  client[serves'[t]] # "new" /\ ~conn'[serves'[t]].downFin
    BY <1>1 DEF ServedInv
  <2>1. t # s /\ serves'[t] = serves[t]
    BY <1>5
  <2>2. serves[t] # c /\ serves[t] \in Clients
    BY <2>1 DEF RunInv, Single, ServerTypes
  <2>3. conn'[serves[t]] = conn[serves[t]]
    BY <1>6, <2>2
  <2> QED
    BY <2>1, <2>3 DEF RunInv, ServedInv
<1>15. ClientInv'
  <2>1. \A d \in Clients : AllRead(d)' <=> AllRead(d)
    BY <1>6 DEF AllRead
  <2>2. \A d \in Clients : d = c => /\ client[d] # "new"
                                    /\ client[d] # "closed" => AllRead(d)
    BY <1>4, EchoAssumption
  <2> QED
    BY <1>1, <1>6, <2>1, <2>2 DEF RunInv, ClientInv
<1>16. EndInv'
  <2> SUFFICES ASSUME NEW t \in Sessions, serves'[t] # NoClient,
                      client[serves'[t]] # "closed"
               PROVE  /\ pc'[t] = "write" /\ buffer'[t] = <<>> /\ last_bytes[t] = 0 =>
                           conn'[serves'[t]].upFin /\ conn'[serves'[t]].up = <<>>
                      /\ pc'[t] = "end" => /\ conn'[serves'[t]].upFin
                                           /\ conn'[serves'[t]].up = <<>>
                                           /\ buffer'[t] = <<>>
    BY <1>1 DEF EndInv, AllRead
  <2>1. t # s /\ serves'[t] = serves[t] /\ serves[t] \in Clients
    BY <1>5 DEF RunInv, ServerTypes
  <2> QED
    BY <1>5, <1>6, <2>1 DEF RunInv, EndInv, AllRead
<1>17. Complete'
  BY <1>1 DEF RunInv, Complete, Sent
<1>18. \A d \in Clients :
         (d = c => buffer[s] = <<>>) /\ Stream(d) => Stream(d)'
  <2> SUFFICES ASSUME NEW d \in Clients, d = c => buffer[s] = <<>>, Stream(d)
               PROVE  Stream(d)'
    OBVIOUS
  <2>1. CASE d # c
    <3>1. \A t \in Sessions : serves'[t] = d <=> serves[t] = d
      BY <1>5, <2>1, EchoAssumption
    <3>2. \A t \in Sessions : serves[t] = d => buffer'[t] = buffer[t]
      BY <1>5, <2>1
    <3> QED
      BY <1>1, <1>6, <1>11, <3>1, <3>2, StreamSame
  <2>2. CASE d = c
    <3>1. c # NoClient /\ buffer[s] = <<>>
      BY <2>2, EchoAssumption
    <3>2. \A t \in Sessions : serves'[t] # c
      BY <1>5, <3>1 DEF RunInv, Single
    <3>3. Buffered(c) = <<>> /\ Buffered(c)' = <<>>
      BY <3>1, <3>2, BufferedServed, BufferedNext DEF RunInv
    <3>4. Sent(c)' = Sent(c)
      BY <1>1 DEF Sent
    <3> QED
      <4>1. got[c] \o conn[c].down \o Buffered(c) \o conn[c].up = Sent(c)
        BY <2>2 DEF Stream
      <4>2. /\ got'[c] = got[c]
            /\ conn'[c].down = conn[c].down
            /\ conn'[c].up = conn[c].up
        BY <1>1, <1>6, <2>2
      <4> QED
        BY <2>2, <3>3, <3>4, <4>1, <4>2 DEF Stream
  <2> QED
    BY <2>1, <2>2
<1>19. Unbroken'
  BY <1>1, <1>4, <1>18, EchoAssumption DEF RunInv, Unbroken
<1>20. ClosedInv'
  <2> SUFFICES ASSUME NEW d \in Clients, client'[d] = "closed"
               PROVE  Whole(d)' \/ Cut(d)'
    BY DEF ClosedInv
  <2>1. Whole(d) \/ Cut(d)
    BY <1>1 DEF ClosedInv
  <2>2. CASE d # c
    <3>1. Stream(d) => Stream(d)'
      BY <1>18, <2>2
    <3>2. \A t \in Sessions : serves'[t] = d =>
            serves[t] = d /\ pc'[t] = pc[t] /\ buffer'[t] = buffer[t]
      BY <1>5, EchoAssumption
    <3> QED
      BY <1>1, <1>6, <2>1, <2>2, <3>1, <3>2, ClosedSame
  <2>3. CASE d = c
    <3>1. \A t \in Sessions : serves'[t] # c
      BY <1>5, <2>3, EchoAssumption DEF RunInv, Single
    <3>2. CASE Whole(c)
      <4>1. buffer[s] = <<>>
        BY <1>1, <3>2 DEF Whole
      <4>2. Stream(c)'
        BY <1>18, <2>3, <3>2, <4>1 DEF Whole
      <4> QED
        BY <1>6, <2>3, <3>1, <3>2, <4>2, WholeSame
    <3>3. CASE Cut(c)
      <4>1. conn'[c].down = <<>> /\ IsPrefix(got'[c], Sent(c)')
        BY <1>1, <1>6, <2>3, <3>3 DEF Cut, Sent
      <4>2. conn'[c].err = "none" => \A i \in DOMAIN queue' : queue'[i] # c
        BY <1>1, <1>6, <2>3, <3>3 DEF Cut
      <4> QED
        BY <2>3, <3>1, <4>1, <4>2 DEF Cut
    <3> QED
      BY <2>1, <2>3, <3>2, <3>3
  <2> QED
    BY <2>2, <2>3
<1> QED
  BY <1>7, <1>8, <1>9, <1>10, <1>11, <1>12, <1>13, <1>14, <1>15, <1>16, <1>17,
     <1>19, <1>20 DEF RunInv

-----------------------------------------------------------------------------
(* The clients and the kernel *)

\* What they do leaves the server's threads alone.
LEMMA ServerSame ==
  ASSUME RunInv, UNCHANGED <<main, serverVars>>
  PROVE  BufferTypes' /\ Room' /\ Single' /\ SessionInv'
<1> USE DEF RunInv, serverVars
<1>1. BufferTypes'
  BY DEF BufferTypes
<1>2. (Room /\ Single)'
  BY DEF Room, Serving, Single
<1>3. SessionInv'
  BY DEF SessionInv
<1> QED
  BY <1>1, <1>2, <1>3

\* A new connection is the last in the queue, with no session yet.
LEMMA ClientConnectKeeps ==
  ASSUME RunInv, ClosedInv, NEW c \in Clients, ClientConnect(c)
  PROVE  RunInv' /\ ClosedInv'
<1>1. /\ client[c] = "new"
      /\ client' = [client EXCEPT ![c] = "open"] /\ queue' = Append(queue, c)
      /\ UNCHANGED <<main, pc, serves, buffer, last_bytes, sent, got, conn>>
  BY DEF ClientConnect, serverVars
<1>2. /\ queue' \in Seq(Clients) /\ Len(queue') = Len(queue) + 1
      /\ \A i \in 1..Len(queue) : queue'[i] = queue[i] /\ queue[i] \in Clients
      /\ queue'[Len(queue) + 1] = c /\ Len(queue) \in Nat
      /\ DOMAIN queue = 1..Len(queue) /\ DOMAIN queue' = 1..(Len(queue) + 1)
  <2>1. queue \in Seq(Clients)
    BY DEF RunInv, ServerTypes
  <2> QED
    BY <1>1, <2>1, AppendProperties
<1>3. client'[c] = "open" /\ \A d \in Clients : d # c => client'[d] = client[d]
  BY <1>1 DEF RunInv, ClientTypes
<1>4. /\ \A i \in DOMAIN queue : queue[i] # c
      /\ \A s \in Sessions : serves[s] # c
      /\ ~conn[c].downFin
  BY <1>1, EchoAssumption DEF RunInv, QueueInv, ServedInv, ClientInv
<1>5. (ServerTypes /\ ClientTypes /\ ConnTypes)'
  BY <1>1, <1>2 DEF RunInv, ServerTypes, ClientTypes, ConnTypes
<1>6. BufferTypes' /\ Room' /\ Single' /\ SessionInv'
  BY <1>1, ServerSame DEF serverVars
<1>7. QueueInv'
  <2>1. \A i \in DOMAIN queue' : i \in DOMAIN queue \/ i = Len(queue) + 1
    BY <1>2
  <2>2. \A i, j \in DOMAIN queue' : queue'[i] = queue'[j] => i = j
    BY <1>2, <1>4, <2>1 DEF RunInv, QueueInv
  <2>3. \A i \in DOMAIN queue' :
          /\ client'[queue'[i]] # "new" /\ ~conn[queue'[i]].downFin
          /\ \A s \in Sessions : serves[s] # queue'[i]
    BY <1>2, <1>3, <1>4, <2>1 DEF RunInv, QueueInv
  <2> QED
    BY <1>1, <2>2, <2>3 DEF QueueInv
<1>8. ServedInv'
  BY <1>1, <1>3, <1>4 DEF RunInv, ServedInv, ServerTypes
<1>9. ClientInv'
  BY <1>1, <1>3 DEF RunInv, ClientInv, AllRead
<1>10. EndInv'
  BY <1>1, <1>3, <1>4 DEF RunInv, EndInv, AllRead, ServerTypes
<1>11. Complete'
  BY <1>1, <1>3 DEF RunInv, Complete, Sent
<1>12. StreamsKept
  BY <1>1, <1>6, StreamSame DEF StreamsKept
<1>13. Unbroken'
  BY <1>1, <1>3, <1>12, UnbrokenKept DEF RunInv
<1>14. ClosedInv'
  <2> SUFFICES ASSUME NEW d \in Clients, client'[d] = "closed"
               PROVE  Whole(d)' \/ Cut(d)'
    BY DEF ClosedInv
  <2>1. d # c /\ client[d] = "closed"
    BY <1>3
  <2>2. Whole(d) \/ Cut(d)
    BY <2>1 DEF ClosedInv
  <2>3. (\A i \in DOMAIN queue : queue[i] # d)
          => \A i \in DOMAIN queue' : queue'[i] # d
    BY <1>2, <2>1
  <2> QED
    BY <1>1, <1>12, <2>2, <2>3, ClosedSame DEF StreamsKept
<1> QED
  BY <1>5, <1>6, <1>7, <1>8, <1>9, <1>10, <1>11, <1>13, <1>14 DEF RunInv

\* The next byte goes behind the others, and no session has seen the end.
LEMMA ClientSendKeeps ==
  ASSUME RunInv, ClosedInv, NEW c \in Clients, ClientSend(c)
  PROVE  RunInv' /\ ClosedInv'
<1> PICK b : b = <<c, sent[c] + 1>>
  OBVIOUS
<1>1. /\ client[c] = "open" /\ sent[c] < ToSend[c] /\ Len(conn[c].up) < UpRoom
      /\ sent' = [sent EXCEPT ![c] = @ + 1]
      /\ UNCHANGED <<main, queue, pc, serves, buffer, last_bytes, client, got>>
  BY DEF ClientSend, serverVars
<1>2. /\ sent'[c] = sent[c] + 1 /\ sent[c] \in Nat /\ ToSend[c] \in Nat
      /\ \A d \in Clients : d # c => sent'[d] = sent[d]
  BY <1>1, EchoAssumption DEF RunInv, ClientTypes
<1>3. conn' = [conn EXCEPT ![c].up = Append(@, b)]
  BY <1>2 DEF ClientSend
<1>4. b \in Byte
  BY <1>1, <1>2 DEF Byte
<1>5. conn[c] \in Connection /\ conn[c].up \in Seq(Byte)
  BY DEF RunInv, ConnTypes, Connection
<1> DEFINE x == Append(conn[c].up, b)
<1>6. x \in Seq(Byte) /\ Len(x) = Len(conn[c].up) + 1
  BY <1>4, <1>5, AppendProperties
<1>7. /\ conn'[c] = [conn[c] EXCEPT !.up = x]
      /\ \A d \in Clients : d # c => conn'[d] = conn[d]
  BY <1>3 DEF RunInv, ConnTypes
<1> HIDE DEF x
<1>8. /\ conn'[c] \in Connection /\ conn'[c].up = x
      /\ conn'[c].down = conn[c].down /\ conn'[c].upFin = conn[c].upFin
      /\ conn'[c].downFin = conn[c].downFin /\ conn'[c].err = conn[c].err
  BY ONLY <1>5, <1>6, <1>7, WithUp
<1>9. ~conn[c].upFin /\ ~conn[c].downFin /\ conn[c].err = "none"
  BY <1>1 DEF RunInv, ClientInv, AllRead
<1>10. ServerTypes'
  BY <1>1 DEF RunInv, ServerTypes
<1>11. ClientTypes'
  BY <1>1, <1>2 DEF RunInv, ClientTypes
<1>12. ConnTypes'
  <2>1. conn' \in [Clients -> Connection]
    BY <1>3, <1>7, <1>8 DEF RunInv, ConnTypes
  <2>2. \A d \in Clients : Len(conn'[d].up) <= UpRoom /\ Len(conn'[d].down) <= DownRoom
    <3>1. Len(conn[c].up) \in Nat /\ UpRoom \in Nat /\ Len(conn[c].down) <= DownRoom
      BY <1>5, FiniteSlots DEF RunInv, ConnTypes
    <3>2. Len(conn'[c].up) <= UpRoom /\ Len(conn'[c].down) <= DownRoom
      BY <1>1, <1>6, <1>8, <3>1
    <3> QED
      BY <1>7, <3>2 DEF RunInv, ConnTypes
  <2> QED
    BY <2>1, <2>2 DEF ConnTypes
<1>13. BufferTypes' /\ Room' /\ Single' /\ SessionInv'
  BY <1>1, ServerSame DEF serverVars
<1>14. \A d \in Clients : conn'[d].downFin = conn[d].downFin
  BY <1>7, <1>8
<1>15. QueueInv'
  <2>1. \A i \in DOMAIN queue : queue[i] \in Clients
    BY DEF RunInv, ServerTypes
  <2> QED
    BY <1>1, <1>14, <2>1 DEF RunInv, QueueInv
<1>16. ServedInv'
  BY <1>1, <1>14 DEF RunInv, ServedInv, ServerTypes
<1>17. ClientInv'
  <2>1. \A d \in Clients : d # c => (AllRead(d)' <=> AllRead(d))
    BY <1>7 DEF AllRead
  <2> QED
    BY <1>1, <1>7, <1>8, <1>9, <2>1 DEF RunInv, ClientInv
<1>18. EndInv'
  <2>1. \A d \in Clients : AllRead(d) => AllRead(d)'
    BY <1>7, <1>9 DEF AllRead
  <2>2. \A s \in Sessions : serves[s] # NoClient => serves[s] \in Clients
    BY DEF RunInv, ServerTypes
  <2> SUFFICES ASSUME NEW s \in Sessions, serves[s] # NoClient,
                      client[serves[s]] # "closed"
               PROVE  /\ pc[s] = "write" /\ buffer[s] = <<>> /\ last_bytes[s] = 0 =>
                           conn'[serves[s]].upFin /\ conn'[serves[s]].up = <<>>
                      /\ pc[s] = "end" => /\ conn'[serves[s]].upFin
                                          /\ conn'[serves[s]].up = <<>>
                                          /\ buffer[s] = <<>>
    BY <1>1 DEF EndInv, AllRead
  <2> QED
    BY <2>1, <2>2 DEF RunInv, EndInv, AllRead
<1>19. Complete'
  <2> SUFFICES ASSUME NEW d \in Clients, client'[d] = "done"
               PROVE  got'[d] = Sent(d)'
    BY DEF Complete
  <2>1. d # c
    BY <1>1
  <2>2. Sent(d)' = Sent(d)
    BY <1>2, <2>1 DEF Sent
  <2> QED
    BY <1>1, <2>2 DEF RunInv, Complete
<1>20. StreamsKept
  <2> SUFFICES ASSUME NEW d \in Clients, Stream(d)
               PROVE  Stream(d)'
    BY DEF StreamsKept
  <2>1. CASE d # c
    BY <1>1, <1>2, <1>7, <1>13, <2>1, StreamSame
  <2>2. CASE d = c
    <3>1. Buffered(c)' = Buffered(c) /\ got'[c] = got[c]
      BY <1>1 DEF Buffered, Serving
    <3>2. /\ got[c] \in Seq(Byte) /\ conn[c].down \in Seq(Byte)
          /\ Buffered(c) \in Seq(Byte)
      BY PartsAreStreams DEF RunInv
    <3>3. got[c] \o conn[c].down \o Buffered(c) \o conn[c].up = Sent(c)
      BY <2>2 DEF Stream
    <3>4. got[c] \o conn[c].down \o Buffered(c) \o x
            = Append(got[c] \o conn[c].down \o Buffered(c) \o conn[c].up, b)
      <4> DEFINE a == got[c]
                 d0 == conn[c].down
                 b0 == Buffered(c)
                 u == conn[c].up
      <4>1. /\ a \in Seq(Byte)
            /\ d0 \in Seq(Byte)
            /\ b0 \in Seq(Byte)
            /\ u \in Seq(Byte)
        BY <1>5, <3>2
      <4> HIDE DEF a, d0, b0, u
      <4>2. \A e, f \in Seq(Byte) : \A g \in Byte :
              a \o d0 \o e \o Append(f, g) = Append(a \o d0 \o e \o f, g)
        BY ONLY <4>1, SendLast, Zenon
      <4>3. a \o d0 \o b0 \o Append(u, b) = Append(a \o d0 \o b0 \o u, b)
        BY ONLY <1>4, <4>1, <4>2, Zenon
      <4> QED
        BY <4>3 DEF a, d0, b0, u, x
    <3>5. Append(Sent(c), b) = Sent(c)'
      <4>1. sent[c] + 1 <= ToSend[c]
        BY <1>1, <1>2
      <4>2. Append([i \in 1..sent[c] |-> <<c, i>>], <<c, sent[c] + 1>>)
              = [i \in 1..(sent[c] + 1) |-> <<c, i>>]
        BY <1>2, <4>1, FirstBytes
      <4> QED
        BY <1>2, <4>2 DEF Sent
    <3> QED
      BY <1>8, <2>2, <3>1, <3>3, <3>4, <3>5 DEF Stream
  <2> QED
    BY <2>1, <2>2
<1>21. Unbroken'
  BY <1>1, <1>20, UnbrokenKept DEF RunInv
<1>22. ClosedInv'
  <2> SUFFICES ASSUME NEW d \in Clients, client'[d] = "closed"
               PROVE  Whole(d)' \/ Cut(d)'
    BY DEF ClosedInv
  <2>1. d # c /\ client[d] = "closed"
    BY <1>1
  <2>2. Whole(d) \/ Cut(d)
    BY <2>1 DEF ClosedInv
  <2> QED
    BY <1>1, <1>2, <1>7, <1>20, <2>1, <2>2, ClosedSame DEF StreamsKept
<1> QED
  BY <1>10, <1>11, <1>12, <1>13, <1>15, <1>16, <1>17, <1>18, <1>19, <1>21,
     <1>22 DEF RunInv

\* The end of the stream comes after the last byte.
LEMMA ClientShutdownKeeps ==
  ASSUME RunInv, ClosedInv, NEW c \in Clients, ClientShutdown(c)
  PROVE  RunInv' /\ ClosedInv'
<1>1. /\ client[c] = "open"
      /\ client' = [client EXCEPT ![c] = "shut"]
      /\ conn' = [conn EXCEPT ![c].upFin = TRUE]
      /\ UNCHANGED <<main, queue, pc, serves, buffer, last_bytes, sent, got>>
  BY DEF ClientShutdown, serverVars
<1>2. client'[c] = "shut" /\ \A d \in Clients : d # c => client'[d] = client[d]
  BY <1>1 DEF RunInv, ClientTypes
<1>3. conn[c] \in Connection
  BY DEF RunInv, ConnTypes
<1>4. /\ conn'[c] = [conn[c] EXCEPT !.upFin = TRUE]
      /\ \A d \in Clients : d # c => conn'[d] = conn[d]
  BY <1>1 DEF RunInv, ConnTypes
<1>5. /\ conn'[c] \in Connection
      /\ conn'[c].up = conn[c].up /\ conn'[c].down = conn[c].down
      /\ conn'[c].upFin = TRUE
      /\ conn'[c].downFin = conn[c].downFin /\ conn'[c].err = conn[c].err
  BY ONLY <1>3, <1>4, WithUpFin
<1>6. ~conn[c].upFin /\ ~conn[c].downFin /\ conn[c].err = "none"
  BY <1>1 DEF RunInv, ClientInv, AllRead
<1>7. (ServerTypes /\ ClientTypes)'
  BY <1>1 DEF RunInv, ServerTypes, ClientTypes
<1>8. ConnTypes'
  <2>1. conn' \in [Clients -> Connection]
    BY <1>1, <1>4, <1>5 DEF RunInv, ConnTypes
  <2>2. \A d \in Clients : Len(conn'[d].up) <= UpRoom /\ Len(conn'[d].down) <= DownRoom
    BY <1>4, <1>5 DEF RunInv, ConnTypes
  <2> QED
    BY <2>1, <2>2 DEF ConnTypes
<1>9. BufferTypes' /\ Room' /\ Single' /\ SessionInv'
  BY <1>1, ServerSame DEF serverVars
<1>10. \A d \in Clients : conn'[d].downFin = conn[d].downFin
  BY <1>4, <1>5
<1>11. QueueInv'
  <2>1. \A i \in DOMAIN queue : queue[i] \in Clients
    BY DEF RunInv, ServerTypes
  <2> QED
    BY <1>1, <1>2, <1>10, <2>1 DEF RunInv, QueueInv
<1>12. ServedInv'
  BY <1>1, <1>2, <1>10 DEF RunInv, ServedInv, ServerTypes
<1>13. ClientInv'
  <2>1. \A d \in Clients : d # c => (AllRead(d)' <=> AllRead(d))
    BY <1>4 DEF AllRead
  <2> QED
    <3> SUFFICES ASSUME NEW d \in Clients
                 PROVE  /\ client'[d] # "closed" => conn'[d].err = "none"
                        /\ client'[d] \in {"new", "open"} => ~conn'[d].upFin
                        /\ client'[d] = "new" => ~conn'[d].downFin
                        /\ conn'[d].downFin /\ client'[d] # "closed" => AllRead(d)'
      BY DEF ClientInv
    <3>1. CASE d = c
      BY <1>2, <1>5, <1>6, <3>1
    <3>2. CASE d # c
      BY <1>2, <1>4, <2>1, <3>2 DEF RunInv, ClientInv
    <3> QED
      BY <3>1, <3>2
<1>14. EndInv'
  <2>1. \A d \in Clients : AllRead(d) => AllRead(d)'
    BY <1>4, <1>6 DEF AllRead
  <2>2. \A d \in Clients : client'[d] # "closed" => client[d] # "closed"
    BY <1>1, <1>2
  <2>3. \A s \in Sessions : serves[s] # NoClient => serves[s] \in Clients
    BY DEF RunInv, ServerTypes
  <2> SUFFICES ASSUME NEW s \in Sessions, serves[s] # NoClient,
                      client'[serves[s]] # "closed"
               PROVE  /\ pc[s] = "write" /\ buffer[s] = <<>> /\ last_bytes[s] = 0 =>
                           conn'[serves[s]].upFin /\ conn'[serves[s]].up = <<>>
                      /\ pc[s] = "end" => /\ conn'[serves[s]].upFin
                                          /\ conn'[serves[s]].up = <<>>
                                          /\ buffer[s] = <<>>
    BY <1>1 DEF EndInv, AllRead
  <2> QED
    BY <2>1, <2>2, <2>3 DEF RunInv, EndInv, AllRead
<1>15. Complete'
  BY <1>1, <1>2 DEF RunInv, Complete, Sent
<1>16. StreamsKept
  <2>1. \A d \in Clients : /\ conn'[d].up = conn[d].up
                            /\ conn'[d].down = conn[d].down
    BY <1>4, <1>5
  <2> QED
    BY <1>1, <1>9, <2>1, StreamSame DEF StreamsKept
<1>17. Unbroken'
  BY <1>1, <1>2, <1>16, UnbrokenKept DEF RunInv
<1>18. ClosedInv'
  <2> SUFFICES ASSUME NEW d \in Clients, client'[d] = "closed"
               PROVE  Whole(d)' \/ Cut(d)'
    BY DEF ClosedInv
  <2>1. d # c /\ client[d] = "closed"
    BY <1>2
  <2>2. Whole(d) \/ Cut(d)
    BY <2>1 DEF ClosedInv
  <2> QED
    BY <1>1, <1>4, <1>16, <2>1, <2>2, ClosedSame DEF StreamsKept
<1> QED
  BY <1>7, <1>8, <1>9, <1>11, <1>12, <1>13, <1>14, <1>15, <1>17, <1>18
     DEF RunInv

\* A byte moves from the connection to the client.
LEMMA ClientReceiveKeeps ==
  ASSUME RunInv, ClosedInv, NEW c \in Clients, ClientReceive(c)
  PROVE  RunInv' /\ ClosedInv'
<1>1. /\ client[c] \in {"open", "shut"} /\ conn[c].down # <<>>
      /\ got' = [got EXCEPT ![c] = Append(@, Head(conn[c].down))]
      /\ conn' = [conn EXCEPT ![c].down = Tail(@)]
      /\ UNCHANGED <<main, queue, pc, serves, buffer, last_bytes, client, sent>>
  BY DEF ClientReceive, serverVars
<1>2. /\ conn[c] \in Connection /\ conn[c].down \in Seq(Byte)
      /\ conn[c].up \in Seq(Byte) /\ got[c] \in Seq(Byte)
  BY DEF RunInv, ConnTypes, Connection, ClientTypes
<1>3. /\ Head(conn[c].down) \in Byte /\ Tail(conn[c].down) \in Seq(Byte)
      /\ Len(Tail(conn[c].down)) = Len(conn[c].down) - 1
  BY <1>1, <1>2, HeadTailProperties
<1>4. Append(got[c], Head(conn[c].down)) \in Seq(Byte)
  BY <1>2, <1>3, AppendProperties
<1> DEFINE x == Tail(conn[c].down)
<1>5. x \in Seq(Byte) /\ conn'[c] = [conn[c] EXCEPT !.down = x]
  BY <1>1, <1>3 DEF RunInv, ConnTypes
<1>6. /\ \A d \in Clients : d # c => conn'[d] = conn[d] /\ got'[d] = got[d]
      /\ got'[c] = Append(got[c], Head(conn[c].down))
  BY <1>1 DEF RunInv, ConnTypes, ClientTypes
<1> HIDE DEF x
<1>7. /\ conn'[c] \in Connection /\ conn'[c].down = x
      /\ conn'[c].up = conn[c].up /\ conn'[c].upFin = conn[c].upFin
      /\ conn'[c].downFin = conn[c].downFin /\ conn'[c].err = conn[c].err
  BY ONLY <1>2, <1>5, WithDown
<1>8. ServerTypes'
  BY <1>1 DEF RunInv, ServerTypes
<1>9. ClientTypes'
  BY <1>1, <1>4 DEF RunInv, ClientTypes
<1>10. ConnTypes'
  <2>1. conn' \in [Clients -> Connection]
    BY <1>1, <1>5, <1>7 DEF RunInv, ConnTypes
  <2>2. \A d \in Clients : Len(conn'[d].up) <= UpRoom /\ Len(conn'[d].down) <= DownRoom
    <3>1. /\ Len(conn[c].down) \in Nat /\ DownRoom \in Nat
          /\ Len(conn[c].down) <= DownRoom /\ Len(conn[c].up) <= UpRoom
      BY <1>2, FiniteSlots DEF RunInv, ConnTypes
    <3>2. Len(conn'[c].up) <= UpRoom /\ Len(conn'[c].down) <= DownRoom
      BY <1>3, <1>7, <3>1 DEF x
    <3> QED
      BY <1>6, <3>2 DEF RunInv, ConnTypes
  <2> QED
    BY <2>1, <2>2 DEF ConnTypes
<1>11. BufferTypes' /\ Room' /\ Single' /\ SessionInv'
  BY <1>1, ServerSame DEF serverVars
<1>12. \A d \in Clients :
         /\ conn'[d].downFin = conn[d].downFin /\ conn'[d].upFin = conn[d].upFin
         /\ conn'[d].up = conn[d].up /\ conn'[d].err = conn[d].err
  BY <1>6, <1>7
<1>13. QueueInv'
  <2>1. \A i \in DOMAIN queue : queue[i] \in Clients
    BY DEF RunInv, ServerTypes
  <2> QED
    BY <1>1, <1>12, <2>1 DEF RunInv, QueueInv
<1>14. ServedInv'
  BY <1>1, <1>12 DEF RunInv, ServedInv, ServerTypes
<1>15. ClientInv'
  BY <1>1, <1>12 DEF RunInv, ClientInv, AllRead
<1>16. EndInv'
  BY <1>1, <1>12 DEF RunInv, EndInv, AllRead, ServerTypes
<1>17. Complete'
  <2> SUFFICES ASSUME NEW d \in Clients, client'[d] = "done"
               PROVE  got'[d] = Sent(d)'
    BY DEF Complete
  <2>1. d # c
    BY <1>1
  <2>2. Sent(d)' = Sent(d)
    BY <1>1 DEF Sent
  <2> QED
    BY <1>1, <1>6, <2>1, <2>2 DEF RunInv, Complete
<1>18. StreamsKept
  <2> SUFFICES ASSUME NEW d \in Clients, Stream(d)
               PROVE  Stream(d)'
    BY DEF StreamsKept
  <2>1. CASE d # c
    BY <1>1, <1>6, <1>11, <2>1, StreamSame
  <2>2. CASE d = c
    <3>1. Buffered(c)' = Buffered(c) /\ Sent(c)' = Sent(c)
      BY <1>1 DEF Buffered, Serving, Sent
    <3>2. got[c] \o conn[c].down \o Buffered(c) \o conn[c].up = Sent(c)
      BY <2>2 DEF Stream
    <3>3. Append(got[c], Head(conn[c].down)) \o Tail(conn[c].down)
            = got[c] \o conn[c].down
      BY <1>1, <1>2, ReceiveHead
    <3> QED
      BY <1>6, <1>7, <2>2, <3>1, <3>2, <3>3 DEF x, Stream
  <2> QED
    BY <2>1, <2>2
<1>19. Unbroken'
  BY <1>1, <1>18, UnbrokenKept DEF RunInv
<1>20. ClosedInv'
  <2> SUFFICES ASSUME NEW d \in Clients, client'[d] = "closed"
               PROVE  Whole(d)' \/ Cut(d)'
    BY DEF ClosedInv
  <2>1. d # c /\ client[d] = "closed"
    BY <1>1
  <2>2. Whole(d) \/ Cut(d)
    BY <2>1 DEF ClosedInv
  <2> QED
    BY <1>1, <1>6, <1>18, <2>1, <2>2, ClosedSame DEF StreamsKept
<1> QED
  BY <1>8, <1>9, <1>10, <1>11, <1>13, <1>14, <1>15, <1>16, <1>17, <1>19,
     <1>20 DEF RunInv

\* At the end of the server's stream nothing is left on the way.
LEMMA ClientEndKeeps ==
  ASSUME RunInv, ClosedInv, NEW c \in Clients, ClientEnd(c)
  PROVE  RunInv' /\ ClosedInv'
<1>1. /\ client[c] \in {"open", "shut"} /\ conn[c].down = <<>> /\ conn[c].downFin
      /\ client' = [client EXCEPT ![c] = "done"]
      /\ UNCHANGED <<main, queue, pc, serves, buffer, last_bytes, sent, got, conn>>
  BY DEF ClientEnd, serverVars
<1>2. client'[c] = "done" /\ \A d \in Clients : d # c => client'[d] = client[d]
  BY <1>1 DEF RunInv, ClientTypes
<1>3. conn[c].up = <<>> /\ conn[c].upFin
  BY <1>1 DEF RunInv, ClientInv, AllRead
<1>4. \A s \in Sessions : serves[s] # c
  BY <1>1, EchoAssumption DEF RunInv, ServedInv
<1>5. (ServerTypes /\ ClientTypes /\ ConnTypes)'
  BY <1>1 DEF RunInv, ServerTypes, ClientTypes, ConnTypes
<1>6. BufferTypes' /\ Room' /\ Single' /\ SessionInv'
  BY <1>1, ServerSame DEF serverVars
<1>7. QueueInv'
  <2>1. \A i \in DOMAIN queue : queue[i] \in Clients
    BY DEF RunInv, ServerTypes
  <2> QED
    BY <1>1, <1>2, <2>1 DEF RunInv, QueueInv
<1>8. ServedInv'
  BY <1>1, <1>2 DEF RunInv, ServedInv, ServerTypes
<1>9. ClientInv'
  BY <1>1, <1>2 DEF RunInv, ClientInv, AllRead
<1>10. EndInv'
  BY <1>1, <1>2, <1>4 DEF RunInv, EndInv, AllRead, ServerTypes
<1>11. Complete'
  <2> SUFFICES ASSUME NEW d \in Clients, client'[d] = "done"
               PROVE  got[d] = Sent(d)
    BY <1>1 DEF Complete, Sent
  <2>1. CASE d # c
    BY <1>2, <2>1 DEF RunInv, Complete
  <2>2. CASE d = c
    <3>1. Buffered(c) = <<>>
      BY <1>4, BufferedNone
    <3>2. got[c] \o <<>> \o <<>> \o <<>> = Sent(c)
      BY <1>1, <1>3, <3>1 DEF RunInv, Unbroken, Stream
    <3>3. got[c] \in Seq(Byte)
      BY DEF RunInv, ClientTypes
    <3>4. got[c] \o <<>> = got[c]
      BY <3>3, ConcatEmptySeq
    <3> QED
      BY <2>2, <3>2, <3>4
  <2> QED
    BY <2>1, <2>2
<1>12. StreamsKept
  BY <1>1, <1>6, StreamSame DEF StreamsKept
<1>13. Unbroken'
  BY <1>1, <1>2, <1>12, UnbrokenKept DEF RunInv
<1>14. ClosedInv'
  <2> SUFFICES ASSUME NEW d \in Clients, client'[d] = "closed"
               PROVE  Whole(d)' \/ Cut(d)'
    BY DEF ClosedInv
  <2>1. d # c /\ client[d] = "closed"
    BY <1>2
  <2>2. Whole(d) \/ Cut(d)
    BY <2>1 DEF ClosedInv
  <2> QED
    BY <1>1, <1>12, <2>1, <2>2, ClosedSame DEF StreamsKept
<1> QED
  BY <1>5, <1>6, <1>7, <1>8, <1>9, <1>10, <1>11, <1>13, <1>14 DEF RunInv

\* Of the connection of a client that has closed only the types matter.
LEMMA ClosedKeeps ==
  ASSUME RunInv, ClosedInv, NEW c \in Clients, NEW k \in Connection,
         Len(k.up) <= UpRoom, Len(k.down) <= DownRoom,
         k.downFin = conn[c].downFin, client[c] # "new",
         client' = [client EXCEPT ![c] = "closed"], conn' = [conn EXCEPT ![c] = k],
         UNCHANGED <<main, queue, serverVars, sent, got>>,
         Whole(c)' \/ Cut(c)'
  PROVE  RunInv' /\ ClosedInv'
<1>1. client'[c] = "closed" /\ \A d \in Clients : d # c => client'[d] = client[d]
  BY DEF RunInv, ClientTypes
<1>2. conn'[c] = k /\ \A d \in Clients : d # c => conn'[d] = conn[d]
  BY DEF RunInv, ConnTypes
<1>3. \A d \in Clients : conn'[d].downFin = conn[d].downFin
  BY <1>2
<1>4. UNCHANGED <<main, queue, pc, serves, buffer, last_bytes, sent, got>>
  BY DEF serverVars
<1>5. (ServerTypes /\ ClientTypes)'
  BY <1>4 DEF RunInv, ServerTypes, ClientTypes
<1>6. ConnTypes'
  BY <1>2 DEF RunInv, ConnTypes
<1>7. BufferTypes' /\ Room' /\ Single' /\ SessionInv'
  BY ServerSame
<1>8. QueueInv'
  <2>1. \A i \in DOMAIN queue : queue[i] \in Clients
    BY DEF RunInv, ServerTypes
  <2> QED
    BY <1>1, <1>3, <1>4, <2>1 DEF RunInv, QueueInv
<1>9. ServedInv'
  BY <1>1, <1>3, <1>4 DEF RunInv, ServedInv, ServerTypes
<1>10. ClientInv'
  BY <1>1, <1>2 DEF RunInv, ClientInv, AllRead
<1>11. EndInv'
  BY <1>1, <1>2, <1>4 DEF RunInv, EndInv, AllRead, ServerTypes
<1>12. Complete'
  BY <1>1, <1>4 DEF RunInv, Complete, Sent
<1>13. \A d \in Clients : d # c => (Stream(d) => Stream(d)')
  BY <1>2, <1>4, <1>7, StreamSame
<1>14. Unbroken'
  BY <1>1, <1>13 DEF RunInv, Unbroken
<1>15. ClosedInv'
  <2> SUFFICES ASSUME NEW d \in Clients, client'[d] = "closed"
               PROVE  Whole(d)' \/ Cut(d)'
    BY DEF ClosedInv
  <2>1. CASE d # c
    <3>1. Whole(d) \/ Cut(d)
      BY <1>1, <2>1 DEF ClosedInv
    <3>2. Stream(d) => Stream(d)'
      BY <1>13, <2>1
    <3> QED
      BY <1>2, <1>4, <2>1, <3>1, <3>2, ClosedSame
  <2> QED
    BY <2>1
<1> QED
  BY <1>5, <1>6, <1>7, <1>8, <1>9, <1>10, <1>11, <1>12, <1>14, <1>15 DEF RunInv

\* A client that closes leaves the end of its stream or a reset.
LEMMA ClientCloseKeeps ==
  ASSUME RunInv, ClosedInv, NEW c \in Clients, ClientClose(c)
  PROVE  RunInv' /\ ClosedInv'
<1> PICK k : k = IF conn[c].down # <<>> THEN Reset(c)
                 ELSE [conn[c] EXCEPT !.upFin = TRUE]
  OBVIOUS
<1>1. /\ client[c] # "new" /\ client' = [client EXCEPT ![c] = "closed"]
      /\ conn' = [conn EXCEPT ![c] = k]
      /\ UNCHANGED <<main, queue, serverVars, sent, got>>
      /\ client[c] # "closed"
  BY DEF ClientClose, RunInv, ConnTypes
<1>2. /\ conn[c] \in Connection /\ ConnTypes
      /\ Len(conn[c].up) <= UpRoom /\ Len(conn[c].down) <= DownRoom
      /\ DownRoom \in Nat /\ Len(<<>>) = 0
  BY FiniteSlots DEF RunInv, ConnTypes
<1>3. /\ k \in Connection /\ Len(k.up) <= UpRoom /\ Len(k.down) <= DownRoom
      /\ k.downFin = conn[c].downFin
  <2>1. CASE k = Reset(c)
    <3>1. /\ Reset(c) \in Connection
          /\ Reset(c).up = conn[c].up
          /\ Reset(c).down = <<>>
          /\ Reset(c).downFin = conn[c].downFin
      BY <1>2, ResetConnection
    <3>2. Len(Reset(c).down) <= DownRoom
      BY <1>2, <3>1
    <3> QED
      BY ONLY <1>2, <2>1, <3>1, <3>2
  <2>2. CASE k = [conn[c] EXCEPT !.upFin = TRUE]
    BY ONLY <1>2, <2>2, WithUpFin
  <2> QED
    BY <2>1, <2>2
<1>4. conn'[c] = k /\ UNCHANGED <<pc, serves, buffer>>
  BY <1>1 DEF RunInv, ConnTypes, serverVars
<1>5. Stream(c) /\ conn[c].err = "none"
  BY <1>1 DEF RunInv, Unbroken, ClientInv
<1>6. Whole(c)' \/ Cut(c)'
  <2>1. CASE conn[c].down # <<>>
    <3>1. k.down = <<>> /\ k.err # "none"
      BY <1>2, <2>1, ResetConnection
    <3>2. IsPrefix(got'[c], Sent(c)')
      BY <1>1, <1>5, StreamDelivered DEF RunInv, Sent
    <3> QED
      BY <1>4, <3>1, <3>2 DEF Cut
  <2>2. CASE conn[c].down = <<>>
    <3>1. /\ k.up = conn[c].up
          /\ k.down = conn[c].down
          /\ k.err = conn[c].err
      BY <1>2, <2>2, WithUpFin
    <3>2. Single'
      BY <1>4 DEF RunInv, Single
    <3>3. Stream(c)'
      BY <1>1, <1>4, <1>5, <3>1, <3>2, StreamSame
    <3>4. \A s \in Sessions : serves'[s] = c /\ pc'[s] = "end" => buffer'[s] = <<>>
      BY <1>1, <1>4, EchoAssumption DEF RunInv, EndInv
    <3> QED
      BY <1>4, <1>5, <3>1, <3>3, <3>4 DEF Whole
  <2> QED
    BY <2>1, <2>2
<1> QED
  BY <1>1, <1>3, <1>6, ClosedKeeps

\* A reset after that changes no more than the types allow.
LEMMA ResetArrivesKeeps ==
  ASSUME RunInv, ClosedInv, NEW c \in Clients, ResetArrives(c)
  PROVE  RunInv' /\ ClosedInv'
<1> PICK k : k = Reset(c)
  OBVIOUS
<1>1. /\ client[c] # "new" /\ client' = [client EXCEPT ![c] = "closed"]
      /\ conn' = [conn EXCEPT ![c] = k]
      /\ UNCHANGED <<main, queue, serverVars, sent, got>>
      /\ client[c] = "closed" /\ conn[c].down # <<>>
  BY DEF ResetArrives, clientVars, RunInv, ClientTypes
<1>2. /\ ConnTypes /\ Len(conn[c].up) <= UpRoom
      /\ DownRoom \in Nat /\ Len(<<>>) = 0
  BY FiniteSlots DEF RunInv, ConnTypes
<1>3. /\ k \in Connection /\ Len(k.up) <= UpRoom /\ Len(k.down) <= DownRoom
      /\ k.downFin = conn[c].downFin
  BY <1>2, ResetConnection
<1>4. Cut(c)'
  <2>1. conn'[c] = k
    BY <1>1 DEF RunInv, ConnTypes
  <2>2. k.down = <<>> /\ k.err # "none"
    <3>1. conn[c] \in Connection
      BY <1>2 DEF ConnTypes
    <3> QED
      BY <1>2, <3>1, ResetConnection
  <2>3. Whole(c)
    BY <1>1 DEF ClosedInv, Cut
  <2>4. IsPrefix(got[c], Sent(c))
    BY <2>3, StreamDelivered DEF RunInv, Whole
  <2> QED
    BY <1>1, <2>1, <2>2, <2>4 DEF Cut, Sent
<1> QED
  BY <1>1, <1>3, <1>4, ClosedKeeps

-----------------------------------------------------------------------------
(* The end of the process *)

\* The kernel closes the connections; what is on the way to a client stays.
LEMMA DieEnds ==
  ASSUME RunInv, ClosedInv, NEW how \in {"killed", "aborted"}, NEW waiting,
         Die(how, waiting)
  PROVE  Ended' /\ EndedInv'
<1>1. /\ main' = how /\ queue' = <<>>
      /\ pc' = [t \in Sessions |-> "none"]
      /\ serves' = [t \in Sessions |-> NoClient]
      /\ buffer' = [t \in Sessions |-> <<>>]
      /\ last_bytes' = [t \in Sessions |-> 0]
      /\ UNCHANGED <<client, sent, got>>
  BY DEF Die, clientVars
<1>2. <<>> \in Seq(Byte) /\ <<>> \in Seq(Clients) /\ Len(<<>>) = 0
  BY EmptySeq
<1>3. \A c \in Clients :
        conn'[c] = conn[c] \/ conn'[c] = [conn[c] EXCEPT !.downFin = TRUE]
  BY DEF Die
<1>4. \A c \in Clients : /\ conn'[c] \in Connection
                         /\ conn'[c].up = conn[c].up
                         /\ conn'[c].down = conn[c].down
  <2> TAKE c \in Clients
  <2>1. conn[c] \in Connection
    BY DEF RunInv, ConnTypes
  <2>2. /\ [conn[c] EXCEPT !.downFin = TRUE] \in Connection
        /\ [conn[c] EXCEPT !.downFin = TRUE].up = conn[c].up
        /\ [conn[c] EXCEPT !.downFin = TRUE].down = conn[c].down
    BY ONLY <2>1, WithDownFin
  <2>3. CASE conn'[c] = conn[c]
    BY <2>1, <2>3
  <2>4. CASE conn'[c] = [conn[c] EXCEPT !.downFin = TRUE]
    BY ONLY <2>2, <2>4
  <2> QED
    BY <1>3, <2>3, <2>4
<1>5. ServerTypes'
  BY <1>1, <1>2 DEF ServerTypes
<1>6. BufferTypes'
  BY <1>1, <1>2, FiniteSlots DEF BufferTypes
<1>7. ClientTypes'
  BY <1>1 DEF RunInv, ClientTypes
<1>8. ConnTypes'
  <2>1. conn' = [c \in Clients |-> conn'[c]]
    BY DEF Die
  <2>2. conn' \in [Clients -> Connection]
    BY <1>4, <2>1
  <2> QED
    BY <1>4, <2>2 DEF RunInv, ConnTypes
<1>9. Room'
  <2>1. Serving' = {}
    BY <1>1 DEF Serving
  <2> QED
    BY <2>1, FS_EmptySet, FiniteSlots DEF Room
<1>10. Delivered'
  BY <1>1, <1>4, RunDelivered DEF Delivered, Sent
<1> QED
  BY <1>1, <1>5, <1>6, <1>7, <1>8, <1>9, <1>10 DEF Ended, EndedInv

\* After that the threads are gone; the clients read what is left.
LEMMA EndedKeeps ==
  ASSUME EndedInv, Ended, [Next]_vars
  PROVE  Ended' /\ EndedInv'
<1>1. ASSUME UNCHANGED <<main, queue, serverVars, sent>>,
             ClientTypes', ConnTypes',
             \A c \in Clients : got'[c] \o conn'[c].down = got[c] \o conn[c].down
      PROVE  Ended' /\ EndedInv'
  <2>1. Ended' /\ ServerTypes' /\ (\A s \in Sessions : pc'[s] = "none")
    BY <1>1 DEF Ended, EndedInv, ServerTypes, serverVars
  <2>2. BufferTypes' /\ Room'
    BY <1>1 DEF EndedInv, BufferTypes, Room, Serving, serverVars
  <2>3. Delivered'
    BY <1>1 DEF EndedInv, Delivered, Sent
  <2> QED
    BY <1>1, <2>1, <2>2, <2>3 DEF EndedInv
<1>2. CASE UNCHANGED vars
  BY <1>1, <1>2 DEF vars, clientVars, EndedInv, ClientTypes, ConnTypes
<1>3. ASSUME NEW c \in Clients, ClientReceive(c)
      PROVE  Ended' /\ EndedInv'
  <2>1. /\ conn[c].down # <<>>
        /\ got' = [got EXCEPT ![c] = Append(@, Head(conn[c].down))]
        /\ conn' = [conn EXCEPT ![c].down = Tail(@)]
        /\ UNCHANGED <<main, queue, serverVars, client, sent>>
    BY <1>3 DEF ClientReceive
  <2>2. /\ conn[c] \in Connection /\ conn[c].down \in Seq(Byte)
        /\ got[c] \in Seq(Byte)
    BY DEF EndedInv, ConnTypes, Connection, ClientTypes
  <2>3. /\ Head(conn[c].down) \in Byte /\ Tail(conn[c].down) \in Seq(Byte)
        /\ Len(Tail(conn[c].down)) = Len(conn[c].down) - 1
    BY <2>1, <2>2, HeadTailProperties
  <2> DEFINE x == Tail(conn[c].down)
  <2>4. x \in Seq(Byte) /\ conn'[c] = [conn[c] EXCEPT !.down = x]
    BY <2>1, <2>3 DEF EndedInv, ConnTypes
  <2>5. /\ \A d \in Clients : d # c => conn'[d] = conn[d] /\ got'[d] = got[d]
        /\ got'[c] = Append(got[c], Head(conn[c].down))
    BY <2>1 DEF EndedInv, ConnTypes, ClientTypes
  <2> HIDE DEF x
  <2>6. conn'[c] \in Connection /\ conn'[c].down = x /\ conn'[c].up = conn[c].up
    BY ONLY <2>2, <2>4, WithDown
  <2>7. ClientTypes'
    <3>1. Append(got[c], Head(conn[c].down)) \in Seq(Byte)
      BY <2>2, <2>3, AppendProperties
    <3> QED
      BY <2>1, <3>1 DEF EndedInv, ClientTypes
  <2>8. ConnTypes'
    <3>1. conn' \in [Clients -> Connection]
      BY <2>1, <2>4, <2>6 DEF EndedInv, ConnTypes
    <3>2. /\ Len(conn[c].down) \in Nat /\ DownRoom \in Nat
          /\ Len(conn[c].down) <= DownRoom /\ Len(conn[c].up) <= UpRoom
      BY <2>2, FiniteSlots DEF EndedInv, ConnTypes
    <3>3. Len(conn'[c].up) <= UpRoom /\ Len(conn'[c].down) <= DownRoom
      BY <2>3, <2>6, <3>2 DEF x
    <3> QED
      BY <2>5, <3>1, <3>3 DEF EndedInv, ConnTypes
  <2>9. \A d \in Clients : got'[d] \o conn'[d].down = got[d] \o conn[d].down
    <3>1. Append(got[c], Head(conn[c].down)) \o x = got[c] \o conn[c].down
      BY <2>1, <2>2, ReceiveHead DEF x
    <3> QED
      BY <2>5, <2>6, <3>1
  <2> QED
    BY <1>1, <2>1, <2>7, <2>8, <2>9
<1>4. ASSUME NEW c \in Clients, ClientEnd(c) \/ ClientFails(c)
      PROVE  Ended' /\ EndedInv'
  <2>1. /\ \E how \in {"done", "failed"} : client' = [client EXCEPT ![c] = how]
        /\ UNCHANGED <<main, queue, serverVars, sent, got, conn>>
    BY <1>4 DEF ClientEnd, ClientFails
  <2>2. ClientTypes'
    BY <2>1 DEF EndedInv, ClientTypes
  <2>3. ConnTypes'
    BY <2>1 DEF EndedInv, ConnTypes
  <2> QED
    BY <1>1, <2>1, <2>2, <2>3
<1>5. ~MainStep
  BY DEF MainStep, Listen, Accept, AcceptFails, ThreadFails, Ended
<1>6. \A s \in Sessions : ~SessionStep(s)
  BY DEF EndedInv, SessionStep, ReadReturns, ReadFails, WriteCopies, WriteReturns,
         WriteFails, End
<1>7. \A c \in Clients :
        ClientConnect(c) \/ ClientStep(c) \/ ResetArrives(c) =>
          ClientReceive(c) \/ ClientEnd(c) \/ ClientFails(c)
  BY DEF ClientConnect, ClientStep, ClientSend, ClientShutdown, ClientClose,
         ResetArrives, Ended
<1> QED
  BY <1>2, <1>3, <1>4, <1>5, <1>6, <1>7 DEF Next

-----------------------------------------------------------------------------
(* Theorems *)

\* The invariant holds before anything happens,
LEMMA InitInv == Init => IInv
<1> SUFFICES ASSUME Init PROVE IInv
  OBVIOUS
<1> USE DEF Init
<1>1. <<>> \in Seq(Byte) /\ <<>> \in Seq(Clients) /\ Len(<<>>) = 0
  BY EmptySeq
<1>2. ServerTypes
  BY <1>1 DEF ServerTypes
<1>3. BufferTypes
  BY <1>1, FiniteSlots DEF BufferTypes
<1>4. ClientTypes
  BY <1>1, EchoAssumption DEF ClientTypes
<1>5. ConnTypes
  BY <1>1, FiniteSlots DEF ConnTypes, Connection
<1>6. Room
  <2>1. Serving = {}
    BY DEF Serving
  <2> QED
    BY <2>1, FS_EmptySet, FiniteSlots DEF Room
<1>7. Single /\ SessionInv /\ ServedInv /\ EndInv
  BY DEF Single, SessionInv, ServedInv, EndInv
<1>8. QueueInv
  BY DEF QueueInv
<1>9. ClientInv
  BY DEF ClientInv
<1>10. Unbroken
  <2> SUFFICES ASSUME NEW c \in Clients PROVE Stream(c)
    BY DEF Unbroken
  <2>1. Buffered(c) = <<>>
    BY EchoAssumption, BufferedNone
  <2>2. Sent(c) = <<>>
    BY DEF Sent
  <2>3. <<>> \o <<>> = <<>>
    BY <1>1, ConcatEmptySeq
  <2> QED
    BY <2>1, <2>2, <2>3 DEF Stream
<1>11. ClosedInv
  BY DEF ClosedInv
<1>12. Complete
  BY DEF Complete
<1>13. ~Ended
  BY DEF Ended
<1> QED
  BY <1>2, <1>3, <1>4, <1>5, <1>6, <1>7, <1>8, <1>9, <1>10, <1>11, <1>12, <1>13
     DEF IInv, RunInv

\* after a step of something else,
LEMMA UnchangedKeeps ==
  ASSUME RunInv, ClosedInv, UNCHANGED vars
  PROVE  RunInv' /\ ClosedInv'
<1> USE DEF RunInv, vars, clientVars, serverVars
<1>1. (ServerTypes /\ ClientTypes /\ ConnTypes)'
  BY DEF ServerTypes, ClientTypes, ConnTypes
<1>2. BufferTypes' /\ Room' /\ Single' /\ SessionInv'
  BY ServerSame
<1>3. (QueueInv /\ ServedInv)'
  BY DEF QueueInv, ServedInv
<1>4. (ClientInv /\ EndInv /\ Complete)'
  BY DEF ClientInv, EndInv, AllRead, Complete, Sent
<1>5. StreamsKept
  BY <1>2, StreamSame DEF StreamsKept
<1>6. Unbroken'
  BY <1>5, UnbrokenKept
<1>7. ClosedInv'
  <2> SUFFICES ASSUME NEW d \in Clients, client'[d] = "closed"
               PROVE  Whole(d)' \/ Cut(d)'
    BY DEF ClosedInv
  <2>1. Whole(d) \/ Cut(d)
    BY DEF ClosedInv
  <2> QED
    BY <1>5, <2>1, ClosedSame DEF StreamsKept
<1> QED
  BY <1>1, <1>2, <1>3, <1>4, <1>6, <1>7

\* and after every step; the one that ends the process tells no client yet.
LEMMA StepKeeps ==
  ASSUME IInv, [Next]_vars
  PROVE  IInv' /\ (~Ended /\ Ended' => client' = client)
<1>1. CASE Ended
  BY <1>1, EndedKeeps DEF IInv
<1>2. CASE ~Ended
  <2>1. RunInv /\ ClosedInv
    BY <1>2 DEF IInv
  <2> DEFINE Goal == IInv' /\ (~Ended /\ Ended' => client' = client)
  <2>2. ASSUME RunInv', ClosedInv', ~Ended'
        PROVE  Goal
    BY <2>2 DEF IInv
  <2>3. ASSUME NEW how \in {"killed", "aborted"}, NEW waiting, Die(how, waiting)
        PROVE  Goal
    <3>1. Ended' /\ EndedInv'
      BY <2>1, <2>3, DieEnds
    <3>2. client' = client
      BY <2>3 DEF Die, clientVars
    <3> QED
      BY <3>1, <3>2 DEF IInv
  <2> HIDE DEF Goal
  <2>4. ASSUME Listen PROVE Goal
    <3>1. ~Ended'
      BY <2>4 DEF Listen, Ended
    <3> QED
      BY <2>1, <2>2, <2>4, <3>1, ListenKeeps
  <2>5. ASSUME NEW s \in Sessions, Accept(s) \/ AcceptFails(s)
        PROVE  Goal
    <3>1. ~Ended'
      BY <1>2, <2>5 DEF Accept, AcceptFails, Ended
    <3> QED
      BY <2>1, <2>2, <2>5, <3>1, AcceptKeeps, AcceptFailsKeeps
  <2>6. ASSUME ThreadFails PROVE Goal
    BY <2>3, <2>6 DEF ThreadFails
  <2>7. ASSUME NEW s \in Sessions, SessionStep(s)
        PROVE  Goal
    <3>1. CASE WriteFails(s)
      <4>1. CASE Die("killed", queue)
        BY <2>3, <4>1
      <4>2. CASE main' = main
        <5>1. ~Ended'
          BY <1>2, <4>2 DEF Ended
        <5> QED
          BY <2>1, <2>2, <3>1, <5>1, WriteFailsKeeps
      <4> QED
        BY <3>1, <4>1, <4>2 DEF WriteFails
    <3>2. ASSUME ReadReturns(s) \/ ReadFails(s) \/ WriteCopies(s) \/ WriteReturns(s)
                   \/ End(s)
          PROVE  Goal
      <4>1. ~Ended'
        BY <1>2, <3>2 DEF ReadReturns, ReadFails, WriteCopies, WriteReturns, End, Ended
      <4> QED
        BY <2>1, <2>2, <3>2, <4>1, ReadReturnsKeeps, ReadFailsKeeps, WriteCopiesKeeps,
           WriteReturnsKeeps, EndKeeps
    <3> QED
      BY <2>7, <3>1, <3>2 DEF SessionStep
  <2>8. ASSUME NEW c \in Clients, ClientConnect(c) \/ ClientStep(c) \/ ResetArrives(c)
        PROVE  Goal
    <3>1. ~ClientFails(c)
      BY <1>2 DEF ClientFails
    <3>2. ~Ended'
      BY <1>2, <2>8 DEF ClientConnect, ClientStep, ClientSend, ClientShutdown,
         ClientReceive, ClientEnd, ClientFails, ClientClose, ResetArrives, Ended
    <3> QED
      BY <2>1, <2>2, <2>8, <3>1, <3>2, ClientConnectKeeps, ClientSendKeeps,
         ClientShutdownKeeps, ClientReceiveKeeps, ClientEndKeeps, ClientCloseKeeps,
         ResetArrivesKeeps DEF ClientStep
  <2>9. ASSUME UNCHANGED vars PROVE Goal
    <3>1. ~Ended'
      BY <1>2, <2>9 DEF vars, Ended
    <3> QED
      BY <2>1, <2>2, <2>9, <3>1, UnchangedKeeps
  <2>10. Goal
    BY <2>4, <2>5, <2>6, <2>7, <2>8, <2>9 DEF Next, MainStep
  <2> QED
    BY <2>10 DEF Goal
<1> QED
  BY <1>1, <1>2

LEMMA NextInv == IInv /\ [Next]_vars => IInv'
BY StepKeeps

\* The inductive invariant holds of every behaviour, for any number of clients,
\* descriptors and session threads and any buffer sizes.
THEOREM Invariance == Spec => []IInv
BY InitInv, NextInv, PTL DEF Spec

\* Every variable keeps its type, no buffer is overrun, whether the session's
\* or the kernel's, and not more connections are served than there are
\* descriptors.
THEOREM TypeCorrect == Spec => []TypeOK
<1>1. IInv => TypeOK
  <2> SUFFICES ASSUME IInv PROVE TypeOK
    OBVIOUS
  <2>1. ServerTypes /\ BufferTypes /\ ClientTypes /\ ConnTypes /\ Room
    BY DEF IInv, RunInv, EndedInv
  <2>2. \A s \in Sessions : /\ buffer[s] \in Seq(Byte)
                            /\ Len(buffer[s]) + last_bytes[s] <= BufferSize
    BY <2>1 DEF BufferTypes
  <2>3. \A c \in Clients : sent[c] \in 0..ToSend[c] /\ got[c] \in Seq(Byte)
    BY <2>1, EchoAssumption DEF ClientTypes
  <2>4. \A c \in Clients : /\ conn[c] \in Connection
                           /\ Len(conn[c].up) <= UpRoom
                           /\ Len(conn[c].down) <= DownRoom
    BY <2>1 DEF ConnTypes
  <2> QED
    BY <2>1, <2>2, <2>3, <2>4
       DEF TypeOK, ServerTypes, BufferTypes, ClientTypes, Room
<1> QED
  BY <1>1, Invariance, PTL

\* While the process runs no byte a client sent is lost, repeated, reordered or
\* delivered to another client as long as it keeps its connection, whatever the
\* other sessions and clients do, failed accepts and resets included; and what a
\* client has got is never more than a beginning of that, not even when it
\* closes under a write or a signal or an exception ends the process.
THEOREM StreamUnbroken == Spec => []EchoUnbroken
<1>1. ASSUME IInv PROVE EchoUnbroken
  <2>1. Delivered
    BY <1>1, RunDelivered DEF IInv, EndedInv
  <2>2. ~Ended => Unbroken
    BY <1>1 DEF IInv, RunInv
  <2> QED
    BY <2>1, <2>2 DEF EchoUnbroken, Delivered, Unbroken, Stream
<1> QED
  BY <1>1, Invariance, PTL

\* A client that reads the end of the stream has its whole echo, unless a signal
\* or an exception has ended the process: a session never gives up a client
\* that keeps its connection.
THEOREM StreamComplete == Spec => EchoComplete
<1>1. ASSUME IInv, [Next]_vars
      PROVE  \A c \in Clients :
               client[c] # "done" /\ client'[c] = "done" => got'[c] = Sent(c)' \/ Ended
  <2> SUFFICES ASSUME NEW c \in Clients, client[c] # "done", client'[c] = "done",
                      ~Ended
               PROVE  got'[c] = Sent(c)'
    OBVIOUS
  <2>1. ~Ended' /\ IInv'
    BY <1>1, StepKeeps
  <2>2. Complete'
    BY <2>1 DEF IInv, RunInv
  <2> QED
    BY <2>2 DEF Complete
<1>2. IInv /\ [Next]_vars =>
        [\A c \in Clients :
           client[c] # "done" /\ client'[c] = "done" => got'[c] = Sent(c)' \/ Ended]_vars
  BY <1>1
<1> QED
  BY <1>2, Invariance, PTL DEF Spec, EchoComplete

=============================================================================
