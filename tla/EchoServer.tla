------------------------------ MODULE EchoServer ------------------------------
(***************************************************************************)
(* examples/echoserver: a thread that accepts, a detached thread for each  *)
(* session, and the clients at the other ends.  A session owns its         *)
(* descriptor (SocketHandles proves that of the sockets it uses), so a     *)
(* descriptor is here just the connection behind it.  Connections are TCP  *)
(* on the loopback interface: nothing is lost except by a reset.           *)
(***************************************************************************)
EXTENDS Sequences, SequencesExt, FiniteSetsExt, Integers

CONSTANTS Clients,
          Patient,     \* clients that close only after the server did
          Reading,     \* clients that read what is echoed
          NoClient,    \* behind the -1 of a session whose accept failed
          MaxFds,      \* descriptors the process has for connections
          MaxSessions, \* session threads that can be alive at a time
          ToSend,      \* how many bytes each client wants to send
          BufferSize,  \* the session's buffer, 128 bytes in the code
          UpRoom,      \* bytes the kernel keeps for the server to read
          DownRoom     \* bytes the kernel keeps for a client to read

ASSUME EchoAssumption ==
  /\ Patient \subseteq Clients /\ Reading \subseteq Clients
  /\ NoClient \notin Clients
  /\ {MaxFds, MaxSessions, BufferSize, UpRoom, DownRoom} \subseteq Nat \ {0}
  /\ ToSend \in [Clients -> Nat]

Sessions == 1..MaxSessions

VARIABLES main,   \* what the accepting thread does
          queue,  \* connections the kernel keeps for accept
          pc,     \* the system call each session thread is about to make
          serves, \* the connection of the session
          buffer, \* the bytes read and not yet written
          last_bytes, \* bytes the current write has written
          client, \* what each client does
          sent,   \* how many bytes it has sent
          got,    \* the bytes it has read
          conn    \* its connection, see Connection

serverVars == <<pc, serves, buffer, last_bytes>>
clientVars == <<client, sent, got>>
vars == <<main, queue, serverVars, clientVars, conn>>

\* Byte i that client c sends.
Byte == {b \in Clients \X Nat : b[2] <= ToSend[b[1]]}

\* up and down are the bytes on the way to and from the server, upFin and
\* downFin that their sender has closed, err is the error pending on the
\* server's socket.
Connection == [up : Seq(Byte), down : Seq(Byte),
               upFin : BOOLEAN, downFin : BOOLEAN,
               err : {"none", "ECONNRESET", "EPIPE"}]

\* The sessions that hold a descriptor.
Serving == {s \in Sessions : serves[s] # NoClient}

\* Every variable holds a value of its type, and the buffers and the
\* descriptor table are not overrun.
TypeOK ==
  /\ main \in {"start", "accept", "exited", "killed", "aborted"}
  /\ queue \in Seq(Clients)
  /\ pc \in [Sessions -> {"none", "read", "write", "end"}]
  /\ serves \in [Sessions -> Clients \cup {NoClient}]
  /\ Cardinality(Serving) <= MaxFds
  /\ \A s \in Sessions :
       /\ buffer[s] \in Seq(Byte)
       /\ Len(buffer[s]) + last_bytes[s] <= BufferSize
  /\ last_bytes \in [Sessions -> 0..BufferSize]
  /\ client \in [Clients -> {"new", "open", "shut", "done", "failed", "closed"}]
  /\ \A c \in Clients :
       /\ sent[c] \in 0..ToSend[c]
       /\ got[c] \in Seq(Byte)
       /\ conn[c] \in Connection
       /\ Len(conn[c].up) <= UpRoom /\ Len(conn[c].down) <= DownRoom

Init ==
  /\ main = "start"
  /\ queue = <<>>
  /\ pc = [s \in Sessions |-> "none"]
  /\ serves = [s \in Sessions |-> NoClient]
  /\ buffer = [s \in Sessions |-> <<>>]
  /\ last_bytes = [s \in Sessions |-> 0]
  /\ client = [c \in Clients |-> "new"]
  /\ sent = [c \in Clients |-> 0]
  /\ got = [c \in Clients |-> <<>>]
  /\ conn = [c \in Clients |->
               [up |-> <<>>, down |-> <<>>,
                upFin |-> FALSE, downFin |-> FALSE, err |-> "none"]]

Goto(s, p) == pc' = [pc EXCEPT ![s] = p]

\* A signal or an exception has ended the process.
Ended == main \in {"killed", "aborted"}

\* The process ends, its threads with it, and the kernel closes its sockets.
\* A connection is reset if it waits for accept or has bytes nobody read.
Die(how, waiting) ==
  /\ main' = how
  /\ queue' = <<>>
  /\ pc' = [t \in Sessions |-> "none"]
  /\ serves' = [t \in Sessions |-> NoClient]
  /\ buffer' = [t \in Sessions |-> <<>>]
  /\ last_bytes' = [t \in Sessions |-> 0]
  /\ conn' = [c \in Clients |->
                IF c \in ToSet(waiting) \/ conn[c].up # <<>> THEN conn[c]
                ELSE [conn[c] EXCEPT !.downFin = TRUE]]
  /\ UNCHANGED clientVars

-----------------------------------------------------------------------------
(* EchoServer::run *)

\* The listen_socket is constructed: run returns 1 if that failed.
Listen ==
  /\ main = "start"
  /\ main' \in {"accept", "exited"}
  /\ UNCHANGED <<queue, serverVars, clientVars, conn>>

\* The accepting thread makes a session.  Sessions have no names in the code:
\* the first slot that is not used stands for the new one.
NewSession(s, c) ==
  /\ pc[s] = "none"
  /\ \A t \in 1..(s - 1) : pc[t] # "none"
  /\ Goto(s, "read")
  /\ serves' = [serves EXCEPT ![s] = c]

Accept(s) ==
  /\ main = "accept"
  /\ queue # <<>>
  /\ Cardinality(Serving) < MaxFds
  /\ NewSession(s, Head(queue))
  /\ queue' = Tail(queue)
  /\ UNCHANGED <<main, buffer, last_bytes, clientVars, conn>>

\* Defect: run returns when accept fails.
AcceptFailsMutantReturn(s) ==
  /\ main = "accept"
  /\ Cardinality(Serving) = MaxFds
  /\ main' = "exited"
  /\ UNCHANGED <<queue, serverVars, clientVars, conn>>

\* accept fails (EMFILE).  run looks at nothing: it starts a session all the
\* same, whose socket has d_fd = -1, and accepts again.
AcceptFails(s) ==
  /\ main = "accept"
  /\ Cardinality(Serving) = MaxFds
  /\ NewSession(s, NoClient)
  /\ UNCHANGED <<main, queue, buffer, last_bytes, clientVars, conn>>

\* accept returned, with a connection or none, but std::thread throws: the
\* exception leaves run and main.
ThreadFails ==
  /\ main = "accept"
  /\ \A s \in Sessions : pc[s] # "none"
  /\ \/ Cardinality(Serving) = MaxFds /\ Die("aborted", queue)
     \/ Cardinality(Serving) < MaxFds /\ queue # <<>> /\ Die("aborted", Tail(queue))

-----------------------------------------------------------------------------
(* ClientSession::run, with connected_reader::read and                     *)
(* connected_writer::write                                                 *)

\* Defect: read is told that the buffer is larger than it is.
ReadSizeMutantLarge(c) == Len(conn[c].up)

\* How many bytes read returns, 0 at the end of the stream.
ReadSize(c) == Min({Len(conn[c].up), BufferSize})

ReadReturns(s) ==
  LET c == serves[s] IN
  /\ pc[s] = "read"
  /\ c # NoClient
  /\ conn[c].up # <<>> \/ conn[c].upFin
  /\ buffer' = [buffer EXCEPT ![s] = SubSeq(conn[c].up, 1, ReadSize(c))]
  /\ conn' = [conn EXCEPT ![c].up =
                SubSeq(@, ReadSize(c) + 1, Len(@))]
  /\ Goto(s, "write")
  /\ UNCHANGED <<main, queue, serves, last_bytes, clientVars>>

\* read returns -1: EBADF for d_fd = -1, or the pending error.
ReadFails(s) ==
  LET c == serves[s] IN
  /\ pc[s] = "read"
  /\ \/ c = NoClient /\ UNCHANGED conn
     \/ /\ c # NoClient
        /\ conn[c].up = <<>> /\ ~conn[c].upFin /\ conn[c].err # "none"
        /\ conn' = [conn EXCEPT ![c].err = "none"]
  /\ Goto(s, "end")
  /\ UNCHANGED <<main, queue, serves, buffer, last_bytes, clientVars>>

\* write blocks while the kernel has no room, and takes the bytes as it gets
\* room for them.
WriteCopies(s) ==
  LET c == serves[s] IN
  /\ pc[s] = "write"
  /\ buffer[s] # <<>>
  /\ conn[c].err = "none"
  /\ Len(conn[c].down) < DownRoom
  /\ conn' = [conn EXCEPT ![c].down = Append(@, Head(buffer[s]))]
  /\ buffer' = [buffer EXCEPT ![s] = Tail(@)]
  /\ last_bytes' = [last_bytes EXCEPT ![s] = @ + 1]
  /\ UNCHANGED <<main, queue, pc, serves, clientVars>>

\* Defects: the session ends after one echo, or does not end after the last.
AfterWriteMutantOnce(s) == "end"
AfterWriteMutantForever(s) == "read"

\* The loop goes on unless nothing was written, as after the end of the stream.
AfterWrite(s) == IF last_bytes[s] = 0 THEN "end" ELSE "read"

\* Defect: as on a socket that does not block, write returns what fits.
WriteDoneMutantShort(s) ==
  LET c == conn[serves[s]] IN
  \/ buffer[s] = <<>>
  \/ last_bytes[s] > 0 /\ Len(c.down) = DownRoom

\* write returns when it has written everything, and earlier, with a short
\* count, when an error comes up; the error stays pending.
WriteDone(s) ==
  IF conn[serves[s]].err = "none" THEN buffer[s] = <<>> ELSE last_bytes[s] > 0

\* run does not look at the rest of a short write.
WriteReturns(s) ==
  /\ pc[s] = "write"
  /\ WriteDone(s)
  /\ Goto(s, AfterWrite(s))
  /\ buffer' = [buffer EXCEPT ![s] = <<>>]
  /\ last_bytes' = [last_bytes EXCEPT ![s] = 0]
  /\ UNCHANGED <<main, queue, serves, clientVars, conn>>

\* write, even one of no bytes, meets an error: it returns -1, or for EPIPE
\* the process gets SIGPIPE, which nothing in it ignores or handles.
WriteFails(s) ==
  LET c == serves[s] IN
  /\ pc[s] = "write"
  /\ last_bytes[s] = 0
  /\ conn[c].err # "none"
  /\ IF conn[c].err = "EPIPE"
     THEN Die("killed", queue)
     ELSE /\ conn' = [conn EXCEPT ![c].err = "none"]
          /\ Goto(s, "end")
          /\ UNCHANGED <<main, queue, serves, buffer, last_bytes, clientVars>>

\* The session is destroyed, and its socket with it.
End(s) ==
  LET c == serves[s] IN
  /\ pc[s] = "end"
  /\ Goto(s, "none")
  /\ serves' = [serves EXCEPT ![s] = NoClient]
  /\ buffer' = [buffer EXCEPT ![s] = <<>>]
  /\ IF c = NoClient THEN UNCHANGED conn
     ELSE conn' = [conn EXCEPT ![c].downFin = TRUE]
  /\ UNCHANGED <<main, queue, last_bytes, clientVars>>

-----------------------------------------------------------------------------
(* The clients and the kernel.  After the server has ended a client still   *)
(* reads what was on the way to it and learns how its connection ended.    *)

ClientConnect(c) ==
  /\ main = "accept"
  /\ client[c] = "new"
  /\ client' = [client EXCEPT ![c] = "open"]
  /\ queue' = Append(queue, c)
  /\ UNCHANGED <<main, serverVars, sent, got, conn>>

ClientSend(c) ==
  /\ main = "accept"
  /\ client[c] = "open"
  /\ sent[c] < ToSend[c]
  /\ Len(conn[c].up) < UpRoom
  /\ sent' = [sent EXCEPT ![c] = @ + 1]
  /\ conn' = [conn EXCEPT ![c].up = Append(@, <<c, sent'[c]>>)]
  /\ UNCHANGED <<main, queue, serverVars, client, got>>

\* The client has sent what it wanted and says so.
ClientShutdown(c) ==
  /\ main = "accept"
  /\ c \in Patient
  /\ client[c] = "open"
  /\ sent[c] = ToSend[c]
  /\ client' = [client EXCEPT ![c] = "shut"]
  /\ conn' = [conn EXCEPT ![c].upFin = TRUE]
  /\ UNCHANGED <<main, queue, serverVars, sent, got>>

ClientReceive(c) ==
  /\ main = "accept" \/ Ended
  /\ client[c] \in {"open", "shut"}
  /\ c \in Reading
  /\ conn[c].down # <<>>
  /\ got' = [got EXCEPT ![c] = Append(@, Head(conn[c].down))]
  /\ conn' = [conn EXCEPT ![c].down = Tail(@)]
  /\ UNCHANGED <<main, queue, serverVars, client, sent>>

\* The client reads the end of the stream: its session, or the process, ended.
ClientEnd(c) ==
  /\ main = "accept" \/ Ended
  /\ client[c] \in {"open", "shut"}
  /\ c \in Reading
  /\ conn[c].down = <<>> /\ conn[c].downFin
  /\ client' = [client EXCEPT ![c] = "done"]
  /\ UNCHANGED <<main, queue, serverVars, sent, got, conn>>

\* The client's connection is reset: the process has ended without reading what
\* it sent, or it goes on to send to a process that is gone.
ClientFails(c) ==
  /\ Ended
  /\ client[c] \in {"open", "shut"}
  /\ \/ ~conn[c].downFin
     \/ client[c] = "open" /\ sent[c] < ToSend[c]
  /\ client' = [client EXCEPT ![c] = "failed"]
  /\ UNCHANGED <<main, queue, serverVars, sent, got, conn>>

\* The error a reset leaves depends on whether the client closed before.
Reset(c) ==
  [conn[c] EXCEPT !.down = <<>>,
                  !.err = IF conn[c].upFin THEN "EPIPE" ELSE "ECONNRESET"]

\* A client closes without waiting for the server: with bytes it has not read
\* that resets the connection.
ClientClose(c) ==
  /\ main = "accept"
  /\ c \notin Patient
  /\ client[c] \in {"open", "shut"}
  /\ client' = [client EXCEPT ![c] = "closed"]
  /\ conn' = [conn EXCEPT ![c] =
                IF @.down # <<>> THEN Reset(c) ELSE [@ EXCEPT !.upFin = TRUE]]
  /\ UNCHANGED <<main, queue, serverVars, sent, got>>

\* Bytes that arrive after the client closed reset the connection.
ResetArrives(c) ==
  /\ main = "accept"
  /\ client[c] = "closed"
  /\ conn[c].down # <<>>
  /\ conn' = [conn EXCEPT ![c] = Reset(c)]
  /\ UNCHANGED <<main, queue, serverVars, clientVars>>

MainStep ==
  \/ Listen
  \/ \E s \in Sessions : Accept(s) \/ AcceptFails(s)
  \/ ThreadFails

SessionStep(s) ==
  \/ ReadReturns(s)
  \/ ReadFails(s)
  \/ WriteCopies(s)
  \/ WriteReturns(s)
  \/ WriteFails(s)
  \/ End(s)

ClientStep(c) ==
  \/ ClientSend(c)
  \/ ClientShutdown(c)
  \/ ClientReceive(c)
  \/ ClientEnd(c)
  \/ ClientFails(c)
  \/ ClientClose(c)

Next ==
  \/ MainStep
  \/ \E s \in Sessions : SessionStep(s)
  \/ \E c \in Clients : ClientConnect(c) \/ ClientStep(c) \/ ResetArrives(c)

\* The scheduler runs every thread, the network delivers, and clients other
\* than those that do not read go on with what they do.  What the network and
\* the clients do is finite, so one condition for each kind serves them all.
Fairness ==
  /\ WF_vars(MainStep)
  /\ \A s \in Sessions : WF_vars(SessionStep(s))
  /\ WF_vars(\E c \in Clients : ResetArrives(c))
  /\ WF_vars(\E c \in Reading : ClientStep(c))

Spec == Init /\ [][Next]_vars /\ Fairness

-----------------------------------------------------------------------------
(* Properties *)

Sent(c) == [i \in 1..sent[c] |-> <<c, i>>]

Buffered(c) ==
  LET own == {s \in Serving : serves[s] = c}
  IN  IF own = {} THEN <<>> ELSE buffer[CHOOSE s \in own : TRUE]

\* While the server runs and a client keeps its connection, what it sent is in
\* order in what it got, the connection and its session's buffer: no byte is
\* lost, repeated or delivered to another client, whatever the other sessions
\* do.  What a client got or has on the way to it never has a gap: neither when
\* it closes under a write, whose rest run ignores, nor when the process ends.
EchoUnbroken ==
  \A c \in Clients :
    /\ ~Ended /\ client[c] \in {"open", "shut", "done"} =>
         got[c] \o conn[c].down \o Buffered(c) \o conn[c].up = Sent(c)
    /\ IsPrefix(got[c] \o conn[c].down, Sent(c))

\* A client that is told by the end of the stream that the server is finished
\* has got back all that it sent.  Only when a signal or an exception ends the
\* process is it told so earlier.
EchoComplete ==
  [][\A c \in Clients :
       client[c] # "done" /\ client'[c] = "done" => got'[c] = Sent(c)' \/ Ended]_vars

\* Clients that do not read have every descriptor there is.
Exhausted ==
  Cardinality({s \in Serving : serves[s] \notin Reading}) = MaxFds

\* A client that reads and waits gets its whole echo and the end of the stream,
\* unless the process ends or, from some time on, clients that neither read nor
\* close hold every descriptor.  While one is left, such clients, and the
\* accepts that fail now and then, keep nobody from being served.
PatientServed ==
  \/ <>[]Exhausted
  \/ \A c \in Patient \cap Reading :
       client[c] = "open" ~> client[c] = "done" \/ Ended

\* The session of a client that closed ends and returns its descriptor: once
\* the clients have closed (each does so once), no session is left to them.
SessionEnds ==
  <>[](\/ Ended
       \/ \A s \in Serving : client[serves[s]] # "closed")

\* A write that fails is reported: the writer compares to false and error()
\* tells why (connected_writer.h:43-45), and the session ends.  A write after
\* the client has closed refutes it: the signal ends the whole process.
WriteErrorsReported == main # "killed"
=============================================================================
