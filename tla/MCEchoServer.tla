---------------------------- MODULE MCEchoServer ----------------------------
EXTENDS EchoServer

CONSTANTS polite, \* reads, and waits for the server to finish
          greedy, \* never reads, and keeps its connection or closes it
          idle,   \* the same, and sends nothing
          hasty   \* reads, and closes when it likes

\* Values of ToSend.  In the first the greedy client sends enough to block its
\* session's write, and to have it stop half way, and the idle one only takes a
\* descriptor, for a while or for ever.
ShortStreams == (polite :> 3) @@ (greedy :> 3) @@ (idle :> 0)
LongStreams == (polite :> 3) @@ (hasty :> 3)
=============================================================================
