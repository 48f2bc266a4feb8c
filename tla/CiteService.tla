------------------------------ MODULE CiteService ------------------------------
(****************************************************************************)
(* What citepd promises to its clients, without processes, descriptors or   *)
(* signals: one connection carries at most one query, a query whose end     *)
(* flag comes in time is answered with the parse of exactly the bytes       *)
(* before the first end flag, and a client is not left waiting for the end  *)
(* of its connection.  Citepd implements this specification.                *)
(*                                                                          *)
(* An answer is identified by the length of the query it was computed from: *)
(* the outcome k stands for the JSON that rpc_query returns for the first k *)
(* bytes of the connection's stream.                                        *)
(****************************************************************************)
EXTENDS Framing

CONSTANTS
  Conns,          \* the connections clients make, each used once
  Streams,        \* the byte sequences a client may send on one
  Q_SIZE_LIMIT,   \* the query size after which the server stops reading
  MAXLINE         \* the size of one read

VARIABLES
  stream,         \* what the client has sent on a connection, <<>> before it has
  lost,           \* connections the system could not serve: no process for them,
                  \* a child that died, a server that was stopped
  outcome         \* how the connection ended for the client

svars == <<stream, lost, outcome>>

\* Outcomes other than an answer.
Pending   == 0      \* the client still waits
Empty     == -1     \* end of file, or a reset, with no answer
Abandoned == -2     \* the client closed its end first

\* The server must answer this stream with its first k bytes: the flag is the last
\* thing sent (bytes after it that the server leaves unread make its close reset
\* the connection, see Citepd), and it ends at most one byte past the limit: a
\* query at the limit is not past it, so it gets one more read.
MustAnswer(s, k) ==
  /\ k > 0
  /\ FindsFlagAt(s, Len(s), k)
  /\ k + Len(end_flag) = Len(s)
  /\ Len(s) <= Q_SIZE_LIMIT + 1

\* The server may answer it: the last read may pass the limit by less than MAXLINE.
MayAnswer(s, k) ==
  /\ k > 0
  /\ FindsFlagAt(s, Len(s), k)
  /\ k + Len(end_flag) <= Q_SIZE_LIMIT + MAXLINE

\* A stream the server can come to a decision about, whoever closes first.
Complete(s) ==
  \/ ~HasNoFlag(s, Len(s))
  \/ Len(s) > Q_SIZE_LIMIT

--------------------------------------------------------------------------------

SInit ==
  /\ stream = [c \in Conns |-> <<>>]
  /\ lost = {}
  /\ outcome = [c \in Conns |-> Pending]

Submit(c) ==
  /\ stream[c] = <<>>
  /\ outcome[c] = Pending
  /\ \E s \in Streams : stream' = [stream EXCEPT ![c] = s]
  /\ UNCHANGED <<lost, outcome>>

Answer(c) ==
  /\ outcome[c] = Pending
  /\ \E k \in 1..Len(stream[c]) :
       /\ MayAnswer(stream[c], k)
       /\ outcome' = [outcome EXCEPT ![c] = k]
  /\ UNCHANGED <<stream, lost>>

Decline(c) ==
  /\ outcome[c] = Pending
  /\ \/ c \in lost
     \/ \A k \in 1..Len(stream[c]) : ~MustAnswer(stream[c], k)
  /\ outcome' = [outcome EXCEPT ![c] = Empty]
  /\ UNCHANGED <<stream, lost>>

Abandon(c) ==
  /\ outcome[c] = Pending
  /\ outcome' = [outcome EXCEPT ![c] = Abandoned]
  /\ UNCHANGED <<stream, lost>>

Fail ==
  /\ \E C \in SUBSET Conns : lost' = lost \cup C
  /\ UNCHANGED <<stream, outcome>>

SNext ==
  \/ \E c \in Conns : Submit(c) \/ Answer(c) \/ Decline(c) \/ Abandon(c)
  \/ Fail

\* Nobody waits for ever on a query that was sent in full.
Decides == \A c \in Conns :
  (stream[c] # <<>> /\ Complete(stream[c])) ~> outcome[c] # Pending

SafeSpec == SInit /\ [][SNext]_svars
Service  == SafeSpec /\ Decides
================================================================================
