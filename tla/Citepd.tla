--------------------------------- MODULE Citepd ---------------------------------
(****************************************************************************)
(* citepd, the citation parser's TCP server (src/src/citepd.cc): a parent   *)
(* that accepts connections and forks a child for each, the SIGCHLD handler *)
(* that reaps them, the children that read a query, parse it and answer,    *)
(* and the kernel state they share: open descriptors, process slots,        *)
(* pending signals, the listen backlog.  Clients connect, send, wait for    *)
(* the end of the connection or give up, at any time.                       *)
(****************************************************************************)
EXTENDS Framing

CONSTANTS
  Conns,          \* the connections clients make, each used once
  Streams,        \* the byte sequences a client may send on one
  Q_SIZE_LIMIT,   \* the query size after which a child stops reading
  MAXLINE,        \* the most one read() returns
  Pids,           \* the process slots children can get
  None,           \* no connection: accept() returned -1
  MaxAcceptFails, \* bound on failing accept() calls
  MaxCrashes,     \* bound on children that die while parsing
  MaxKills        \* bound on kills of the parent

ASSUME CitepdAssumption ==
  /\ None \notin Conns
  /\ \A s \in Streams : s \in Seq(Byte) /\ s # <<>>
  /\ Q_SIZE_LIMIT \in Nat
  /\ MAXLINE \in Nat \ {0}
  /\ MaxAcceptFails \in Nat /\ MaxCrashes \in Nat /\ MaxKills \in Nat

VARIABLES
  \* the parent
  ppc,            \* where it is in the loop of cpsd; "down" when it does not run
  connfd,         \* its local connfd: the connection accepted last, or None
  pfds,           \* the connections it holds open
  installed,      \* sig_chld is the handler of SIGCHLD
  pending,        \* a SIGCHLD is pending; signals do not queue
  reaping,        \* sig_chld runs, in the middle of whatever the parent does
  \* the children
  child,          \* where each is in the code; "free" and "zombie" slots too
  conn,           \* its connfd
  cfds,           \* the connections it holds open
  offset,         \* query_offset, 0 when there is nothing to answer
  \* the connections
  link,           \* "idle", "queued" in the backlog, "open", "dropped" by the kernel
  got,            \* how many bytes of it have been read; they are the child's query
  reply,          \* the answer written to it: the length of its query, 0 before
  lost,           \* connections no child can answer any more (a record for Promise)
  \* the clients
  stream,         \* what the client has sent, <<>> before it has
  closed,         \* connections the client has closed
  seen,           \* how the connection ended for its client
  \* the faults so far
  acceptFails, crashes, kills

parentVars == <<ppc, connfd, pfds, installed, pending, reaping>>
childVars  == <<child, conn, cfds, offset>>
connVars   == <<link, got, reply, lost>>
clientVars == <<stream, closed, seen>>
faultVars  == <<acceptFails, crashes, kills>>
vars == <<parentVars, childVars, connVars, clientVars, faultVars>>

\* What a client sees besides an answer, which is a positive number.
Pending   == 0      \* it still waits
Empty     == -1     \* the end of the connection, with no answer
Abandoned == -2     \* it closed its end first

ParentStates == {"down", "accept", "signal", "fork", "close"}
Working      == {"read", "parse", "write", "close", "exit"}
ChildStates  == Working \cup {"free", "zombie"}

Alive(p) == child[p] \in Working

\* Every live child holds the listening socket it inherited: the port stays
\* bound, and connections are still queued, as long as one process has it.
Listening == ppc # "down" \/ \E p \in Pids : Alive(p)

\* No process holds the connection: its client reads the end of file.
Released(c) == c \notin pfds /\ \A p \in Pids : c \notin cfds[p]

Unread(c) == Len(stream[c]) - got[c]

Init ==
  /\ ppc = "down"
  /\ connfd = None
  /\ pfds = {}
  /\ installed = FALSE /\ pending = FALSE /\ reaping = FALSE
  /\ child = [p \in Pids |-> "free"]
  /\ conn = [p \in Pids |-> None]
  /\ cfds = [p \in Pids |-> {}]
  /\ offset = [p \in Pids |-> 0]
  /\ link = [c \in Conns |-> "idle"]
  /\ got = [c \in Conns |-> 0]
  /\ reply = [c \in Conns |-> 0]
  /\ lost = {}
  /\ stream = [c \in Conns |-> <<>>]
  /\ closed = {}
  /\ seen = [c \in Conns |-> Pending]
  /\ acceptFails = 0 /\ crashes = 0 /\ kills = 0

--------------------------------------------------------------------------------
(* The parent: the loop of cpsd.  No step of it runs while the handler does. *)

\* tcp_listen binds the port.  It fails, and cpsd returns, while a child of an
\* earlier parent still has the old listening socket: the parent stays down.
Start ==
  /\ ppc = "down"
  /\ ~Listening
  /\ ppc' = "accept"
  /\ UNCHANGED <<connfd, pfds, installed, pending, reaping>>
  /\ UNCHANGED <<childVars, connVars, clientVars, faultVars>>

Accept ==
  /\ ppc = "accept" /\ ~reaping
  /\ \E c \in Conns :
       /\ link[c] = "queued"
       /\ link' = [link EXCEPT ![c] = "open"]
       /\ connfd' = c
       /\ pfds' = pfds \cup {c}
  /\ ppc' = "signal"
  /\ UNCHANGED <<installed, pending, reaping, got, reply, lost>>
  /\ UNCHANGED <<childVars, clientVars, faultVars>>

\* accept() returns -1; its result is not looked at, and the loop goes on with it.
AcceptFails ==
  /\ ppc = "accept" /\ ~reaping
  /\ acceptFails < MaxAcceptFails
  /\ acceptFails' = acceptFails + 1
  /\ connfd' = None
  /\ ppc' = "signal"
  /\ UNCHANGED <<pfds, installed, pending, reaping, crashes, kills>>
  /\ UNCHANGED <<childVars, connVars, clientVars>>

\* Mutant: signal() is not called in the loop.
InstallHandler_Forgotten ==
  /\ ppc = "signal" /\ ~reaping
  /\ ppc' = "fork"
  /\ UNCHANGED <<connfd, pfds, installed, pending, reaping>>
  /\ UNCHANGED <<childVars, connVars, clientVars, faultVars>>

InstallHandler ==
  /\ ppc = "signal" /\ ~reaping
  /\ installed' = TRUE
  /\ ppc' = "fork"
  /\ UNCHANGED <<connfd, pfds, pending, reaping>>
  /\ UNCHANGED <<childVars, connVars, clientVars, faultVars>>

\* The child gets a copy of every descriptor of the parent.
Fork ==
  /\ ppc = "fork" /\ ~reaping
  /\ \E p \in Pids :
       /\ child[p] = "free"
       /\ child'  = [child EXCEPT ![p] = "read"]
       /\ conn'   = [conn EXCEPT ![p] = connfd]
       /\ cfds'   = [cfds EXCEPT ![p] = pfds]
       /\ offset' = [offset EXCEPT ![p] = 0]
  /\ ppc' = "close"
  /\ UNCHANGED <<connfd, pfds, installed, pending, reaping>>
  /\ UNCHANGED <<connVars, clientVars, faultVars>>

\* Mutant: the parent goes straight back to accept() when fork() fails.
ForkFails_SkipsClose ==
  /\ ppc = "fork" /\ ~reaping
  /\ \A p \in Pids : child[p] # "free"
  /\ lost' = lost \cup ({connfd} \cap Conns)
  /\ ppc' = "accept"
  /\ UNCHANGED <<connfd, pfds, installed, pending, reaping, link, got, reply>>
  /\ UNCHANGED <<childVars, clientVars, faultVars>>

\* Mutant: the parent retries fork() until it succeeds.
ForkFails_Retries ==
  /\ ppc = "fork" /\ ~reaping
  /\ \A p \in Pids : child[p] # "free"
  /\ UNCHANGED vars

\* fork() returns -1, which is not 0: the parent goes on as after a fork.
ForkFails ==
  /\ ppc = "fork" /\ ~reaping
  /\ \A p \in Pids : child[p] # "free"
  /\ lost' = lost \cup ({connfd} \cap Conns)
  /\ ppc' = "close"
  /\ UNCHANGED <<connfd, pfds, installed, pending, reaping, link, got, reply>>
  /\ UNCHANGED <<childVars, clientVars, faultVars>>

\* Mutant: the parent keeps its copy of the connection.
CloseConnection_Forgotten ==
  /\ ppc = "close" /\ ~reaping
  /\ ppc' = "accept"
  /\ UNCHANGED <<connfd, pfds, installed, pending, reaping>>
  /\ UNCHANGED <<childVars, connVars, clientVars, faultVars>>

CloseConnection ==
  /\ ppc = "close" /\ ~reaping
  /\ pfds' = pfds \ {connfd}
  /\ ppc' = "accept"
  /\ UNCHANGED <<connfd, installed, pending, reaping>>
  /\ UNCHANGED <<childVars, connVars, clientVars, faultVars>>

--------------------------------------------------------------------------------
(* The SIGCHLD handler, sig_chld: it interrupts the parent anywhere (accept() *)
(* is restarted after it), and SIGCHLD is blocked while it runs.              *)

HandlerEnter ==
  /\ pending /\ ~reaping
  /\ pending' = FALSE
  /\ reaping' = TRUE
  /\ UNCHANGED <<ppc, connfd, pfds, installed>>
  /\ UNCHANGED <<childVars, connVars, clientVars, faultVars>>

\* Mutant: "if" for "while": one signal, one waitpid().
HandlerReap_Once ==
  /\ reaping
  /\ reaping' = FALSE
  /\ \E p \in Pids :
       /\ child[p] = "zombie"
       /\ child' = [child EXCEPT ![p] = "free"]
  /\ UNCHANGED <<ppc, connfd, pfds, installed, pending, conn, cfds, offset>>
  /\ UNCHANGED <<connVars, clientVars, faultVars>>

\* waitpid(-1, &stat, WNOHANG) finds a zombie; the loop calls it again.
HandlerReap ==
  /\ reaping
  /\ \E p \in Pids :
       /\ child[p] = "zombie"
       /\ child' = [child EXCEPT ![p] = "free"]
  /\ UNCHANGED <<conn, cfds, offset>>
  /\ UNCHANGED <<parentVars, connVars, clientVars, faultVars>>

\* waitpid returns 0 or -1: every child that has ended is reaped.
HandlerReturn ==
  /\ reaping
  /\ \A p \in Pids : child[p] # "zombie"
  /\ reaping' = FALSE
  /\ UNCHANGED <<ppc, connfd, pfds, installed, pending>>
  /\ UNCHANGED <<childVars, connVars, clientVars, faultVars>>

--------------------------------------------------------------------------------
(* A child, from fork() == 0 to _exit(0). *)

\* Mutant: the size is compared before the flag is looked for.
Read_SizeFirst(p) ==
  /\ child[p] = "read"
  /\ conn[p] # None
  /\ \E n \in 1..MAXLINE :
       LET s    == stream[conn[p]]
           size == got[conn[p]] + n
       IN /\ n <= Unread(conn[p])
          /\ got' = [got EXCEPT ![conn[p]] = size]
          /\ \/ \E k \in 0..size :
                  /\ size <= Q_SIZE_LIMIT
                  /\ FindsFlagAt(s, size, k)
                  /\ offset' = [offset EXCEPT ![p] = k]
                  /\ child' = [child EXCEPT ![p] = IF k > 0 THEN "parse" ELSE "close"]
             \/ /\ size > Q_SIZE_LIMIT \/ HasNoFlag(s, size)
                /\ child' = [child EXCEPT
                      ![p] = IF size > Q_SIZE_LIMIT THEN "close" ELSE "read"]
                /\ UNCHANGED offset
  /\ UNCHANGED <<conn, cfds, link, reply, lost>>
  /\ UNCHANGED <<parentVars, clientVars, faultVars>>

\* One read() of at most MAXLINE bytes, and what the loop makes of it: the flag
\* is looked for in the whole query, and only then is the size compared.
Read(p) ==
  /\ child[p] = "read"
  /\ conn[p] # None
  /\ \E n \in 1..MAXLINE :
       LET s    == stream[conn[p]]
           size == got[conn[p]] + n
       IN /\ n <= Unread(conn[p])
          /\ got' = [got EXCEPT ![conn[p]] = size]
          /\ \/ \E k \in 0..size :
                  /\ FindsFlagAt(s, size, k)
                  /\ offset' = [offset EXCEPT ![p] = k]
                  /\ child' = [child EXCEPT ![p] = IF k > 0 THEN "parse" ELSE "close"]
             \/ /\ HasNoFlag(s, size)
                /\ child' = [child EXCEPT
                      ![p] = IF size > Q_SIZE_LIMIT THEN "close" ELSE "read"]
                /\ UNCHANGED offset
  /\ UNCHANGED <<conn, cfds, link, reply, lost>>
  /\ UNCHANGED <<parentVars, clientVars, faultVars>>

\* read() returns 0 at the end of what a closed client sent, and -1 for the
\* descriptor of a failed accept(): no flag was found, nothing is answered.
ReadEnds(p) ==
  /\ child[p] = "read"
  /\ conn[p] # None => conn[p] \in closed /\ Unread(conn[p]) = 0
  /\ child' = [child EXCEPT ![p] = "close"]
  /\ UNCHANGED <<conn, cfds, offset>>
  /\ UNCHANGED <<parentVars, connVars, clientVars, faultVars>>

\* rpc_query: predict, build the JSON, free the citations.
Parse(p) ==
  /\ child[p] = "parse"
  /\ child' = [child EXCEPT ![p] = "write"]
  /\ UNCHANGED <<conn, cfds, offset>>
  /\ UNCHANGED <<parentVars, connVars, clientVars, faultVars>>

\* Mutant: the child uses the connfd of the parent, as a thread sharing it would.
Write_SharedConnfd(p) ==
  /\ child[p] = "write"
  /\ connfd # None
  /\ reply' = [reply EXCEPT ![connfd] = offset[p]]
  /\ child' = [child EXCEPT ![p] = "close"]
  /\ UNCHANGED <<conn, cfds, offset, link, got, lost>>
  /\ UNCHANGED <<parentVars, clientVars, faultVars>>

\* One write() of the whole answer.
Write(p) ==
  /\ child[p] = "write"
  /\ reply' = [reply EXCEPT ![conn[p]] = offset[p]]
  /\ child' = [child EXCEPT ![p] = "close"]
  /\ UNCHANGED <<conn, cfds, offset, link, got, lost>>
  /\ UNCHANGED <<parentVars, clientVars, faultVars>>

CloseChild(p) ==
  /\ child[p] = "close"
  /\ cfds' = [cfds EXCEPT ![p] = @ \ {conn[p]}]
  /\ child' = [child EXCEPT ![p] = "exit"]
  /\ UNCHANGED <<conn, offset>>
  /\ UNCHANGED <<parentVars, connVars, clientVars, faultVars>>

\* A child ends: the kernel closes what it still has open and tells the parent,
\* if that handles SIGCHLD; the orphans of a dead parent leave no zombie.  The
\* last process that has the listening socket takes the backlog with it.
Backlog == {c \in Conns : link[c] = "queued"}

DropBacklog == link' = [c \in Conns |-> IF c \in Backlog THEN "dropped" ELSE link[c]]

Ends(p, victims) ==
  /\ cfds' = [cfds EXCEPT ![p] = {}]
  /\ child' = [child EXCEPT ![p] = IF ppc = "down" THEN "free" ELSE "zombie"]
  /\ pending' = (pending \/ (ppc # "down" /\ installed))
  /\ IF ppc = "down" /\ \A q \in Pids \ {p} : ~Alive(q)
     THEN DropBacklog /\ lost' = lost \cup victims \cup Backlog
     ELSE UNCHANGED link /\ lost' = lost \cup victims
  /\ UNCHANGED <<ppc, connfd, pfds, installed, reaping, conn, offset, got, reply>>

Exit(p) ==
  /\ child[p] = "exit"
  /\ Ends(p, {})
  /\ UNCHANGED <<clientVars, faultVars>>

\* The child dies of a signal in rpc_query, for some queries.
Crash(p) ==
  /\ child[p] = "parse"
  /\ crashes < MaxCrashes
  /\ crashes' = crashes + 1
  /\ Ends(p, {conn[p]})
  /\ UNCHANGED <<clientVars, acceptFails, kills>>

--------------------------------------------------------------------------------
(* The parent is killed; the children it forked carry on, as orphans, and init *)
(* reaps its zombies.                                                           *)

Kill ==
  /\ ppc # "down"
  /\ kills < MaxKills
  /\ kills' = kills + 1
  /\ ppc' = "down"
  /\ pfds' = {}
  /\ connfd' = None
  /\ installed' = FALSE /\ pending' = FALSE /\ reaping' = FALSE
  /\ child' = [p \in Pids |-> IF Alive(p) THEN child[p] ELSE "free"]
  /\ LET unforked == IF ppc \in {"signal", "fork"} THEN pfds ELSE {}
     IN IF \E p \in Pids : Alive(p)
        THEN UNCHANGED link /\ lost' = lost \cup unforked
        ELSE DropBacklog /\ lost' = lost \cup unforked \cup Backlog
  /\ UNCHANGED <<conn, cfds, offset, got, reply, acceptFails, crashes>>
  /\ UNCHANGED clientVars

--------------------------------------------------------------------------------
(* The clients (src/src/cpcli.cc): connect, one write of the query and the    *)
(* flag, then read until the connection ends.                                 *)

Connect(c) ==
  /\ link[c] = "idle"
  /\ Listening
  /\ link' = [link EXCEPT ![c] = "queued"]
  /\ UNCHANGED <<got, reply, lost>>
  /\ UNCHANGED <<parentVars, childVars, clientVars, faultVars>>

Send(c) ==
  /\ link[c] # "idle"
  /\ c \notin closed
  /\ seen[c] = Pending
  /\ stream[c] = <<>>
  /\ \E s \in Streams : stream' = [stream EXCEPT ![c] = s]
  /\ UNCHANGED <<closed, seen>>
  /\ UNCHANGED <<parentVars, childVars, connVars, faultVars>>

\* The client's read() comes to the end of the connection.  Bytes the server
\* never read turn its close into a reset, which may overtake the answer.
ClientEnd(c) ==
  /\ seen[c] = Pending
  /\ stream[c] # <<>>
  /\ link[c] = "dropped" \/ (link[c] = "open" /\ Released(c))
  /\ \/ /\ reply[c] > 0
        /\ seen' = [seen EXCEPT ![c] = reply[c]]
     \/ /\ reply[c] = 0 \/ Unread(c) > 0
        /\ seen' = [seen EXCEPT ![c] = Empty]
  /\ UNCHANGED <<stream, closed>>
  /\ UNCHANGED <<parentVars, childVars, connVars, faultVars>>

\* The client closes its end, before or after the connection has ended.
ClientClose(c) ==
  /\ link[c] # "idle"
  /\ c \notin closed
  /\ closed' = closed \cup {c}
  /\ seen' = [seen EXCEPT ![c] = IF @ = Pending THEN Abandoned ELSE @]
  /\ UNCHANGED stream
  /\ UNCHANGED <<parentVars, childVars, connVars, faultVars>>

--------------------------------------------------------------------------------

Parent  == Start \/ Accept \/ InstallHandler \/ Fork \/ ForkFails \/ CloseConnection
Handler == HandlerEnter \/ HandlerReap \/ HandlerReturn
Child(p) == \/ Read(p) \/ ReadEnds(p) \/ Parse(p) \/ Write(p)
            \/ CloseChild(p) \/ Exit(p)
Client(c) == Connect(c) \/ Send(c) \/ ClientEnd(c) \/ ClientClose(c)

Next ==
  \/ Parent
  \/ Handler
  \/ AcceptFails
  \/ Kill
  \/ \E p \in Pids : Child(p) \/ Crash(p)
  \/ \E c \in Conns : Client(c)

\* The kernel schedules every runnable process and delivers pending signals, and
\* a client that has sent its query reads on until its connection ends.  Nothing
\* obliges a client to send or to close.
Fairness ==
  /\ WF_vars(Parent)
  /\ WF_vars(Handler)
  /\ \A p \in Pids : WF_vars(Child(p))
  /\ \A c \in Conns : WF_vars(ClientEnd(c))

Spec     == Init /\ [][Next]_vars
FairSpec == Spec /\ Fairness

--------------------------------------------------------------------------------
(* Properties. *)

TypeOK ==
  /\ ppc \in ParentStates
  /\ connfd \in Conns \cup {None}
  /\ pfds \subseteq Conns
  /\ installed \in BOOLEAN /\ pending \in BOOLEAN /\ reaping \in BOOLEAN
  /\ child \in [Pids -> ChildStates]
  /\ conn \in [Pids -> Conns \cup {None}]
  /\ cfds \in [Pids -> SUBSET Conns]
  /\ offset \in [Pids -> Nat]
  /\ link \in [Conns -> {"idle", "queued", "open", "dropped"}]
  /\ got \in [Conns -> Nat]
  /\ \A c \in Conns : got[c] <= Len(stream[c])
  /\ reply \in [Conns -> Nat]
  /\ lost \subseteq Conns
  /\ stream \in [Conns -> Streams \cup {<<>>}]
  /\ closed \subseteq Conns
  /\ seen \in [Conns -> Nat \cup {Empty, Abandoned}]
  /\ acceptFails \in 0..MaxAcceptFails
  /\ crashes \in 0..MaxCrashes
  /\ kills \in 0..MaxKills

\* A connection is open in the parent only between accept() and close(), and in
\* no child but the one forked for it.  A descriptor inherited by another child
\* (a close() missed on some path through the loop) would keep a client waiting
\* for an end of file that its own child has long sent.
DescriptorsPrivate ==
  /\ pfds \subseteq (IF ppc \in {"signal", "fork", "close"} THEN {connfd} ELSE {})
  /\ \A p \in Pids : cfds[p] \subseteq {conn[p]}
  /\ \A p, q \in Pids : p # q => cfds[p] \cap cfds[q] = {}

\* No zombie is forgotten: as long as there is one, a SIGCHLD is pending or the
\* handler is still in its waitpid loop, although several children that end
\* together raise one signal only.
ZombiesAnnounced ==
  (\E p \in Pids : child[p] = "zombie") => pending \/ reaping

\* An answer written to a connection is the parse of exactly what its client sent
\* before the first end flag, in whatever pieces read() delivered it: a flag cut
\* in two by a read is found, and the first of two flags counts.
AnswersFirstQuery ==
  \A c \in Conns : reply[c] > 0 => FindsFlagAt(stream[c], Len(stream[c]), reply[c])

\* What makes the three invariants above inductive.  A child past its loop holds the
\* offset of the first flag of what it has read; a connection nobody has accepted
\* is in no descriptor table, and one accepted but not yet forked for is in no
\* child's; and every child was forked after sig_chld was installed, by a parent
\* that still runs or that left no zombie behind.
QueriesFramed ==
  \A p \in Pids : child[p] \in {"parse", "write"} =>
    /\ conn[p] \in Conns
    /\ offset[p] > 0
    /\ FindsFlagAt(stream[conn[p]], got[conn[p]], offset[p])

DescriptorsFresh ==
  /\ \A c \in Conns : link[c] # "open" => Released(c)
  /\ ppc \in {"signal", "fork"} => \A p \in Pids : cfds[p] \cap pfds = {}

HandlerInPlace ==
  /\ ppc \in {"fork", "close"} => installed
  /\ ppc = "down" => ~pending /\ ~reaping /\ \A p \in Pids : child[p] # "zombie"
  /\ ppc # "down" => installed \/ \A p \in Pids : child[p] = "free"

IInv ==
  /\ TypeOK
  /\ AnswersFirstQuery /\ QueriesFramed
  /\ DescriptorsPrivate /\ DescriptorsFresh
  /\ ZombiesAnnounced /\ HandlerInPlace

\* citepd implements the service of CiteService; what the client has seen of its
\* connection is the outcome.
Promise == INSTANCE CiteService WITH outcome <- seen

\* The safety half: an answer is given only to a query framed within bounds, and
\* withheld only if the framing allows it or no child could answer.
KeepsPromise == Promise!SafeSpec

\* The liveness half: a client whose query has reached its flag, or the size
\* limit, sees its connection end.
Decides == Promise!Decides

\* What makes the promise inductive.  Who serves a connection holds it; what has been
\* read and answered stays within the limit and one read; and a connection that is
\* open, and that nobody has given up, is about to be forked for, is served by a
\* child, or is settled: answered, or of a client that must not be answered.
Serving == {"read", "parse", "write"}

Holding ==
  /\ ppc \in {"signal", "fork"} /\ connfd # None => connfd \in pfds
  /\ \A p \in Pids : child[p] \in Serving /\ conn[p] # None => conn[p] \in cfds[p]

Bounded ==
  /\ \A c \in Conns :
       link[c] # "open" \/ (ppc \in {"signal", "fork"} /\ c = connfd) => got[c] = 0
  /\ \A p \in Pids :
       /\ child[p] = "read" /\ conn[p] # None => got[conn[p]] <= Q_SIZE_LIMIT
       /\ child[p] \in {"parse", "write"} =>
            offset[p] + Len(end_flag) <= Q_SIZE_LIMIT + MAXLINE
  /\ \A c \in Conns : reply[c] > 0 => reply[c] + Len(end_flag) <= Q_SIZE_LIMIT + MAXLINE

Settled(c) ==
  \/ reply[c] > 0 /\ FindsFlagAt(stream[c], got[c], reply[c])
  \/ /\ stream[c] # <<>>
     /\ \A k \in 1..Len(stream[c]) : ~Promise!MustAnswer(stream[c], k)

Accounted ==
  /\ \A c \in Conns : link[c] = "dropped" => c \in lost
  /\ \A c \in closed : seen[c] # Pending
  /\ \A c \in Conns : link[c] = "open" /\ seen[c] = Pending /\ c \notin lost =>
       \/ ppc \in {"signal", "fork"} /\ connfd = c
       \/ \E p \in Pids : child[p] \in Serving /\ conn[p] = c
       \/ Settled(c)

PromiseInv == IInv /\ Holding /\ Bounded /\ Accounted

\* A client cannot hold up the others: a connection in the backlog is taken from
\* it even if every earlier client stays silent and keeps its child in read().
BacklogMoves == \A c \in Conns : link[c] = "queued" ~> link[c] # "queued"

\* A connection whose client has closed or finished its query is released by all
\* processes, and a process slot does not stay a zombie.
ConnectionsEnd == \A c \in Conns :
  (link[c] = "open" /\ (c \in closed \/ Promise!Complete(stream[c]))) ~> Released(c)
Reaped == \A p \in Pids : child[p] = "zombie" ~> child[p] # "zombie"
================================================================================
