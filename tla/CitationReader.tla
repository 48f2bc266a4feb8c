----------------------------- MODULE CitationReader -----------------------------
(****************************************************************************)
(* The Java client of citepd (CitationReader.java): threads of one program  *)
(* that share the address of the server in two static fields, and parse a   *)
(* text by asking the server up to retryTimes times.  Every try makes a     *)
(* connection of its own; what a connection may answer, decline or lose is  *)
(* what CiteService promises, which Citepd implements.                      *)
(*                                                                          *)
(* getInstance is synchronized, citeParse is not and reads host and port    *)
(* one after the other: a field that another thread has written since this  *)
(* thread last held the lock may be seen with its old or its new value.     *)
(****************************************************************************)
EXTENDS Integers, Sequences

CONSTANTS
  Threads,         \* the threads that use the client
  Parsers,         \* those that parse; the others only call getInstance
  Hosts, Ports,    \* the addresses getInstance is called with
  Blank,           \* the host that is null or only blanks
  Texts,           \* the texts to be parsed
  MaxRetry,        \* the largest number of tries a thread asks for
  MaxCalls,        \* bound: calls of citeParse by one thread
  Byte, end_flag, Q_SIZE_LIMIT, MAXLINE     \* of the service

ASSUME ReaderAssumption ==
  /\ MaxRetry \in Nat
  /\ MaxCalls \in Nat
  /\ Blank \in Hosts
  /\ Parsers \subseteq Threads
  /\ Texts \subseteq Seq(Byte)
  /\ end_flag \in Seq(Byte) /\ end_flag # <<>>

VARIABLES
  host, port,      \* the static fields of the class
  hosts, ports,    \* the values of them that a thread may see
  own,             \* what the thread gave to its last getInstance
  pc,              \* where a thread is in citeParse
  instr,           \* the text it parses
  retryTimes,      \* the tries it has left
  success,         \* its variable of this name
  citeList,        \* the answers whose citations it has collected
  asked,           \* where the connection of this try goes
  made,            \* the connections the thread has made, which names them
  tries,           \* history: tries begun in this call
  closesFailed,    \* history: tries of this call whose close failed
  calls,           \* calls begun
  stream, lost, outcome         \* the service

config == <<host, port, hosts, ports, own>>
local  == <<instr, retryTimes, success, citeList, asked, made, tries, closesFailed, calls>>
svars  == <<stream, lost, outcome>>
vars   == <<config, pc, local, svars>>

\* retryTimes after the first lines of citeParse.
AtLeastOne(n) == IF n <= 0 THEN 1 ELSE n

Conns == Parsers \X (1..(MaxCalls * AtLeastOne(MaxRetry)))

S == INSTANCE CiteService WITH Streams <- {s \o end_flag : s \in Texts}

\* The connection of the try a thread is at.
Conn(t) == <<t, made[t]>>

Init ==
  /\ host \in Hosts \ {Blank} /\ port \in Ports
  /\ hosts = [t \in Parsers |-> {host}] /\ ports = [t \in Parsers |-> {port}]
  /\ own = [t \in Parsers |-> <<host, port>>]
  /\ pc = [t \in Parsers |-> "idle"]
  /\ \E s \in Texts : instr = [t \in Parsers |-> s]
  /\ retryTimes = [t \in Parsers |-> 0]
  /\ success = [t \in Parsers |-> FALSE]
  /\ citeList = [t \in Parsers |-> <<>>]
  /\ asked = own
  /\ made = [t \in Parsers |-> 0]
  /\ tries = [t \in Parsers |-> 0]
  /\ closesFailed = [t \in Parsers |-> 0]
  /\ calls = [t \in Parsers |-> 0]
  /\ S!SInit

--------------------------------------------------------------------------------
(* getInstance(h, p), between two calls of the thread. *)

Differs_NoPort(h, p) == h # Blank /\ h # host
Differs(h, p) == (h # Blank /\ h # host) \/ p # port

Seen(t, u, old, v) == IF u = t THEN {v} ELSE old[u] \cup {v}

getInstance(t) ==
  /\ t \in Parsers => pc[t] = "idle"
  /\ \E h \in Hosts, p \in Ports :
       LET h2 == IF Differs(h, p) THEN h ELSE host
           p2 == IF Differs(h, p) THEN p ELSE port
       IN  /\ host' = h2 /\ port' = p2
           /\ hosts' = [u \in Parsers |-> Seen(t, u, hosts, h2)]
           /\ ports' = [u \in Parsers |-> Seen(t, u, ports, p2)]
           /\ own' = [u \in Parsers |-> IF u = t THEN <<h, p>> ELSE own[u]]
  /\ UNCHANGED <<pc, local, svars>>

--------------------------------------------------------------------------------
(* citeParse *)

Goto(t, from, to) == pc[t] = from /\ pc' = [pc EXCEPT ![t] = to]

citeParse(t) ==
  /\ calls[t] < MaxCalls
  /\ Goto(t, "idle", "loop")
  /\ \E n \in 0..MaxRetry : retryTimes' = [retryTimes EXCEPT ![t] = AtLeastOne(n)]
  /\ \E s \in Texts : instr' = [instr EXCEPT ![t] = s]
  /\ success' = [success EXCEPT ![t] = FALSE]
  /\ citeList' = [citeList EXCEPT ![t] = <<>>]
  /\ tries' = [tries EXCEPT ![t] = 0]
  /\ closesFailed' = [closesFailed EXCEPT ![t] = 0]
  /\ calls' = [calls EXCEPT ![t] = @ + 1]
  /\ UNCHANGED <<config, svars, asked, made>>

TriesAgain(t) == retryTimes[t] > 0 /\ ~success[t]

\* The test of the loop, and the address of the host, which may not be found.
ReadHost(t) ==
  /\ TriesAgain(t)
  /\ retryTimes' = [retryTimes EXCEPT ![t] = @ - 1]
  /\ tries' = [tries EXCEPT ![t] = @ + 1]
  /\ \/ /\ Goto(t, "loop", "resolved")
        /\ \E h \in hosts[t] : asked' = [asked EXCEPT ![t][1] = h]
     \/ /\ Goto(t, "loop", "loop")
        /\ UNCHANGED asked
  /\ UNCHANGED <<config, svars, instr, success, citeList, made, closesFailed, calls>>

\* The port, and the connection, which may be refused or take longer than timeout.
Connect(t) ==
  /\ \E p \in ports[t] : asked' = [asked EXCEPT ![t][2] = p]
  /\ \/ /\ Goto(t, "resolved", "connected")
        /\ made' = [made EXCEPT ![t] = @ + 1]
     \/ /\ Goto(t, "resolved", "loop")
        /\ UNCHANGED made
  /\ UNCHANGED <<config, svars, instr, retryTimes, success, citeList, tries, closesFailed, calls>>

\* One write of the text and its end flag; the server may have ended the
\* connection before.
Write(t) ==
  /\ Goto(t, "connected", "reading")
  /\ IF outcome[Conn(t)] = S!Pending
       THEN S!Submit(Conn(t)) /\ stream'[Conn(t)] = instr[t] \o end_flag
       ELSE UNCHANGED svars
  /\ UNCHANGED <<config, local>>

\* An exception while writing or reading; the socket is closed.
Breaks(t) ==
  /\ Goto(t, "connected", "loop") \/ Goto(t, "reading", "loop")
  /\ IF outcome[Conn(t)] = S!Pending THEN S!Abandon(Conn(t)) ELSE UNCHANGED svars
  /\ UNCHANGED <<config, local>>

\* The answer has been read to its end, and its citations are added.
AddAnswer_First(t) ==
  /\ Goto(t, "reading", "closing")
  /\ \E k \in 1..Len(stream[Conn(t)]) :
       /\ outcome[Conn(t)] = k
       /\ citeList' = [citeList EXCEPT ![t] = <<k>>]
  /\ UNCHANGED <<config, svars, instr, retryTimes, success, asked, made, tries, closesFailed, calls>>
AddAnswer(t) ==
  /\ Goto(t, "reading", "closing")
  /\ \E k \in 1..Len(stream[Conn(t)]) :
       /\ outcome[Conn(t)] = k
       /\ citeList' = [citeList EXCEPT ![t] = Append(@, k)]
  /\ UNCHANGED <<config, svars, instr, retryTimes, success, asked, made, tries, closesFailed, calls>>

\* The connection ends with nothing: fromJson gives null, and getRef fails on it.
NoAnswer_ReadsOn(t) ==
  /\ Goto(t, "reading", "reading")
  /\ outcome[Conn(t)] = S!Empty
  /\ UNCHANGED <<config, svars, local>>
NoAnswer(t) ==
  /\ Goto(t, "reading", "loop")
  /\ outcome[Conn(t)] = S!Empty
  /\ UNCHANGED <<config, svars, local>>

Close(t) ==
  /\ Goto(t, "closing", "loop")
  /\ success' = [success EXCEPT ![t] = TRUE]
  /\ UNCHANGED <<config, svars, instr, retryTimes, citeList, asked, made, tries, closesFailed, calls>>

CloseFails(t) ==
  /\ Goto(t, "closing", "loop")
  /\ closesFailed' = [closesFailed EXCEPT ![t] = @ + 1]
  /\ UNCHANGED <<config, svars, instr, retryTimes, success, citeList, asked, made, tries, calls>>

Return(t) ==
  /\ ~TriesAgain(t)
  /\ Goto(t, "loop", "idle")
  /\ UNCHANGED <<config, svars, local>>

\* What a thread does when nothing breaks, and everything it does.
Advance(t) ==
  \/ ReadHost(t) \/ Connect(t) \/ Write(t)
  \/ AddAnswer(t) \/ NoAnswer(t) \/ Close(t) \/ Return(t)

Step(t) == Advance(t) \/ Breaks(t) \/ CloseFails(t)

\* The server, as CiteService has it, on the connections that have been made.
Made == {c \in Conns : c[2] <= made[c[1]]}

Decide(c) ==
  /\ S!Answer(c) \/ S!Decline(c)
  /\ UNCHANGED <<config, pc, local>>

Lose ==
  /\ S!Fail /\ lost' \subseteq Made
  /\ UNCHANGED <<config, pc, local>>

Serve == Lose \/ \E c \in Made : Decide(c)

Next ==
  \/ \E t \in Threads : getInstance(t)
  \/ \E t \in Parsers : citeParse(t) \/ Step(t)
  \/ Serve

Spec == Init /\ [][Next]_vars

\* A thread that can go on does, but nothing has to break; every query the client
\* sends is complete, so that the service decides about it.
Fairness ==
  /\ \A t \in Parsers : WF_vars(Advance(t))
  /\ \A c \in Conns : WF_vars(Decide(c) /\ stream[c] # <<>>)

FairSpec == Spec /\ Fairness

--------------------------------------------------------------------------------
InCall(t) == pc[t] # "idle"

TypeOK ==
  /\ host \in Hosts /\ port \in Ports
  /\ hosts \in [Parsers -> SUBSET Hosts] /\ ports \in [Parsers -> SUBSET Ports]
  /\ own \in [Parsers -> Hosts \X Ports] /\ asked \in [Parsers -> Hosts \X Ports]
  /\ pc \in [Parsers -> {"idle", "loop", "resolved", "connected", "reading", "closing"}]
  /\ instr \in [Parsers -> Texts]
  /\ retryTimes \in [Parsers -> Nat] /\ tries \in [Parsers -> Nat]
  /\ success \in [Parsers -> BOOLEAN]
  /\ citeList \in [Parsers -> Seq(Nat)]
  /\ made \in [Parsers -> Nat] /\ closesFailed \in [Parsers -> Nat] /\ calls \in [Parsers -> Nat]

\* How often the citations of a text are in the list: once for the try that
\* succeeded, and once more for each try whose connection would not close, because
\* the list is filled (96) before the close (97) and success (98).  A try that
\* fails in any other way leaves nothing behind.
Copies == \A t \in Parsers :
  Len(citeList[t]) = closesFailed[t] + (IF success[t] \/ pc[t] = "closing" THEN 1 ELSE 0)

\* A call that gives up has tried as often as it was told, and one that succeeds
\* asks nobody any more.
GivesUpLate == \A t \in Parsers :
  /\ pc[t] = "idle" /\ ~success[t] => retryTimes[t] = 0
  /\ success[t] => pc[t] \in {"idle", "loop"}
  /\ tries[t] <= AtLeastOne(MaxRetry)

\* Unless another thread has called getInstance with another address in between,
\* a try goes to the server that this thread gave to getInstance; a blank host
\* stands for the one there was.
AsksOwnServer == \A t \in Parsers :
  /\ pc[t] \in {"connected", "reading", "closing"}
  /\ hosts[t] = {host} /\ ports[t] = {port}
  => /\ asked[t] = <<host, port>>
     /\ own[t][1] # Blank => asked[t] = own[t]

\* A call returns, although reading has no timeout: the service decides about every
\* query that was sent in full.
Returns == \A t \in Parsers : InCall(t) ~> ~InCall(t)
================================================================================
