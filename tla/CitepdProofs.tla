------------------------------ MODULE CitepdProofs ------------------------------
(****************************************************************************)
(* Proofs about Citepd, for every set of connections, streams and process   *)
(* slots, every end flag, limit and read size, and any number of faults.    *)
(****************************************************************************)
EXTENDS Citepd, TLAPS

\* All variables, for the steps that must see them one by one.
USE DEF Pending, Empty, Abandoned

--------------------------------------------------------------------------------
(* Type correctness. *)

LEMMA InitTypeOK == Init => TypeOK
<1> SUFFICES ASSUME Init PROVE TypeOK
  OBVIOUS
<1>1. \A c \in Conns : got[c] <= Len(stream[c])
  <2>1. Len(<<>>) = 0
    OBVIOUS
  <2>2. QED
    BY <2>1 DEF Init
<1>2. acceptFails \in 0..MaxAcceptFails /\ crashes \in 0..MaxCrashes /\ kills \in 0..MaxKills
  BY CitepdAssumption DEF Init
<1>3. QED
  BY <1>1, <1>2 DEF Init, TypeOK, ParentStates, ChildStates, Working

LEMMA NextTypeOK == TypeOK /\ QueriesFramed /\ [Next]_vars => TypeOK'
<1> SUFFICES ASSUME TypeOK, QueriesFramed, [Next]_vars
             PROVE  TypeOK'
  OBVIOUS
<1> USE CitepdAssumption DEF TypeOK, ParentStates, ChildStates, Working
<1>1. CASE Start
  BY <1>1 DEF Start, childVars, connVars, clientVars, faultVars
<1>2. CASE Accept
  BY <1>2 DEF Accept, childVars, clientVars, faultVars
<1>3. CASE InstallHandler
  BY <1>3 DEF InstallHandler, childVars, connVars, clientVars, faultVars
<1>4. CASE Fork
  BY <1>4 DEF Fork, connVars, clientVars, faultVars
<1>5. CASE ForkFails
  BY <1>5 DEF ForkFails, childVars, clientVars, faultVars
<1>6. CASE CloseConnection
  BY <1>6 DEF CloseConnection, childVars, connVars, clientVars, faultVars
<1>7. CASE HandlerEnter
  BY <1>7 DEF HandlerEnter, childVars, connVars, clientVars, faultVars
<1>8. CASE HandlerReap
  BY <1>8 DEF HandlerReap, parentVars, connVars, clientVars, faultVars
<1>9. CASE HandlerReturn
  BY <1>9 DEF HandlerReturn, childVars, connVars, clientVars, faultVars
<1>10. CASE AcceptFails
  BY <1>10 DEF AcceptFails, childVars, connVars, clientVars
<1>11. CASE Kill
  <2>1. child' \in [Pids -> ChildStates]
    BY <1>11 DEF Kill
  <2>2. link' \in [Conns -> {"idle", "queued", "open", "dropped"}]
    BY <1>11 DEF Kill, DropBacklog, Backlog
  <2>3. lost' \subseteq Conns
    <3>1. Backlog \subseteq Conns
      BY DEF Backlog
    <3>2. QED
      BY <1>11, <3>1 DEF Kill
  <2>4. kills' \in 0..MaxKills
    BY <1>11 DEF Kill
  <2>5. UNCHANGED <<conn, cfds, offset, got, reply, acceptFails, crashes, stream, closed, seen>>
    BY <1>11 DEF Kill, clientVars
  <2>6. ppc' = "down" /\ connfd' = None /\ pfds' = {} /\ ~installed' /\ ~pending' /\ ~reaping'
        /\ installed' \in BOOLEAN /\ pending' \in BOOLEAN /\ reaping' \in BOOLEAN
    BY <1>11 DEF Kill
  <2>7. QED
    BY <2>1, <2>2, <2>3, <2>4, <2>5, <2>6
<1>12. ASSUME NEW p \in Pids, Child(p)
       PROVE  TypeOK'
  <2>1. CASE Read(p)
    <3>1. UNCHANGED <<parentVars, clientVars, faultVars, conn, cfds, link, reply, lost>>
      BY <2>1 DEF Read
    <3>2. PICK n \in 1..MAXLINE :
            /\ n <= Unread(conn[p])
            /\ got' = [got EXCEPT ![conn[p]] = got[conn[p]] + n]
      BY <2>1 DEF Read
    <3>3. conn[p] \in Conns
      BY <2>1 DEF Read
    <3>4. Len(stream[conn[p]]) \in Nat
      BY <3>3
    <3>5. got' \in [Conns -> Nat] /\ \A c \in Conns : got'[c] <= Len(stream[c])
      BY <3>2, <3>3, <3>4 DEF Unread
    <3>6. offset' \in [Pids -> Nat]
      <4>1. \/ UNCHANGED offset
            \/ \E m \in 1..MAXLINE : \E k \in 0..(got[conn[p]] + m) :
                  offset' = [offset EXCEPT ![p] = k]
        BY <2>1 DEF Read
      <4>2. \A k : (\E m \in 1..MAXLINE : k \in 0..(got[conn[p]] + m)) => k \in Nat
        BY <3>3
      <4>3. QED
        BY <4>1, <4>2
    <3>7. child' \in [Pids -> ChildStates]
      BY <2>1 DEF Read
    <3>8. QED
      BY <3>1, <3>5, <3>6, <3>7 DEF parentVars, clientVars, faultVars
  <2>2. CASE ReadEnds(p)
    BY <2>2 DEF ReadEnds, parentVars, connVars, clientVars, faultVars
  <2>3. CASE Parse(p)
    BY <2>3 DEF Parse, parentVars, connVars, clientVars, faultVars
  <2>4. CASE Write(p)
    BY <2>4 DEF Write, parentVars, clientVars, faultVars
  <2>5. CASE CloseChild(p)
    BY <2>5 DEF CloseChild, parentVars, connVars, clientVars, faultVars
  <2>6. CASE Exit(p)
    <3>1. Ends(p, {})
      BY <2>6 DEF Exit
    <3>2. link' \in [Conns -> {"idle", "queued", "open", "dropped"}] /\ lost' \subseteq Conns
      BY <3>1 DEF Ends, DropBacklog, Backlog
    <3>3. pending' \in BOOLEAN
      BY <3>1 DEF Ends
    <3>4. QED
      BY <2>6, <3>1, <3>2, <3>3 DEF Exit, Ends, clientVars, faultVars
  <2>7. QED
    BY <1>12, <2>1, <2>2, <2>3, <2>4, <2>5, <2>6 DEF Child
<1>13. ASSUME NEW p \in Pids, Crash(p)
       PROVE  TypeOK'
  <2>1. Ends(p, {conn[p]}) /\ conn[p] \in Conns
    BY <1>13 DEF Crash, QueriesFramed
  <2>2. link' \in [Conns -> {"idle", "queued", "open", "dropped"}] /\ lost' \subseteq Conns
    BY <2>1 DEF Ends, DropBacklog, Backlog
  <2>3. pending' \in BOOLEAN
    BY <2>1 DEF Ends
  <2>4. /\ child' \in [Pids -> ChildStates] /\ cfds' \in [Pids -> SUBSET Conns]
        /\ UNCHANGED <<ppc, connfd, pfds, installed, reaping, conn, offset, got, reply>>
    BY <1>13, <2>1 DEF Crash, Ends
  <2>5. UNCHANGED <<clientVars, acceptFails, kills>> /\ crashes' \in 0..MaxCrashes
    BY <1>13 DEF Crash
  <2>6. QED
    BY <2>2, <2>3, <2>4, <2>5 DEF clientVars
<1>14. ASSUME NEW c \in Conns, Client(c)
       PROVE  TypeOK'
  <2>1. CASE Connect(c)
    BY <2>1 DEF Connect, parentVars, childVars, clientVars, faultVars
  <2>2. CASE Send(c)
    BY <2>2 DEF Send, parentVars, childVars, connVars, faultVars
  <2>3. CASE ClientEnd(c)
    <3>1. seen' \in [Conns -> Nat \cup {Empty, Abandoned}]
      BY <2>3 DEF ClientEnd
    <3>2. UNCHANGED <<stream, closed>>
      BY <2>3 DEF ClientEnd
    <3>3. QED
      BY <2>3, <3>1, <3>2 DEF ClientEnd, parentVars, childVars, connVars, faultVars
  <2>4. CASE ClientClose(c)
    BY <2>4 DEF ClientClose, parentVars, childVars, connVars, faultVars
  <2>5. QED
    BY <1>14, <2>1, <2>2, <2>3, <2>4 DEF Client
<1>15. CASE UNCHANGED vars
  BY <1>15 DEF vars, parentVars, childVars, connVars, clientVars, faultVars
<1>16. QED
  BY <1>1, <1>2, <1>3, <1>4, <1>5, <1>6, <1>7, <1>8, <1>9, <1>10, <1>11, <1>12,
     <1>13, <1>14, <1>15 DEF Next, Parent, Handler

--------------------------------------------------------------------------------
(* Framing: reading on never moves the first flag. *)

LEMMA FirstFlagStays ==
  ASSUME NEW s, NEW n \in Nat, NEW m \in Nat, n <= m,
         NEW k \in Nat, FindsFlagAt(s, n, k)
  PROVE  FindsFlagAt(s, m, k)
<1>1. Len(end_flag) \in Nat
  BY FlagAssumption
<1>2. FlagAt(s, m, k)
  BY <1>1 DEF FindsFlagAt, FlagAt
<1>3. ASSUME NEW j \in 0..(k - 1), FlagAt(s, m, j)
      PROVE  FALSE
  <2>1. j + Len(end_flag) <= n
    BY <1>1 DEF FindsFlagAt, FlagAt
  <2>2. FlagAt(s, n, j)
    BY <1>3, <2>1 DEF FlagAt
  <2>3. QED
    BY <2>2 DEF FindsFlagAt
<1>4. QED
  BY <1>2, <1>3 DEF FindsFlagAt

\* A query in which a flag was found is not empty, nor is its connection's stream.
LEMMA FlagNeedsBytes ==
  ASSUME NEW s, NEW n \in Nat, NEW k \in Nat, FindsFlagAt(s, n, k)
  PROVE  n > 0
  BY FlagAssumption DEF FindsFlagAt, FlagAt

LEMMA InitFraming == Init => AnswersFirstQuery /\ QueriesFramed
  BY DEF Init, AnswersFirstQuery, QueriesFramed

LEMMA NextFraming ==
  TypeOK /\ AnswersFirstQuery /\ QueriesFramed /\ [Next]_vars
    => AnswersFirstQuery' /\ QueriesFramed'
<1> SUFFICES ASSUME TypeOK, AnswersFirstQuery, QueriesFramed, [Next]_vars
             PROVE  AnswersFirstQuery' /\ QueriesFramed'
  OBVIOUS
<1> DEFINE Past == {"parse", "write"}
<1>a. \A c \in Conns : got[c] \in Nat /\ Len(stream[c]) \in Nat /\ got[c] <= Len(stream[c])
  BY CitepdAssumption DEF TypeOK
\* The steps that touch neither what was sent, nor what was read, nor answers.
<1>1. ASSUME UNCHANGED <<stream, got, reply, offset, conn>>,
             \A p \in Pids : child'[p] \in Past => child[p] \in Past
      PROVE  AnswersFirstQuery' /\ QueriesFramed'
  BY <1>1 DEF AnswersFirstQuery, QueriesFramed
<1>2. CASE Start \/ Accept \/ InstallHandler \/ ForkFails \/ CloseConnection \/ Handler
           \/ AcceptFails \/ Kill \/ UNCHANGED vars
  <2>1. UNCHANGED <<stream, got, reply, offset, conn>>
    BY <1>2 DEF Start, Accept, InstallHandler, ForkFails, CloseConnection, Handler,
       HandlerEnter, HandlerReap, HandlerReturn, AcceptFails, Kill, vars, parentVars,
       childVars, connVars, clientVars
  <2>2. \A p \in Pids : child'[p] \in Past => child[p] \in Past
    BY <1>2 DEF Start, Accept, InstallHandler, ForkFails, CloseConnection, Handler,
       HandlerEnter, HandlerReap, HandlerReturn, AcceptFails, Kill, vars, childVars, TypeOK
  <2>3. QED
    BY <1>1, <2>1, <2>2
<1>3. CASE Fork
  BY <1>3 DEF Fork, connVars, clientVars, TypeOK, AnswersFirstQuery, QueriesFramed
<1>4. ASSUME NEW p \in Pids, Read(p)
      PROVE  AnswersFirstQuery' /\ QueriesFramed'
  <2>1. PICK n \in 1..MAXLINE :
          LET s    == stream[conn[p]]
              size == got[conn[p]] + n
          IN /\ n <= Unread(conn[p])
             /\ got' = [got EXCEPT ![conn[p]] = size]
             /\ \/ \E k \in 0..size :
                     /\ FindsFlagAt(s, size, k)
                     /\ offset' = [offset EXCEPT ![p] = k]
                     /\ child' = [child EXCEPT ![p] = IF k > 0 THEN "parse" ELSE "close"]
                \/ /\ HasNoFlag(s, size)
                   /\ child' = [child EXCEPT
                         ![p] = IF size > Q_SIZE_LIMIT THEN "close" ELSE "read"]
                   /\ UNCHANGED offset
    BY <1>4 DEF Read
  <2> DEFINE c == conn[p]
             size == got[c] + n
  <2>2. c \in Conns /\ n \in Nat /\ size \in Nat
    BY <1>4, <1>a, CitepdAssumption DEF Read, TypeOK
  <2>3. got'[c] = size /\ \A d \in Conns \ {c} : got'[d] = got[d]
    BY <2>1, <2>2 DEF TypeOK
  <2>4. UNCHANGED <<stream, reply, conn>>
    BY <1>4 DEF Read, clientVars
  <2>5. \A d \in Conns : got'[d] \in Nat /\ got[d] <= got'[d]
    BY <1>a, <2>2, <2>3
  <2>6. AnswersFirstQuery'
    BY <2>4 DEF AnswersFirstQuery
  <2>7. ASSUME NEW q \in Pids, child'[q] \in Past
        PROVE  conn[q] \in Conns /\ offset'[q] > 0
               /\ FindsFlagAt(stream[conn[q]], got'[conn[q]], offset'[q])
    <3>1. CASE q = p
      <4>1. PICK k \in 0..size : /\ FindsFlagAt(stream[c], size, k)
                                 /\ offset' = [offset EXCEPT ![p] = k]
                                 /\ child' = [child EXCEPT ![p] = IF k > 0 THEN "parse" ELSE "close"]
        <5>1. CASE child' = [child EXCEPT ![p] = IF size > Q_SIZE_LIMIT THEN "close" ELSE "read"]
          BY <2>7, <3>1, <5>1 DEF TypeOK
        <5>2. QED
          BY <2>1, <5>1
      <4>2. k > 0 /\ offset'[p] = k
        BY <2>7, <3>1, <4>1, <2>2 DEF TypeOK
      <4>3. QED
        BY <3>1, <4>1, <4>2, <2>2, <2>3
    <3>2. CASE q # p
      <4>1. child'[q] = child[q] /\ offset'[q] = offset[q]
        BY <2>1, <3>2 DEF TypeOK
      <4>2. conn[q] \in Conns /\ offset[q] > 0
            /\ FindsFlagAt(stream[conn[q]], got[conn[q]], offset[q])
        BY <2>7, <4>1 DEF QueriesFramed
      <4>3. offset[q] \in Nat
        BY DEF TypeOK
      <4>4. FindsFlagAt(stream[conn[q]], got'[conn[q]], offset[q])
        BY <4>2, <4>3, <2>5, <1>a, FirstFlagStays
      <4>5. QED
        BY <4>1, <4>2, <4>4
    <3>3. QED
      BY <3>1, <3>2
  <2>8. QED
    BY <2>4, <2>6, <2>7 DEF QueriesFramed
<1>5. ASSUME NEW p \in Pids, ReadEnds(p) \/ Parse(p) \/ CloseChild(p) \/ Exit(p) \/ Crash(p)
      PROVE  AnswersFirstQuery' /\ QueriesFramed'
  <2>1. UNCHANGED <<stream, got, reply, offset, conn>>
    BY <1>5 DEF ReadEnds, Parse, CloseChild, Exit, Crash, Ends, connVars, clientVars
  <2>2. \A q \in Pids : child'[q] \in Past => child[q] \in Past
    BY <1>5 DEF ReadEnds, Parse, CloseChild, Exit, Crash, Ends, TypeOK
  <2>3. QED
    BY <1>1, <2>1, <2>2
<1>6. ASSUME NEW p \in Pids, Write(p)
      PROVE  AnswersFirstQuery' /\ QueriesFramed'
  <2>1. /\ conn[p] \in Conns
        /\ FindsFlagAt(stream[conn[p]], got[conn[p]], offset[p])
    BY <1>6 DEF Write, QueriesFramed
  <2>2. FindsFlagAt(stream[conn[p]], Len(stream[conn[p]]), offset[p])
    <3>1. offset[p] \in Nat
      BY DEF TypeOK
    <3>2. QED
      BY <2>1, <3>1, <1>a, FirstFlagStays
  <2>3. AnswersFirstQuery'
    BY <1>6, <2>1, <2>2 DEF Write, AnswersFirstQuery, TypeOK, clientVars
  <2>4. QueriesFramed'
    BY <1>6 DEF Write, QueriesFramed, TypeOK, clientVars
  <2>5. QED
    BY <2>3, <2>4
<1>7. ASSUME NEW c \in Conns, Send(c)
      PROVE  AnswersFirstQuery' /\ QueriesFramed'
  <2>1. UNCHANGED <<got, reply, offset, conn, child>> /\ stream[c] = <<>>
        /\ \A d \in Conns \ {c} : stream'[d] = stream[d]
    BY <1>7 DEF Send, TypeOK, childVars, connVars
  <2>2. Len(stream[c]) = 0 /\ got[c] = 0
    BY <2>1, <1>a
  <2>3. reply[c] = 0
    <3>1. reply[c] \in Nat
      BY DEF TypeOK
    <3>2. QED
      BY <2>2, <3>1, FlagNeedsBytes DEF AnswersFirstQuery
  <2>4. \A p \in Pids : child[p] \in Past => conn[p] # c
    <3>1. \A p \in Pids : offset[p] \in Nat
      BY DEF TypeOK
    <3>2. QED
      BY <2>2, <3>1, FlagNeedsBytes DEF QueriesFramed
  <2>5. QED
    BY <2>1, <2>3, <2>4 DEF AnswersFirstQuery, QueriesFramed
<1>8. ASSUME NEW c \in Conns, Connect(c) \/ ClientEnd(c) \/ ClientClose(c)
      PROVE  AnswersFirstQuery' /\ QueriesFramed'
  <2>1. UNCHANGED <<stream, got, reply, offset, conn, child>>
    BY <1>8 DEF Connect, ClientEnd, ClientClose, childVars, connVars, clientVars
  <2>2. QED
    BY <1>1, <2>1
<1>9. QED
  BY <1>2, <1>3, <1>4, <1>5, <1>6, <1>7, <1>8 DEF Next, Parent, Child, Client

--------------------------------------------------------------------------------
(* Descriptors: what a connection's holders are allowed to be. *)

LEMMA InitDescriptors == Init => DescriptorsPrivate /\ DescriptorsFresh
  BY DEF Init, DescriptorsPrivate, DescriptorsFresh, Released

LEMMA NextDescriptors ==
  TypeOK /\ DescriptorsPrivate /\ DescriptorsFresh /\ [Next]_vars
    => DescriptorsPrivate' /\ DescriptorsFresh'
<1> SUFFICES ASSUME TypeOK, DescriptorsPrivate, DescriptorsFresh, [Next]_vars
             PROVE  DescriptorsPrivate' /\ DescriptorsFresh'
  OBVIOUS
<1> USE DEF DescriptorsPrivate, DescriptorsFresh, Released
<1>1. ASSUME UNCHANGED <<ppc, connfd, pfds, conn, cfds>>,
             \A c \in Conns : link[c] = "open" => link'[c] = "open"
      PROVE  DescriptorsPrivate' /\ DescriptorsFresh'
  BY <1>1
<1>2. CASE Start
  BY <1>2 DEF Start, childVars, connVars
<1>3. CASE Accept
  <2>1. PICK c \in Conns : /\ link[c] = "queued"
                           /\ link' = [link EXCEPT ![c] = "open"]
                           /\ connfd' = c
                           /\ pfds' = pfds \cup {c}
    BY <1>3 DEF Accept
  <2>2. ppc = "accept" /\ ppc' = "signal" /\ UNCHANGED <<conn, cfds>>
    BY <1>3 DEF Accept, childVars
  <2>3. Released(c) /\ pfds' = {c}
    BY <2>1, <2>2
  <2>4. \A d \in Conns \ {c} : link'[d] = link[d]
    BY <2>1 DEF TypeOK
  <2>5. link'[c] = "open"
    BY <2>1 DEF TypeOK
  <2>6. DescriptorsPrivate'
    BY <2>1, <2>2, <2>3
  <2>7. DescriptorsFresh'
    BY <2>2, <2>3, <2>4, <2>5
  <2>8. QED
    BY <2>6, <2>7
<1>4. CASE InstallHandler
  BY <1>4 DEF InstallHandler, childVars, connVars
<1>5. CASE Fork
  <2>1. PICK p \in Pids : /\ child[p] = "free"
                          /\ conn' = [conn EXCEPT ![p] = connfd]
                          /\ cfds' = [cfds EXCEPT ![p] = pfds]
    BY <1>5 DEF Fork
  <2>2. ppc = "fork" /\ ppc' = "close" /\ UNCHANGED <<connfd, pfds, link>>
    BY <1>5 DEF Fork, connVars
  <2>3. /\ conn'[p] = connfd /\ cfds'[p] = pfds
        /\ \A q \in Pids \ {p} : conn'[q] = conn[q] /\ cfds'[q] = cfds[q]
    BY <2>1 DEF TypeOK
  <2>4. DescriptorsPrivate'
    <3>1. \A q \in Pids : cfds'[q] \subseteq {conn'[q]}
      BY <2>2, <2>3
    <3>2. \A q, r \in Pids : q # r => cfds'[q] \cap cfds'[r] = {}
      BY <2>2, <2>3
    <3>3. QED
      BY <2>2, <3>1, <3>2
  <2>5. DescriptorsFresh'
    BY <2>2, <2>3
  <2>6. QED
    BY <2>4, <2>5
<1>6. CASE ForkFails
  BY <1>6 DEF ForkFails, childVars
<1>7. CASE CloseConnection
  BY <1>7 DEF CloseConnection, childVars, connVars
<1>8. CASE Handler
  <2>1. UNCHANGED <<ppc, connfd, pfds, conn, cfds, link>>
    BY <1>8 DEF Handler, HandlerEnter, HandlerReap, HandlerReturn, parentVars, childVars, connVars
  <2>2. QED
    BY <1>1, <2>1
<1>9. CASE AcceptFails
  BY <1>9 DEF AcceptFails, childVars, connVars
<1>10. CASE Kill
  <2>1. ppc' = "down" /\ pfds' = {} /\ UNCHANGED <<conn, cfds>>
    BY <1>10 DEF Kill
  <2>2. \A c \in Conns : link[c] = "open" => link'[c] = "open"
    BY <1>10 DEF Kill, DropBacklog, Backlog, TypeOK
  <2>3. QED
    BY <2>1, <2>2
<1>11. ASSUME NEW p \in Pids, Read(p) \/ ReadEnds(p) \/ Parse(p) \/ Write(p)
       PROVE  DescriptorsPrivate' /\ DescriptorsFresh'
  <2>1. UNCHANGED <<ppc, connfd, pfds, conn, cfds, link>>
    BY <1>11 DEF Read, ReadEnds, Parse, Write, parentVars, connVars
  <2>2. QED
    BY <1>1, <2>1
\* A child only ever gives descriptors up.
<1>12. ASSUME NEW p \in Pids, UNCHANGED <<ppc, connfd, pfds, conn>>,
              \E s : s \subseteq cfds[p] /\ cfds' = [cfds EXCEPT ![p] = s],
              \A c \in Conns : link[c] = "open" => link'[c] = "open"
       PROVE  DescriptorsPrivate' /\ DescriptorsFresh'
  <2>1. \A q \in Pids : cfds'[q] \subseteq cfds[q]
    BY <1>12 DEF TypeOK
  <2>2. QED
    BY <1>12, <2>1
<1>13. ASSUME NEW p \in Pids, CloseChild(p)
       PROVE  DescriptorsPrivate' /\ DescriptorsFresh'
  BY <1>12, <1>13 DEF CloseChild, parentVars, connVars
<1>14. ASSUME NEW p \in Pids, Exit(p) \/ Crash(p)
       PROVE  DescriptorsPrivate' /\ DescriptorsFresh'
  <2>1. Ends(p, {}) \/ Ends(p, {conn[p]})
    BY <1>14 DEF Exit, Crash
  <2>2. cfds' = [cfds EXCEPT ![p] = {}] /\ UNCHANGED <<ppc, connfd, pfds, conn>>
    BY <2>1 DEF Ends
  <2>3. \A c \in Conns : link[c] = "open" => link'[c] = "open"
    BY <2>1 DEF Ends, DropBacklog, Backlog, TypeOK
  <2>4. QED
    BY <1>12, <2>2, <2>3
<1>15. ASSUME NEW c \in Conns, Client(c)
       PROVE  DescriptorsPrivate' /\ DescriptorsFresh'
  <2>1. UNCHANGED <<ppc, connfd, pfds, conn, cfds>>
    BY <1>15 DEF Client, Connect, Send, ClientEnd, ClientClose, parentVars, childVars
  <2>2. \A d \in Conns : link[d] = "open" => link'[d] = "open"
    BY <1>15 DEF Client, Connect, Send, ClientEnd, ClientClose, connVars, TypeOK
  <2>3. QED
    BY <1>1, <2>1, <2>2
<1>16. CASE UNCHANGED vars
  BY <1>1, <1>16 DEF vars, parentVars, childVars, connVars
<1>17. QED
  BY <1>2, <1>3, <1>4, <1>5, <1>6, <1>7, <1>8, <1>9, <1>10, <1>11, <1>13, <1>14, <1>15,
     <1>16 DEF Next, Parent, Child

--------------------------------------------------------------------------------
(* Zombies: the one pending signal is enough. *)

LEMMA InitHandler == Init => ZombiesAnnounced /\ HandlerInPlace
  BY DEF Init, ZombiesAnnounced, HandlerInPlace

LEMMA NextHandler ==
  TypeOK /\ ZombiesAnnounced /\ HandlerInPlace /\ [Next]_vars
    => ZombiesAnnounced' /\ HandlerInPlace'
<1> SUFFICES ASSUME TypeOK, ZombiesAnnounced, HandlerInPlace, [Next]_vars
             PROVE  ZombiesAnnounced' /\ HandlerInPlace'
  OBVIOUS
<1> USE DEF ZombiesAnnounced, HandlerInPlace
<1>1. CASE Start
  <2>1. \A p \in Pids : child[p] = "free"
    BY <1>1 DEF Start, Listening, Alive, TypeOK, ChildStates
  <2>2. QED
    BY <1>1, <2>1 DEF Start, childVars
<1>2. CASE Accept \/ InstallHandler \/ ForkFails \/ CloseConnection \/ AcceptFails
  BY <1>2 DEF Accept, InstallHandler, ForkFails, CloseConnection, AcceptFails, childVars
<1>3. CASE Fork
  BY <1>3 DEF Fork, TypeOK
<1>4. CASE HandlerEnter
  BY <1>4 DEF HandlerEnter, childVars
<1>5. CASE HandlerReap
  BY <1>5 DEF HandlerReap, parentVars, TypeOK
<1>6. CASE HandlerReturn
  BY <1>6 DEF HandlerReturn, childVars
<1>7. CASE Kill
  BY <1>7 DEF Kill, Alive, Working
<1>8. ASSUME NEW p \in Pids, child[p] \in Working,
             UNCHANGED parentVars,
             \E pc \in Working : child' = [child EXCEPT ![p] = pc]
      PROVE  ZombiesAnnounced' /\ HandlerInPlace'
  BY <1>8 DEF parentVars, Working, TypeOK
<1>9. ASSUME NEW p \in Pids,
             Read(p) \/ ReadEnds(p) \/ Parse(p) \/ Write(p) \/ CloseChild(p)
      PROVE  ZombiesAnnounced' /\ HandlerInPlace'
  <2>1. child[p] \in Working /\ UNCHANGED parentVars
    BY <1>9 DEF Read, ReadEnds, Parse, Write, CloseChild, Working
  <2>2. \E pc \in Working : child' = [child EXCEPT ![p] = pc]
    BY <1>9 DEF Read, ReadEnds, Parse, Write, CloseChild, Working
  <2>3. QED
    BY <1>8, <2>1, <2>2
<1>10. ASSUME NEW p \in Pids, Exit(p) \/ Crash(p)
       PROVE  ZombiesAnnounced' /\ HandlerInPlace'
  <2>1. child[p] # "free"
    BY <1>10 DEF Exit, Crash
  <2>2. /\ child' = [child EXCEPT ![p] = IF ppc = "down" THEN "free" ELSE "zombie"]
        /\ pending' = (pending \/ (ppc # "down" /\ installed))
        /\ UNCHANGED <<ppc, installed, reaping>>
    BY <1>10 DEF Exit, Crash, Ends
  <2>3. CASE ppc = "down"
    BY <2>2, <2>3 DEF TypeOK
  <2>4. CASE ppc # "down"
    BY <2>1, <2>2, <2>4 DEF TypeOK
  <2>5. QED
    BY <2>3, <2>4
<1>11. CASE (\E c \in Conns : Client(c)) \/ UNCHANGED vars
  <2>1. UNCHANGED <<ppc, installed, pending, reaping, child>>
    BY <1>11 DEF Client, Connect, Send, ClientEnd, ClientClose, vars, parentVars, childVars
  <2>2. QED
    BY <2>1
<1>12. QED
  BY <1>1, <1>2, <1>3, <1>4, <1>5, <1>6, <1>7, <1>9, <1>10, <1>11
  DEF Next, Parent, Handler, Child

--------------------------------------------------------------------------------
(* The promise: that citepd implements CiteService. *)

LEMMA InitPromise == Init => Holding /\ Bounded /\ Accounted
<1> SUFFICES ASSUME Init PROVE Holding /\ Bounded /\ Accounted
  OBVIOUS
<1>1. Holding
  BY DEF Init, Holding, Serving
<1>2. Bounded
  BY DEF Init, Bounded
<1>3. Accounted
  BY DEF Init, Accounted
<1>4. QED
  BY <1>1, <1>2, <1>3

\* Who serves a connection holds it: fork() hands it over, and a child gives it up
\* when it has served it or has died.
LEMMA NextHolding == TypeOK /\ Holding /\ [Next]_vars => Holding'
<1> SUFFICES ASSUME TypeOK, Holding, [Next]_vars PROVE Holding'
  OBVIOUS
<1> USE DEF Holding, Serving
<1>1. ASSUME UNCHANGED <<conn, cfds>>, \A p \in Pids : child'[p] \in Serving => child[p] \in Serving,
             ppc' \in {"signal", "fork"} /\ connfd' # None => connfd' \in pfds'
      PROVE  Holding'
  BY <1>1
<1>2. CASE Start \/ Accept \/ InstallHandler \/ ForkFails \/ CloseConnection \/ AcceptFails
  BY <1>2, <1>1 DEF Start, Accept, InstallHandler, ForkFails, CloseConnection, AcceptFails, childVars
<1>3. CASE Fork
  BY <1>3 DEF Fork, TypeOK
<1>4. CASE Handler \/ Kill
  BY <1>4, <1>1 DEF Handler, HandlerEnter, HandlerReap, HandlerReturn, Kill, childVars, parentVars, TypeOK
<1>5. ASSUME NEW p \in Pids, Read(p) \/ ReadEnds(p) \/ Parse(p) \/ Write(p)
      PROVE  Holding'
  <2>1. child[p] \in Serving /\ UNCHANGED <<conn, cfds, parentVars>>
    BY <1>5 DEF Read, ReadEnds, Parse, Write
  <2>2. \A q \in Pids \ {p} : child'[q] = child[q]
    BY <1>5 DEF Read, ReadEnds, Parse, Write, TypeOK
  <2>3. QED
    BY <1>1, <2>1, <2>2 DEF parentVars
<1>6. ASSUME NEW p \in Pids, CloseChild(p) \/ Exit(p) \/ Crash(p)
      PROVE  Holding'
  <2>1. UNCHANGED <<conn, ppc, connfd, pfds>> /\ child'[p] \notin Serving
    BY <1>6 DEF CloseChild, Exit, Crash, Ends, parentVars, TypeOK
  <2>2. \A q \in Pids \ {p} : child'[q] = child[q] /\ cfds'[q] = cfds[q]
    BY <1>6 DEF CloseChild, Exit, Crash, Ends, TypeOK
  <2>3. QED
    BY <2>1, <2>2
<1>7. CASE (\E c \in Conns : Client(c)) \/ UNCHANGED vars
  <2>1. UNCHANGED <<ppc, connfd, pfds, child, conn, cfds>>
    BY <1>7 DEF Client, Connect, Send, ClientEnd, ClientClose, vars, parentVars, childVars
  <2>2. QED
    BY <2>1
<1>8. QED
  BY <1>2, <1>3, <1>4, <1>5, <1>6, <1>7 DEF Next, Parent, Child

\* A child that serves a connection serves it alone, and no other process is about to.
LEMMA ServesAlone ==
  ASSUME TypeOK, DescriptorsPrivate, DescriptorsFresh, Holding,
         NEW p \in Pids, child[p] \in Serving, conn[p] # None
  PROVE  /\ conn[p] \in Conns /\ link[conn[p]] = "open"
         /\ ppc \in {"signal", "fork"} => connfd # conn[p]
         /\ \A q \in Pids \ {p} : child[q] \in Serving => conn[q] # conn[p]
<1>1. conn[p] \in Conns /\ conn[p] \in cfds[p]
  BY DEF TypeOK, Holding
<1>2. link[conn[p]] = "open"
  BY <1>1 DEF DescriptorsFresh, Released
<1>3. ppc \in {"signal", "fork"} => connfd # conn[p]
  BY <1>1 DEF DescriptorsFresh, Holding
<1>4. \A q \in Pids \ {p} : child[q] \in Serving => conn[q] # conn[p]
  BY <1>1 DEF DescriptorsPrivate, Holding
<1>5. QED
  BY <1>1, <1>2, <1>3, <1>4

\* What one read() does, in the two ways the loop goes on.
LEMMA ReadOnce ==
  ASSUME TypeOK, NEW p \in Pids, Read(p)
  PROVE  \E size \in Nat :
           LET c == conn[p] IN
           /\ c \in Conns
           /\ got[c] < size /\ size <= got[c] + MAXLINE /\ size <= Len(stream[c])
           /\ got' = [got EXCEPT ![c] = size]
           /\ \/ \E k \in Nat :
                   /\ FindsFlagAt(stream[c], size, k)
                   /\ offset' = [offset EXCEPT ![p] = k]
                   /\ child' = [child EXCEPT ![p] = IF k > 0 THEN "parse" ELSE "close"]
              \/ /\ HasNoFlag(stream[c], size)
                 /\ child' = [child EXCEPT ![p] = IF size > Q_SIZE_LIMIT THEN "close" ELSE "read"]
                 /\ UNCHANGED offset
<1> DEFINE c == conn[p]
<1>1. c \in Conns
  BY DEF Read, TypeOK
<1>2. got[c] \in Nat /\ Len(stream[c]) \in Nat
  BY <1>1, CitepdAssumption DEF TypeOK
<1>3. PICK n \in 1..MAXLINE :
        LET s    == stream[c]
            size == got[c] + n
        IN /\ n <= Unread(c)
           /\ got' = [got EXCEPT ![c] = size]
           /\ \/ \E k \in 0..size :
                   /\ FindsFlagAt(s, size, k)
                   /\ offset' = [offset EXCEPT ![p] = k]
                   /\ child' = [child EXCEPT ![p] = IF k > 0 THEN "parse" ELSE "close"]
              \/ /\ HasNoFlag(s, size)
                 /\ child' = [child EXCEPT
                       ![p] = IF size > Q_SIZE_LIMIT THEN "close" ELSE "read"]
                 /\ UNCHANGED offset
  BY DEF Read
<1> DEFINE size == got[c] + n
<1>4. n \in Nat /\ n > 0 /\ n <= MAXLINE
  BY CitepdAssumption
<1>5. size \in Nat /\ got[c] < size /\ size <= got[c] + MAXLINE /\ size <= Len(stream[c])
  BY <1>2, <1>3, <1>4, CitepdAssumption DEF Unread
<1>6. \A k \in 0..size : k \in Nat
  BY <1>5
<1> HIDE DEF size
<1>7. \/ \E k \in Nat :
           /\ FindsFlagAt(stream[c], size, k)
           /\ offset' = [offset EXCEPT ![p] = k]
           /\ child' = [child EXCEPT ![p] = IF k > 0 THEN "parse" ELSE "close"]
      \/ /\ HasNoFlag(stream[c], size)
         /\ child' = [child EXCEPT ![p] = IF size > Q_SIZE_LIMIT THEN "close" ELSE "read"]
         /\ UNCHANGED offset
  BY <1>3, <1>6 DEF size
<1>8. got' = [got EXCEPT ![c] = size]
  BY <1>3 DEF size
<1>9. QED
  BY <1>1, <1>5, <1>7, <1>8

\* What has been read stays within the limit and one read.
LEMMA NextBounded ==
  TypeOK /\ QueriesFramed /\ DescriptorsPrivate /\ DescriptorsFresh /\ Holding /\ Bounded
    /\ [Next]_vars => Bounded'
<1> SUFFICES ASSUME TypeOK, QueriesFramed, DescriptorsPrivate, DescriptorsFresh, Holding, Bounded,
                    [Next]_vars
             PROVE  Bounded'
  OBVIOUS
<1>a. Q_SIZE_LIMIT \in Nat /\ MAXLINE \in Nat /\ Len(end_flag) \in Nat
  BY CitepdAssumption, FlagAssumption
\* The steps that read and answer nothing, and accept and fork nothing.
<1>1. ASSUME UNCHANGED <<got, reply, offset, conn>>,
             \A p \in Pids : child'[p] \in Serving => child'[p] = child[p],
             \A c \in Conns :
               link'[c] # "open" \/ (ppc' \in {"signal", "fork"} /\ c = connfd')
                 => link[c] # "open" \/ (ppc \in {"signal", "fork"} /\ c = connfd)
      PROVE  Bounded'
  BY <1>1 DEF Bounded, Serving
<1>2. CASE Start \/ InstallHandler \/ ForkFails \/ CloseConnection \/ AcceptFails \/ UNCHANGED vars
  <2>1. \A c \in Conns : c # None
    BY CitepdAssumption
  <2>2. /\ UNCHANGED <<got, reply, offset, conn, child, link>>
        /\ ppc' \in {"signal", "fork"} =>
             connfd' = None \/ (ppc \in {"signal", "fork"} /\ connfd' = connfd)
    BY <1>2 DEF Start, InstallHandler, ForkFails, CloseConnection, AcceptFails, vars, parentVars,
       childVars, connVars
  <2>3. QED
    BY <1>1, <2>1, <2>2
<1>3. CASE Accept
  <2>1. PICK c \in Conns : /\ link[c] = "queued"
                           /\ link' = [link EXCEPT ![c] = "open"]
                           /\ connfd' = c
    BY <1>3 DEF Accept
  <2>2. UNCHANGED <<got, reply, offset, conn, child>> /\ \A d \in Conns \ {c} : link'[d] = link[d]
    BY <1>3, <2>1 DEF Accept, childVars, TypeOK
  <2>3. \A d \in Conns : link'[d] # "open" \/ (ppc' \in {"signal", "fork"} /\ d = connfd')
           => link[d] # "open" \/ (ppc \in {"signal", "fork"} /\ d = connfd)
    BY <2>1, <2>2
  <2>4. QED
    BY <1>1, <2>2, <2>3
<1>4. CASE Fork
  <2>1. PICK p \in Pids : /\ child[p] = "free"
                          /\ child'  = [child EXCEPT ![p] = "read"]
                          /\ conn'   = [conn EXCEPT ![p] = connfd]
                          /\ offset' = [offset EXCEPT ![p] = 0]
    BY <1>4 DEF Fork
  <2>2. ppc = "fork" /\ ppc' = "close" /\ UNCHANGED <<got, reply, link>>
    BY <1>4 DEF Fork, connVars
  <2>3. /\ child'[p] = "read" /\ conn'[p] = connfd
        /\ \A q \in Pids \ {p} :
             child'[q] = child[q] /\ conn'[q] = conn[q] /\ offset'[q] = offset[q]
    BY <2>1 DEF TypeOK
  <2>4. connfd # None => got[connfd] = 0
    BY <2>2 DEF Bounded, TypeOK
  <2>5. connfd # None => got[connfd] <= Q_SIZE_LIMIT
    BY <2>4, <1>a
  <2>6. QED
    BY <2>2, <2>3, <2>5 DEF Bounded
<1>5. CASE Handler
  <2>1. UNCHANGED <<got, reply, offset, conn, link, ppc, connfd>>
    BY <1>5 DEF Handler, HandlerEnter, HandlerReap, HandlerReturn, parentVars, childVars, connVars
  <2>2. \A p \in Pids : child'[p] \in Serving => child'[p] = child[p]
    BY <1>5 DEF Handler, HandlerEnter, HandlerReap, HandlerReturn, childVars, TypeOK, Serving
  <2>3. QED
    BY <1>1, <2>1, <2>2
<1>6. CASE Kill
  <2>1. UNCHANGED <<got, reply, offset, conn>> /\ ppc' = "down"
    BY <1>6 DEF Kill
  <2>2. \A p \in Pids : child'[p] \in Serving => child'[p] = child[p]
    BY <1>6 DEF Kill, Serving
  <2>3. \A c \in Conns : link[c] = "open" => link'[c] = "open"
    BY <1>6 DEF Kill, DropBacklog, Backlog, TypeOK
  <2>4. QED
    BY <1>1, <2>1, <2>2, <2>3
<1>7. ASSUME NEW p \in Pids, Read(p)
      PROVE  Bounded'
  <2> DEFINE c == conn[p]
  <2>1. PICK size \in Nat :
           /\ c \in Conns
           /\ got[c] < size /\ size <= got[c] + MAXLINE
           /\ got' = [got EXCEPT ![c] = size]
           /\ \/ \E k \in Nat :
                   /\ FindsFlagAt(stream[c], size, k)
                   /\ offset' = [offset EXCEPT ![p] = k]
                   /\ child' = [child EXCEPT ![p] = IF k > 0 THEN "parse" ELSE "close"]
              \/ /\ HasNoFlag(stream[c], size)
                 /\ child' = [child EXCEPT ![p] = IF size > Q_SIZE_LIMIT THEN "close" ELSE "read"]
                 /\ UNCHANGED offset
    BY <1>7, ReadOnce
  <2>2. child[p] = "read" /\ c # None /\ UNCHANGED <<conn, reply, link, ppc, connfd>>
    BY <1>7 DEF Read, parentVars
  <2>3. /\ link[c] = "open"
        /\ ppc \in {"signal", "fork"} => connfd # c
        /\ \A q \in Pids \ {p} : child[q] \in Serving => conn[q] # c
    BY <2>2, ServesAlone DEF Serving
  <2>4. got'[c] = size /\ \A d \in Conns \ {c} : got'[d] = got[d]
    BY <2>1 DEF TypeOK
  <2>5. \A q \in Pids \ {p} : child'[q] = child[q] /\ offset'[q] = offset[q]
    BY <2>1 DEF TypeOK
  <2>6. got[c] \in Nat /\ size <= Q_SIZE_LIMIT + MAXLINE
    <3>1. got[c] \in Nat /\ got[c] <= Q_SIZE_LIMIT
      BY <2>1, <2>2 DEF Bounded, TypeOK
    <3>2. QED
      BY <2>1, <3>1, <1>a
  <2>7. \A d \in Conns :
          link'[d] # "open" \/ (ppc' \in {"signal", "fork"} /\ d = connfd') => got'[d] = 0
    BY <2>2, <2>3, <2>4 DEF Bounded
  <2>8. \A q \in Pids \ {p} : child'[q] = "read" /\ conn'[q] # None
                                => got'[conn'[q]] <= Q_SIZE_LIMIT
    <3> SUFFICES ASSUME NEW q \in Pids \ {p}, child[q] = "read", conn[q] # None
                 PROVE  got'[conn[q]] <= Q_SIZE_LIMIT
      BY <2>2, <2>5
    <3>1. conn[q] \in Conns \ {c}
      BY <2>3 DEF Serving, TypeOK
    <3>2. got[conn[q]] <= Q_SIZE_LIMIT
      BY DEF Bounded
    <3>3. QED
      BY <2>4, <3>1, <3>2
  <2>9. \A q \in Pids \ {p} : child'[q] \in {"parse", "write"}
                                => offset'[q] + Len(end_flag) <= Q_SIZE_LIMIT + MAXLINE
    BY <2>5 DEF Bounded
  <2>10. child'[p] = "read" => got'[c] <= Q_SIZE_LIMIT
    <3>1. child'[p] = "read" => ~(size > Q_SIZE_LIMIT)
      BY <2>1 DEF TypeOK
    <3>2. QED
      BY <3>1, <2>4, <1>a
  <2>11. child'[p] \in {"parse", "write"}
            => offset'[p] + Len(end_flag) <= Q_SIZE_LIMIT + MAXLINE
    <3> SUFFICES ASSUME child'[p] \in {"parse", "write"}
                 PROVE  offset'[p] + Len(end_flag) <= Q_SIZE_LIMIT + MAXLINE
      OBVIOUS
    <3>1. ~(child' = [child EXCEPT ![p] = IF size > Q_SIZE_LIMIT THEN "close" ELSE "read"])
      BY DEF TypeOK
    <3>2. PICK k \in Nat : FindsFlagAt(stream[c], size, k) /\ offset' = [offset EXCEPT ![p] = k]
      BY <2>1, <3>1
    <3>3. offset'[p] = k /\ k + Len(end_flag) <= size
      BY <3>2 DEF FindsFlagAt, FlagAt, TypeOK
    <3>4. QED
      BY <3>3, <2>6, <1>a
  <2>12. \A d \in Conns : reply'[d] > 0 => reply'[d] + Len(end_flag) <= Q_SIZE_LIMIT + MAXLINE
    BY <2>2 DEF Bounded
  <2>13. \A q \in Pids :
          /\ child'[q] = "read" /\ conn'[q] # None => got'[conn'[q]] <= Q_SIZE_LIMIT
          /\ child'[q] \in {"parse", "write"}
               => offset'[q] + Len(end_flag) <= Q_SIZE_LIMIT + MAXLINE
    BY <2>2, <2>8, <2>9, <2>10, <2>11
  <2>14. QED
    BY <2>7, <2>12, <2>13 DEF Bounded
<1>8. ASSUME NEW p \in Pids, ReadEnds(p) \/ CloseChild(p)
      PROVE  Bounded'
  <2>1. UNCHANGED <<got, reply, offset, conn, link, ppc, connfd>>
    BY <1>8 DEF ReadEnds, CloseChild, parentVars, connVars
  <2>2. \A q \in Pids : child'[q] \in Serving => child'[q] = child[q]
    BY <1>8 DEF ReadEnds, CloseChild, TypeOK, Serving
  <2>3. QED
    BY <1>1, <2>1, <2>2
<1>9. ASSUME NEW p \in Pids, Parse(p)
      PROVE  Bounded'
  BY <1>9 DEF Parse, parentVars, connVars, Bounded, TypeOK
<1>10. ASSUME NEW p \in Pids, Write(p)
      PROVE  Bounded'
  <2>1. /\ conn[p] \in Conns
        /\ offset[p] + Len(end_flag) <= Q_SIZE_LIMIT + MAXLINE
        /\ reply' = [reply EXCEPT ![conn[p]] = offset[p]]
    BY <1>10 DEF Write, QueriesFramed, Bounded
  <2>2. \A d \in Conns : reply'[d] > 0 => reply'[d] + Len(end_flag) <= Q_SIZE_LIMIT + MAXLINE
    BY <2>1 DEF Bounded, TypeOK
  <2>3. UNCHANGED <<got, offset, conn, link, ppc, connfd>>
        /\ \A q \in Pids : child'[q] \in Serving => child'[q] = child[q]
    BY <1>10 DEF Write, parentVars, TypeOK, Serving
  <2>4. QED
    BY <2>2, <2>3 DEF Bounded, Serving
<1>11. ASSUME NEW p \in Pids, Exit(p) \/ Crash(p)
      PROVE  Bounded'
  <2>1. Ends(p, {}) \/ Ends(p, {conn[p]})
    BY <1>11 DEF Exit, Crash
  <2>2. UNCHANGED <<got, reply, offset, conn, ppc, connfd>>
    BY <2>1 DEF Ends
  <2>3. \A q \in Pids : child'[q] \in Serving => child'[q] = child[q]
    BY <2>1 DEF Ends, TypeOK, Serving
  <2>4. \A c \in Conns : link[c] = "open" => link'[c] = "open"
    BY <2>1 DEF Ends, DropBacklog, Backlog, TypeOK
  <2>5. QED
    BY <1>1, <2>2, <2>3, <2>4
<1>12. ASSUME NEW c \in Conns, Client(c)
      PROVE  Bounded'
  <2>1. UNCHANGED <<got, reply, offset, conn, child, ppc, connfd>>
    BY <1>12 DEF Client, Connect, Send, ClientEnd, ClientClose, parentVars, childVars, connVars
  <2>2. \A d \in Conns : link[d] = "open" => link'[d] = "open"
    BY <1>12 DEF Client, Connect, Send, ClientEnd, ClientClose, connVars, TypeOK
  <2>3. QED
    BY <1>1, <2>1, <2>2
<1>13. QED
  BY <1>2, <1>3, <1>4, <1>5, <1>6, <1>7, <1>8, <1>9, <1>10, <1>11, <1>12 DEF Next, Parent, Child

\* There is one first flag.
LEMMA FirstFlagUnique ==
  ASSUME NEW s, NEW n \in Nat, NEW k \in Nat, NEW j \in Nat,
         FindsFlagAt(s, n, k), FindsFlagAt(s, n, j)
  PROVE  k = j
  BY DEF FindsFlagAt

\* A client need not be answered whose query is empty, or is past the limit without
\* a flag.
LEMMA NoneDue ==
  ASSUME NEW s, Len(s) \in Nat, NEW n \in Nat, n <= Len(s),
         FindsFlagAt(s, n, 0) \/ (HasNoFlag(s, n) /\ n > Q_SIZE_LIMIT)
  PROVE  \A k \in 1..Len(s) : ~Promise!MustAnswer(s, k)
<1> SUFFICES ASSUME NEW k \in 1..Len(s), FindsFlagAt(s, Len(s), k),
                    k + Len(end_flag) = Len(s), Len(s) <= Q_SIZE_LIMIT + 1
             PROVE  FALSE
  BY DEF Promise!MustAnswer, Promise!FindsFlagAt, Promise!FlagAt, FindsFlagAt, FlagAt
<1>1. k \in Nat /\ k > 0 /\ Len(end_flag) \in Nat /\ Q_SIZE_LIMIT \in Nat
  BY FlagAssumption, CitepdAssumption
<1>2. CASE FindsFlagAt(s, n, 0)
  <2>1. FindsFlagAt(s, Len(s), 0)
    BY <1>2, FirstFlagStays
  <2>2. k = 0
    BY <1>1, <2>1, FirstFlagUnique
  <2>3. QED
    BY <1>1, <2>2
<1>3. CASE HasNoFlag(s, n) /\ n > Q_SIZE_LIMIT
  <2>1. n = Len(s)
    BY <1>1, <1>3
  <2>2. k \in 0..n
    BY <1>1, <2>1
  <2>3. QED
    BY <1>3, <2>1, <2>2 DEF HasNoFlag, FindsFlagAt
<1>4. QED
  BY <1>2, <1>3

\* A connection that is settled stays so, for reading on finds the same first flag.
LEMMA SettledStays ==
  ASSUME TypeOK, NEW c \in Conns, Settled(c), stream'[c] = stream[c], reply'[c] = reply[c],
         got'[c] \in Nat, got[c] <= got'[c]
  PROVE  Settled(c)'
<1>1. got[c] \in Nat /\ reply[c] \in Nat
  BY DEF TypeOK
<1>2. CASE reply[c] > 0 /\ FindsFlagAt(stream[c], got[c], reply[c])
  BY <1>1, <1>2, FirstFlagStays DEF Settled
<1>3. CASE stream[c] # <<>> /\ \A k \in 1..Len(stream[c]) : ~Promise!MustAnswer(stream[c], k)
  BY <1>3 DEF Settled, Promise!MustAnswer, Promise!FindsFlagAt, Promise!FlagAt
<1>4. QED
  BY <1>2, <1>3 DEF Settled

\* Every open connection whose client waits is accounted for.
LEMMA NextAccounted ==
  TypeOK /\ QueriesFramed /\ Holding /\ Accounted /\ [Next]_vars => Accounted'
<1> SUFFICES ASSUME TypeOK, QueriesFramed, Holding, Accounted, [Next]_vars
             PROVE  Accounted'
  OBVIOUS
<1> DEFINE Waits(c) == link[c] = "open" /\ seen[c] = Pending /\ c \notin lost
           Forking(c) == ppc \in {"signal", "fork"} /\ connfd = c
           Served(c) == \E p \in Pids : child[p] \in Serving /\ conn[p] = c
<1>a. \A c \in Conns : got[c] \in Nat /\ Len(stream[c]) \in Nat
  BY CitepdAssumption DEF TypeOK
<1>b. \A c \in Conns : Waits(c) => Forking(c) \/ Served(c) \/ Settled(c)
  BY DEF Accounted
\* The steps of the parent and of the kernel: no client sees anything of them.
<1>1. ASSUME UNCHANGED <<stream, closed, seen, got, reply>>, lost \subseteq lost',
             \A c \in Conns : link'[c] = "dropped" => c \in lost',
             \A c \in Conns : Waits(c)' => Waits(c) \/ Forking(c)',
             \A c \in Conns : Waits(c)' /\ Forking(c) => Forking(c)' \/ Served(c)',
             \A c \in Conns : Waits(c)' /\ Served(c) => Served(c)'
      PROVE  Accounted'
  <2>1. \A c \in Conns : Settled(c) => Settled(c)'
    BY <1>1, <1>a, SettledStays
  <2>2. \A c \in Conns : Waits(c)' => Forking(c)' \/ Served(c)' \/ Settled(c)'
    BY <1>1, <1>b, <2>1
  <2>3. \A c \in closed' : seen'[c] # Pending
    BY <1>1 DEF Accounted
  <2>4. QED
    BY <1>1, <2>2, <2>3 DEF Accounted
<1>2. CASE Start \/ InstallHandler \/ Handler \/ UNCHANGED vars
  <2>1. UNCHANGED <<stream, closed, seen, got, reply, lost, link, connfd, conn>>
    BY <1>2 DEF Start, InstallHandler, Handler, HandlerEnter, HandlerReap, HandlerReturn, vars,
       parentVars, childVars, connVars, clientVars
  <2>2. ppc \in {"signal", "fork"} => ppc' \in {"signal", "fork"}
    BY <1>2 DEF Start, InstallHandler, Handler, HandlerEnter, HandlerReap, HandlerReturn, vars,
       parentVars
  <2>3. \A p \in Pids : child[p] \in Serving => child'[p] = child[p]
    BY <1>2 DEF Start, InstallHandler, Handler, HandlerEnter, HandlerReap, HandlerReturn, vars,
       childVars, TypeOK, Serving
  <2>4. \A c \in Conns : Served(c) => Served(c)'
    BY <2>1, <2>3
  <2>5. QED
    BY <1>1, <2>1, <2>2, <2>4 DEF Accounted
<1>3. CASE Accept \/ AcceptFails \/ CloseConnection
  <2>1. UNCHANGED <<stream, closed, seen, got, reply, lost, child, conn>>
    BY <1>3 DEF Accept, AcceptFails, CloseConnection, childVars, connVars, clientVars
  <2>2. ppc \notin {"signal", "fork"}
    BY <1>3 DEF Accept, AcceptFails, CloseConnection
  <2>3. \A c \in Conns : link'[c] = "dropped" => link[c] = "dropped"
    BY <1>3 DEF Accept, AcceptFails, CloseConnection, connVars, TypeOK
  <2>4. \A c \in Conns : link'[c] = "open" => link[c] = "open" \/ Forking(c)'
    BY <1>3 DEF Accept, AcceptFails, CloseConnection, connVars, TypeOK
  <2>5. QED
    BY <1>1, <2>1, <2>2, <2>3, <2>4 DEF Accounted
<1>4. CASE Fork
  <2>1. PICK p \in Pids : /\ child[p] = "free"
                          /\ child'  = [child EXCEPT ![p] = "read"]
                          /\ conn'   = [conn EXCEPT ![p] = connfd]
    BY <1>4 DEF Fork
  <2>2. UNCHANGED <<stream, closed, seen, got, reply, lost, link>>
    BY <1>4 DEF Fork, connVars, clientVars
  <2>3. /\ child'[p] = "read" /\ conn'[p] = connfd
        /\ \A q \in Pids \ {p} : child'[q] = child[q] /\ conn'[q] = conn[q]
    BY <2>1 DEF TypeOK
  <2>4. \A c \in Conns : Served(c) => Served(c)'
    BY <2>1, <2>3 DEF Serving
  <2>5. \A c \in Conns : Forking(c) => Served(c)'
    BY <2>3 DEF Serving
  <2>6. QED
    BY <1>1, <2>2, <2>4, <2>5 DEF Accounted
<1>5. CASE ForkFails
  <2>1. UNCHANGED <<stream, closed, seen, got, reply, link, child, conn>>
        /\ lost' = lost \cup ({connfd} \cap Conns)
    BY <1>5 DEF ForkFails, childVars, clientVars
  <2>2. \A c \in Conns : Waits(c)' => Waits(c) /\ ~Forking(c)
    BY <2>1
  <2>3. QED
    BY <1>1, <2>1, <2>2 DEF Accounted
<1>6. CASE Kill
  <2> DEFINE unforked == IF ppc \in {"signal", "fork"} THEN pfds ELSE {}
  <2>1. UNCHANGED <<stream, closed, seen, got, reply, conn>>
    BY <1>6 DEF Kill, clientVars
  <2>2. lost \cup unforked \subseteq lost'
    BY <1>6 DEF Kill
  <2>3. \A c \in Conns : /\ link'[c] = "dropped" => c \in lost'
                         /\ link'[c] = "open" => link[c] = "open"
    <3>1. CASE \E p \in Pids : Alive(p)
      BY <1>6, <2>2, <3>1 DEF Kill, Accounted
    <3>2. CASE ~\E p \in Pids : Alive(p)
      BY <1>6, <2>2, <3>2 DEF Kill, Accounted, DropBacklog, Backlog
    <3>3. QED
      BY <3>1, <3>2
  <2>4. \A c \in Conns : Forking(c) => c \in lost'
    <3>1. \A c \in Conns : c # None
      BY CitepdAssumption
    <3>2. QED
      BY <2>2, <3>1 DEF Holding
  <2>5. \A c \in Conns : Served(c) => Served(c)'
    BY <1>6, <2>1 DEF Kill, Alive, Working, Serving
  <2>6. QED
    BY <1>1, <2>1, <2>2, <2>3, <2>4, <2>5
<1>7. ASSUME NEW p \in Pids, Read(p)
      PROVE  Accounted'
  <2> DEFINE c == conn[p]
  <2>1. PICK size \in Nat :
           /\ c \in Conns
           /\ got[c] < size /\ size <= Len(stream[c])
           /\ got' = [got EXCEPT ![c] = size]
           /\ \/ \E k \in Nat :
                   /\ FindsFlagAt(stream[c], size, k)
                   /\ offset' = [offset EXCEPT ![p] = k]
                   /\ child' = [child EXCEPT ![p] = IF k > 0 THEN "parse" ELSE "close"]
              \/ /\ HasNoFlag(stream[c], size)
                 /\ child' = [child EXCEPT ![p] = IF size > Q_SIZE_LIMIT THEN "close" ELSE "read"]
                 /\ UNCHANGED offset
    BY <1>7, ReadOnce
  <2>2. UNCHANGED <<conn, reply, link, lost, ppc, connfd, stream, closed, seen>>
    BY <1>7 DEF Read, parentVars, clientVars
  <2>3. \A d \in Conns : got'[d] \in Nat /\ got[d] <= got'[d]
    <3>1. got'[c] = size /\ \A d \in Conns \ {c} : got'[d] = got[d]
      BY <2>1 DEF TypeOK
    <3>2. QED
      BY <2>1, <3>1, <1>a
  <2>4. \A d \in Conns : Settled(d) => Settled(d)'
    BY <2>2, <2>3, SettledStays
  <2>5. \A q \in Pids \ {p} : child'[q] = child[q]
    BY <2>1 DEF TypeOK
  <2>6. \A d \in Conns \ {c} : Served(d) => Served(d)'
    BY <2>2, <2>5
  <2>7. Served(c)' \/ Settled(c)'
    <3>1. CASE child'[p] \in Serving
      BY <2>2, <3>1
    <3>2. CASE child'[p] \notin Serving
      <4>1. FindsFlagAt(stream[c], size, 0) \/ (HasNoFlag(stream[c], size) /\ size > Q_SIZE_LIMIT)
        <5>1. CASE child' = [child EXCEPT ![p] = IF size > Q_SIZE_LIMIT THEN "close" ELSE "read"]
                   /\ HasNoFlag(stream[c], size)
          BY <3>2, <5>1 DEF TypeOK, Serving
        <5>2. ASSUME NEW k \in Nat, FindsFlagAt(stream[c], size, k),
                     child' = [child EXCEPT ![p] = IF k > 0 THEN "parse" ELSE "close"]
              PROVE  FindsFlagAt(stream[c], size, 0)
          <6>1. ~(k > 0)
            BY <3>2, <5>2 DEF TypeOK, Serving
          <6>2. k = 0
            BY <6>1
          <6>3. QED
            BY <5>2, <6>2
        <5>3. QED
          BY <2>1, <5>1, <5>2
      <4>2. \A k \in 1..Len(stream[c]) : ~Promise!MustAnswer(stream[c], k)
        BY <2>1, <4>1, <1>a, NoneDue
      <4>3. stream[c] # <<>>
        <5>1. Len(stream[c]) > 0
          BY <2>1, <1>a
        <5>2. Len(<<>>) = 0
          OBVIOUS
        <5>3. QED
          BY <5>1, <5>2
      <4>4. Settled(c)
        BY <4>2, <4>3 DEF Settled
      <4>5. QED
        BY <2>1, <2>2, <2>4, <4>4
    <3>3. QED
      BY <3>1, <3>2
  <2>8. \A d \in Conns : Waits(d)' => Forking(d)' \/ Served(d)' \/ Settled(d)'
    BY <1>b, <2>2, <2>4, <2>6, <2>7
  <2>9. QED
    BY <2>2, <2>8 DEF Accounted
<1>8. ASSUME NEW p \in Pids, ReadEnds(p) \/ Parse(p) \/ CloseChild(p)
      PROVE  Accounted'
  <2>1. UNCHANGED <<stream, closed, seen, got, reply, lost, link, ppc, connfd, conn>>
    BY <1>8 DEF ReadEnds, Parse, CloseChild, parentVars, connVars, clientVars
  <2>2. \A q \in Pids \ {p} : child'[q] = child[q]
    BY <1>8 DEF ReadEnds, Parse, CloseChild, TypeOK
  <2>3. child[p] \in Serving => child'[p] \in Serving \/ conn[p] = None \/ conn[p] \in closed
    BY <1>8 DEF ReadEnds, Parse, CloseChild, TypeOK, Serving
  <2>4. \A c \in Conns : Waits(c) /\ Served(c) => Served(c)'
    <3>1. \A c \in Conns : c # None
      BY CitepdAssumption
    <3>2. QED
      BY <2>1, <2>2, <2>3, <3>1 DEF Accounted
  <2>5. QED
    BY <1>1, <2>1, <2>4 DEF Accounted
<1>9. ASSUME NEW p \in Pids, Write(p)
      PROVE  Accounted'
  <2> DEFINE c == conn[p]
  <2>1. c \in Conns /\ offset[p] > 0 /\ FindsFlagAt(stream[c], got[c], offset[p])
    BY <1>9 DEF Write, QueriesFramed
  <2>2. /\ reply'[c] = offset[p] /\ \A d \in Conns \ {c} : reply'[d] = reply[d]
        /\ \A q \in Pids \ {p} : child'[q] = child[q]
    BY <1>9, <2>1 DEF Write, TypeOK
  <2>3. UNCHANGED <<stream, closed, seen, got, lost, link, ppc, connfd, conn>>
    BY <1>9 DEF Write, parentVars, clientVars
  <2>4. Settled(c)'
    BY <2>1, <2>2, <2>3 DEF Settled
  <2>5. \A d \in Conns \ {c} : Settled(d) => Settled(d)'
    BY <2>2, <2>3, <1>a, SettledStays
  <2>6. \A d \in Conns \ {c} : Served(d) => Served(d)'
    BY <2>2, <2>3
  <2>7. \A d \in Conns : Waits(d)' => Forking(d)' \/ Served(d)' \/ Settled(d)'
    BY <1>b, <2>3, <2>4, <2>5, <2>6
  <2>8. QED
    BY <2>3, <2>7 DEF Accounted
<1>10. ASSUME NEW p \in Pids, Exit(p) \/ Crash(p)
      PROVE  Accounted'
  <2>1. PICK victims : /\ Ends(p, victims)
                       /\ child[p] \in Serving => conn[p] \in victims
    <3>1. Exit(p) => Ends(p, {}) /\ child[p] \notin Serving
      BY DEF Exit, Serving
    <3>2. Crash(p) => Ends(p, {conn[p]})
      BY DEF Crash
    <3>3. QED
      BY <1>10, <3>1, <3>2
  <2>2. UNCHANGED <<stream, closed, seen, got, reply, ppc, connfd, conn>>
    BY <1>10, <2>1 DEF Exit, Crash, Ends, clientVars
  <2>3. lost \cup victims \subseteq lost'
    BY <2>1 DEF Ends
  <2>4. \A q \in Pids \ {p} : child'[q] = child[q]
    BY <2>1 DEF Ends, TypeOK
  <2>5. \A c \in Conns : /\ link'[c] = "dropped" => c \in lost'
                         /\ link'[c] = "open" => link[c] = "open"
    <3>1. CASE UNCHANGED link
      BY <2>3, <3>1 DEF Accounted
    <3>2. CASE DropBacklog /\ lost' = lost \cup victims \cup Backlog
      BY <3>2 DEF Accounted, DropBacklog, Backlog
    <3>3. QED
      BY <2>1, <3>1, <3>2 DEF Ends
  <2>6. \A c \in Conns : c \notin lost' /\ Served(c) => Served(c)'
    BY <2>1, <2>2, <2>3, <2>4
  <2>7. QED
    BY <1>1, <2>2, <2>3, <2>5, <2>6
<1>11. ASSUME NEW c \in Conns, Connect(c)
       PROVE  Accounted'
  <2>1. UNCHANGED <<stream, closed, seen, got, reply, lost, ppc, connfd, child, conn>>
    BY <1>11 DEF Connect, parentVars, childVars, clientVars
  <2>2. \A d \in Conns : /\ link'[d] = "dropped" => link[d] = "dropped"
                         /\ link'[d] = "open" => link[d] = "open"
    BY <1>11 DEF Connect, TypeOK
  <2>3. QED
    BY <1>1, <2>1, <2>2 DEF Accounted
<1>12. ASSUME NEW c \in Conns, Send(c)
       PROVE  Accounted'
  <2>1. UNCHANGED <<closed, seen, got, reply, lost, link, ppc, connfd, child, conn>>
        /\ stream[c] = <<>> /\ \A d \in Conns \ {c} : stream'[d] = stream[d]
    BY <1>12 DEF Send, parentVars, childVars, connVars, TypeOK
  <2>2. ~Settled(c)
    <3>1. got[c] = 0
      <4>1. got[c] <= Len(stream[c]) /\ Len(<<>>) = 0
        BY DEF TypeOK
      <4>2. QED
        BY <2>1, <4>1, <1>a
    <3>2. reply[c] \in Nat
      BY DEF TypeOK
    <3>3. QED
      BY <2>1, <3>1, <3>2, FlagNeedsBytes DEF Settled
  <2>3. \A d \in Conns \ {c} : Settled(d) => Settled(d)'
    BY <2>1, <1>a, SettledStays
  <2>4. \A d \in Conns : Waits(d)' => Forking(d)' \/ Served(d)' \/ Settled(d)'
    BY <1>b, <2>1, <2>2, <2>3
  <2>5. QED
    BY <2>1, <2>4 DEF Accounted
<1>13. ASSUME NEW c \in Conns, ClientEnd(c) \/ ClientClose(c)
       PROVE  Accounted'
  <2>1. UNCHANGED <<stream, got, reply, lost, link, ppc, connfd, child, conn>>
    BY <1>13 DEF ClientEnd, ClientClose, parentVars, childVars, connVars
  <2>2. \A d \in Conns : seen'[d] = Pending => seen[d] = Pending
    BY <1>13 DEF ClientEnd, ClientClose, TypeOK
  <2>3. \A d \in closed' : seen'[d] # Pending
    <3>1. CASE ClientEnd(c)
      BY <3>1, <2>2 DEF ClientEnd, Accounted, TypeOK
    <3>2. CASE ClientClose(c)
      <4>1. closed' = closed \cup {c} /\ seen'[c] # Pending
        BY <3>2 DEF ClientClose, TypeOK
      <4>2. QED
        BY <4>1, <2>2 DEF Accounted, TypeOK
    <3>3. QED
      BY <1>13, <3>1, <3>2
  <2>4. \A d \in Conns : Settled(d) => Settled(d)'
    BY <2>1, <1>a, SettledStays
  <2>5. \A d \in Conns : Waits(d)' => Forking(d)' \/ Served(d)' \/ Settled(d)'
    BY <1>b, <2>1, <2>2, <2>4
  <2>6. QED
    BY <2>1, <2>3, <2>5 DEF Accounted
<1>14. QED
  BY <1>2, <1>3, <1>4, <1>5, <1>6, <1>7, <1>8, <1>9, <1>10, <1>11, <1>12, <1>13
  DEF Next, Parent, Child, Client

\* Every step is one of the service, or changes nothing of what the service knows.
LEMMA StepKeepsPromise == PromiseInv /\ [Next]_vars => [Promise!SNext]_Promise!svars
<1> SUFFICES ASSUME PromiseInv, [Next]_vars
             PROVE  Promise!SNext \/ UNCHANGED <<stream, lost, seen>>
  BY DEF Promise!svars
<1> USE DEF PromiseInv, IInv
<1>a. TypeOK /\ QueriesFramed /\ AnswersFirstQuery /\ Holding /\ Bounded /\ Accounted
  OBVIOUS
<1>b. \A c \in Conns : got[c] \in Nat /\ reply[c] \in Nat /\ Len(stream[c]) \in Nat
                       /\ got[c] <= Len(stream[c])
  BY CitepdAssumption DEF TypeOK
<1>c. Len(end_flag) \in Nat
  BY FlagAssumption
<1> HIDE DEF PromiseInv, IInv
\* What the system could not serve is the service's failure.
<1>1. ASSUME UNCHANGED <<stream, seen>>, NEW C, C \subseteq Conns, lost' = lost \cup C
      PROVE  Promise!SNext
  BY <1>1 DEF Promise!SNext, Promise!Fail
<1>2. CASE Start \/ Accept \/ InstallHandler \/ Fork \/ CloseConnection \/ Handler \/ AcceptFails
           \/ UNCHANGED vars
  BY <1>2 DEF Start, Accept, InstallHandler, Fork, CloseConnection, Handler, HandlerEnter,
     HandlerReap, HandlerReturn, AcceptFails, vars, connVars, clientVars
<1>3. CASE ForkFails
  BY <1>1, <1>3 DEF ForkFails, clientVars
<1>4. CASE Kill
  <2> DEFINE unforked == IF ppc \in {"signal", "fork"} THEN pfds ELSE {}
  <2>1. unforked \subseteq Conns /\ Backlog \subseteq Conns
    BY <1>a DEF TypeOK, Backlog
  <2>2. UNCHANGED <<stream, seen>>
    BY <1>4 DEF Kill, clientVars
  <2>3. lost' = lost \cup unforked \/ lost' = lost \cup (unforked \cup Backlog)
    BY <1>4 DEF Kill
  <2>4. QED
    BY <1>1, <2>1, <2>2, <2>3
<1>5. ASSUME NEW p \in Pids, Read(p) \/ ReadEnds(p) \/ Parse(p) \/ Write(p) \/ CloseChild(p)
      PROVE  UNCHANGED <<stream, lost, seen>>
  BY <1>5 DEF Read, ReadEnds, Parse, Write, CloseChild, connVars, clientVars
<1>6. ASSUME NEW p \in Pids, Exit(p) \/ Crash(p)
      PROVE  Promise!SNext
  <2>1. PICK victims : victims \subseteq Conns /\ Ends(p, victims)
    BY <1>6, <1>a DEF Exit, Crash, QueriesFramed
  <2>2. UNCHANGED <<stream, seen>>
    BY <1>6 DEF Exit, Crash, clientVars
  <2>3. lost' = lost \cup victims \/ lost' = lost \cup (victims \cup Backlog)
    BY <2>1 DEF Ends
  <2>4. Backlog \subseteq Conns
    BY DEF Backlog
  <2>5. QED
    BY <1>1, <2>1, <2>2, <2>3, <2>4
<1>7. ASSUME NEW c \in Conns, Connect(c)
      PROVE  UNCHANGED <<stream, lost, seen>>
  BY <1>7 DEF Connect, clientVars
<1>8. ASSUME NEW c \in Conns, Send(c)
      PROVE  Promise!SNext
  BY <1>8 DEF Send, connVars, Pending, Promise!SNext, Promise!Submit, Promise!Pending
<1>9. ASSUME NEW c \in Conns, ClientEnd(c)
      PROVE  Promise!SNext
  <2>1. seen[c] = Pending /\ stream[c] # <<>> /\ UNCHANGED <<stream, lost>>
    BY <1>9 DEF ClientEnd, connVars
  <2>2. CASE reply[c] > 0 /\ seen' = [seen EXCEPT ![c] = reply[c]]
    <3>1. FindsFlagAt(stream[c], Len(stream[c]), reply[c])
      BY <2>2, <1>a DEF AnswersFirstQuery
    <3>2. reply[c] + Len(end_flag) <= Q_SIZE_LIMIT + MAXLINE
      BY <2>2, <1>a DEF Bounded
    <3>3. reply[c] \in 1..Len(stream[c])
      BY <2>2, <3>1, <1>b, <1>c DEF FindsFlagAt, FlagAt
    <3>4. Promise!MayAnswer(stream[c], reply[c])
      BY <2>2, <3>1, <3>2 DEF Promise!MayAnswer, Promise!FindsFlagAt, Promise!FlagAt,
         FindsFlagAt, FlagAt
    <3>5. Promise!Answer(c)
      BY <2>1, <2>2, <3>3, <3>4 DEF Promise!Answer, Promise!Pending
    <3>6. QED
      BY <3>5 DEF Promise!SNext
  <2>3. CASE (reply[c] = 0 \/ Unread(c) > 0) /\ seen' = [seen EXCEPT ![c] = Empty]
    <3>1. c \in lost \/ \A k \in 1..Len(stream[c]) : ~Promise!MustAnswer(stream[c], k)
      <4> SUFFICES ASSUME c \notin lost, NEW k \in 1..Len(stream[c]),
                          Promise!MustAnswer(stream[c], k)
                   PROVE  FALSE
        OBVIOUS
      <4>1. link[c] = "open" /\ Released(c)
        BY <1>9, <1>a DEF ClientEnd, Accounted
      <4>2. ~(ppc \in {"signal", "fork"} /\ connfd = c)
        BY <4>1, <1>a, CitepdAssumption DEF Holding, Released
      <4>3. ~\E p \in Pids : child[p] \in Serving /\ conn[p] = c
        BY <4>1, <1>a, CitepdAssumption DEF Holding, Released
      <4>4. Settled(c)
        BY <2>1, <4>1, <4>2, <4>3, <1>a DEF Accounted
      <4>5. reply[c] > 0 /\ FindsFlagAt(stream[c], got[c], reply[c])
        BY <4>4 DEF Settled
      <4>6. FindsFlagAt(stream[c], Len(stream[c]), k) /\ k + Len(end_flag) = Len(stream[c])
        BY DEF Promise!MustAnswer, Promise!FindsFlagAt, Promise!FlagAt, FindsFlagAt, FlagAt
      <4>7. FindsFlagAt(stream[c], Len(stream[c]), reply[c])
        BY <4>5, <1>b, FirstFlagStays
      <4>8. k \in Nat
        BY <1>b
      <4>9. k = reply[c]
        BY <4>6, <4>7, <4>8, <1>b, FirstFlagUnique
      <4>10. got[c] = Len(stream[c])
        BY <4>5, <4>6, <4>9, <1>b, <1>c DEF FindsFlagAt, FlagAt
      <4>11. QED
        BY <2>3, <4>5, <4>10, <1>b DEF Unread
    <3>2. Promise!Decline(c)
      BY <2>1, <2>3, <3>1 DEF Promise!Decline, Promise!Pending, Promise!Empty
    <3>3. QED
      BY <3>2 DEF Promise!SNext
  <2>4. QED
    BY <1>9, <2>2, <2>3 DEF ClientEnd
<1>10. ASSUME NEW c \in Conns, ClientClose(c)
      PROVE  Promise!SNext \/ UNCHANGED <<stream, lost, seen>>
  <2>1. UNCHANGED <<stream, lost>> /\ seen' = [seen EXCEPT ![c] = IF @ = Pending THEN Abandoned ELSE @]
    BY <1>10 DEF ClientClose, connVars
  <2>2. CASE seen[c] = Pending
    <3>1. Promise!Abandon(c)
      BY <2>1, <2>2 DEF Promise!Abandon, Promise!Pending, Promise!Abandoned
    <3>2. QED
      BY <3>1 DEF Promise!SNext
  <2>3. CASE seen[c] # Pending
    <3>1. seen' = seen
      BY <2>1, <2>3, <1>a DEF TypeOK
    <3>2. QED
      BY <2>1, <3>1
  <2>4. QED
    BY <2>2, <2>3
<1>11. QED
  BY <1>2, <1>3, <1>4, <1>5, <1>6, <1>7, <1>8, <1>9, <1>10 DEF Next, Parent, Child, Client

--------------------------------------------------------------------------------
(* The theorems. *)

LEMMA Inductive == Spec => []IInv
<1>1. Init => IInv
  BY InitTypeOK, InitFraming, InitDescriptors, InitHandler DEF IInv
<1>2. IInv /\ [Next]_vars => IInv'
  BY NextTypeOK, NextFraming, NextDescriptors, NextHandler DEF IInv
<1>3. QED
  BY <1>1, <1>2, PTL DEF Spec

\* Every program counter is a place in the code, every descriptor table holds
\* connections, and no read() goes past what the client has sent.
THEOREM TypeCorrect == Spec => []TypeOK
<1>1. IInv => TypeOK
  BY DEF IInv
<1>2. QED
  BY <1>1, Inductive, PTL

\* A connection is open in the parent between accept() and close() and in the one
\* child forked for it, and nowhere else: fork() copies no stale descriptor.
THEOREM NoForeignDescriptor == Spec => []DescriptorsPrivate
<1>1. IInv => DescriptorsPrivate
  BY DEF IInv
<1>2. QED
  BY <1>1, Inductive, PTL

\* While a zombie exists, a SIGCHLD is pending or sig_chld is in its loop: the
\* waitpid loop makes up for signals that were merged into one.
THEOREM NoForgottenZombie == Spec => []ZombiesAnnounced
<1>1. IInv => ZombiesAnnounced
  BY DEF IInv
<1>2. QED
  BY <1>1, Inductive, PTL

\* Whatever pieces read() delivers, an answer is to the bytes before the first end
\* flag of its own connection.
THEOREM AnswersAreFramed == Spec => []AnswersFirstQuery
<1>1. IInv => AnswersFirstQuery
  BY DEF IInv
<1>2. QED
  BY <1>1, Inductive, PTL

\* citepd implements the service CiteService promises, whatever fails: an answer is
\* given only to a query framed within the limits, and a client whose query came in
\* time sees the end of its connection without an answer only if the server was
\* killed, could not fork, or its child died.
THEOREM PromiseKept == Spec => KeepsPromise
<1>1. Init => Promise!SInit
  BY DEF Init, Promise!SInit, Promise!Pending
<1>2. Init => PromiseInv
  BY InitTypeOK, InitFraming, InitDescriptors, InitHandler, InitPromise DEF IInv, PromiseInv
<1>3. PromiseInv /\ [Next]_vars => PromiseInv'
  BY NextTypeOK, NextFraming, NextDescriptors, NextHandler, NextHolding, NextBounded, NextAccounted
  DEF IInv, PromiseInv
<1>4. PromiseInv /\ [Next]_vars => [Promise!SNext]_Promise!svars
  BY StepKeepsPromise
<1>5. QED
  BY <1>1, <1>2, <1>3, <1>4, PTL DEF Spec, KeepsPromise, Promise!SafeSpec
================================================================================
