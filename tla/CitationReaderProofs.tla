-------------------------- MODULE CitationReaderProofs --------------------------
(****************************************************************************)
(* Proofs about CitationReader, for any threads, addresses, texts, numbers  *)
(* of tries and calls, and whatever the service does: of its steps only     *)
(* that they leave the variables of the client alone is used.               *)
(****************************************************************************)
EXTENDS CitationReader, TLAPS

\* How the counters of a call go together: a turn of the loop takes from
\* retryTimes what it adds to tries.
Counted == \A t \in Parsers :
  /\ tries[t] + retryTimes[t] <= AtLeastOne(MaxRetry)
  /\ pc[t] = "idle" /\ ~success[t] => retryTimes[t] = 0
  /\ success[t] => pc[t] \in {"idle", "loop"}

\* What a thread has read of the address it has read from what it may see, and what
\* it gave to getInstance is among that.
ReadFromSeen == \A t \in Parsers :
  /\ host \in hosts[t] /\ port \in ports[t]
  /\ own[t][1] # Blank => own[t][1] \in hosts[t]
  /\ own[t][2] \in ports[t]
  /\ pc[t] \in {"resolved", "connected", "reading", "closing"} => asked[t][1] \in hosts[t]
  /\ pc[t] \in {"connected", "reading", "closing"} => asked[t][2] \in ports[t]

IInv == TypeOK /\ Copies /\ Counted /\ ReadFromSeen

LEMMA AtLeastOneNat == ASSUME NEW n \in Nat
                       PROVE  AtLeastOne(n) \in Nat /\ AtLeastOne(n) >= 1 /\ AtLeastOne(n) >= n
BY DEF AtLeastOne

LEMMA AtLeastOneMono == ASSUME NEW n \in 0..MaxRetry
                        PROVE  AtLeastOne(n) <= AtLeastOne(MaxRetry)
BY ReaderAssumption DEF AtLeastOne

--------------------------------------------------------------------------------

LEMMA InitIInv == Init => IInv
<1> SUFFICES ASSUME Init PROVE IInv
  OBVIOUS
<1>1. TypeOK
  BY DEF Init, TypeOK
<1>2. Copies
  BY DEF Init, Copies
<1>3. Counted
  BY AtLeastOneNat, ReaderAssumption DEF Init, Counted
<1>4. ReadFromSeen
  BY DEF Init, ReadFromSeen
<1>5. QED
  BY <1>1, <1>2, <1>3, <1>4 DEF IInv

\* What the steps of the service and of getInstance leave alone is enough for the
\* counting of the tries.
LEMMA Idle ==
  ASSUME TypeOK, Copies, Counted, UNCHANGED <<pc, local>>
  PROVE  Copies' /\ Counted'
BY DEF Copies, Counted, local

LEMMA getInstanceStep ==
  ASSUME IInv, NEW t \in Threads, getInstance(t)
  PROVE  IInv'
<1> USE DEF IInv
<1>1. PICK h \in Hosts, p \in Ports :
        /\ host' = IF Differs(h, p) THEN h ELSE host
        /\ port' = IF Differs(h, p) THEN p ELSE port
        /\ hosts' = [u \in Parsers |-> Seen(t, u, hosts, host')]
        /\ ports' = [u \in Parsers |-> Seen(t, u, ports, port')]
        /\ own' = [u \in Parsers |-> IF u = t THEN <<h, p>> ELSE own[u]]
  BY DEF getInstance
<1>2. UNCHANGED <<pc, local>> /\ (t \in Parsers => pc[t] = "idle")
  BY DEF getInstance
<1>3. host' \in Hosts /\ port' \in Ports
  BY <1>1 DEF TypeOK
<1>4. hosts' \in [Parsers -> SUBSET Hosts] /\ ports' \in [Parsers -> SUBSET Ports]
  BY <1>1, <1>3 DEF TypeOK, Seen
<1>5. TypeOK'
  BY <1>1, <1>2, <1>3, <1>4 DEF TypeOK, local
<1>6. ReadFromSeen'
  <2> SUFFICES ASSUME NEW u \in Parsers
               PROVE  /\ host' \in hosts'[u] /\ port' \in ports'[u]
                      /\ own'[u][1] # Blank => own'[u][1] \in hosts'[u]
                      /\ own'[u][2] \in ports'[u]
                      /\ pc'[u] \in {"resolved", "connected", "reading", "closing"} => asked'[u][1] \in hosts'[u]
                      /\ pc'[u] \in {"connected", "reading", "closing"} => asked'[u][2] \in ports'[u]
    BY DEF ReadFromSeen
  <2>1. CASE u = t
    BY <1>1, <1>2, <2>1 DEF Seen, Differs, local
  <2>2. CASE u # t
    <3>1. hosts[u] \subseteq hosts'[u] /\ ports[u] \subseteq ports'[u] /\ host' \in hosts'[u] /\ port' \in ports'[u]
      BY <1>1, <2>2 DEF Seen
    <3>2. own'[u] = own[u] /\ asked'[u] = asked[u] /\ pc'[u] = pc[u]
      BY <1>1, <1>2, <2>2 DEF local
    <3>3. QED
      BY <3>1, <3>2 DEF ReadFromSeen
  <2>3. QED
    BY <2>1, <2>2
<1>7. QED
  BY <1>2, <1>5, <1>6, Idle

LEMMA ServeStep == ASSUME IInv, UNCHANGED <<config, pc, local>> PROVE IInv'
<1> USE DEF IInv
<1>1. TypeOK'
  BY DEF TypeOK, config, local
<1>2. ReadFromSeen'
  BY DEF ReadFromSeen, config, local
<1>3. QED
  BY <1>1, <1>2, Idle

LEMMA callStep ==
  ASSUME IInv, NEW t \in Parsers, citeParse(t)
  PROVE  IInv'
<1> USE DEF IInv
<1>1. PICK n \in 0..MaxRetry : retryTimes' = [retryTimes EXCEPT ![t] = AtLeastOne(n)]
  BY DEF citeParse
<1>2. AtLeastOne(n) \in Nat /\ AtLeastOne(n) <= AtLeastOne(MaxRetry) /\ AtLeastOne(MaxRetry) \in Nat
  BY AtLeastOneNat, AtLeastOneMono, ReaderAssumption
<1>3. TypeOK'
  BY <1>1, <1>2 DEF TypeOK, citeParse, Goto, config
<1>4. Copies'
  BY DEF TypeOK, Copies, citeParse, Goto
<1>5. Counted'
  BY <1>1, <1>2 DEF TypeOK, Counted, citeParse, Goto
<1>6. ReadFromSeen'
  BY DEF TypeOK, ReadFromSeen, citeParse, Goto, config
<1>7. QED
  BY <1>3, <1>4, <1>5, <1>6

LEMMA StepStep ==
  ASSUME IInv, NEW t \in Parsers, Step(t)
  PROVE  IInv'
<1> USE DEF IInv
<1>1. CASE ReadHost(t)
  <2>1. PICK r \in {"loop", "resolved"} :
          /\ Goto(t, "loop", r)
          /\ r = "loop" => UNCHANGED asked
          /\ r = "resolved" => \E h \in hosts[t] : asked' = [asked EXCEPT ![t][1] = h]
    BY <1>1 DEF ReadHost
  <2>2. /\ retryTimes[t] > 0 /\ ~success[t]
        /\ retryTimes' = [retryTimes EXCEPT ![t] = retryTimes[t] - 1]
        /\ tries' = [tries EXCEPT ![t] = tries[t] + 1]
        /\ UNCHANGED <<config, instr, success, citeList, made, closesFailed, calls>>
    BY <1>1 DEF ReadHost, TriesAgain
  <2>3. /\ asked' \in [Parsers -> Hosts \X Ports]
        /\ \A u \in Parsers \ {t} : asked'[u] = asked[u]
        /\ r = "resolved" => asked'[t][1] \in hosts[t]
    <3>1. CASE r = "loop"
      BY <2>1, <3>1 DEF TypeOK
    <3>2. CASE r = "resolved"
      <4>1. PICK h \in hosts[t] : asked' = [asked EXCEPT ![t][1] = h]
        BY <2>1, <3>2
      <4>2. asked[t] \in Hosts \X Ports /\ h \in Hosts
        BY DEF TypeOK
      <4>3. [asked[t] EXCEPT ![1] = h] = <<h, asked[t][2]>>
        BY <4>2
      <4>4. asked' = [asked EXCEPT ![t] = <<h, asked[t][2]>>]
        BY <4>1, <4>3
      <4>5. QED
        BY <4>2, <4>4 DEF TypeOK
    <3>3. QED
      BY <3>1, <3>2
  <2>4. TypeOK'
    <3>1. pc' \in [Parsers -> {"idle", "loop", "resolved", "connected", "reading", "closing"}]
      BY <2>1 DEF TypeOK, Goto
    <3>2. retryTimes' \in [Parsers -> Nat] /\ tries' \in [Parsers -> Nat]
      BY <2>2 DEF TypeOK
    <3>3. QED
      BY <2>2, <2>3, <3>1, <3>2 DEF TypeOK, config
  <2>5. Copies'
    BY <2>1, <2>2 DEF TypeOK, Copies, Goto
  <2>6. Counted'
    <3> DEFINE Max == AtLeastOne(MaxRetry)
    <3>1. Max \in Nat
      BY AtLeastOneNat, ReaderAssumption
    <3> HIDE DEF Max
    <3> SUFFICES ASSUME NEW u \in Parsers
                 PROVE  /\ tries'[u] + retryTimes'[u] <= Max
                        /\ pc'[u] = "idle" /\ ~success'[u] => retryTimes'[u] = 0
                        /\ success'[u] => pc'[u] \in {"idle", "loop"}
      BY DEF Counted, Max
    <3>2. tries[u] + retryTimes[u] <= Max
      BY DEF Counted, Max
    <3>3. CASE u = t
      BY <2>1, <2>2, <3>1, <3>2, <3>3 DEF TypeOK, Goto
    <3>4. CASE u # t
      BY <2>1, <2>2, <3>2, <3>4 DEF TypeOK, Goto, Counted
    <3>5. QED
      BY <3>3, <3>4
  <2>7. ReadFromSeen'
    BY <2>1, <2>2, <2>3 DEF TypeOK, ReadFromSeen, Goto, config
  <2>8. QED
    BY <2>4, <2>5, <2>6, <2>7
<1>2. CASE Connect(t)
  <2>1. PICK r \in {"loop", "connected"} : Goto(t, "resolved", r)
    BY <1>2 DEF Connect
  <2>2. /\ made' \in [Parsers -> Nat]
        /\ UNCHANGED <<config, instr, retryTimes, success, citeList, tries, closesFailed, calls>>
    BY <1>2 DEF Connect, TypeOK
  <2>3. /\ asked' \in [Parsers -> Hosts \X Ports]
        /\ \A u \in Parsers \ {t} : asked'[u] = asked[u]
        /\ asked'[t][1] = asked[t][1] /\ asked'[t][2] \in ports[t]
    <3>1. PICK p \in ports[t] : asked' = [asked EXCEPT ![t][2] = p]
      BY <1>2 DEF Connect
    <3>2. asked[t] \in Hosts \X Ports /\ p \in Ports
      BY DEF TypeOK
    <3>3. [asked[t] EXCEPT ![2] = p] = <<asked[t][1], p>>
      BY <3>2
    <3>4. asked' = [asked EXCEPT ![t] = <<asked[t][1], p>>]
      BY <3>1, <3>3
    <3>5. QED
      BY <3>2, <3>4 DEF TypeOK
  <2>4. TypeOK'
    BY <2>1, <2>2, <2>3 DEF TypeOK, Goto, config
  <2>5. Copies'
    BY <2>1, <2>2 DEF TypeOK, Copies, Goto
  <2>6. Counted'
    BY <2>1, <2>2 DEF TypeOK, Counted, Goto
  <2>7. ReadFromSeen'
    BY <2>1, <2>2, <2>3 DEF TypeOK, ReadFromSeen, Goto, config
  <2>8. QED
    BY <2>4, <2>5, <2>6, <2>7
<1>3. CASE Write(t) \/ Breaks(t) \/ NoAnswer(t) \/ Return(t)
  <2>1. /\ UNCHANGED <<config, local>>
        /\ \/ Goto(t, "connected", "reading") \/ Goto(t, "connected", "loop") \/ Goto(t, "reading", "loop")
           \/ Goto(t, "loop", "idle") /\ ~TriesAgain(t)
    BY <1>3 DEF Write, Breaks, NoAnswer, Return, Goto
  <2>2. TypeOK'
    BY <2>1 DEF TypeOK, Goto, config, local
  <2>3. Copies'
    BY <2>1 DEF TypeOK, Copies, Goto, local
  <2>4. Counted'
    <3>1. UNCHANGED <<tries, retryTimes, success>>
      BY <2>1 DEF local, TypeOK, Goto
    <3>2. \A u \in Parsers \ {t} : pc'[u] = pc[u]
      BY <2>1 DEF TypeOK, Goto
    <3>3. success[t] => pc'[t] \in {"idle", "loop"}
      BY <2>1 DEF TypeOK, Goto, Counted
    <3>4. pc'[t] = "idle" /\ ~success[t] => retryTimes[t] = 0
      <4>1. pc'[t] = "idle" => ~TriesAgain(t)
        BY <2>1 DEF TypeOK, Goto
      <4>2. retryTimes[t] \in Nat
        BY DEF TypeOK
      <4>3. QED
        BY <4>1, <4>2 DEF TriesAgain
    <3>5. QED
      BY <3>1, <3>2, <3>3, <3>4 DEF Counted
  <2>5. ReadFromSeen'
    BY <2>1 DEF TypeOK, ReadFromSeen, Goto, config, local
  <2>6. QED
    BY <2>2, <2>3, <2>4, <2>5
<1>4. CASE AddAnswer(t)
  <2>1. PICK k \in 1..Len(stream[Conn(t)]) : citeList' = [citeList EXCEPT ![t] = Append(citeList[t], k)]
    BY <1>4 DEF AddAnswer
  <2>2. k \in Nat
    OBVIOUS
  <2>3. citeList[t] \in Seq(Nat) /\ Append(citeList[t], k) \in Seq(Nat)
    BY <2>2 DEF TypeOK
  <2>4. Len(citeList'[t]) = Len(citeList[t]) + 1 /\ \A u \in Parsers \ {t} : citeList'[u] = citeList[u]
    BY <2>1, <2>2, <2>3 DEF TypeOK
  <2>5. citeList' \in [Parsers -> Seq(Nat)]
    BY <2>1, <2>3 DEF TypeOK
  <2>6. Goto(t, "reading", "closing") /\ UNCHANGED <<config, instr, retryTimes, success, asked, made, tries, closesFailed, calls>>
    BY <1>4 DEF AddAnswer
  <2>7. TypeOK'
    BY <2>5, <2>6 DEF TypeOK, Goto, config
  <2>8. Copies'
    <3> SUFFICES ASSUME NEW u \in Parsers
                 PROVE  Len(citeList'[u]) = closesFailed'[u] + (IF success'[u] \/ pc'[u] = "closing" THEN 1 ELSE 0)
      BY DEF Copies
    <3>1. CASE u = t
      <4>1. ~success[t] /\ pc[t] = "reading" /\ pc'[t] = "closing"
        BY <2>6 DEF Counted, Goto, TypeOK
      <4>2. Len(citeList[t]) = closesFailed[t] + 0
        BY <4>1 DEF Copies
      <4>3. closesFailed[t] \in Nat /\ closesFailed' = closesFailed
        BY <2>6 DEF TypeOK
      <4>4. QED
        BY <2>4, <3>1, <4>1, <4>2, <4>3
    <3>2. CASE u # t
      BY <2>4, <2>6, <3>2 DEF Copies, Goto, TypeOK
    <3>3. QED
      BY <3>1, <3>2
  <2>9. Counted'
    BY <2>6 DEF TypeOK, Counted, Goto
  <2>10. ReadFromSeen'
    BY <2>6 DEF TypeOK, ReadFromSeen, Goto, config
  <2>11. QED
    BY <2>7, <2>8, <2>9, <2>10
<1>5. CASE Close(t) \/ CloseFails(t)
  <2>0. /\ Goto(t, "closing", "loop")
        /\ UNCHANGED <<config, instr, retryTimes, citeList, asked, made, tries, calls>>
        /\ success' \in [Parsers -> BOOLEAN] /\ closesFailed' \in [Parsers -> Nat]
        /\ \A u \in Parsers \ {t} : success'[u] = success[u] /\ closesFailed'[u] = closesFailed[u]
    <3>1. CASE Close(t)
      BY <3>1 DEF Close, TypeOK
    <3>2. CASE CloseFails(t)
      BY <3>2 DEF CloseFails, TypeOK
    <3>3. QED
      BY <1>5, <3>1, <3>2
  <2>1. TypeOK'
    BY <2>0 DEF TypeOK, Goto, config
  <2>2. Counted'
    BY <2>0 DEF TypeOK, Counted, Goto
  <2>3. ReadFromSeen'
    BY <2>0 DEF TypeOK, ReadFromSeen, Goto, config
  <2>4. Copies'
    <3> SUFFICES ASSUME NEW u \in Parsers
                 PROVE  Len(citeList'[u]) = closesFailed'[u] + (IF success'[u] \/ pc'[u] = "closing" THEN 1 ELSE 0)
      BY DEF Copies
    <3>1. citeList' = citeList /\ closesFailed[u] \in Nat /\ pc[t] = "closing" /\ ~success[t] /\ pc' = [pc EXCEPT ![t] = "loop"]
      BY <1>5 DEF Close, CloseFails, Goto, TypeOK, Counted
    <3>2. CASE u # t
      BY <1>5, <3>1, <3>2 DEF Copies, Close, CloseFails, TypeOK
    <3>3. CASE u = t /\ Close(t)
      BY <3>1, <3>3 DEF Copies, Close, TypeOK
    <3>4. CASE u = t /\ CloseFails(t)
      <4>1. closesFailed'[t] = closesFailed[t] + 1 /\ success' = success /\ pc'[t] = "loop"
        BY <3>1, <3>4 DEF CloseFails, TypeOK
      <4>2. Len(citeList[t]) = closesFailed[t] + 1
        BY <3>1 DEF Copies
      <4>3. QED
        BY <3>1, <3>4, <4>1, <4>2
    <3>5. QED
      BY <1>5, <3>2, <3>3, <3>4
  <2>5. QED
    BY <2>1, <2>2, <2>3, <2>4
<1>6. QED
  BY <1>1, <1>2, <1>3, <1>4, <1>5 DEF Step, Advance

LEMMA NextIInv == IInv /\ [Next]_vars => IInv'
<1> SUFFICES ASSUME IInv, [Next]_vars PROVE IInv'
  OBVIOUS
<1>1. CASE Serve \/ UNCHANGED vars
  <2>1. UNCHANGED <<config, pc, local>>
    BY <1>1 DEF Serve, Lose, Decide, vars
  <2>2. QED
    BY <2>1, ServeStep
<1>2. QED
  BY <1>1, getInstanceStep, callStep, StepStep DEF Next

THEOREM Invariance == Spec => []IInv
BY InitIInv, NextIInv, PTL DEF Spec

\* Every variable of the client keeps its type.
THEOREM TypeCorrect == Spec => []TypeOK
BY Invariance, PTL DEF IInv

\* The citations of a text are in the list once for the try that succeeded and once
\* for each try whose connection would not close, and no other try leaves any.
THEOREM CopiesCounted == Spec => []Copies
BY Invariance, PTL DEF IInv

\* A call gives up only after the number of tries it was told, and a call that has
\* succeeded tries no more.
THEOREM TriesAll == Spec => []GivesUpLate
<1>1. IInv => GivesUpLate
  BY AtLeastOneNat, ReaderAssumption DEF IInv, TypeOK, Counted, GivesUpLate
<1>2. QED
  BY <1>1, Invariance, PTL

\* While no other thread changes the static fields, a try goes to the server that
\* the thread gave to its last getInstance.
THEOREM OwnServer == Spec => []AsksOwnServer
<1>1. IInv => AsksOwnServer
  <2> SUFFICES ASSUME IInv, NEW t \in Parsers,
                      pc[t] \in {"connected", "reading", "closing"},
                      hosts[t] = {host}, ports[t] = {port}
               PROVE  /\ asked[t] = <<host, port>>
                      /\ own[t][1] # Blank => asked[t] = own[t]
    BY DEF AsksOwnServer
  <2>1. asked[t][1] = host /\ asked[t][2] = port /\ own[t][2] = port /\ (own[t][1] # Blank => own[t][1] = host)
    BY DEF IInv, ReadFromSeen
  <2>2. asked[t] \in Hosts \X Ports /\ own[t] \in Hosts \X Ports
    BY DEF IInv, TypeOK
  <2>3. QED
    BY <2>1, <2>2
<1>2. QED
  BY <1>1, Invariance, PTL
================================================================================
