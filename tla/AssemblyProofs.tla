----------------------------- MODULE AssemblyProofs -----------------------------
(****************************************************************************)
(* Proofs about the assembly of citations, for every text, every labelling, *)
(* whatever is read past the last label: the citations before the last one  *)
(* stay as they are and are not empty, and the pieces tile the text.        *)
(****************************************************************************)
EXTENDS Assembly, TLAPS

Node == [Field -> Seq(Seq(Nat))]

\* The list of citations has a tail, and nowNode points to it.
ListOK ==
  /\ nodes \in Seq(Node)
  /\ Len(nodes) >= 1
  /\ nowNode = Len(nodes)

\* The labelled text, and the locals that do not concern the list.
LocalsOK ==
  /\ text \in Seq(Text) /\ Len(text) >= 1
  /\ y2 \in [1..Len(text) -> Label]
  /\ pc \in {"loop", "end", "crash"}
  /\ i \in 1..(Len(text) + 1)
  /\ nowid \in Label \cup {0} /\ lastid \in Label \cup {0}
  /\ strelem \in Seq(1..Len(text))

TypeInv == ListOK /\ LocalsOK

--------------------------------------------------------------------------------
(* The list of citations.                                                     *)

LEMMA EmptyNodeType == EmptyNode \in Node
BY DEF EmptyNode, Node

\* Whether a citation is empty depends on the citation and on the text.
LEMMA EmptyStable ==
  ASSUME NEW n, nodes'[n] = nodes[n], text' = text
  PROVE  cnIsEmpty(nodes[n])' <=> cnIsEmpty(nodes[n])
BY DEF cnIsEmpty, BlankField, BlankName, BlankText

\* What addCitationNode does: nothing to an empty tail, one citation more otherwise.
LEMMA NodeAdded ==
  ASSUME ListOK
  PROVE  LET a == addCitationNode
         IN  /\ a[1] \in Seq(Node) /\ a[2] = Len(a[1])
             /\ \/ a[1] = nodes
                \/ a[1] = Append(nodes, EmptyNode) /\ ~cnIsEmpty(nodes[Len(nodes)])
<1>1. CASE cnIsEmpty(nodes[nowNode])
  BY <1>1 DEF addCitationNode, ListOK
<1>2. CASE ~cnIsEmpty(nodes[nowNode])
  <2>1. addCitationNode = <<Append(nodes, EmptyNode), Len(nodes) + 1>>
    BY <1>2 DEF addCitationNode
  <2>2. /\ Append(nodes, EmptyNode) \in Seq(Node)
        /\ Len(Append(nodes, EmptyNode)) = Len(nodes) + 1
    BY EmptyNodeType DEF ListOK
  <2> QED
    BY <1>2, <2>1, <2>2 DEF ListOK
<1> QED
  BY <1>1, <1>2

\* What a piece may do to the list: write into the last citation, or leave all as they
\* are and write into a new one, if the last one is not empty.
Extended ==
  /\ \A n \in 1..(Len(nodes) - 1) : nodes'[n] = nodes[n]
  /\ \/ Len(nodes') = Len(nodes)
     \/ /\ Len(nodes') = Len(nodes) + 1
        /\ nodes'[Len(nodes)] = nodes[Len(nodes)]
        /\ ~cnIsEmpty(nodes[Len(nodes)])

\* Writing over the authors of the last citation.
LEMMA AuthorWritten ==
  ASSUME NEW list \in Seq(Node), Len(list) >= 1, NEW t \in Seq(Nat)
  PROVE  /\ OverAuthor(list, Len(list), t) \in Seq(Node)
         /\ Len(OverAuthor(list, Len(list), t)) = Len(list)
         /\ \A n \in 1..(Len(list) - 1) : OverAuthor(list, Len(list), t)[n] = list[n]
<1> DEFINE node == list[Len(list)]
           written == [node EXCEPT !.author = IF t = <<>> THEN @ ELSE Append(@, t)]
<1>1. node \in Node
  OBVIOUS
<1>2. written \in Node
  <2>1. node.author \in Seq(Seq(Nat))
    BY <1>1 DEF Node, Field
  <2>2. (IF t = <<>> THEN node.author ELSE Append(node.author, t)) \in Seq(Seq(Nat))
    BY <2>1
  <2> QED
    BY <1>1, <2>2 DEF Node
<1>3. OverAuthor(list, Len(list), t) = [list EXCEPT ![Len(list)] = written]
  BY DEF OverAuthor
<1> HIDE DEF written
<1> QED
  BY <1>2, <1>3

\* Writing another field of the last citation.
LEMMA FieldWritten ==
  ASSUME NEW list \in Seq(Node), Len(list) >= 1, NEW t \in Seq(Nat), NEW id \in DOMAIN FieldOf
  PROVE  /\ Overwritten(list, Len(list), id, t) \in Seq(Node)
         /\ Len(Overwritten(list, Len(list), id, t)) = Len(list)
         /\ \A n \in 1..(Len(list) - 1) : Overwritten(list, Len(list), id, t)[n] = list[n]
<1> DEFINE node == list[Len(list)]
           written == [node EXCEPT ![FieldOf[id]] = <<t>>]
<1>1. node \in Node
  OBVIOUS
<1>2. written \in Node
  <2>1. <<t>> \in Seq(Seq(Nat))
    OBVIOUS
  <2> QED
    BY <1>1, <2>1 DEF Node
<1>3. Overwritten(list, Len(list), id, t) = [list EXCEPT ![Len(list)] = written]
  BY DEF Overwritten
<1> HIDE DEF written
<1> QED
  BY <1>2, <1>3

\* addCitationInfo keeps the list in order and extends it at its end only.
LEMMA InfoAdded ==
  ASSUME ListOK, NEW t \in Seq(Nat), NEW id, addCitationInfo(t, id)
  PROVE  ListOK' /\ Extended
<1>1. CASE nodes' = nodes /\ nowNode' = nowNode
  BY <1>1 DEF ListOK, Extended
<1> DEFINE a == addCitationNode
<1>a. /\ a[1] \in Seq(Node) /\ a[2] = Len(a[1]) /\ Len(a[1]) >= 1
      /\ \/ a[1] = nodes
         \/ a[1] = Append(nodes, EmptyNode) /\ ~cnIsEmpty(nodes[Len(nodes)])
  BY NodeAdded, EmptyNodeType DEF ListOK
<1> HIDE DEF a
<1>b. ASSUME NEW list \in Seq(Node), Len(list) = Len(a[1]), nodes' = list, nowNode' = a[2],
             \A n \in 1..(Len(a[1]) - 1) : list[n] = a[1][n]
      PROVE  ListOK' /\ Extended
  <2>1. ListOK'
    BY <1>a, <1>b DEF ListOK
  <2>2. CASE a[1] = nodes
    BY <1>a, <1>b, <2>2 DEF Extended, ListOK
  <2>3. CASE a[1] = Append(nodes, EmptyNode) /\ ~cnIsEmpty(nodes[Len(nodes)])
    <3>1. /\ Len(a[1]) = Len(nodes) + 1
          /\ \A n \in 1..Len(nodes) : a[1][n] = nodes[n]
      BY <2>3, EmptyNodeType DEF ListOK
    <3> QED
      BY <1>b, <2>1, <2>3, <3>1 DEF Extended, ListOK
  <2> QED
    BY <1>a, <2>1, <2>2, <2>3
<1>2. CASE nodes' = a[1] /\ nowNode' = a[2]
  BY <1>2, <1>a, <1>b
<1>3. CASE nodes' = OverAuthor(a[1], a[2], t) /\ nowNode' = a[2]
  BY <1>3, <1>a, <1>b, AuthorWritten
<1>4. CASE nodes' = OverAuthor(nodes, nowNode, t) /\ nowNode' = nowNode
  BY <1>4, AuthorWritten DEF ListOK, Extended
<1>5. CASE id \in DOMAIN FieldOf /\ nodes' = Overwritten(nodes, nowNode, id, t) /\ nowNode' = nowNode
  BY <1>5, FieldWritten DEF ListOK, Extended
<1> QED
  BY <1>1, <1>2, <1>3, <1>4, <1>5 DEF addCitationInfo, a

--------------------------------------------------------------------------------
(* Types.                                                                     *)

LEMMA InitType == Init => TypeInv
<1> SUFFICES ASSUME Init PROVE TypeInv
  OBVIOUS
<1>1. PICK n \in 1..MaxWords : text \in [1..n -> Text] /\ y2 \in [1..n -> Label]
  BY DEF Init
<1>2. n \in Nat /\ n >= 1
  BY AssemblyAssumption
<1>3. text \in Seq(Text) /\ Len(text) = n
  BY <1>1, <1>2
<1>4. ListOK
  BY EmptyNodeType DEF Init, ListOK
<1> QED
  BY <1>1, <1>2, <1>3, <1>4 DEF Init, TypeInv, LocalsOK

LEMMA NextType == TypeInv /\ [Next]_vars => TypeInv' /\ (Extended \/ UNCHANGED nodes)
<1> SUFFICES ASSUME TypeInv, [Next]_vars PROVE TypeInv' /\ (Extended \/ UNCHANGED nodes)
  OBVIOUS
<1> USE DEF TypeInv
<1>0. strelem \in Seq(Nat) /\ (i <= Len(text) => Append(strelem, i) \in Seq(Nat))
  BY DEF LocalsOK
<1>1. CASE Step
  <2>1. PICK id \in LabelAt(i) :
          /\ nowid' = id /\ lastid' = id
          /\ IF id # lastid
             THEN addCitationInfo(Append(strelem, i), lastid) /\ strelem' = <<>>
             ELSE strelem' = Append(strelem, i) /\ UNCHANGED <<nodes, nowNode, calls>>
    BY <1>1 DEF Step
  <2>2. id \in Label \cup {0}
    BY <1>1 DEF LabelAt, Step, LocalsOK
  <2>3. pc = "loop" /\ pc' = "loop" /\ i <= Len(text) /\ i' = i + 1 /\ UNCHANGED <<text, y2>>
    BY <1>1 DEF Step, input
  <2>4. strelem' \in Seq(1..Len(text))
    <3>1. i \in 1..Len(text)
      BY <2>3 DEF LocalsOK
    <3>2. Append(strelem, i) \in Seq(1..Len(text))
      BY <3>1 DEF LocalsOK
    <3>3. <<>> \in Seq(1..Len(text))
      OBVIOUS
    <3>4. strelem' \in {<<>>, Append(strelem, i)}
      BY <2>1
    <3> QED
      BY <2>3, <3>2, <3>3, <3>4
  <2>5. LocalsOK'
    BY <2>1, <2>2, <2>3, <2>4 DEF LocalsOK
  <2>6. ListOK' /\ (Extended \/ UNCHANGED nodes)
    BY <1>0, <2>1, <2>3, InfoAdded DEF ListOK
  <2> QED
    BY <2>5, <2>6
<1>2. CASE StepCrashes
  BY <1>2 DEF StepCrashes, ListOK, LocalsOK, input
<1>3. CASE StoreRest
  <2>1. ListOK' /\ Extended
    BY <1>0, <1>3, InfoAdded DEF StoreRest
  <2>2. LocalsOK'
    BY <1>3 DEF StoreRest, LocalsOK, input
  <2> QED
    BY <2>1, <2>2
<1>4. CASE UNCHANGED vars
  BY <1>4 DEF vars, input, ListOK, LocalsOK
<1> QED
  BY <1>1, <1>2, <1>3, <1>4 DEF Next

LEMMA AlwaysTyped == Spec => []TypeInv
<1>1. TypeInv /\ [Next]_vars => TypeInv'
  BY NextType
<1> QED
  BY InitType, <1>1, PTL DEF Spec

\* Every reachable state is well typed: nowNode always points to the tail of the list,
\* and what is copied into strelem are words of the text.
THEOREM TypeCorrect == Spec => []TypeOK
<1>1. TypeInv => TypeOK
  BY DEF TypeInv, ListOK, LocalsOK, TypeOK, Node
<1> QED
  BY AlwaysTyped, <1>1, PTL

--------------------------------------------------------------------------------
(* The citations before the last one.                                         *)

\* No step changes a citation before the last one or takes one out of the list: what
\* follows a new author is not mixed with what went before.
THEOREM FinishedStay == Spec => EarlierFrozen
<1>1. TypeInv /\ [Next]_vars =>
        [/\ Len(nodes') >= Len(nodes)
         /\ \A n \in 1..(Len(nodes) - 1) : nodes'[n] = nodes[n]]_vars
  <2> SUFFICES ASSUME TypeInv, [Next]_vars
               PROVE  /\ Len(nodes') >= Len(nodes)
                      /\ \A n \in 1..(Len(nodes) - 1) : nodes'[n] = nodes[n]
    OBVIOUS
  <2> QED
    BY NextType DEF Extended, TypeInv, ListOK
<1> QED
  BY AlwaysTyped, <1>1, PTL DEF Spec, EarlierFrozen

\* A new citation follows only one that has something in it, and nothing is taken out of
\* a citation once another follows: only the last one can be answered as empty.
THEOREM EmptyAtEndOnly == Spec => []OnlyLastEmpty
<1>1. Init => OnlyLastEmpty
  BY DEF Init, OnlyLastEmpty
<1>2. TypeInv /\ TypeInv' /\ OnlyLastEmpty /\ [Next]_vars => OnlyLastEmpty'
  <2> SUFFICES ASSUME TypeInv, TypeInv', OnlyLastEmpty, [Next]_vars,
                      NEW n \in 1..(Len(nodes') - 1)
               PROVE  (~cnIsEmpty(nodes[n]))'
    BY DEF OnlyLastEmpty
  <2>1. text' = text
    BY DEF Next, Step, StepCrashes, StoreRest, vars, input
  <2>2. Extended \/ UNCHANGED nodes
    BY NextType
  <2>3. n \in 1..Len(nodes) /\ nodes'[n] = nodes[n] /\ ~cnIsEmpty(nodes[n])
    BY <2>2 DEF Extended, OnlyLastEmpty, TypeInv, ListOK
  <2> QED
    BY <2>1, <2>3, EmptyStable
<1> QED
  BY AlwaysTyped, <1>1, <1>2, PTL DEF Spec

--------------------------------------------------------------------------------
(* The pieces.                                                                *)

\* The last word given to addCitationInfo so far.
Done == IF calls = <<>> THEN 0 ELSE LastOf(calls[Len(calls)].text)

\* The word that the j-th piece has to begin with.
Start(pieces, j) == IF j = 1 THEN 1 ELSE LastOf(pieces[j - 1].text) + 1

\* The pieces so far tile the words up to Done, and strelem has those from there to i.
Tiles ==
  /\ calls \in Seq([text : Seq(Nat), id : Label \cup {0}])
  /\ \A j \in 1..Len(calls) :
       /\ \A k \in 1..Len(calls[j].text) : calls[j].text[k] = Start(calls, j) + k - 1
       /\ calls[j].text = <<>> => pc = "end" /\ j = Len(calls) /\ Start(calls, j) = Len(text) + 1
  /\ pc = "loop" =>
       /\ Done \in Nat
       /\ \A k \in 1..Len(strelem) : strelem[k] = Done + k
       /\ Done + Len(strelem) = i - 1
  /\ pc = "end" => \E j \in 1..Len(calls) :
                     calls[j].text # <<>> /\ LastOf(calls[j].text) = Len(text)

\* The words of strelem, and the next one, have the label lastid, and no piece under
\* that label came just before.
Labelled ==
  pc = "loop" =>
    /\ i > 1 => nowid = lastid
    /\ i <= Len(text) => y2[i] = lastid
    /\ \A k \in 1..Len(strelem) : y2[strelem[k]] = lastid
    /\ calls # <<>> => calls[Len(calls)].id # lastid

LEMMA InitPieces == Init => Tiles /\ Labelled
<1> SUFFICES ASSUME Init PROVE Tiles /\ Labelled
  OBVIOUS
<1>1. Tiles
  BY DEF Init, Tiles, Done
<1>2. Labelled
  BY DEF Init, Labelled
<1> QED
  BY <1>1, <1>2

\* One more piece at the end of the pieces.
LEMMA CallAdded ==
  ASSUME Tiles, pc = "loop", NEW t \in Seq(Nat), NEW id \in Label \cup {0},
         calls' = Append(calls, [text |-> t, id |-> id])
  PROVE  /\ calls' \in Seq([text : Seq(Nat), id : Label \cup {0}])
         /\ Len(calls') = Len(calls) + 1
         /\ \A j \in 1..Len(calls) : calls'[j] = calls[j] /\ Start(calls', j) = Start(calls, j)
         /\ calls'[Len(calls')] = [text |-> t, id |-> id]
         /\ Start(calls', Len(calls')) = Done + 1
<1> DEFINE C == [text : Seq(Nat), id : Label \cup {0}]
           c == [text |-> t, id |-> id]
<1>1. calls \in Seq(C) /\ c \in C
  BY DEF Tiles
<1>2. calls' = Append(calls, c)
  OBVIOUS
<1> HIDE DEF C, c
<1>3. /\ calls' \in Seq(C) /\ Len(calls') = Len(calls) + 1 /\ calls'[Len(calls) + 1] = c
      /\ \A j \in 1..Len(calls) : calls'[j] = calls[j]
  BY <1>1, <1>2
<1>4. ASSUME NEW j \in 1..Len(calls)
      PROVE  Start(calls', j) = Start(calls, j)
  <2>1. j = 1 \/ j - 1 \in 1..Len(calls)
    BY <1>1
  <2> QED
    BY <1>3, <2>1 DEF Start, LastOf
<1>5. Start(calls', Len(calls')) = Done + 1
  <2>1. CASE calls = <<>>
    BY <1>3, <2>1 DEF Start, Done
  <2>2. CASE calls # <<>>
    <3>1. Len(calls) \in 1..Len(calls) /\ Len(calls) + 1 # 1
      BY <1>1, <2>2
    <3> QED
      BY <1>1, <1>3, <2>2, <3>1 DEF Start, Done, LastOf
  <2> QED
    BY <2>1, <2>2
<1> QED
  BY <1>1, <1>3, <1>4, <1>5 DEF C, c

LEMMA StepPieces ==
  ASSUME TypeInv, Tiles, Labelled, Step
  PROVE  Tiles' /\ Labelled'
<1> DEFINE longer == Append(strelem, i)
<1>1. PICK id \in LabelAt(i) :
        /\ nowid' = id /\ lastid' = id
        /\ IF id # lastid
           THEN addCitationInfo(longer, lastid) /\ strelem' = <<>>
           ELSE strelem' = longer /\ UNCHANGED <<nodes, nowNode, calls>>
  BY DEF Step
<1>2. /\ pc = "loop" /\ pc' = "loop" /\ i' = i + 1 /\ UNCHANGED <<text, y2>>
      /\ i \in 1..Len(text) /\ i \in Nat
  BY DEF Step, input, TypeInv, LocalsOK
<1>3. i + 1 <= Len(text) => y2[i + 1] = id
  BY <1>2 DEF LabelAt
<1>4. /\ longer \in Seq(Nat) /\ Len(longer) = Len(strelem) + 1 /\ longer # <<>>
      /\ longer[Len(longer)] = i
      /\ \A k \in 1..Len(strelem) : longer[k] = strelem[k]
  BY <1>2 DEF TypeInv, LocalsOK
<1>5. \A k \in 1..Len(longer) : longer[k] = Done + k /\ y2[longer[k]] = lastid
  <2> SUFFICES ASSUME NEW k \in 1..Len(longer)
               PROVE  longer[k] = Done + k /\ y2[longer[k]] = lastid
    OBVIOUS
  <2>1. Len(strelem) \in Nat /\ Done \in Nat /\ Done + Len(strelem) = i - 1
    BY <1>2 DEF Tiles, TypeInv, LocalsOK
  <2>2. CASE k \in 1..Len(strelem)
    BY <1>2, <1>4, <2>2 DEF Tiles, Labelled
  <2>3. CASE k = Len(longer)
    BY <1>2, <1>4, <2>1, <2>3 DEF Labelled
  <2> QED
    BY <1>4, <2>1, <2>2, <2>3
<1> HIDE DEF longer
<1>6. CASE id = lastid
  <2>1. strelem' = longer /\ calls' = calls
    BY <1>1, <1>6
  <2>2. Tiles'
    <3>1. Done' = Done /\ \A j \in 1..Len(calls') : Start(calls', j) = Start(calls, j)
      BY <2>1 DEF Done
    <3>2. /\ calls' \in Seq([text : Seq(Nat), id : Label \cup {0}])
          /\ \A j \in 1..Len(calls') :
               /\ \A k \in 1..Len(calls'[j].text) : calls'[j].text[k] = Start(calls', j) + k - 1
               /\ calls'[j].text # <<>>
      BY <1>2, <2>1, <3>1 DEF Tiles
    <3>3. Done' \in Nat /\ Done' + Len(strelem') = i' - 1
      BY <1>2, <1>4, <2>1, <3>1 DEF Tiles, TypeInv, LocalsOK
    <3>4. \A k \in 1..Len(strelem') : strelem'[k] = Done' + k
      BY <1>5, <2>1, <3>1
    <3> QED
      BY <1>2, <3>2, <3>3, <3>4 DEF Tiles
  <2>3. Labelled'
    BY <1>1, <1>2, <1>3, <1>5, <1>6, <2>1 DEF Labelled
  <2> QED
    BY <2>2, <2>3
<1>7. CASE id # lastid
  <2>1. /\ calls' = Append(calls, [text |-> longer, id |-> lastid])
        /\ strelem' = <<>>
    BY <1>1, <1>7 DEF addCitationInfo
  <2>2. lastid \in Label \cup {0}
    BY DEF TypeInv, LocalsOK
  <2>3. /\ calls' \in Seq([text : Seq(Nat), id : Label \cup {0}])
        /\ Len(calls') = Len(calls) + 1
        /\ \A j \in 1..Len(calls) : calls'[j] = calls[j] /\ Start(calls', j) = Start(calls, j)
        /\ calls'[Len(calls')] = [text |-> longer, id |-> lastid]
        /\ Start(calls', Len(calls')) = Done + 1
    BY <1>2, <1>4, <2>1, <2>2, CallAdded
  <2>4. Len(calls) \in Nat /\ calls' # <<>> /\ Done \in Nat
    BY <1>2, <2>3 DEF Tiles
  <2>5. Done' = i
    BY <1>4, <2>3, <2>4 DEF Done, LastOf
  <2>6. ASSUME NEW j \in 1..Len(calls')
        PROVE  /\ calls'[j].text # <<>>
               /\ \A k \in 1..Len(calls'[j].text) : calls'[j].text[k] = Start(calls', j) + k - 1
    <3>1. CASE j \in 1..Len(calls)
      BY <1>2, <2>3, <3>1 DEF Tiles
    <3>2. CASE j = Len(calls')
      BY <1>4, <1>5, <2>3, <2>4, <3>2
    <3> QED
      BY <2>3, <2>4, <3>1, <3>2
  <2>7. Tiles'
    <3>1. Done' \in Nat /\ Done' + Len(strelem') = i' - 1
      BY <1>2, <2>1, <2>5
    <3>2. \A k \in 1..Len(strelem') : strelem'[k] = Done' + k
      BY <2>1
    <3> QED
      BY <1>2, <2>3, <2>6, <3>1, <3>2 DEF Tiles
  <2>8. Labelled'
    BY <1>1, <1>2, <1>3, <1>7, <2>1, <2>3 DEF Labelled
  <2> QED
    BY <2>7, <2>8
<1> QED
  BY <1>6, <1>7

LEMMA RestPieces ==
  ASSUME TypeInv, Tiles, Labelled, StoreRest
  PROVE  Tiles' /\ Labelled'
<1>1. /\ pc = "loop" /\ pc' = "end" /\ i = Len(text) + 1 /\ UNCHANGED <<text, y2, strelem>>
      /\ Len(text) \in Nat /\ Len(text) >= 1 /\ strelem \in Seq(Nat)
      /\ nowid \in Label \cup {0}
  BY DEF StoreRest, input, TypeInv, LocalsOK
<1>2. calls' = Append(calls, [text |-> strelem, id |-> nowid])
  BY DEF StoreRest, addCitationInfo
<1>3. /\ calls' \in Seq([text : Seq(Nat), id : Label \cup {0}])
      /\ Len(calls') = Len(calls) + 1
      /\ \A j \in 1..Len(calls) : calls'[j] = calls[j] /\ Start(calls', j) = Start(calls, j)
      /\ calls'[Len(calls')] = [text |-> strelem, id |-> nowid]
      /\ Start(calls', Len(calls')) = Done + 1
  BY <1>1, <1>2, CallAdded
<1>4. /\ Done \in Nat /\ Done + Len(strelem) = Len(text) /\ Len(calls) \in Nat
      /\ \A k \in 1..Len(strelem) : strelem[k] = Done + k
  BY <1>1 DEF Tiles
<1>5. ASSUME NEW j \in 1..Len(calls')
      PROVE  /\ \A k \in 1..Len(calls'[j].text) : calls'[j].text[k] = Start(calls', j) + k - 1
             /\ calls'[j].text = <<>> => j = Len(calls') /\ Start(calls', j) = Len(text) + 1
  <2>1. CASE j \in 1..Len(calls)
    BY <1>1, <1>3, <2>1 DEF Tiles
  <2>2. CASE j = Len(calls')
    BY <1>1, <1>3, <1>4, <2>2
  <2> QED
    BY <1>3, <1>4, <2>1, <2>2
<1>6. \E j \in 1..Len(calls') : calls'[j].text # <<>> /\ LastOf(calls'[j].text) = Len(text)
  <2>1. CASE strelem # <<>>
    <3>1. Len(strelem) \in 1..Len(strelem) /\ strelem[Len(strelem)] = Len(text)
      BY <1>1, <1>4, <2>1
    <3>2. Len(calls') \in 1..Len(calls')
      BY <1>3, <1>4
    <3> QED
      BY <1>3, <2>1, <3>1, <3>2 DEF LastOf
  <2>2. CASE strelem = <<>>
    <3>1. Done = Len(text) /\ calls # <<>>
      BY <1>1, <1>4, <2>2 DEF Done
    <3>2. Len(calls) \in 1..Len(calls) /\ Len(calls) \in 1..Len(calls')
      BY <1>3, <1>4, <3>1 DEF Tiles
    <3>3. calls[Len(calls)].text # <<>> /\ LastOf(calls[Len(calls)].text) = Len(text)
      BY <1>1, <3>1, <3>2 DEF Done, Tiles
    <3> QED
      BY <1>3, <3>2, <3>3
  <2> QED
    BY <2>1, <2>2
<1>7. Tiles'
  BY <1>1, <1>3, <1>5, <1>6 DEF Tiles
<1> QED
  BY <1>1, <1>7 DEF Labelled

PieceInv == TypeInv /\ Tiles /\ Labelled

LEMMA AlwaysTiled == Spec => []PieceInv
<1>1. Init => PieceInv
  BY InitType, InitPieces DEF PieceInv
<1>2. PieceInv /\ [Next]_vars => PieceInv'
  <2> SUFFICES ASSUME PieceInv, [Next]_vars PROVE PieceInv'
    OBVIOUS
  <2>1. TypeInv'
    BY NextType DEF PieceInv
  <2>2. CASE Step
    BY <2>1, <2>2, StepPieces DEF PieceInv
  <2>3. CASE StepCrashes
    BY <2>1, <2>3 DEF StepCrashes, input, PieceInv, Tiles, Labelled, Done, Start
  <2>4. CASE StoreRest
    BY <2>1, <2>4, RestPieces DEF PieceInv
  <2>5. CASE UNCHANGED vars
    BY <2>1, <2>5 DEF vars, input, PieceInv, Tiles, Labelled, Done, Start
  <2> QED
    BY <2>2, <2>3, <2>4, <2>5 DEF Next
<1> QED
  BY <1>1, <1>2, PTL DEF Spec

\* The pieces given to addCitationInfo are the words of the text, in order and each in
\* one piece, whatever label is read past the last one.
THEOREM WordsInPieces == Spec => []PiecesTile
<1>1. PieceInv => PiecesTile
  <2> SUFFICES ASSUME PieceInv PROVE PiecesTile
    OBVIOUS
  <2>1. DOMAIN calls = 1..Len(calls)
    BY DEF PieceInv, Tiles
  <2>2. ASSUME NEW j \in 1..Len(calls)
        PROVE  IF calls[j].text = <<>>
               THEN pc = "end" /\ j = Len(calls) /\ Start(calls, j) = Len(text) + 1
               ELSE \A k \in DOMAIN calls[j].text : calls[j].text[k] = Start(calls, j) + k - 1
    <3>1. DOMAIN calls[j].text = 1..Len(calls[j].text)
      BY DEF PieceInv, Tiles
    <3> QED
      BY <3>1 DEF PieceInv, Tiles
  <2>3. pc = "end" => \E j \in DOMAIN calls :
                        calls[j].text # <<>> /\ LastOf(calls[j].text) = Len(text)
    BY <2>1 DEF PieceInv, Tiles
  <2> QED
    BY <2>1, <2>2, <2>3 DEF PiecesTile, Start
<1> QED
  BY AlwaysTiled, <1>1, PTL

\* A piece is a longest run of words with one label, and is stored under that label.
THEOREM PiecesOneLabel == Spec => []PiecesAreRuns
<1>1. Init => PiecesAreRuns
  BY DEF Init, PiecesAreRuns
<1>2. PieceInv /\ PiecesAreRuns /\ [Next]_vars => PiecesAreRuns'
  <2> SUFFICES ASSUME PieceInv, PiecesAreRuns, [Next]_vars PROVE PiecesAreRuns'
    OBVIOUS
  <2> USE DEF PieceInv
  <2>1. ASSUME NEW t \in Seq(Nat), NEW id \in Label \cup {0}, pc = "loop",
               calls' = Append(calls, [text |-> t, id |-> id]), y2' = y2,
               \A k \in 1..Len(t) : y2[t[k]] = id,
               calls # <<>> => calls[Len(calls)].id # id
        PROVE  PiecesAreRuns'
    <3>1. /\ Len(calls) \in Nat /\ DOMAIN calls = 1..Len(calls)
          /\ DOMAIN calls' = 1..(Len(calls) + 1)
          /\ calls'[Len(calls) + 1] = [text |-> t, id |-> id]
          /\ \A j \in 1..Len(calls) : calls'[j] = calls[j]
          /\ Len(calls') = Len(calls) + 1
      BY <2>1, CallAdded DEF Tiles
    <3>2. ASSUME NEW j \in 1..Len(calls)
          PROVE  \A k \in DOMAIN calls'[j].text : y2'[calls'[j].text[k]] = calls'[j].id
      BY <2>1, <3>1 DEF PiecesAreRuns
    <3>3. ASSUME NEW j \in 1..Len(calls), j < Len(calls)
          PROVE  calls'[j].id # calls'[j + 1].id
      <4>1. j + 1 \in 1..Len(calls) /\ j \in DOMAIN calls
        BY <3>1, <3>3
      <4> QED
        BY <3>1, <3>3, <4>1 DEF PiecesAreRuns
    <3>4. calls # <<>> => calls'[Len(calls)].id # calls'[Len(calls) + 1].id
      <4>1. calls # <<>> => Len(calls) \in 1..Len(calls)
        BY <3>1
      <4> QED
        BY <2>1, <3>1, <4>1
    <3>5. \A k \in DOMAIN calls'[Len(calls) + 1].text :
            y2'[calls'[Len(calls) + 1].text[k]] = calls'[Len(calls) + 1].id
      <4>1. calls'[Len(calls) + 1].text = t /\ calls'[Len(calls) + 1].id = id
        BY <3>1
      <4>2. DOMAIN t = 1..Len(t)
        OBVIOUS
      <4>3. \A k \in DOMAIN t : y2'[t[k]] = id
        BY <2>1, <4>2
      <4> QED
        BY <4>1, <4>3
    <3> QED
      <4> SUFFICES ASSUME NEW j \in 1..(Len(calls) + 1)
                   PROVE  /\ \A k \in DOMAIN calls'[j].text : y2'[calls'[j].text[k]] = calls'[j].id
                          /\ j < Len(calls) + 1 => calls'[j].id # calls'[j + 1].id
        BY <3>1 DEF PiecesAreRuns
      <4>1. CASE j < Len(calls)
        BY <3>1, <3>2, <3>3, <4>1
      <4>2. CASE j = Len(calls)
        BY <3>1, <3>2, <3>4, <4>2
      <4>3. CASE j = Len(calls) + 1
        BY <3>1, <3>5, <4>3
      <4>4. Len(calls) \in Nat
        BY <3>1
      <4> QED
        BY <4>1, <4>2, <4>3, <4>4
  <2>2. CASE Step
    <3>1. PICK id \in LabelAt(i) :
            IF id # lastid
            THEN addCitationInfo(Append(strelem, i), lastid)
            ELSE UNCHANGED calls
      BY <2>2 DEF Step
    <3>2. pc = "loop" /\ y2' = y2 /\ i \in 1..Len(text)
      BY <2>2 DEF Step, input, TypeInv, LocalsOK
    <3>3. CASE UNCHANGED calls
      BY <3>2, <3>3 DEF PiecesAreRuns
    <3>4. CASE addCitationInfo(Append(strelem, i), lastid)
      <4>1. Append(strelem, i) \in Seq(Nat) /\ lastid \in Label \cup {0}
        BY <3>2 DEF TypeInv, LocalsOK
      <4>2. \A k \in 1..Len(Append(strelem, i)) : y2[Append(strelem, i)[k]] = lastid
        BY <3>2 DEF Labelled, TypeInv, LocalsOK
      <4>3. calls' = Append(calls, [text |-> Append(strelem, i), id |-> lastid])
        BY <3>4 DEF addCitationInfo
      <4> QED
        BY <2>1, <3>2, <4>1, <4>2, <4>3 DEF Labelled
    <3> QED
      BY <3>1, <3>3, <3>4
  <2>3. CASE StepCrashes
    BY <2>3 DEF StepCrashes, input, PiecesAreRuns
  <2>4. CASE StoreRest
    <3>1. pc = "loop" /\ y2' = y2 /\ nowid = lastid
      BY <2>4 DEF StoreRest, input, Labelled, TypeInv, LocalsOK
    <3>2. strelem \in Seq(Nat) /\ nowid \in Label \cup {0}
      BY DEF TypeInv, LocalsOK
    <3>3. calls' = Append(calls, [text |-> strelem, id |-> nowid])
      BY <2>4 DEF StoreRest, addCitationInfo
    <3> QED
      BY <2>1, <3>1, <3>2, <3>3 DEF Labelled
  <2>5. CASE UNCHANGED vars
    BY <2>5 DEF vars, input, PiecesAreRuns
  <2> QED
    BY <2>2, <2>3, <2>4, <2>5 DEF Next
<1> QED
  BY AlwaysTiled, <1>1, <1>2, PTL DEF Spec

\* strelem never holds more than one run of words with one label.
THEOREM OneRunInBuffer == Spec => []BufferHoldsOneRun
<1>1. PieceInv => BufferHoldsOneRun
  <2> SUFFICES ASSUME PieceInv, pc = "loop", NEW k \in DOMAIN strelem
               PROVE  strelem[k] = (i - 1) - Len(strelem) + k /\ y2[strelem[k]] = lastid
    BY DEF BufferHoldsOneRun
  <2>1. DOMAIN strelem = 1..Len(strelem) /\ Len(strelem) \in Nat /\ i \in Int
    BY DEF PieceInv, TypeInv, LocalsOK
  <2>2. Done \in Nat /\ Done + Len(strelem) = i - 1 /\ strelem[k] = Done + k
    BY <2>1 DEF PieceInv, Tiles
  <2>3. y2[strelem[k]] = lastid
    BY <2>1 DEF PieceInv, Labelled
  <2> QED
    BY <2>1, <2>2, <2>3
<1> QED
  BY AlwaysTiled, <1>1, PTL

\* The three together: what the labels cut the text into.
THEOREM RunsAreCut == Spec => []PiecesAreTheRuns
<1> QED
  BY WordsInPieces, PiecesOneLabel, OneRunInBuffer, PTL DEF PiecesAreTheRuns
--------------------------------------------------------------------------------
(* What is lost.                                                              *)

\* The fields of the labels: no label that overwrites its field is an author's.
LEMMA FieldsOfLabels ==
  /\ \A id \in DOMAIN FieldOf : /\ FieldOf[id] \in Field \ {"author"}
                                /\ Target(id) = FieldOf[id]
  /\ \A id : id \in {3, 6} => Target(id) = "author"
  /\ \A id : id \notin {3, 6} \cup DOMAIN FieldOf => Target(id) = ""
  /\ \A id \in {0, 3, 6} : id \notin DOMAIN FieldOf
<1>1. DOMAIN FieldOf = {4, 5, 7, 8, 9, 11, 12, 13, 14, 15, 16, 17}
  BY DEF FieldOf
<1>2. ASSUME NEW id \in DOMAIN FieldOf
      PROVE  FieldOf[id] \in Field \ {"author"} /\ id \notin {0, 3, 6}
  <2>1. id \in {4, 5, 7, 8, 9, 11} \/ id \in {12, 13, 14, 15, 16, 17}
    BY <1>1
  <2>2. CASE id \in {4, 5, 7, 8, 9, 11}
    BY <2>2 DEF FieldOf, Field
  <2>3. CASE id \in {12, 13, 14, 15, 16, 17}
    BY <2>3 DEF FieldOf, Field
  <2> QED
    BY <2>1, <2>2, <2>3
<1> QED
  BY <1>2 DEF Target

\* A citation of a list holds a text in a field.
InNode(list, n, f, t) == \E k \in 1..Len(list[n][f]) : list[n][f][k] = t

\* Writing over the authors loses nothing, and the last citation has the text then.
LEMMA AuthorsKept ==
  ASSUME NEW list \in Seq(Node), Len(list) >= 1, NEW t \in Seq(Nat), NEW f \in Field, NEW x,
         NEW n \in 1..Len(list),
         InNode(list, n, f, x) \/ (n = Len(list) /\ f = "author" /\ t # <<>> /\ x = t)
  PROVE  InNode(OverAuthor(list, Len(list), t), n, f, x)
<1> DEFINE after == OverAuthor(list, Len(list), t)
           node == list[Len(list)]
           names == IF t = <<>> THEN node.author ELSE Append(node.author, t)
           written == [node EXCEPT !.author = names]
<1>0. after = [list EXCEPT ![Len(list)] = written]
  BY DEF OverAuthor
<1>1. node \in Node /\ Len(list) \in 1..Len(list)
  OBVIOUS
<1> HIDE DEF written, after
<1>2. /\ n # Len(list) => after[n] = list[n]
      /\ after[Len(list)] = written
  BY <1>0
<1>3. /\ after[Len(list)].author = names
      /\ \A g \in Field \ {"author"} : after[Len(list)][g] = node[g]
  BY <1>1, <1>2 DEF Node, Field, written
<1>4. node.author \in Seq(Seq(Nat))
  BY <1>1 DEF Node, Field
<1>5. \A k \in 1..Len(node.author) : k \in 1..Len(names) /\ names[k] = node.author[k]
  BY <1>4
<1>6. t # <<>> => Len(names) \in 1..Len(names) /\ names[Len(names)] = t
  BY <1>4
<1> HIDE DEF names, node
<1>7. CASE n = Len(list) /\ f = "author" /\ t # <<>> /\ x = t
  BY <1>3, <1>6, <1>7 DEF InNode, after
<1>8. CASE InNode(list, n, f, x)
  <2>1. PICK k \in 1..Len(list[n][f]) : list[n][f][k] = x
    BY <1>8 DEF InNode
  <2>2. k \in 1..Len(after[n][f]) /\ after[n][f][k] = x
    <3>1. CASE n # Len(list)
      BY <1>2, <2>1, <3>1
    <3>2. CASE n = Len(list) /\ f = "author"
      <4>1. list[n][f] = node.author
        BY <3>2 DEF node
      <4> QED
        BY <1>3, <1>5, <2>1, <3>2, <4>1
    <3>3. CASE n = Len(list) /\ f # "author"
      <4>1. list[n][f] = node[f]
        BY <3>3 DEF node
      <4> QED
        BY <1>3, <2>1, <3>3, <4>1
    <3> QED
      BY <3>1, <3>2, <3>3
  <2> QED
    BY <2>2 DEF InNode, after
<1> QED
  BY <1>7, <1>8

\* Writing a field of the last citation loses what that field had, and nothing else.
LEMMA OthersKept ==
  ASSUME NEW list \in Seq(Node), Len(list) >= 1, NEW t \in Seq(Nat), NEW id \in DOMAIN FieldOf,
         NEW f \in Field, NEW x, NEW n \in 1..Len(list),
         \/ InNode(list, n, f, x) /\ ~(n = Len(list) /\ f = FieldOf[id])
         \/ n = Len(list) /\ f = FieldOf[id] /\ x = t
  PROVE  InNode(Overwritten(list, Len(list), id, t), n, f, x)
<1> DEFINE after == Overwritten(list, Len(list), id, t)
           node == list[Len(list)]
           g == FieldOf[id]
           written == [node EXCEPT ![g] = <<t>>]
<1>0. after = [list EXCEPT ![Len(list)] = written]
  BY DEF Overwritten
<1>a. node \in Node /\ Len(list) \in 1..Len(list)
  OBVIOUS
<1>1. node \in Node /\ Len(list) \in 1..Len(list) /\ g \in Field
  BY <1>a, FieldsOfLabels
<1> HIDE DEF g, written, after
<1>2. /\ n # Len(list) => after[n] = list[n]
      /\ after[Len(list)] = written
  BY <1>0
<1>3. /\ after[Len(list)][g] = <<t>>
      /\ \A h \in Field : h # g => after[Len(list)][h] = node[h]
  BY <1>1, <1>2 DEF Node, written
<1> HIDE DEF node
<1>4. CASE n = Len(list) /\ f = g /\ x = t
  <2>1. \A s : s = <<t>> => Len(s) = 1 /\ s[1] = t
    OBVIOUS
  <2>2. Len(after[Len(list)][g]) = 1 /\ after[Len(list)][g][1] = t
    BY <1>3, <2>1
  <2>3. 1 \in 1..Len(after[Len(list)][g])
    BY <2>2
  <2>4. InNode(after, Len(list), g, t)
    BY <2>2, <2>3 DEF InNode
  <2> QED
    BY <1>4, <2>4 DEF after
<1>5. CASE InNode(list, n, f, x) /\ ~(n = Len(list) /\ f = g)
  <2>1. after[n][f] = list[n][f]
    BY <1>2, <1>3, <1>5 DEF node
  <2> QED
    BY <1>5, <2>1 DEF InNode, after
<1> QED
  BY <1>4, <1>5 DEF g

\* What addCitationInfo keeps of the texts in each citation, and that it adds its own to
\* the one nowNode points to then.
LEMMA InfoKept ==
  ASSUME ListOK, NEW t \in Seq(Nat), NEW id, addCitationInfo(t, id), NEW f \in Field, NEW x,
         NEW n,
         \/ /\ n \in 1..Len(nodes) /\ InNode(nodes, n, f, x)
            /\ ~(n = nowNode' /\ f = Target(id))
         \/ t # <<>> /\ x = t /\ f = Target(id) /\ n = nowNode'
  PROVE  InNode(nodes', n, f, x)
<1> DEFINE a == addCitationNode
<1>1. /\ a[1] \in Seq(Node) /\ a[2] = Len(a[1]) /\ Len(a[1]) >= 1
      /\ a[1] = nodes \/ a[1] = Append(nodes, EmptyNode)
  BY NodeAdded, EmptyNodeType DEF ListOK
<1> HIDE DEF a
<1>2. nodes \in Seq(Node) /\ Len(nodes) >= 1 /\ nowNode = Len(nodes)
  BY DEF ListOK
<1>3. n \in 1..Len(nodes) => n \in 1..Len(a[1]) /\ a[1][n] = nodes[n]
  <2>1. CASE a[1] = nodes
    BY <2>1
  <2>2. CASE a[1] = Append(nodes, EmptyNode)
    <3>1. Len(a[1]) = Len(nodes) + 1 /\ \A m \in 1..Len(nodes) : a[1][m] = nodes[m]
      BY <1>2, <2>2, EmptyNodeType
    <3> QED
      BY <1>2, <3>1
  <2> QED
    BY <1>1, <2>1, <2>2
<1>4. f # ""
  BY DEF Field
<1>5. CASE id \notin {3, 6} \cup DOMAIN FieldOf
  <2>1. n \in 1..Len(nodes) /\ InNode(nodes, n, f, x)
    BY <1>4, <1>5, FieldsOfLabels
  <2>2. nodes' = nodes \/ nodes' = a[1]
    BY <1>5 DEF addCitationInfo, a
  <2> QED
    BY <1>3, <2>1, <2>2 DEF InNode
<1>6. CASE id = 3
  <2>0. id \notin DOMAIN FieldOf
    BY <1>6, FieldsOfLabels
  <2>1. nodes' = OverAuthor(a[1], a[2], t) /\ nowNode' = a[2]
    BY <1>6, <2>0 DEF addCitationInfo, a
  <2>2. n \in 1..Len(a[1])
    BY <1>1, <1>3, <2>1
  <2>3. InNode(a[1], n, f, x) \/ (n = Len(a[1]) /\ f = "author" /\ t # <<>> /\ x = t)
    BY <1>1, <1>3, <1>6, <2>1, FieldsOfLabels DEF InNode
  <2> QED
    BY <1>1, <2>1, <2>2, <2>3, AuthorsKept
<1>7. CASE id = 6
  <2>0. id \notin DOMAIN FieldOf
    BY <1>7, FieldsOfLabels
  <2>1. nodes' = OverAuthor(nodes, nowNode, t) /\ nowNode' = nowNode
    BY <1>7, <2>0 DEF addCitationInfo
  <2>2. n \in 1..Len(nodes)
    BY <1>2, <2>1
  <2>3. InNode(nodes, n, f, x) \/ (n = Len(nodes) /\ f = "author" /\ t # <<>> /\ x = t)
    BY <1>2, <1>7, <2>1, FieldsOfLabels
  <2> QED
    BY <1>2, <2>1, <2>2, <2>3, AuthorsKept
<1>8. CASE id \in DOMAIN FieldOf
  <2>1. nodes' = Overwritten(nodes, nowNode, id, t) /\ nowNode' = nowNode
    BY <1>8, FieldsOfLabels DEF addCitationInfo
  <2>2. n \in 1..Len(nodes)
    BY <1>2, <2>1
  <2>3. \/ InNode(nodes, n, f, x) /\ ~(n = Len(nodes) /\ f = FieldOf[id])
        \/ n = Len(nodes) /\ f = FieldOf[id] /\ x = t
    BY <1>2, <1>8, <2>1, FieldsOfLabels
  <2> QED
    BY <1>2, <1>8, <2>1, <2>2, <2>3, OthersKept
<1> QED
  BY <1>5, <1>6, <1>7, <1>8

\* The property, with the domains as intervals, and the citations the pieces went to.
Kept ==
  /\ homes \in Seq(Nat) /\ Len(homes) = Len(calls)
  /\ \A j \in 1..Len(calls) :
       /\ homes[j] \in 1..Len(nodes)
       /\ Target(calls[j].id) # "" /\ calls[j].text # <<>> =>
            \/ InNode(nodes, homes[j], Target(calls[j].id), calls[j].text)
            \/ \E l \in (j + 1)..Len(calls) :
                 homes[l] = homes[j] /\ Target(calls[l].id) = Target(calls[j].id)

\* A piece more leaves every piece before it kept in its citation or overwritten there.
LEMMA PieceKept ==
  ASSUME TypeInv, Tiles, pc = "loop", Kept, NEW t \in Seq(Nat), NEW id \in Label \cup {0},
         addCitationInfo(t, id)
  PROVE  Kept'
<1>1. calls' = Append(calls, [text |-> t, id |-> id]) /\ homes' = Append(homes, nowNode')
  BY DEF addCitationInfo
<1>2. /\ Len(calls') = Len(calls) + 1 /\ Len(calls) \in Nat
      /\ \A j \in 1..Len(calls) : calls'[j] = calls[j]
      /\ calls'[Len(calls) + 1].text = t /\ calls'[Len(calls) + 1].id = id
  BY <1>1, CallAdded DEF Tiles
<1>3. \A l : Target(l) # "" => Target(l) \in Field
  BY FieldsOfLabels DEF Field
<1>a. Len(calls) \in Nat
  BY <1>2
<1>b. \A j \in 1..(Len(calls) + 1) : j = Len(calls) + 1 \/ j \in 1..Len(calls)
  BY <1>a
<1>c. \A j \in 1..Len(calls) :
        /\ Len(calls) + 1 \in (j + 1)..(Len(calls) + 1)
        /\ \A l \in (j + 1)..Len(calls) : l \in 1..Len(calls) /\ l \in (j + 1)..(Len(calls) + 1)
  BY <1>a
<1>d. /\ nowNode' \in 1..Len(nodes') /\ nowNode' \in Nat
      /\ Len(nodes) \in Nat /\ Len(nodes') \in Nat /\ Len(nodes') >= Len(nodes)
  BY InfoAdded DEF TypeInv, ListOK, Extended
<1>e. /\ homes' \in Seq(Nat) /\ Len(homes') = Len(calls) + 1
      /\ \A j \in 1..Len(calls) : homes'[j] = homes[j]
      /\ homes'[Len(calls) + 1] = nowNode'
  <2>1. homes \in Seq(Nat) /\ Len(homes) = Len(calls)
    BY Zenon DEF Kept
  <2>2. \A x \in Nat : /\ Append(homes, x) \in Seq(Nat) /\ Len(Append(homes, x)) = Len(calls) + 1
                      /\ \A j \in 1..Len(calls) : Append(homes, x)[j] = homes[j]
                      /\ Append(homes, x)[Len(calls) + 1] = x
    BY <2>1
  <2> QED
    BY <1>1, <1>d, <2>2
<1>f. \A j \in 1..Len(calls) : homes[j] \in 1..Len(nodes) /\ homes[j] \in 1..Len(nodes')
  <2>1. \A j \in 1..Len(calls) : homes[j] \in 1..Len(nodes)
    BY Zenon DEF Kept
  <2> QED
    BY <1>d, <2>1
<1>g. \A j \in 1..(Len(calls) + 1) : homes'[j] \in 1..Len(nodes')
  BY <1>b, <1>d, <1>e, <1>f
<1> SUFFICES ASSUME NEW j \in 1..(Len(calls) + 1),
                    Target(calls'[j].id) # "", calls'[j].text # <<>>,
                    ~\E l \in (j + 1)..(Len(calls) + 1) :
                       homes'[l] = homes'[j] /\ Target(calls'[l].id) = Target(calls'[j].id)
             PROVE  InNode(nodes', homes'[j], Target(calls'[j].id), calls'[j].text)
  BY <1>2, <1>e, <1>g DEF Kept, InNode
<1>4. Target(calls'[j].id) \in Field
  BY <1>3
<1>5. CASE j = Len(calls) + 1
  BY <1>2, <1>4, <1>5, <1>e, InfoKept DEF TypeInv
<1>6. CASE j \in 1..Len(calls)
  <2>1. /\ calls'[j] = calls[j] /\ homes'[j] = homes[j]
        /\ ~(homes[j] = nowNode' /\ Target(calls[j].id) = Target(id))
    <3>1. Len(calls) + 1 \in (j + 1)..(Len(calls) + 1)
      BY <1>c, <1>6
    <3> QED
      BY <1>2, <1>6, <1>e, <3>1
  <2>2. \A l \in (j + 1)..Len(calls) :
          l \in (j + 1)..(Len(calls) + 1) /\ calls'[l] = calls[l] /\ homes'[l] = homes[l]
    <3>1. \A l \in (j + 1)..Len(calls) : l \in 1..Len(calls) /\ l \in (j + 1)..(Len(calls) + 1)
      BY <1>c, <1>6
    <3> QED
      BY <1>2, <1>e, <3>1
  <2>3. InNode(nodes, homes[j], Target(calls[j].id), calls[j].text)
    BY <1>6, <2>1, <2>2 DEF Kept
  <2>4. InNode(nodes', homes[j], Target(calls[j].id), calls[j].text)
    BY <1>4, <1>6, <1>f, <2>1, <2>3, InfoKept DEF TypeInv
  <2> QED
    BY <2>1, <2>4
<1> QED
  BY <1>b, <1>5, <1>6

\* A piece that is to be stored is for good in its field of the citation it went to,
\* unless a later piece goes to the same field of the same citation, whatever the labels
\* and whatever is read past the last one.
THEOREM NothingElseLost == Spec => []LostOnlyWhenOverwritten
<1>1. Init => Kept
  <2>1. Init => calls = <<>> /\ homes = <<>>
    BY DEF Init
  <2>2. calls = <<>> => 1..Len(calls) = {}
    OBVIOUS
  <2>3. homes = <<>> => homes \in Seq(Nat) /\ Len(homes) = 0
    OBVIOUS
  <2>4. calls = <<>> => Len(calls) = 0
    OBVIOUS
  <2> QED
    BY <2>1, <2>2, <2>3, <2>4 DEF Kept
<1>2. PieceInv /\ Kept /\ [Next]_vars => Kept'
  <2> SUFFICES ASSUME PieceInv, Kept, [Next]_vars PROVE Kept'
    OBVIOUS
  <2>1. CASE UNCHANGED <<nodes, calls, homes>>
    BY <2>1 DEF Kept, InNode
  <2>2. CASE Step
    <3>1. PICK id \in LabelAt(i) :
            IF id # lastid
            THEN addCitationInfo(Append(strelem, i), lastid)
            ELSE UNCHANGED <<nodes, nowNode, calls, homes>>
      BY <2>2 DEF Step
    <3>2. pc = "loop" /\ Append(strelem, i) \in Seq(Nat) /\ lastid \in Label \cup {0}
      BY <2>2 DEF Step, PieceInv, TypeInv, LocalsOK
    <3> QED
      BY <2>1, <3>1, <3>2, PieceKept DEF PieceInv
  <2>3. CASE StepCrashes
    BY <2>1, <2>3 DEF StepCrashes
  <2>4. CASE StoreRest
    <3>1. pc = "loop" /\ strelem \in Seq(Nat) /\ nowid \in Label \cup {0}
          /\ addCitationInfo(strelem, nowid)
      BY <2>4 DEF StoreRest, PieceInv, TypeInv, LocalsOK
    <3> QED
      BY <3>1, PieceKept DEF PieceInv
  <2>5. CASE UNCHANGED vars
    BY <2>1, <2>5 DEF vars
  <2> QED
    BY <2>2, <2>3, <2>4, <2>5 DEF Next
<1>3. PieceInv /\ Kept => LostOnlyWhenOverwritten
  <2> SUFFICES ASSUME PieceInv, Kept PROVE LostOnlyWhenOverwritten
    OBVIOUS
  <2>1. calls \in Seq([text : Seq(Nat), id : Label \cup {0}]) /\ nodes \in Seq(Node)
    BY DEF PieceInv, Tiles, TypeInv, ListOK
  <2>2. DOMAIN calls = 1..Len(calls)
    BY <2>1
  <2>3. \A n \in 1..Len(nodes) : \A f \in Field : DOMAIN nodes[n][f] = 1..Len(nodes[n][f])
    <3>1. \A n \in 1..Len(nodes) : \A f \in Field : nodes[n][f] \in Seq(Seq(Nat))
      BY <2>1 DEF Node
    <3> QED
      BY <3>1
  <2>4. \A id : Target(id) # "" => Target(id) \in Field
    BY FieldsOfLabels DEF Field
  <2>5. \A n \in 1..Len(nodes) : \A f \in Field : \A t :
          InNode(nodes, n, f, t) => Holds(nodes[n], f, t)
    BY <2>3 DEF InNode, Holds
  <2>6. \A j \in 1..Len(calls) : homes[j] \in 1..Len(nodes)
    BY DEF Kept
  <2> QED
    BY <2>2, <2>4, <2>5, <2>6 DEF Kept, LostOnlyWhenOverwritten
<1> QED
  BY AlwaysTiled, <1>1, <1>2, <1>3, PTL DEF Spec
================================================================================
