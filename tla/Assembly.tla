-------------------------------- MODULE Assembly --------------------------------
(****************************************************************************)
(* CitationInfoPredict after the tagger's answer (citpred.cc, 1447-1481),   *)
(* with addCitationInfo and addCitationNode: the labels of the words cut    *)
(* the text into pieces, and each piece goes into a field of a citation.    *)
(*                                                                          *)
(* The loop reads one label more than there are: y2(size) is read past the  *)
(* end of the tagger's result and is any label, or ends the process.        *)
(*                                                                          *)
(* Of a word's text the fields tell apart three kinds:                      *)
(*   "word"    letters: "Knuth "                                            *)
(*   "number"  digits in brackets: "[12] "                                  *)
(*   "sign"    a delimiter and a connector: ",~"                            *)
(****************************************************************************)
EXTENDS Integers, Sequences, SequencesExt

CONSTANTS
  Label,          \* the token ids of token.ini that the model can give
  Text,           \* the kinds of words
  MaxWords        \* bound on the words of a text

ASSUME AssemblyAssumption ==
  /\ Label \subseteq 0..17 /\ Label # {}
  /\ Text \subseteq {"word", "number", "sign"}
  /\ MaxWords \in Nat \ {0}

VARIABLES
  text,           \* the words
  y2,             \* their labels
  \* the locals
  pc,             \* "loop", "last", "end"
  i,              \* the loop's counter
  nowid, lastid,
  strelem,        \* the piece under way: the numbers of the words copied into it
  nodes,          \* the citations of the list, nodeHead first
  nowNode,        \* which of them nowNode points to
  \* a record for the properties
  calls,          \* the pieces given to addCitationInfo, and the labels with them
  homes           \* the citation nowNode pointed to after each of these calls

input == <<text, y2>>
vars == <<input, pc, i, nowid, lastid, strelem, nodes, nowNode, calls, homes>>

--------------------------------------------------------------------------------
(* The citations.                                                             *)

\* The fields written by some label; a field holds the texts written into it, one
\* for a field that is overwritten, and for author the ones written over each
\* other, since spilitName does not clear it.
Field == {"author", "title", "journal", "booktitle", "institution", "volume",
          "location", "pages", "date", "url", "isbn", "tech"}

EmptyNode == [f \in Field |-> <<>>]

\* A text after whose cleaning the field begins with a zero byte: spilitName starts
\* the first name anew at a ',', tagFinishing cuts off the delimiters at the end.
BlankName(t) == t = <<>> \/ text[t[1]] = "sign"
BlankText(t) == \A k \in DOMAIN t : text[t[k]] = "sign"

BlankField(node, f) ==
  \/ node[f] = <<>>
  \/ CASE f = "author" -> BlankName(node[f][Len(node[f])])
       [] f \in {"pages", "volume"} -> FALSE
       [] OTHER -> BlankText(node[f][Len(node[f])])

cnIsEmpty(node) == \A f \in Field : BlankField(node, f)

\* Mutant: the current citation is initialized again instead of a new one.
addCitationNode_Reuses == <<[nodes EXCEPT ![nowNode] = EmptyNode], nowNode>>

\* Mutant: a citation is added even to an empty one.
addCitationNode_Always == <<Append(nodes, EmptyNode), Len(nodes) + 1>>

addCitationNode ==
  IF cnIsEmpty(nodes[nowNode]) THEN <<nodes, nowNode>>
                               ELSE <<Append(nodes, EmptyNode), Len(nodes) + 1>>

\* The field a label is stored in, for the labels that are stored.
FieldOf ==
  [id \in {4, 5, 7, 8, 9, 11, 12, 13, 14, 15, 16, 17} |->
     CASE id = 4 -> "booktitle"  [] id = 5 -> "date"    [] id = 7 -> "institution"
       [] id = 8 -> "journal"    [] id = 9 -> "location" [] id = 11 -> "pages"
       [] id = 12 -> "date"      [] id = 13 -> "tech"   [] id = 14 -> "title"
       [] id = 15 -> "volume"    [] id = 16 -> "url"    [] id = 17 -> "isbn"]

\* The list with a text written over the authors of a node, or into a field.
OverAuthor(list, n, t) == [list EXCEPT ![n].author = IF t = <<>> THEN @ ELSE Append(@, t)]

\* Mutant: the head of the list is handed on instead of nowNode.
Overwritten_Head(list, n, id, t) == [list EXCEPT ![1][FieldOf[id]] = <<t>>]

Overwritten(list, n, id, t) == [list EXCEPT ![n][FieldOf[id]] = <<t>>]

\* addCitationInfo(&nowNode, str, len, id).  The two flags that recognize a
\* reference number are not initialized: a text without one may count as one.
addCitationInfo(t, id) ==
  /\ calls' = Append(calls, [text |-> t, id |-> id])
  /\ \/ /\ id = 0
        /\ nodes' = addCitationNode[1] /\ nowNode' = addCitationNode[2]
     \/ /\ id = 0 /\ \A k \in DOMAIN t : text[t[k]] # "number"
        /\ UNCHANGED <<nodes, nowNode>>
     \/ /\ id = 3
        /\ nodes' = OverAuthor(addCitationNode[1], addCitationNode[2], t)
        /\ nowNode' = addCitationNode[2]
     \/ /\ id = 6
        /\ nodes' = OverAuthor(nodes, nowNode, t) /\ UNCHANGED nowNode
     \/ /\ id \in DOMAIN FieldOf
        /\ nodes' = Overwritten(nodes, nowNode, id, t) /\ UNCHANGED nowNode
     \/ /\ id \notin {0, 3, 6} \cup DOMAIN FieldOf
        /\ UNCHANGED <<nodes, nowNode>>
  /\ homes' = Append(homes, nowNode')

--------------------------------------------------------------------------------

Init ==
  /\ \E n \in 1..MaxWords : text \in [1..n -> Text] /\ y2 \in [1..n -> Label]
  /\ pc = "loop" /\ i = 1
  /\ nowid = 0 /\ lastid = y2[1]
  /\ strelem = <<>>
  /\ nodes = <<EmptyNode>> /\ nowNode = 1
  /\ calls = <<>> /\ homes = <<>>

\* The label read at i, counted from 0: past the last one it is anything.
LabelAt(k) == IF k < Len(text) THEN {y2[k + 1]} ELSE Label \cup {0}

\* Mutant: the piece stored is not cleared.
Step_KeepsPiece ==
  /\ pc = "loop" /\ i <= Len(text)
  /\ \E id \in LabelAt(i) :
       /\ nowid' = id /\ lastid' = id
       /\ strelem' = Append(strelem, i)
       /\ IF id # lastid
          THEN addCitationInfo(Append(strelem, i), lastid)
          ELSE UNCHANGED <<nodes, nowNode, calls, homes>>
  /\ i' = i + 1
  /\ UNCHANGED <<input, pc>>

\* One turn of the loop: the word before the label just read joins the piece,
\* which is stored when that label is another one.
Step ==
  /\ pc = "loop" /\ i <= Len(text)
  /\ \E id \in LabelAt(i) :
       /\ nowid' = id /\ lastid' = id
       /\ IF id # lastid
          THEN addCitationInfo(Append(strelem, i), lastid) /\ strelem' = <<>>
          ELSE strelem' = Append(strelem, i) /\ UNCHANGED <<nodes, nowNode, calls, homes>>
  /\ i' = i + 1
  /\ UNCHANGED <<input, pc>>

\* The process does not survive the read past the end.
StepCrashes ==
  /\ pc = "loop" /\ i = Len(text)
  /\ pc' = "crash"
  /\ UNCHANGED <<input, i, nowid, lastid, strelem, nodes, nowNode, calls, homes>>

\* After the loop what is left in strelem is stored, nothing included.
StoreRest ==
  /\ pc = "loop" /\ i > Len(text)
  /\ addCitationInfo(strelem, nowid)
  /\ pc' = "end"
  /\ UNCHANGED <<input, i, nowid, lastid, strelem>>

Next == Step \/ StepCrashes \/ StoreRest

Spec == Init /\ [][Next]_vars

--------------------------------------------------------------------------------
(* Properties.                                                                *)

\* Every variable holds a value of the code's type; nowNode points into the list
\* and is its tail.
TypeOK ==
  /\ pc \in {"loop", "end", "crash"}
  /\ i \in 1..(Len(text) + 1)
  /\ {nowid, lastid} \subseteq Label \cup {0}
  /\ \A k \in DOMAIN strelem : strelem[k] \in 1..Len(text)
  /\ \A n \in DOMAIN nodes : DOMAIN nodes[n] = Field
  /\ nowNode = Len(nodes)

LastOf(t) == t[Len(t)]

\* The pieces given to addCitationInfo are the words in order, each in one piece,
\* none left out at the end and none twice, whatever label is read past the end:
\* it decides only whether an empty piece follows the last one.
PiecesTile ==
  /\ \A j \in DOMAIN calls :
       LET first == IF j = 1 THEN 1 ELSE LastOf(calls[j - 1].text) + 1
       IN  IF calls[j].text = <<>>
           THEN pc = "end" /\ j = Len(calls) /\ first = Len(text) + 1
           ELSE \A k \in DOMAIN calls[j].text : calls[j].text[k] = first + k - 1
  /\ pc = "end" => \E j \in DOMAIN calls :
                     calls[j].text # <<>> /\ LastOf(calls[j].text) = Len(text)

\* A piece is a longest run of words with one label, and is stored under it.
PiecesAreRuns ==
  \A j \in DOMAIN calls :
    /\ \A k \in DOMAIN calls[j].text : y2[calls[j].text[k]] = calls[j].id
    /\ j < Len(calls) => calls[j].id # calls[j + 1].id

\* The buffer of a piece is never cleared in the middle of a run nor kept beyond it:
\* in the loop it has neighbouring words with one label, those just before word i.
\* That is all that bounds what is copied into its 1024 bytes.
BufferHoldsOneRun ==
  pc = "loop" => \A k \in DOMAIN strelem :
    strelem[k] = (i - 1) - Len(strelem) + k /\ y2[strelem[k]] = lastid

\* The labels cut the text into its runs, through the buffer and past the last label.
PiecesAreTheRuns == PiecesTile /\ PiecesAreRuns /\ BufferHoldsOneRun

\* Citations before the current one are finished: no later piece, and not the one
\* made of what is read past the end, changes them or the order of the list.
EarlierFrozen ==
  [][/\ Len(nodes') >= Len(nodes)
     /\ \A n \in 1..(Len(nodes) - 1) : nodes'[n] = nodes[n]]_vars

\* Only the last citation of the list can be empty: a citation that would be
\* answered as an empty object was not followed by another one.
OnlyLastEmpty == \A n \in 1..(Len(nodes) - 1) : ~cnIsEmpty(nodes[n])

\* The field a label goes to; an editor goes to author, as does an author.
Target(id) == IF id \in {3, 6} THEN "author" ELSE IF id \in DOMAIN FieldOf THEN FieldOf[id] ELSE ""

Holds(node, f, t) == \E k \in DOMAIN node[f] : node[f][k] = t

\* A piece with a stored label is in its label's field of the citation that was the
\* current one when it was stored, unless a later piece went to the same field of that
\* same citation and overwrote it.  Nothing else loses a piece: not a new author, not a
\* piece of another citation, not what follows the last label.
LostOnlyWhenOverwritten ==
  \A j \in DOMAIN calls :
    Target(calls[j].id) # "" /\ calls[j].text # <<>> =>
      \/ Holds(nodes[homes[j]], Target(calls[j].id), calls[j].text)
      \/ \E l \in (j + 1)..Len(calls) :
           homes[l] = homes[j] /\ Target(calls[l].id) = Target(calls[j].id)

\* The fields are named in comments at the labels' cases: citpred.cc:213 has
\* "case 6: // editor" and 237 "case 12: // publisher".  What is labelled an editor
\* is not stored as an author, nor a publisher as the date.
FieldsApart ==
  \A j \in DOMAIN calls : \A n \in DOMAIN nodes :
    /\ calls[j].id = 6 => calls[j].text \notin ToSet(nodes[n].author)
    /\ calls[j].id = 12 => calls[j].text \notin ToSet(nodes[n].date)
================================================================================
