--------------------------------- MODULE Predict ---------------------------------
(****************************************************************************)
(* CitationInfoPredict up to the tagger's answer (citpred.cc, 554-1447):    *)
(* the words of the reference area go through two rings, nextCNSQ with the  *)
(* words to come and preCNSQ with those gone by, and for each word the      *)
(* tagger gets a row of features computed from the word and both rings.     *)
(*                                                                          *)
(* A word is what spilitContent returns: some bytes of the text and a kind, *)
(* told apart only where the code dereferences a neighbour without a test:  *)
(*   "ph"    compared with the next word's first letter (1256)              *)
(*   "in"    looks whether the next word is a name (1325)                   *)
(*   "paren" a word after '(' looks at the word before it (1048)            *)
(* What the two scans look for is in Scans.  A feature row is abstracted to *)
(* the words it was computed from and what the scans made of them.          *)
(****************************************************************************)
EXTENDS Scans, CNSQ, FiniteSets

CONSTANTS
  Texts,          \* the texts, sequences of words
  MaxWords,       \* bound on the words of a text
  rest            \* bytes after the last word, in which spilitContent finds none

\* A word of a text, which takes the bytes from the end of the one before up to its own
\* end.  press to quot are those of Scans.  isbn is set for the word ISBN, digits for a
\* word in which a digit occurs, or a letter that looks like one.
Word == [end : Nat \ {0}, kind : {"plain", "ph", "in", "paren"},
         press : BOOLEAN, stop : 0..2, open : BOOLEAN, close : BOOLEAN, quot : 0..2,
         isbn : BOOLEAN, digits : BOOLEAN]

ASSUME PredictAssumption ==
  /\ Texts \subseteq Seq(Word)
  /\ \A t \in Texts :
       /\ Len(t) <= MaxWords
       /\ \A i, j \in 1..Len(t) : i < j => t[i].end < t[j].end
  /\ MaxWords \in Nat /\ rest \in Nat
  /\ CNSQSIZE > 2
  /\ QUOTTIME \in Nat \ {0, 1}

VARIABLES
  \* the arguments and the files the function finds
  doc,            \* the words of the reference area, in order
  model,          \* model/cite.model can be loaded
  \* the locals
  pc,             \* where it is in the function
  currentOffset,  \* how far the text has been split
  preQ, nextQ,    \* preCNSQ and nextCNSQ
  pCNS,           \* the pointer ftDeQueue returned
  lastOffset,     \* the end of the last word taken
  spans,          \* offsetCpQueue: where the text of each row is
  rows,           \* the rows the tagger has
  quotTime,       \* words until a quotation is given up
  isbnEffect,     \* an ISBN has been met
  outcome         \* "running", then "parsed", "null" or "crash"

input == <<doc, model>>
rings == <<currentOffset, preQ, nextQ>>
flags == <<quotTime, isbnEffect>>
result == <<lastOffset, spans, rows, flags>>
vars == <<input, pc, rings, pCNS, result, outcome>>

--------------------------------------------------------------------------------
(* The text and the rings.                                                    *)

\* A snapshot of a word: its place in the text stands for its string and flags.
Snapshot == [id : 0..MaxWords, offset : Nat, kind : {"plain", "ph", "in", "paren"}]
Unwritten == [id |-> 0, offset |-> 0, kind |-> "plain"]

EmptyRing == clearQueue([front |-> 0, rear |-> 0, data |-> [s \in Slot |-> Unwritten]])

\* Where the i-th word of a text starts, the bytes it takes, and its snapshot.
StartOf(t, i) == IF i = 1 THEN 0 ELSE t[i - 1].end
LengthOf(t, i) == t[i].end - StartOf(t, i)

SnapshotOf(t, i) == [id |-> i, offset |-> LengthOf(t, i), kind |-> t[i].kind]

refAreaEnd == StartOf(doc, Len(doc) + 1) + rest

\* The words spilitContent finds when it starts at currentOffset: one or none.
WordAt(o) == {i \in 1..Len(doc) : StartOf(doc, i) = o}

predftReturns == ~isFullQueue(nextQ) /\ WordAt(currentOffset) # {}

predftEnQueue ==
  \E i \in WordAt(currentOffset) :
    /\ currentOffset' = currentOffset + LengthOf(doc, i)
    /\ nextQ' = enQueue(nextQ, SnapshotOf(doc, i))

--------------------------------------------------------------------------------

Init ==
  /\ doc \in Texts
  /\ model \in BOOLEAN
  /\ pc = "create"
  /\ currentOffset = 0 /\ preQ = EmptyRing /\ nextQ = EmptyRing
  /\ pCNS = NULL
  /\ lastOffset = 0 /\ spans = <<>> /\ rows = <<>>
  /\ quotTime = 0 /\ isbnEffect = FALSE
  /\ outcome = "running"

End(how) == pc' = "end" /\ outcome' = how

\* createTagger returns NULL without a model, and tagger->clear() comes first.
CreateTagger ==
  /\ pc = "create"
  /\ IF model THEN pc' = "fill" /\ UNCHANGED outcome ELSE End("crash")
  /\ UNCHANGED <<input, rings, pCNS, result>>

\* The first loop fills the ring.
Fill ==
  /\ pc = "fill"
  /\ IF predftReturns
     THEN predftEnQueue /\ UNCHANGED pc
     ELSE pc' = "take" /\ UNCHANGED <<currentOffset, nextQ>>
  /\ UNCHANGED <<input, preQ, pCNS, result, outcome>>

\* Mutant: a span ends where splitting has got to.
Take_AheadOffset ==
  /\ pc = "take"
  /\ nextQ' = deQueue(nextQ)
  /\ pCNS' = deQueued(nextQ)
  /\ IF pCNS' = NULL
     THEN pc' = "parse" /\ UNCHANGED <<lastOffset, spans>>
     ELSE /\ pc' = "features"
          /\ lastOffset' = currentOffset
          /\ spans' = Append(spans, [startOffset |-> lastOffset, endOffset |-> lastOffset'])
  /\ UNCHANGED <<input, currentOffset, preQ, rows, flags, outcome>>

\* ftDeQueue, and the span of the word's text.
Take ==
  /\ pc = "take"
  /\ nextQ' = deQueue(nextQ)
  /\ pCNS' = deQueued(nextQ)
  /\ IF pCNS' = NULL
     THEN pc' = "parse" /\ UNCHANGED <<lastOffset, spans>>
     ELSE /\ pc' = "features"
          /\ lastOffset' = LET len == nextQ'.data[pCNS'].offset
                           IN  IF len = 0 THEN refAreaEnd ELSE lastOffset + len
          /\ spans' = Append(spans, [startOffset |-> lastOffset, endOffset |-> lastOffset'])
  /\ UNCHANGED <<input, currentOffset, preQ, rows, flags, outcome>>

\* The word a pointer points to.
At(Q, p) == IF p = NULL THEN 0 ELSE Q.data[p].id

npCNS == nextNElem(nextQ, 1)
lpCNS == pastNElem(preQ, 1)

\* The words the two scans visit.
Ahead == [i \in 1..Larger(sizeQueue(nextQ) - 1, 0) |-> At(nextQ, nextNElem(nextQ, i))]
Behind ==
  [i \in 1..sizeQueue(preQ) |->
     IF i = 1 THEN At(nextQ, pCNS) ELSE At(preQ, pastNElem(preQ, i - 1))]

\* The unguarded uses of a neighbour.  The scan for '(' runs only in parentheses
\* and stops at the first word after one.
NextMissing == nextQ.data[pCNS].kind \in {"ph", "in"} /\ npCNS = NULL
BeforeParenMissing ==
  \E i \in 1..(sizeQueue(preQ) - 1) :
    /\ preQ.data[pastNElem(preQ, i)].kind = "paren"
    /\ pastNElem(preQ, i + 1) = NULL

TheWords(visited) == [i \in DOMAIN visited |-> doc[visited[i]]]

\* A word ISBN with nothing but digits between it and the current word.
IsbnBehind ==
  \E i \in DOMAIN Behind :
    doc[Behind[i]].isbn /\ \A j \in 1..i : doc[Behind[j]].digits

\* Nothing sets it back.
isbnAfter == isbnEffect \/ IsbnBehind

\* The features of one word, and its row for the tagger.
Features ==
  /\ pc = "features"
  /\ isbnEffect' = isbnAfter
  /\ quotTime' = quotTimeAfter(doc[At(nextQ, pCNS)], quotTime)
  /\ IF NextMissing \/ BeforeParenMissing
     THEN End("crash") /\ UNCHANGED rows
     ELSE /\ rows' = Append(rows, [word |-> At(nextQ, pCNS), last |-> At(preQ, lpCNS),
                                   next |-> At(nextQ, npCNS), ahead |-> Ahead, behind |-> Behind,
                                   press |-> pressFlag(TheWords(Ahead), TheWords(Behind)),
                                   pare |-> inBrackets(TheWords(Behind)),
                                   quot |-> inQuotes(doc[At(nextQ, pCNS)], quotTime),
                                   isbn |-> isbnEffect'])
          /\ pc' = "store"
          /\ UNCHANGED outcome
  /\ UNCHANGED <<input, rings, pCNS, lastOffset, spans>>

\* Mutant: the words gone by do not make room.
Store_Refuses ==
  /\ pc = "store"
  /\ preQ' = enQueue(preQ, nextQ.data[pCNS])
  /\ pc' = "refill"
  /\ UNCHANGED <<input, currentOffset, nextQ, pCNS, result, outcome>>

Store ==
  /\ pc = "store"
  /\ preQ' = enQueueWithDrop(preQ, nextQ.data[pCNS])
  /\ pc' = "refill"
  /\ UNCHANGED <<input, currentOffset, nextQ, pCNS, result, outcome>>

\* Mutant: the ring is refilled only when it has run empty.
Refill_WhenEmpty ==
  /\ pc = "refill"
  /\ IF predftReturns /\ isEmptyQueue(nextQ)
     THEN predftEnQueue
     ELSE UNCHANGED <<currentOffset, nextQ>>
  /\ pc' = "take"
  /\ UNCHANGED <<input, preQ, pCNS, result, outcome>>

Refill ==
  /\ pc = "refill"
  /\ IF predftReturns THEN predftEnQueue ELSE UNCHANGED <<currentOffset, nextQ>>
  /\ pc' = "take"
  /\ UNCHANGED <<input, preQ, pCNS, result, outcome>>

\* parse() may fail; the labels are read from y2(0) on, which no word leaves unset.
Parse ==
  /\ pc = "parse"
  /\ \/ End("null")
     \/ rows # <<>> /\ End("parsed")
     \/ rows = <<>> /\ End("crash")
  /\ UNCHANGED <<input, rings, pCNS, result>>

Next == CreateTagger \/ Fill \/ Take \/ Features \/ Store \/ Refill \/ Parse

Spec == Init /\ [][Next]_vars

--------------------------------------------------------------------------------
(* Properties.                                                                *)

\* Every variable holds a value of the code's type: the rings' indices stay in
\* their arrays, and pCNS points into nextCNSQ while a word is worked on.
TypeOK ==
  /\ pc \in {"create", "fill", "take", "features", "store", "refill", "parse", "end"}
  /\ currentOffset \in 0..refAreaEnd /\ lastOffset \in 0..currentOffset
  /\ \A Q \in {preQ, nextQ} :
       /\ Q.front \in Slot /\ Q.rear \in Slot
       /\ \A s \in Slot : Q.data[s] \in Snapshot
  /\ pCNS \in Slot \cup {NULL}
  /\ pc \in {"features", "store"} => pCNS # NULL
  /\ quotTime \in -QUOTTIME..QUOTTIME /\ isbnEffect \in BOOLEAN
  /\ outcome \in {"running", "parsed", "null", "crash"}

\* Row k is the row of word k, and the tagger labels no text with a word missing:
\* the full ring at the start, the refills and the end of the text lose no word
\* and repeat none.
EveryWordOnce ==
  /\ \A k \in DOMAIN rows : rows[k].word = k
  /\ pc = "parse" => Len(rows) = Len(doc)

\* The spans of offsetCpQueue are the words' own bytes, gapless and in the order
\* of the rows, however far the text has been split ahead: the citation's fields
\* are cut out of the text by them.
SpansTile ==
  /\ \A k \in DOMAIN spans :
       spans[k] = [startOffset |-> StartOf(doc, k), endOffset |-> StartOf(doc, k + 1)]
  /\ pc \in {"take", "store", "refill", "parse"} => Len(spans) = Len(rows)

\* The rows the tagger gets are the words of the text: in order, with their own bytes,
\* and with pointers and indices that never leave the rings (citpred.cc, 615-1447).
RowsAreTheWords == TypeOK /\ EveryWordOnce /\ SpansTile

MinOf(a, b) == IF a < b THEN a ELSE b

\* The neighbourhood a row is computed from depends on the word's place only: the
\* words before and after it, and as many words ahead and behind as the rings
\* hold, without the farthest one of each ring.
Neighbourhood ==
  \A k \in DOMAIN rows :
    /\ rows[k].last = k - 1
    /\ rows[k].next = IF k < Len(doc) THEN k + 1 ELSE 0
    /\ rows[k].ahead = [i \in 1..(MinOf(Len(doc) - k, CNSQSIZE - 2) - 1) |-> k + i]
    /\ rows[k].behind = [i \in 1..MinOf(k - 1, CNSQSIZE - 1) |-> k - i + 1]

\* The words in sight of the k-th one: of those gone by all but the farthest that the
\* ring holds, the word itself among them, and as many ahead.
Past(k) == IF k = 1 THEN {} ELSE {j \in 2..k : j > k - CNSQSIZE + 1}
Coming(k) == {j \in (k + 1)..(Len(doc) - 1) : j < k + CNSQSIZE - 2}

LargestOf(S) == CHOOSE j \in S : \A l \in S : l <= j
SmallestOf(S) == CHOOSE j \in S : \A l \in S : l >= j

\* The sentence from the j-th word to before the l-th one, and whether it has a comma.
OneSentence(j, l) == \A n \in j..(l - 1) : doc[n].stop # 2
Comma(j, l) == IF \E n \in j..(l - 1) : doc[n].stop = 1 THEN 1 ELSE 0

\* A keyword counts for a word as far as its sentence goes, the farthest one in sight
\* behind before the farthest one ahead (citpred.cc, 637-952).  The sign after the
\* word itself is not looked at: the last word of a sentence takes the keywords of
\* the next one for those of its own.  stopflag is 2 for the end of a sentence and 1 for
\* a comma, as queue.h:44 has it and 781-782 use it; the comment at 666-668 has them
\* the other way round, a comma as 2 and the end of a sentence as 1.
KeywordsOfTheSentence ==
  \A k \in DOMAIN rows :
    LET behind == {j \in Past(k) : doc[j].press /\ OneSentence(j, k)}
        ahead == {j \in Coming(k) : doc[j].press /\ OneSentence(k + 1, j)}
    IN  rows[k].press =
          IF behind # {} THEN 3 + Comma(SmallestOf(behind), k)
          ELSE IF ahead # {} THEN 1 + Comma(k + 1, LargestOf(ahead))
          ELSE 0

\* How many brackets are open after the k-th word; a word with both signs leaves the
\* number as it is.
Depth(k) == Cardinality({j \in 1..k : doc[j].open}) - Cardinality({j \in 1..k : doc[j].close})

Balanced(k) == \A j \in 1..k : Depth(j) >= 0
Unnested(k) == \A j \in 1..k : Depth(j) <= 1 /\ ~(doc[j].open /\ doc[j].close)
OpenedBehind(k) == IF Past(k) = {} THEN 0 ELSE Depth(SmallestOf(Past(k)) - 1)

\* The last word with an opening bracket is in sight and none closes it.
OpenInSight(k) == \E j \in Past(k) : doc[j].open /\ \A l \in j..k : Depth(l) > 0

\* A word counts as one in brackets exactly if an opening bracket in sight is not yet
\* closed (citpred.cc, 924-945), as long as the brackets are balanced and either do
\* not nest nor follow each other between two words, or none was opened before the
\* words in sight.
BracketsInSight ==
  \A k \in DOMAIN rows :
    Balanced(k) /\ (Unnested(k) \/ OpenedBehind(k) = 0) =>
      (rows[k].pare <=> OpenInSight(k))

\* A quotation is open after the k-th word, as its marks have it.
Quoted(k) == Cardinality({j \in 1..k : doc[j].quot = 1}) % 2 = 1

\* A quotation, from the word with its opening mark to the one with its closing mark, if
\* it is short and has no two marks between two words.
Short(l, j) == j - l < QUOTTIME /\ doc[j].quot # 2

\* The marks are followed from word to word as long as every quotation is shorter than
\* QUOTTIME words and none has two marks at once (citpred.cc, 967-994); after that an
\* end is taken for a beginning.
QuotesFollowed ==
  \A k \in DOMAIN rows :
    (\A l, j \in 1..k :
       /\ l < j /\ doc[l].quot = 1 /\ Quoted(l)
       /\ \A n \in (l + 1)..(j - 1) : doc[n].quot # 1
       => Short(l, j))
    => (rows[k].quot <=> Quoted(k))

\* An ISBN marks every word after it, into all the citations that follow: isbnEffect
\* (citpred.cc, 609 and 815) is never reset.
IsbnSticks ==
  \A k \in DOMAIN rows :
    rows[k].isbn <=> \E j \in 2..k : doc[j].isbn /\ doc[j].digits

\* What outlives a word: the quotation it is in, and that there was an ISBN.
CarriedOver == QuotesFollowed /\ IsbnSticks

\* The unguarded uses of a neighbour fail at the last word and nowhere else, and
\* the rows fail to be read only when there are none: a text of words that ends in
\* neither "ph" nor "in" is never lost to a crash.
AtTheEdge == doc = <<>> \/ doc[Len(doc)].kind \in {"ph", "in"}

CrashesOnlyAtEdges ==
  /\ outcome = "crash" => ~model \/ AtTheEdge
  /\ outcome = "parsed" => ~AtTheEdge

================================================================================
