-------------------------------- MODULE TagText ---------------------------------
(****************************************************************************)
(* parseFile's scan of a text with tags (virtualcontent.c, 184-285): tags   *)
(* that token.ini names are taken out of the text, and every character that *)
(* stays is stored with its offset and with the stack of the tags open      *)
(* around it.  The trainers then look for the reference area with           *)
(* getReferenceHeadOffset and getReferenceEndOffset.                        *)
(*                                                                          *)
(* Positions count from 1 here; k is the length of what is stored.  The     *)
(* search for a '>' may run up to MAX_TOKEN_LENGTH bytes past the end of    *)
(* the buffer; a name would have to contain the zero byte at content[flen]  *)
(* for what it meets there to matter, so CharAt gives "end" for all of it.  *)
(****************************************************************************)
EXTENDS TokenStack, Sequences, SequencesExt

CONSTANTS
  Texts,            \* the contents a file may have: sequences of characters
  Tokens,           \* token.ini: for each tag number in use its name
  MAX_TOKEN_LENGTH, \* how far the scan looks for the end of a tag
  RefA              \* the tag number of the reference area

ASSUME TagTextAssumption ==
  /\ \A t \in Texts : t \in Seq({t[n] : n \in DOMAIN t})
  /\ DOMAIN Tokens \subseteq TagId
  /\ \A a, b \in DOMAIN Tokens : Tokens[a] = Tokens[b] => a = b
  /\ MAX_TOKEN_LENGTH \in Nat
  /\ RefA \in TagId

VARIABLES
  content,          \* the file
  i,                \* the position of the scan
  nowTag,           \* the stack of open tags
  stored,           \* pcontent, offset and tags, as one sequence of records
  pclen,
  pc,               \* "scan"; "ok" for return 1, "refused" for return 0
  \* records for the properties
  open,             \* the open tags as a plain sequence, without a bound
  largest,          \* the largest number that a sequence of open tags so far stands for
  balanced          \* every closing tag so far closed the last tag of `open'

record == <<open, largest, balanced>>
vars == <<content, i, nowTag, stored, pclen, pc, record>>

k == Len(stored)

\* The numbers that a sequence of tags stands for, tag by tag and as a whole, however
\* large.
Numbers(tagseq) ==
  LET number[n \in 0..Len(tagseq)] ==
        IF n = 0 THEN 0 ELSE number[n - 1] * TOKEN_MAX_LEN + tagseq[n]
  IN  number

Number(tagseq) == Numbers(tagseq)[Len(tagseq)]

--------------------------------------------------------------------------------
(* Tags in the text.                                                          *)

CharAt(n) == IF n \in DOMAIN content THEN content[n] ELSE "end"

Places == (0..(MAX_TOKEN_LENGTH - 1)) \X DOMAIN Tokens

\* <<j, id>>: at distance j from the position `from' there is a '>', and the j
\* characters before it are the name of the tag id.
TagEnds(from) ==
  {e \in Places :
     /\ CharAt(from + e[1]) = ">"
     /\ SubSeq(content, from, from + e[1] - 1) = Tokens[e[2]]}

OpensTag(e) == CharAt(i) = "<" /\ CharAt(i + 1) # "/" /\ e \in TagEnds(i + 1)

ClosesTag(e) == CharAt(i) = "<" /\ CharAt(i + 1) = "/" /\ e \in TagEnds(i + 2)

AtTag == \E e \in Places : OpensTag(e) \/ ClosesTag(e)

--------------------------------------------------------------------------------

Init ==
  /\ content \in Texts
  /\ i = 1 /\ nowTag = 0 /\ stored = <<>> /\ pclen = 0 /\ pc = "scan"
  /\ open = <<>> /\ largest = 0 /\ balanced = TRUE

Opened(id) ==
  /\ open' = Append(open, id)
  /\ largest' = IF Number(open') > largest THEN Number(open') ELSE largest
  /\ UNCHANGED balanced

Closed(id) ==
  /\ balanced' = (balanced /\ open # <<>> /\ Last(open) = id)
  /\ open' = IF open = <<>> THEN open ELSE Front(open)
  /\ UNCHANGED largest

\* `<name>': the result of tokenPush is not looked at.
OpenTag ==
  /\ pc = "scan"
  /\ \E e \in Places :
       /\ OpensTag(e)
       /\ nowTag' = tokenPush(nowTag, e[2])
       /\ i' = i + e[1] + 2
       /\ Opened(e[2])
  /\ UNCHANGED <<content, stored, pclen, pc>>

PopsAndSkips(id, width) ==
  /\ nowTag' = tokenPop(nowTag)
  /\ i' = i + width
  /\ Closed(id)
  /\ UNCHANGED <<content, stored, pclen, pc>>

CloseTag_AnyTop ==
  /\ pc = "scan"
  /\ \E e \in Places : ClosesTag(e) /\ PopsAndSkips(e[2], e[1] + 3)

CloseTag_LeavesBracket ==
  /\ pc = "scan"
  /\ \E e \in Places : ClosesTag(e) /\ Top(nowTag) = e[2] /\ PopsAndSkips(e[2], e[1] + 2)

\* `</name>' of the innermost open tag.
CloseTag ==
  /\ pc = "scan"
  /\ \E e \in Places : ClosesTag(e) /\ Top(nowTag) = e[2] /\ PopsAndSkips(e[2], e[1] + 3)

\* `</name>' of another tag: return 0.
Mismatch ==
  /\ pc = "scan"
  /\ \E e \in Places :
       /\ ClosesTag(e) /\ Top(nowTag) # e[2]
       /\ Closed(e[2])
  /\ pc' = "refused"
  /\ UNCHANGED <<content, i, nowTag, stored, pclen>>

\* Any other character, a '<' that begins no tag included.
Copy ==
  /\ pc = "scan" /\ i <= Len(content) /\ ~AtTag
  /\ stored' = Append(stored, [char |-> content[i], offset |-> i, tags |-> nowTag, open |-> open])
  /\ i' = i + 1
  /\ UNCHANGED <<content, nowTag, pclen, pc, record>>

Finish_Exact ==
  /\ pc = "scan" /\ i > Len(content)
  /\ pclen' = k
  /\ pc' = "ok"
  /\ UNCHANGED <<content, i, nowTag, stored, record>>

\* pclen=k+1: one more than is stored.
Finish ==
  /\ pc = "scan" /\ i > Len(content)
  /\ pclen' = k + 1
  /\ pc' = "ok"
  /\ UNCHANGED <<content, i, nowTag, stored, record>>

Next == OpenTag \/ CloseTag \/ Mismatch \/ Copy \/ Finish

Spec == Init /\ [][Next]_vars

--------------------------------------------------------------------------------
(* The readers of the tags; they count from 0, and 0 also stands for nothing  *)
(* found.                                                                     *)

\* tags[n]: calloc has set what is not stored to zero.  (Where no tag was taken out,
\* tags[pclen - 1] is outside the array; the properties leave that case alone.)
TagsAt(n) == IF n < k THEN stored[n + 1].tags ELSE 0

InRefA(n) == RefA \in OpenTags[TagsAt(n)]

FirstOf(S) == IF S = {} THEN 0 ELSE CHOOSE n \in S : \A m \in S : n <= m

getReferenceHeadOffset == FirstOf({n \in 0..(pclen - 1) : InRefA(n)})

\* The first place after the head where no tag at all is open.
getReferenceEndOffset ==
  FirstOf({n \in 0..(pclen - 1) : TagsAt(n) = 0 /\ \E m \in 0..(n - 1) : InRefA(m)})

--------------------------------------------------------------------------------
(* Properties.                                                                *)

\* The types of the state; the scan does not run past the end of the text.
TypeOK ==
  /\ i \in 1..(Len(content) + 1)
  /\ nowTag \in UnsignedInt
  /\ \A n \in DOMAIN stored :
       /\ stored[n].offset \in DOMAIN content
       /\ stored[n].char = content[stored[n].offset]
       /\ stored[n].tags \in UnsignedInt
       /\ stored[n].open \in Seq(DOMAIN Tokens)
  /\ pclen \in 0..(Len(content) + 1)
  /\ pc \in {"scan", "ok", "refused"}
  /\ open \in Seq(DOMAIN Tokens) /\ largest \in Nat /\ balanced \in BOOLEAN

\* As long as the open tags fit into an unsigned int, every character is stored with
\* exactly the tags open around it (tokenPush and tokenPop undo each other).
TagsAreOpen ==
  largest <= MaxUint =>
    \A n \in DOMAIN stored : stored[n].tags = Number(stored[n].open)

\* As long as the open tags fit, a text is refused exactly when a closing tag is not that
\* of the innermost open one.
RefusedWhereTheyFit == largest <= MaxUint => (pc = "refused" <=> ~balanced)

\* Once they did not fit, a text is only accepted if a tag is left open at its end.
LostPushLeavesOpen == pc = "ok" /\ largest > MaxUint => open # <<>>

\* A push dropped for want of room, or wrapped, is noticed at a closing tag if the text
\* closes all its tags (virtualcontent.c, 205-222; tokens.c, 83-101): what is accepted
\* with no tag open had tags that balance and fit, and a text that fits is refused only
\* if it does not balance.  The surplus tags of a text that never closes them are not
\* noticed: it is accepted, and its characters may be stored with the wrong tags.
RefusedOrLeftOpen == RefusedWhereTheyFit /\ LostPushLeavesOpen

OnlyTagsLeftOut ==
  \A n \in 2..k :
    LET gap == SubSeq(content, stored[n - 1].offset + 1, stored[n].offset - 1)
    IN  gap = <<>> \/ (gap[1] = "<" /\ Last(gap) = ">")

\* What is stored is the text (virtualcontent.c, 184-285): each character with its own
\* offset, the scan never past the end, and only whole tags left out: what lies between
\* two stored characters begins with a '<' and ends with a '>'.
StoredIsText == TypeOK /\ OnlyTagsLeftOut

\* If a text has a reference area, the trainers find it: its head is before its end,
\* every character from the one to the other is inside some tag, and the end is
\* outside of all tags.  For an area that reaches to the end of the text this
\* rests on the one by which pclen is too large.
ReferenceAreaFound ==
  pc = "ok" /\ (\E n \in 0..(k - 1) : InRefA(n)) =>
    /\ InRefA(getReferenceHeadOffset)
    /\ getReferenceHeadOffset < getReferenceEndOffset
    /\ TagsAt(getReferenceEndOffset) = 0
    /\ \A n \in getReferenceHeadOffset..(getReferenceEndOffset - 1) : TagsAt(n) # 0
================================================================================
