-------------------------------- MODULE Tokenizer -------------------------------
(****************************************************************************)
(* spilitContent (strHandle.c, 11-106), as predftEnQueue calls it again and *)
(* again (citpred.cc, 270-288, 409-414, 542-546): it cuts the next word off *)
(* the text and says how many bytes went with it, or 0.                     *)
(*                                                                          *)
(* A character is known by its class, as WordMarks has it, which also says  *)
(* what is noted of a word as it goes into the ring.  A word is kept as the *)
(* positions of its characters.  predeli is left out: the caller overwrites *)
(* it with mpredeli.                                                        *)
(****************************************************************************)
EXTENDS WordMarks, FiniteSetsExt, SequencesExt

CONSTANTS
  Texts,          \* the texts
  SINGLEWORDLEN,  \* the size of the buffer for a word
  SPSTR           \* the size of the array for its parts, 10

ASSUME TokenizerAssumption ==
  /\ Texts \subseteq Seq(AnyClass)
  /\ SINGLEWORDLEN \in Nat \ {0} /\ SPSTR \in Nat \ {0}
  /\ ABBRUPPER \in Nat /\ ABBRLOWER \in Nat

VARIABLES
  text,
  pc,             \* "scan" the loop of 20-83, "rest" 84-105, "stop" after a 0
  currentOffset, mpredeli,                     \* the caller's
  i, dest, flag, connect, datatype, nextdeli,  \* spilitContent's locals
  words           \* the words found: their characters, bytes, delimiters and marks

locals == <<i, dest, flag, connect, datatype, nextdeli>>
vars == <<text, pc, currentOffset, mpredeli, locals, words>>

--------------------------------------------------------------------------------

len == Len(text) - currentOffset

\* src[n]
src(n) == IF n < len THEN text[currentOffset + n + 1] ELSE "end"

\* 0 stands for: could be either
checkCharType(c) == CASE c = "d" -> 1 [] c \in {"a", "A"} -> 2 [] OTHER -> 0

\* The first n from `from' on with n in S, or len.
Next1(from, S) == LET T == {n \in from..(len - 1) : n \in S} IN IF T = {} THEN len ELSE Min(T)

Where(P(_)) == {n \in 0..(len - 1) : P(src(n))}

Begun ==
  /\ i = 0 /\ dest = <<>> /\ flag = FALSE /\ connect = FALSE
  /\ datatype = 0 /\ nextdeli = "b"

Init ==
  /\ text \in Texts
  /\ pc = "scan" /\ currentOffset = 0 /\ mpredeli = "b"
  /\ Begun
  /\ words = <<>>

--------------------------------------------------------------------------------
(* The loop.                                                                  *)

Scanning == pc = "scan" /\ i < len

AtRange_AtStart == isConnectCh(src(i)) /\ DIGITLIKE(src(i + 1))

\* A connector and then a digit: 12-15.
AtRange == isConnectCh(src(i)) /\ i > 0 /\ DIGITLIKE(src(i + 1))

Connected == connect \/ isConnectCh(src(i))

AtGap == flag /\ isDelimiter(src(i)) /\ ~Connected

\* Where the search for a connector behind a gap stops.
GapEnd == Next1(i + 1, Where(isAsciiOrDigit) \cup Where(isConnectCh)
                       \cup (Where(isDelimiter) \ Where(isBlank)))

AtOtherType ==
  /\ flag /\ ~AtGap /\ datatype # 0
  /\ checkCharType(src(i)) # 0 /\ checkCharType(src(i)) # datatype

AtSign == isDelimiter(src(i)) \/ isConnectCh(src(i))

Break(delimiter, connected) ==
  /\ pc' = "rest"
  /\ nextdeli' = delimiter /\ connect' = connected
  /\ UNCHANGED <<i, dest, flag, datatype>>

BreakAtRange == Scanning /\ AtRange /\ Break("-", FALSE)

BreakAtGap ==
  /\ Scanning /\ ~AtRange /\ AtGap /\ ~isConnectCh(src(GapEnd))
  /\ Break(src(i), connect)

JoinOverGap_Letters ==
  /\ Scanning /\ ~AtRange /\ AtGap
  /\ Next1(i + 1, Where(isConnectCh)) < len
  /\ i' = Next1(i + 1, Where(isConnectCh)) + 1 /\ connect' = TRUE
  /\ UNCHANGED <<pc, dest, flag, datatype, nextdeli>>

\* The word goes on behind the connector; what lies between is skipped.
JoinOverGap ==
  /\ Scanning /\ ~AtRange /\ AtGap /\ isConnectCh(src(GapEnd))
  /\ i' = GapEnd + 1 /\ connect' = TRUE
  /\ UNCHANGED <<pc, dest, flag, datatype, nextdeli>>

BreakAtType == Scanning /\ ~AtRange /\ AtOtherType /\ Break(nextdeli, Connected)

SkipSign ==
  /\ Scanning /\ ~AtRange /\ ~AtGap /\ ~AtOtherType /\ AtSign
  /\ flag' = (flag \/ ~isDelimiter(src(i)))
  /\ connect' = Connected
  /\ i' = i + 1
  /\ UNCHANGED <<pc, dest, datatype, nextdeli>>

\* return 0 for a word longer than the buffer.
TooLong ==
  /\ Scanning /\ ~AtRange /\ ~AtOtherType /\ ~AtSign
  /\ Len(dest) >= SINGLEWORDLEN
  /\ pc' = "stop"
  /\ flag' = TRUE /\ UNCHANGED <<i, dest, connect, datatype, nextdeli>>

Copy_Unbounded ==
  /\ Scanning /\ ~AtRange /\ ~AtOtherType /\ ~AtSign
  /\ dest' = Append(dest, currentOffset + i + 1)
  /\ datatype' = checkCharType(src(i))
  /\ flag' = TRUE /\ connect' = FALSE
  /\ i' = i + 1
  /\ UNCHANGED <<pc, nextdeli>>

Copy ==
  /\ Scanning /\ ~AtRange /\ ~AtOtherType /\ ~AtSign
  /\ Len(dest) < SINGLEWORDLEN
  /\ dest' = Append(dest, currentOffset + i + 1)
  /\ datatype' = checkCharType(src(i))
  /\ flag' = TRUE /\ connect' = FALSE
  /\ i' = i + 1
  /\ UNCHANGED <<pc, nextdeli>>

EndOfText == pc = "scan" /\ i >= len /\ pc' = "rest" /\ UNCHANGED locals

scan == /\ \/ BreakAtRange \/ BreakAtGap \/ JoinOverGap \/ BreakAtType
           \/ SkipSign \/ TooLong \/ Copy \/ EndOfText
        /\ UNCHANGED <<text, currentOffset, mpredeli, words>>

--------------------------------------------------------------------------------
(* After the loop.                                                            *)

NoWord ==
  /\ pc = "rest" /\ ~flag
  /\ pc' = "stop"
  /\ UNCHANGED <<text, currentOffset, mpredeli, locals, words>>

\* The delimiter behind a blank, and where the search for it stops.
Behind == IF isBlank(nextdeli)
          THEN Next1(i, (0..(len - 1)) \ (Where(isBlank) \cup Where(isConnectCh)))
          ELSE i

Delimiter ==
  IF isBlank(nextdeli) /\ Behind < len /\ ~isAsciiOrDigit(src(Behind))
  THEN src(Behind) ELSE nextdeli

\* The bytes that go with the word: the delimiters after it included.
Taken == Next1(Behind, (0..(len - 1)) \ Where(isDelimiter))

Signs == {n \in Behind..(Taken - 1) : ~isBlank(src(n))}

\* *np, which is not written if there is no delimiter in what is left.
nextpre == IF Signs = {} THEN "unset" ELSE src(Max(Signs))

NewPredeli_Always == nextpre

NewPredeli == IF isBlank(Delimiter) THEN mpredeli ELSE nextpre

\* return i, and the next call.
Return ==
  /\ pc = "rest" /\ flag
  /\ words' = Append(words, [str |-> dest, from |-> currentOffset, to |-> currentOffset + Taken,
                             mpredeli |-> mpredeli, nextdeli |-> Delimiter,
                             marks |-> Marks(text, currentOffset, currentOffset + Taken),
                             parts |-> spilitStr([k \in DOMAIN dest |-> text[dest[k]]])])
  /\ currentOffset' = currentOffset + Taken
  /\ mpredeli' = NewPredeli
  /\ pc' = "scan"
  /\ i' = 0 /\ dest' = <<>> /\ flag' = FALSE /\ connect' = FALSE
  /\ datatype' = 0 /\ nextdeli' = "b"
  /\ UNCHANGED text

Next == scan \/ NoWord \/ Return

Spec == Init /\ [][Next]_vars

--------------------------------------------------------------------------------
(* Properties.                                                                *)

\* The types of the state; a word fits into its buffer, but for its final zero.
TypeOK ==
  /\ pc \in {"scan", "rest", "stop"}
  /\ currentOffset \in 0..Len(text) /\ i \in 0..len
  /\ dest \in Seq(DOMAIN text) /\ Len(dest) <= SINGLEWORDLEN
  /\ flag \in BOOLEAN /\ connect \in BOOLEAN /\ datatype \in 0..2
  /\ nextdeli \in AnyClass /\ mpredeli \in AnyClass \cup {"unset"}
  /\ \A n \in DOMAIN words : words[n].str \in Seq(DOMAIN text)

\* The words found, and the one under way.
Pieces == Append([n \in DOMAIN words |-> words[n].str], dest)

Letter(p) == isAsciiOrDigit(text[p])

\* Every letter and digit that the splitting has passed is in exactly one word, in
\* the order of the text, however blanks, hyphens and other signs are mixed.
EveryLetterOnce ==
  /\ \A m \in DOMAIN Pieces : \A p, q \in DOMAIN Pieces[m] : p < q => Pieces[m][p] < Pieces[m][q]
  /\ \A m, n \in DOMAIN Pieces : m < n =>
       \A p \in DOMAIN Pieces[m], q \in DOMAIN Pieces[n] : Pieces[m][p] < Pieces[n][q]
  /\ \A p \in 1..(currentOffset + i) : Letter(p) =>
       \E n \in DOMAIN Pieces : \E q \in DOMAIN Pieces[n] : Pieces[n][q] = p

\* Words follow each other without a gap and each takes at least one byte: what the
\* predictor's spans and its loop rely on.
WordsTile ==
  /\ \A n \in DOMAIN words :
       /\ words[n].from < words[n].to
       /\ words[n].from = IF n = 1 THEN 0 ELSE words[n - 1].to
       /\ \A m \in DOMAIN words[n].str : words[n].str[m] \in (words[n].from + 1)..words[n].to
  /\ currentOffset = IF words = <<>> THEN 0 ELSE Last(words).to

\* The words cover the text (strHandle.c, 20-104): each letter is in one of them, one
\* word comes after the other, and none is longer than its buffer.
WordsCover == TypeOK /\ EveryLetterOnce /\ WordsTile

\* The first character that is not a delimiter.
FirstSign == LET S == {n \in 0..(len - 1) : ~isDelimiter(src(n))}
             IN  IF S = {} THEN len ELSE Min(S)

\* The splitting stops before the last letter only at a word that does not fit into
\* the buffer, and at a text that begins with delimiters, a connector and a digit:
\* everything after it is then silently not parsed.
StopsEarlyOnly ==
  pc = "stop" =>
    \/ \A p \in (currentOffset + 1)..Len(text) : ~Letter(p)
    \/ Len(dest) = SINGLEWORDLEN
    \/ /\ words = <<>> /\ FirstSign > 0
       /\ isConnectCh(src(FirstSign)) /\ DIGITLIKE(src(FirstSign + 1))

\* The bytes of the n-th word behind its last character.
After(n) == {p \in (words[n].from + 1)..words[n].to :
              \A m \in DOMAIN words[n].str : words[n].str[m] < p}

\* The delimiters between words before the n-th one; those about a connector, which
\* may join the parts of a word, do not count.
Outer(n) == UNION {{p \in After(m) : isDelimiter(text[p]) /\ ~isBlank(text[p])} :
                     m \in {m \in 1..(n - 1) : \A p \in After(m) : ~isConnectCh(text[p])}}

\* mpredeli is the last delimiter between two words before this one, a blank if there
\* is none, or never written: only after a word that a connector or another sign
\* follows (predftEnQueue then takes nextpre, which spilitContent left alone).
PredeliIsLast ==
  \A n \in DOMAIN words :
    CASE words[n].mpredeli = "unset" -> \E m \in 1..(n - 1) : words[m].nextdeli \in {"-", "%"}
      [] words[n].mpredeli = "b" -> Outer(n) = {}
      [] OTHER -> Outer(n) # {} /\ words[n].mpredeli = text[Max(Outer(n))]

\* The bytes that go with the n-th word, and the letters before p that begin a run of
\* letters there.
Bytes(n) == (words[n].from + 1)..words[n].to
Initials(n, p) == {b \in Bytes(n) : b < p /\ Begins(text, words[n].from + 1, b)}

\* The sign at p may belong to an abbreviation: it comes less than so many characters
\* after the beginning of one, whatever stands between.
InAbbreviation(n, p) ==
  /\ Initials(n, p) # {}
  /\ LET b == Max(Initials(n, p)) IN
       p - b <= ABBRLOWER \/ (p - b <= ABBRUPPER /\ isUppercaseCode(text[b]))

\* Every quotation mark and every bracket of the text is noted for one word, the one
\* with whose bytes it goes, although the loop looks at the first byte of the next
\* word too; an I or l before a blank closes a bracket.  A sentence ends with a word
\* if one of the signs after it is not that of an abbreviation.
SignsNoted ==
  \A n \in DOMAIN words :
    LET marks == words[n].marks
        At(S) == {p \in Bytes(n) : text[p] \in S}
        Opens == At({"["})
    IN
    /\ marks.quotflag = Cardinality(At({"q"}))
    /\ marks.sqbSflag <=> Opens # {}
    /\ marks.sqbEflag <=>
         \/ At({"]"}) # {}
         \/ \E p \in Bytes(n) \cup {words[n].to + 1} :
              /\ CharAt(text, p) \in {"I", "l"} /\ isBlank(CharAt(text, p + 1))
              /\ \E o \in Opens : o < p
    /\ marks.stopflag =
         IF At({"!"}) # {} \/ \E p \in At({"."}) : ~InAbbreviation(n, p) THEN 2
         ELSE IF \E p \in At({","}) : ~InAbbreviation(n, p) THEN 1 ELSE 0

\* Places in a word where another kind of character follows one that is not a capital.
Turns(n) ==
  LET Kind(k) == charType(text[words[n].str[k]])
  IN  {k \in 1..(Len(words[n].str) - 1) : Kind(k) # Kind(k + 1) /\ Kind(k) # 1}

\* The parts of a word lie side by side from its beginning to its end, as many as it has
\* such places and one more; only a word with SPSTR - 1 of them has more parts than
\* the array has room for.
PartsFit ==
  \A n \in DOMAIN words :
    LET parts == words[n].parts IN
    /\ parts[1] = 0 /\ Last(parts) = Len(words[n].str)
    /\ \A k \in 1..(Len(parts) - 1) : parts[k] < parts[k + 1]
    /\ {parts[k] : k \in 2..(Len(parts) - 1)} = Turns(n)
    /\ Len(parts) > SPSTR => Cardinality(Turns(n)) >= SPSTR - 1

\* What is noted about a word as it goes into the ring (citpred.cc, 289-414).
WordsNoted == SignsNoted /\ PartsFit
================================================================================
