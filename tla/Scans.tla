---------------------------------- MODULE Scans ----------------------------------
(****************************************************************************)
(* What CitationInfoPredict makes of the words around the current one       *)
(* (citpred.cc, 637-994): two scans, over the words to come and over those  *)
(* gone by, look for keywords and for the signs that come in pairs.         *)
(*                                                                          *)
(* Thirteen of fifteen keywords and three kinds of brackets are looked for  *)
(* alike; one keyword ("Press") and one kind of brackets stand for them.  A *)
(* word here is a record with press, whether it is the keyword; stop, the   *)
(* sign after it: 2 for one that ends a sentence, 1 for a comma; open and   *)
(* close, whether it has such a bracket; and quot, how many quotation       *)
(* marks.  Where these signs come from is in WordMarks.  (The comment at    *)
(* 666-668 has a comma for 2 and the end of a sentence for 1; the code that *)
(* sets and reads stopEffect and queue.h:44 have it as here.)               *)
(****************************************************************************)
EXTENDS Integers, Sequences

CONSTANT QUOTTIME       \* words after which a quotation is given up, 10

Larger(a, b) == IF a > b THEN a ELSE b

--------------------------------------------------------------------------------
(* The keyword: 1 ahead, 2 ahead behind a comma, 3 and 4 the same among the   *)
(* words gone by, 0 not found up to the end of the sentence.  A word found    *)
(* later in a scan, which is farther away, takes over.                        *)

Weighed(w, s, weight) == IF s.effect < 2 /\ w.press THEN weight + s.effect ELSE s.flag

\* Mutant: the ends of sentences are not looked at.
Ahead1_NoEnd(s, w) ==
  [flag |-> IF w.press THEN 1 + s.effect ELSE s.flag, effect |-> Larger(s.effect, w.stop)]

Ahead1(s, w) == [flag |-> Weighed(w, s, 1), effect |-> Larger(s.effect, w.stop)]

Behind1(s, w) ==
  LET t == [s EXCEPT !.effect = Larger(s.effect, w.stop)]
  IN  [t EXCEPT !.flag = Weighed(w, t, 3)]

\* The scans, word by word: over the words to come from the nearest on, and over the
\* current word and those gone by from the nearest on, none for the first word.
ScanAhead(ahead) ==
  LET s[n \in 0..Len(ahead)] ==
        IF n = 0 THEN [flag |-> 0, effect |-> 0] ELSE Ahead1(s[n - 1], ahead[n])
  IN  s

ScanBehind(found, behind) ==
  LET none == [flag |-> found, effect |-> 0]
      s[n \in 0..Len(behind)] ==
        IF n = 0 THEN none
        ELSE IF n = 1 THEN [none EXCEPT !.flag = Weighed(behind[1], none, 3)]
        ELSE Behind1(s[n - 1], behind[n])
  IN  s

pressFlag(ahead, behind) ==
  ScanBehind(ScanAhead(ahead)[Len(ahead)].flag, behind)[Len(behind)].flag

--------------------------------------------------------------------------------
(* Brackets: from the word back to its neighbours, every opening one counts,  *)
(* less the closing ones passed since the one before.                         *)

\* Mutant: the closing ones are not forgotten after they were taken off.
Couple_KeepsCache(c, w) ==
  LET cache == IF w.close THEN c.cache + 1 ELSE c.cache
  IN  [flag |-> IF w.open THEN c.flag + 1 - cache ELSE c.flag, cache |-> cache]

Couple(c, w) ==
  LET cache == IF w.close THEN c.cache + 1 ELSE c.cache
  IN  IF w.open THEN [flag |-> c.flag + 1 - cache, cache |-> 0]
                ELSE [c EXCEPT !.cache = cache]

ScanBrackets(behind) ==
  LET c[n \in 0..Len(behind)] ==
        IF n = 0 THEN [flag |-> 0, cache |-> 0] ELSE Couple(c[n - 1], behind[n])
  IN  c

\* pareStatus[0]
inBrackets(behind) == ScanBrackets(behind)[Len(behind)].flag > 0

--------------------------------------------------------------------------------
(* Quotation marks, over the words of the whole text: quotTime counts down    *)
(* from an opening one.                                                       *)

Ticked(t) == Larger(t - 1, 0)

\* quotStatus[0] of a word, and quotTime after it.
inQuotes(w, t) == IF w.quot % 2 = 1 THEN Ticked(t) = 0 ELSE Ticked(t) > 0

\* Mutant: a closing one opens the next quotation.
quotTimeAfter_Restarts(w, t) ==
  IF w.quot % 2 = 1 THEN QUOTTIME ELSE IF w.quot > 0 THEN 0 ELSE Ticked(t)

quotTimeAfter(w, t) ==
  IF w.quot % 2 = 1 THEN IF inQuotes(w, t) THEN QUOTTIME ELSE -QUOTTIME
  ELSE IF w.quot > 0 THEN 0 ELSE Ticked(t)
================================================================================
