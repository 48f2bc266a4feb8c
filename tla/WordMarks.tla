-------------------------------- MODULE WordMarks --------------------------------
(****************************************************************************)
(* What predftEnQueue and ftEnQueue note about a word from its characters   *)
(* (citpred.cc, 289-414): how many quotation marks and whether brackets     *)
(* stand in the bytes that go with it, whether a sentence ends there, and   *)
(* where spilitStr (strHandle.c, 108-136) cuts it into parts.               *)
(*                                                                          *)
(* A character is known by its class (strHandle.h, 8-26):                   *)
(*   "a" and "A"  a letter that looks like no digit                         *)
(*   "o", "l"     i or o; l             "O", "I"   O; I                     *)
(*   "d", "0"     a digit from 2 to 9; 0 or 1                               *)
(*   "b"          a blank               "-"        a connector (- or ~)     *)
(*   "q"          a quotation mark      "[" "]"    square brackets          *)
(*   "." "," "!"  a stop, a comma, ! or ?                                   *)
(*   "/"          another delimiter     "%"        any other character      *)
(* Parentheses and braces are noted like square brackets, but that these    *)
(* may also be closed by an I or l before a blank, which a scanner takes    *)
(* for a bracket.                                                           *)
(****************************************************************************)
EXTENDS Integers, Sequences

CONSTANTS
  ABBRUPPER,      \* a capital and fewer letters than this may be an abbreviation, 6
  ABBRLOWER       \* the same for any first letter, 3

Upper  == {"A", "O", "I"}
Lower  == {"a", "o", "l"}
Digits == {"d", "0"}
Quoting == {"q", "[", "]", ".", ",", "!", "/"}

isBlank(c) == c = "b"
isDelimiter(c) == c \in {"b"} \cup Quoting
isConnectCh(c) == c = "-"
isAsciiCode(c) == c \in Upper \cup Lower
isUppercaseCode(c) == c \in Upper
isAsciiOrDigit(c) == c \in Upper \cup Lower \cup Digits
DIGITLIKE(c) == c \in {"d", "0", "o", "l", "O", "I"}

AnyClass == Upper \cup Lower \cup Digits \cup Quoting \cup {"b", "-", "%"}

--------------------------------------------------------------------------------
(* The flags of a word.  w is the text; the loop goes over the places of the  *)
(* bytes that go with the word and of the one behind them.                    *)

Unmarked == [quotflag |-> 0, sqbSflag |-> FALSE, sqbEflag |-> FALSE, stopflag |-> 0,
             abbrc |-> FALSE, abbrl |-> 0, abbrs |-> FALSE]

CharAt(w, p) == IF p \in DOMAIN w THEN w[p] ELSE "end"

\* The letter the abbreviation would begin with is near enough.
Abbreviated(f) == f.abbrc /\ ((f.abbrl < ABBRUPPER /\ f.abbrs) \/ f.abbrl < ABBRLOWER)

\* switch(content[i])
Signed(f, w, p) ==
  CASE w[p] = "q" -> [f EXCEPT !.quotflag = @ + 1]
    [] w[p] = "[" -> [f EXCEPT !.sqbSflag = TRUE]
    [] w[p] = "]" -> [f EXCEPT !.sqbEflag = TRUE]
    [] w[p] \in {"I", "l"} ->
         [f EXCEPT !.sqbEflag = @ \/ (isBlank(CharAt(w, p + 1)) /\ f.sqbSflag)]
    [] w[p] = "," /\ ~Abbreviated(f) -> [f EXCEPT !.stopflag = IF @ = 2 THEN 2 ELSE 1]
    [] w[p] = "!" \/ (w[p] = "." /\ ~Abbreviated(f)) -> [f EXCEPT !.stopflag = 2]
    [] OTHER -> f

Begins(w, first, p) == isAsciiCode(w[p]) /\ (p = first \/ ~isAsciiOrDigit(w[p - 1]))

\* An abbreviation begins, or goes on: the test of 400 holds for every character,
\* so that it goes on through digits, blanks and signs up to the next beginning.
Abbr_Letters(f, w, first, p) ==
  IF Begins(w, first, p)
    THEN [f EXCEPT !.abbrc = TRUE, !.abbrl = 0, !.abbrs = isUppercaseCode(w[p])]
  ELSE IF f.abbrc /\ isAsciiCode(w[p]) THEN [f EXCEPT !.abbrl = @ + 1]
  ELSE [f EXCEPT !.abbrc = FALSE, !.abbrl = 0]
Abbr(f, w, first, p) ==
  IF Begins(w, first, p)
    THEN [f EXCEPT !.abbrc = TRUE, !.abbrl = 0, !.abbrs = isUppercaseCode(w[p])]
  ELSE IF f.abbrc THEN [f EXCEPT !.abbrl = @ + 1]
  ELSE f

\* The flags after each of the bytes from + 1 to last of the text.
Noted(w, from, last) ==
  LET f[n \in 0..(last - from)] ==
        IF n = 0 THEN Unmarked
        ELSE Abbr(Signed(f[n - 1], w, from + n), w, from + 1, from + n)
  IN  f

\* The bytes from + 1 to to, and the next one if there is one.
Marks(w, from, to) ==
  LET last == IF to < Len(w) THEN to + 1 ELSE to
  IN  Noted(w, from, last)[last - from]

--------------------------------------------------------------------------------
(* The parts of a word.                                                       *)

charType(c) ==
  CASE c \in Upper -> 1 [] c \in Lower -> 2 [] c \in Digits -> 3 [] OTHER -> 0

\* One more character, c, at place n.
Cut(s, c, n) ==
  LET ntype == charType(c)
  IN  [flg |-> IF ntype # s.ltype /\ s.ltype # 1 THEN Append(s.flg, n) ELSE s.flg,
       ltype |-> ntype]

Cuts(str) ==
  LET s[n \in 0..Len(str)] ==
        IF n = 0 THEN [flg |-> <<>>, ltype |-> -1] ELSE Cut(s[n - 1], str[n], n - 1)
  IN  s

\* flg: where the parts of str begin, counted from 0, and behind them its length.
spilitStr(str) == Append(Cuts(str)[Len(str)].flg, Len(str))
================================================================================
