---------------------------- MODULE TokenizerProofs ----------------------------
(****************************************************************************)
(* Proofs about the splitting of a text into words, for every text, every   *)
(* size of a word and every length of abbreviations: the words cover the    *)
(* text (WordsCover), the splitting ends early in two cases only            *)
(* (StopsEarlyOnly), each word is told the delimiter before it              *)
(* (PredeliIsLast), and the signs and parts of a word are noted as they     *)
(* are (WordsNoted).                                                        *)
(****************************************************************************)
EXTENDS Tokenizer, FiniteSetTheorems, WellFoundedInduction, TLAPS

--------------------------------------------------------------------------------
(* Recursive functions.                                                       *)

\* A set of numbers with 0 and with the successor of each has all of them.
LEMMA Induction ==
  ASSUME NEW S, 0 \in S, \A n \in Nat : n \in S => n + 1 \in S
  PROVE  Nat \subseteq S
<1> DEFINE T == Nat \ S
           R == OpToRel(<, Nat)
<1> SUFFICES ASSUME T # {} PROVE FALSE
  OBVIOUS
<1>1. PICK m \in T : \A y \in T : ~(<<y, m>> \in R)
  <2>1. IsWellFoundedOn(R, Nat)
    BY NatLessThanWellFounded
  <2>2. T \subseteq Nat
    OBVIOUS
  <2> HIDE DEF T, R
  <2>3. QED
    BY <2>1, <2>2, WFMin
<1>2. \A y, z \in Nat : y < z => <<y, z>> \in R
  BY DEF OpToRel
<1> HIDE DEF R
<1>3. m \in Nat /\ m # 0 /\ m \notin S
  OBVIOUS
<1>4. m - 1 \in Nat /\ m - 1 < m
  BY <1>3
<1>5. m - 1 \in S
  BY <1>1, <1>2, <1>3, <1>4
<1>6. QED
  BY <1>3, <1>4, <1>5

\* N steps from b: the n-th goes to what F has for it in the state before.
Stays(N, S, F) == \A n \in 1..N : \A s \in S : F[<<n, s>>] \in S
Steps(f, N, S, b, F) ==
  f \in [0..N -> S] /\ f[0] = b /\ \A n \in 1..N : f[n] = F[<<n, f[n - 1]>>]

LEMMA StepsExist ==
  ASSUME NEW N \in Nat, NEW S, NEW b \in S, NEW F, Stays(N, S, F)
  PROVE  \E f : Steps(f, N, S, b, F)
<1> USE DEF Stays
<1> DEFINE Reaches(k, f) == f[0] = b /\ \A n \in 1..k : f[n] = F[<<n, f[n - 1]>>]
           K == {k \in Nat : k <= N => \E f \in [0..k -> S] : Reaches(k, f)}
<1>1. 0 \in K
  <2>1. [n \in 0..0 |-> b] \in [0..0 -> S] /\ Reaches(0, [n \in 0..0 |-> b])
    OBVIOUS
  <2> QED
    BY <2>1
<1>2. ASSUME NEW k \in Nat, k \in K PROVE k + 1 \in K
  <2> SUFFICES ASSUME k + 1 <= N PROVE \E f \in [0..(k + 1) -> S] : Reaches(k + 1, f)
    OBVIOUS
  <2>1. k <= N /\ k + 1 \in 1..N
    OBVIOUS
  <2>2. PICK f \in [0..k -> S] : Reaches(k, f)
    BY <1>2, <2>1
  <2> DEFINE g == [n \in 0..(k + 1) |-> IF n = k + 1 THEN F[<<k + 1, f[k]>>] ELSE f[n]]
  <2>3. f[k] \in S /\ F[<<k + 1, f[k]>>] \in S
    BY <2>1
  <2>4. g \in [0..(k + 1) -> S]
    <3>1. \A n \in 0..(k + 1) : n # k + 1 => n \in 0..k
      OBVIOUS
    <3> QED
      BY <2>3, <3>1
  <2>5. \A n \in 0..k : g[n] = f[n]
    OBVIOUS
  <2>6. g[k + 1] = F[<<k + 1, f[k]>>]
    OBVIOUS
  <2> HIDE DEF g
  <2>7. Reaches(k + 1, g)
    <3>1. g[0] = b
      BY <2>2, <2>5
    <3>2. ASSUME NEW n \in 1..(k + 1) PROVE g[n] = F[<<n, g[n - 1]>>]
      <4>1. CASE n = k + 1
        <5>1. n - 1 = k /\ k \in 0..k
          BY <4>1
        <5> QED
          BY <2>5, <2>6, <4>1, <5>1
      <4>2. CASE n # k + 1
        <5>1. n \in 1..k /\ n \in 0..k /\ n - 1 \in 0..k
          BY <4>2
        <5> QED
          BY <2>2, <2>5, <5>1
      <4> QED
        BY <4>1, <4>2
    <3> QED
      BY <3>1, <3>2
  <2> QED
    BY <2>4, <2>7
<1> HIDE DEF K
<1>3. N \in K
  BY <1>1, <1>2, Induction
<1> QED
  BY <1>3 DEF K, Steps

\* What holds of the first state and goes on from each to the next holds of the last.
LEMMA StepsSay ==
  ASSUME NEW N \in Nat, NEW Says, 0 \in Says,
         \A n \in 0..(N - 1) : n \in Says => n + 1 \in Says
  PROVE  N \in Says
<1> DEFINE K == {k \in Nat : k <= N => k \in Says}
<1>1. 0 \in K
  OBVIOUS
<1>2. ASSUME NEW k \in Nat, k \in K PROVE k + 1 \in K
  BY <1>2
<1> HIDE DEF K
<1>3. N \in K
  BY <1>1, <1>2, Induction
<1> QED
  BY <1>3 DEF K

--------------------------------------------------------------------------------
(* The signs of a word.                                                       *)

MarkStates ==
  [quotflag : Nat, sqbSflag : BOOLEAN, sqbEflag : BOOLEAN, stopflag : 0..2,
   abbrc : BOOLEAN, abbrl : Nat, abbrs : BOOLEAN]

SignedIs(f, w, p, g) ==
  /\ g.quotflag = IF w[p] = "q" THEN f.quotflag + 1 ELSE f.quotflag
  /\ g.sqbSflag <=> f.sqbSflag \/ w[p] = "["
  /\ g.sqbEflag <=> \/ f.sqbEflag \/ w[p] = "]"
                    \/ w[p] \in {"I", "l"} /\ isBlank(CharAt(w, p + 1)) /\ f.sqbSflag
  /\ g.stopflag = IF w[p] = "!" \/ (w[p] = "." /\ ~Abbreviated(f)) THEN 2
                  ELSE IF w[p] = "," /\ ~Abbreviated(f) /\ f.stopflag # 2 THEN 1
                  ELSE f.stopflag
  /\ g.abbrc = f.abbrc /\ g.abbrl = f.abbrl /\ g.abbrs = f.abbrs

LEMMA SignedShape ==
  ASSUME NEW f \in MarkStates, NEW w, NEW p, NEW g, g = Signed(f, w, p)
  PROVE  g \in MarkStates /\ SignedIs(f, w, p, g)
<1> USE DEF SignedIs
<1>0. /\ f.quotflag \in Nat /\ f.sqbSflag \in BOOLEAN /\ f.sqbEflag \in BOOLEAN
      /\ f.stopflag \in 0..2 /\ f.abbrc \in BOOLEAN /\ f.abbrl \in Nat /\ f.abbrs \in BOOLEAN
  BY DEF MarkStates
<1>1. CASE w[p] = "q"
  <2>1. g = [f EXCEPT !.quotflag = @ + 1]
    BY <1>1 DEF Signed
  <2>2. g \in MarkStates
    BY <2>1 DEF MarkStates
  <2> QED
    BY <1>1, <2>1, <2>2 DEF MarkStates
<1>2. CASE w[p] = "["
  <2>1. g = [f EXCEPT !.sqbSflag = TRUE]
    BY <1>2 DEF Signed
  <2>2. g \in MarkStates
    BY <2>1 DEF MarkStates
  <2> QED
    BY <1>2, <2>1, <2>2 DEF MarkStates
<1>3. CASE w[p] = "]"
  <2>1. g = [f EXCEPT !.sqbEflag = TRUE]
    BY <1>3 DEF Signed
  <2>2. g \in MarkStates
    BY <2>1 DEF MarkStates
  <2> QED
    BY <1>3, <2>1, <2>2 DEF MarkStates
<1>4. CASE w[p] \in {"I", "l"}
  <2> DEFINE e == f.sqbEflag \/ (isBlank(CharAt(w, p + 1)) /\ f.sqbSflag)
  <2>1. g = [f EXCEPT !.sqbEflag = e]
    BY <1>4 DEF Signed
  <2>3. e \in BOOLEAN
    BY DEF isBlank
  <2>5. e <=> f.sqbEflag \/ (isBlank(CharAt(w, p + 1)) /\ f.sqbSflag)
    OBVIOUS
  <2> HIDE DEF e
  <2>2. g \in MarkStates
    BY <2>1, <2>3 DEF MarkStates
  <2>4. g.sqbEflag = e
    BY <2>1 DEF MarkStates
  <2> QED
    BY <1>4, <2>1, <2>2, <2>4, <2>5 DEF MarkStates
<1>5. CASE w[p] = "," /\ ~Abbreviated(f)
  <2>1. g = [f EXCEPT !.stopflag = IF @ = 2 THEN 2 ELSE 1]
    BY <1>5 DEF Signed
  <2>2. g \in MarkStates
    BY <2>1 DEF MarkStates
  <2> QED
    BY <1>5, <2>1, <2>2 DEF MarkStates
<1>6. CASE w[p] = "!" \/ (w[p] = "." /\ ~Abbreviated(f))
  <2>1. g = [f EXCEPT !.stopflag = 2]
    BY <1>6 DEF Signed
  <2>2. g \in MarkStates
    BY <2>1 DEF MarkStates
  <2> QED
    BY <1>6, <2>1, <2>2 DEF MarkStates
<1>7. CASE /\ w[p] \notin {"q", "[", "]", "I", "l", "!"}
           /\ ~(w[p] = "," /\ ~Abbreviated(f)) /\ ~(w[p] = "." /\ ~Abbreviated(f))
  <2>1. g = f
    BY <1>7 DEF Signed
  <2> QED
    BY <1>7, <2>1
<1> QED
  BY <1>1, <1>2, <1>3, <1>4, <1>5, <1>6, <1>7

AbbrIs(f, w, first, p, g) ==
  /\ g.quotflag = f.quotflag /\ g.sqbSflag = f.sqbSflag
  /\ g.sqbEflag = f.sqbEflag /\ g.stopflag = f.stopflag
  /\ IF Begins(w, first, p)
     THEN g.abbrc /\ g.abbrl = 0 /\ (g.abbrs <=> isUppercaseCode(w[p]))
     ELSE /\ g.abbrc = f.abbrc /\ g.abbrs = f.abbrs
          /\ f.abbrc => g.abbrl = f.abbrl + 1

LEMMA AbbrShape ==
  ASSUME NEW f \in MarkStates, NEW w, NEW first, NEW p, NEW g, g = Abbr(f, w, first, p)
  PROVE  g \in MarkStates /\ AbbrIs(f, w, first, p, g)
<1> USE DEF AbbrIs
<1>1. CASE Begins(w, first, p)
  <2> DEFINE u == isUppercaseCode(w[p])
  <2>1. g = [f EXCEPT !.abbrc = TRUE, !.abbrl = 0, !.abbrs = u]
    BY <1>1 DEF Abbr
  <2>2. u \in BOOLEAN
    BY DEF isUppercaseCode
  <2>5. u <=> isUppercaseCode(w[p])
    OBVIOUS
  <2> HIDE DEF u
  <2>3. g \in MarkStates
    <3>1. /\ f.quotflag \in Nat /\ f.sqbSflag \in BOOLEAN /\ f.sqbEflag \in BOOLEAN
          /\ f.stopflag \in 0..2
          /\ f = [quotflag |-> f.quotflag, sqbSflag |-> f.sqbSflag, sqbEflag |-> f.sqbEflag,
                  stopflag |-> f.stopflag, abbrc |-> f.abbrc, abbrl |-> f.abbrl,
                  abbrs |-> f.abbrs]
      BY DEF MarkStates
    <3>2. g = [quotflag |-> f.quotflag, sqbSflag |-> f.sqbSflag, sqbEflag |-> f.sqbEflag,
               stopflag |-> f.stopflag, abbrc |-> TRUE, abbrl |-> 0, abbrs |-> u]
      BY <2>1, <3>1
    <3> QED
      BY <2>2, <3>1, <3>2 DEF MarkStates
  <2>4. g.abbrs = u
    BY <2>1 DEF MarkStates
  <2> QED
    BY <1>1, <2>1, <2>3, <2>4, <2>5 DEF MarkStates
<1>2. CASE ~Begins(w, first, p) /\ f.abbrc
  <2>1. g = [f EXCEPT !.abbrl = @ + 1]
    BY <1>2 DEF Abbr
  <2>2. g \in MarkStates
    BY <2>1 DEF MarkStates
  <2> QED
    BY <1>2, <2>1, <2>2 DEF MarkStates
<1>3. CASE ~Begins(w, first, p) /\ ~f.abbrc
  BY <1>3 DEF Abbr
<1> QED
  BY <1>1, <1>2, <1>3

\* The flags after each byte are those after the one before, changed by the byte.
NotedSays(w, from, last, f) ==
  /\ f[0] = Unmarked /\ \A n \in 0..(last - from) : f[n] \in MarkStates
  /\ \A n \in 1..(last - from) :
       f[n] = Abbr(Signed(f[n - 1], w, from + n), w, from + 1, from + n)

LEMMA NotedUnfolds ==
  ASSUME NEW w, NEW from \in Nat, NEW last \in Nat, from <= last
  PROVE  NotedSays(w, from, last, Noted(w, from, last))
<1> DEFINE N == last - from
           Turn(n, s) == Abbr(Signed(s, w, from + n), w, from + 1, from + n)
           F == [x \in (1..N) \X MarkStates |-> Turn(x[1], x[2])]
           Unfolds(f) == f = [n \in 0..N |-> IF n = 0 THEN Unmarked ELSE Turn(n, f[n - 1])]
<1>1. N \in Nat /\ Unmarked \in MarkStates
  BY DEF Unmarked, MarkStates
<1>2. \A n \in 1..N : \A s \in MarkStates : F[<<n, s>>] = Turn(n, s)
  OBVIOUS
<1>3. \A n \in 1..N : \A s \in MarkStates : Turn(n, s) \in MarkStates
  <2> SUFFICES ASSUME NEW n \in 1..N, NEW s \in MarkStates PROVE Turn(n, s) \in MarkStates
    OBVIOUS
  <2>1. Signed(s, w, from + n) \in MarkStates
    BY SignedShape
  <2> QED
    BY <2>1, AbbrShape
<1> HIDE DEF F, Turn
<1>4. PICK f : Steps(f, N, MarkStates, Unmarked, F)
  <2>1. Stays(N, MarkStates, F)
    BY <1>2, <1>3 DEF Stays
  <2> HIDE DEF N
  <2> QED
    BY <1>1, <2>1, StepsExist
<1>5. \A n \in 1..N : n \in 0..N /\ n # 0 /\ n - 1 \in 0..N
  BY <1>1
<1>6. \A n \in 0..N : n = 0 \/ n \in 1..N
  BY <1>1
<1>7. Unfolds(f)
  <2>1. f \in [0..N -> MarkStates] /\ f[0] = Unmarked
    BY <1>4 DEF Steps
  <2>2. \A n \in 1..N : f[n] = Turn(n, f[n - 1])
    <3> SUFFICES ASSUME NEW n \in 1..N PROVE f[n] = Turn(n, f[n - 1])
      OBVIOUS
    <3>1. f[n - 1] \in MarkStates
      BY <1>5, <2>1
    <3> QED
      BY <1>2, <1>4, <3>1 DEF Steps
  <2> HIDE DEF N
  <2>3. \A n \in 0..N : f[n] = IF n = 0 THEN Unmarked ELSE Turn(n, f[n - 1])
    BY <1>6, <2>1, <2>2
  <2> QED
    BY <2>1, <2>3
<1>8. Noted(w, from, last) = CHOOSE g : Unfolds(g)
  BY DEF Noted, Turn
<1>9. Unfolds(Noted(w, from, last))
  <2> HIDE DEF Unfolds
  <2> QED
    BY <1>7, <1>8
<1> DEFINE g == Noted(w, from, last)
<1>10. g = [n \in 0..N |-> IF n = 0 THEN Unmarked ELSE Turn(n, g[n - 1])]
  BY <1>9
<1> HIDE DEF g, Unfolds
<1>11. 0 \in 0..N
  BY <1>1
<1> HIDE DEF N
<1>12. g[0] = Unmarked /\ \A n \in 1..N : g[n] = Turn(n, g[n - 1])
  BY <1>5, <1>10, <1>11
<1>13. \A n \in 0..N : g[n] \in MarkStates
  <2> DEFINE Says == {n \in 0..N : g[n] \in MarkStates}
  <2>1. 0 \in Says
    BY <1>1, <1>11, <1>12
  <2>2. ASSUME NEW n \in 0..(N - 1), n \in Says PROVE n + 1 \in Says
    <3>1. n + 1 \in 1..N /\ n + 1 \in 0..N /\ (n + 1) - 1 = n
      BY <1>1
    <3>2. g[n + 1] = Turn(n + 1, g[n])
      BY <1>12, <3>1
    <3> QED
      BY <1>3, <2>2, <3>1, <3>2
  <2> HIDE DEF Says
  <2>3. ASSUME NEW k \in 0..N PROVE k \in Says
    <3>1. k \in Nat /\ \A n \in 0..(k - 1) : n \in 0..(N - 1)
      BY <1>1
    <3> QED
      BY <2>1, <2>2, <3>1, StepsSay
  <2> QED
    BY <2>3 DEF Says
<1> QED
  BY <1>12, <1>13 DEF g, N, Turn, NotedSays

--------------------------------------------------------------------------------
(* The largest and the smallest of a set of numbers.                          *)

LEMMA LargestExists ==
  ASSUME NEW b \in Nat, NEW S, S \subseteq 0..b, S # {}
  PROVE  Max(S) \in S /\ \A x \in S : x <= Max(S)
<1> DEFINE T == {b - x : x \in S}
           R == OpToRel(<, Nat)
<1>1. T \subseteq Nat /\ T # {}
  <2>1. PICK x \in S : TRUE
    OBVIOUS
  <2>2. b - x \in T
    BY <2>1
  <2>3. ASSUME NEW t \in T PROVE t \in Nat
    <3>1. PICK y \in S : t = b - y
      OBVIOUS
    <3>2. y \in 0..b
      OBVIOUS
    <3> HIDE DEF T
    <3>3. QED
      BY <3>1, <3>2
  <2> HIDE DEF T
  <2>4. QED
    BY <2>2, <2>3
<1>2. \E m \in T : \A y \in T : ~(<<y, m>> \in R)
  <2>1. IsWellFoundedOn(R, Nat)
    BY NatLessThanWellFounded
  <2> HIDE DEF T, R
  <2>2. QED
    BY <1>1, <2>1, WFMin
<1>3. \A y, m \in Nat : y < m => <<y, m>> \in R
  BY DEF OpToRel
<1> HIDE DEF R
<1>4. PICK m \in T : \A y \in T : ~(y < m)
  BY <1>1, <1>2, <1>3
<1>5. PICK z \in S : m = b - z
  OBVIOUS
<1>6. \A x \in S : z >= x
  <2> SUFFICES ASSUME NEW x \in S PROVE z >= x
    OBVIOUS
  <2>1. b - x \in T /\ x \in Nat /\ z \in Nat
    OBVIOUS
  <2>2. ~(b - x < b - z)
    BY <1>4, <1>5, <2>1
  <2> HIDE DEF T
  <2>3. QED
    BY <2>1, <2>2
<1>7. \A x \in S : x \in Int
  OBVIOUS
<1> HIDE DEF T
<1>8. Max(S) \in S /\ \A x \in S : Max(S) >= x
  BY <1>5, <1>6 DEF Max
<1>9. QED
  BY <1>7, <1>8

LEMMA LargestIs ==
  ASSUME NEW S, S \subseteq Int, NEW m \in S, \A x \in S : x <= m
  PROVE  Max(S) = m
<1>1. Max(S) \in S /\ \A x \in S : Max(S) >= x
  BY DEF Max
<1>2. Max(S) \in Int /\ m \in Int
  BY <1>1
<1>3. Max(S) <= m /\ Max(S) >= m
  BY <1>1
<1> QED
  BY <1>2, <1>3

LEMMA SmallestExists ==
  ASSUME NEW S, S \subseteq Nat, S # {}
  PROVE  Min(S) \in S /\ \A x \in S : Min(S) <= x
<1> DEFINE R == OpToRel(<, Nat)
<1>1. PICK m \in S : \A y \in S : ~(<<y, m>> \in R)
  <2>1. IsWellFoundedOn(R, Nat)
    BY NatLessThanWellFounded
  <2> HIDE DEF R
  <2> QED
    BY <2>1, WFMin
<1>2. \A y, z \in Nat : y < z => <<y, z>> \in R
  BY DEF OpToRel
<1> HIDE DEF R
<1>3. \A x \in S : m <= x
  <2> SUFFICES ASSUME NEW x \in S PROVE m <= x
    OBVIOUS
  <2>1. m \in Nat /\ x \in Nat /\ ~(x < m)
    BY <1>1, <1>2
  <2> QED
    BY <2>1
<1> QED
  BY <1>3 DEF Min

--------------------------------------------------------------------------------
(* What the flags say after a byte.                                           *)

\* The letters before p that begin a run of letters; a sign at p that may belong to an
\* abbreviation; one that ends a sentence, a comma that ends a part of one; what
\* is taken for a closing bracket.
Firsts(w, from, p) == {b \in (from + 1)..(p - 1) : Begins(w, from + 1, b)}

OfAbbreviation(w, from, p) ==
  /\ Firsts(w, from, p) # {}
  /\ LET b == Max(Firsts(w, from, p)) IN
       p - b <= ABBRLOWER \/ (p - b <= ABBRUPPER /\ isUppercaseCode(w[b]))

Stops(w, from, p)  == w[p] = "!" \/ (w[p] = "." /\ ~OfAbbreviation(w, from, p))
Commas(w, from, p) == w[p] = "," /\ ~OfAbbreviation(w, from, p)

Closes(w, from, p) ==
  \/ w[p] = "]"
  \/ /\ w[p] \in {"I", "l"} /\ isBlank(CharAt(w, p + 1))
     /\ \E o \in (from + 1)..(p - 1) : w[o] = "["

MarksSay(w, from, k, f) ==
  /\ f.quotflag = Cardinality({p \in (from + 1)..k : w[p] = "q"})
  /\ f.sqbSflag <=> \E p \in (from + 1)..k : w[p] = "["
  /\ f.sqbEflag <=> \E p \in (from + 1)..k : Closes(w, from, p)
  /\ f.stopflag = IF \E p \in (from + 1)..k : Stops(w, from, p) THEN 2
                  ELSE IF \E p \in (from + 1)..k : Commas(w, from, p) THEN 1 ELSE 0
  /\ f.abbrc <=> Firsts(w, from, k + 1) # {}
  /\ f.abbrc => /\ f.abbrl = k - Max(Firsts(w, from, k + 1))
                /\ f.abbrs <=> isUppercaseCode(w[Max(Firsts(w, from, k + 1))])

LEMMA FirstsLargest ==
  ASSUME NEW w, NEW from \in Nat, NEW p \in Nat, Firsts(w, from, p) # {}
  PROVE  Max(Firsts(w, from, p)) \in (from + 1)..(p - 1)
<1>1. Firsts(w, from, p) \subseteq 0..p /\ Firsts(w, from, p) \subseteq (from + 1)..(p - 1)
  BY DEF Firsts
<1> QED
  BY <1>1, LargestExists

LEMMA OfAbbreviationIs ==
  ASSUME NEW w, NEW from, NEW p, NEW J, J = Firsts(w, from, p), J # {}, NEW b, b = Max(J)
  PROVE  OfAbbreviation(w, from, p) <=>
           p - b <= ABBRLOWER \/ (p - b <= ABBRUPPER /\ isUppercaseCode(w[b]))
BY Zenon DEF OfAbbreviation

LEMMA AbbreviatedIs ==
  ASSUME NEW w, NEW from \in Nat, NEW k \in Nat, NEW f \in MarkStates, MarksSay(w, from, k, f)
  PROVE  Abbreviated(f) <=> OfAbbreviation(w, from, k + 1)
<1>0. PICK J : J = Firsts(w, from, k + 1)
  OBVIOUS
<1>1. CASE J = {}
  BY <1>0, <1>1 DEF MarksSay, Abbreviated, OfAbbreviation
<1>2. CASE J # {}
  <2>0. PICK b : b = Max(J)
    OBVIOUS
  <2>1. b \in Int
    BY <1>0, <1>2, <2>0, FirstsLargest
  <2>2. f.abbrc /\ f.abbrl = k - b /\ (f.abbrs <=> isUppercaseCode(w[b]))
    BY <1>0, <1>2, <2>0 DEF MarksSay
  <2>3. OfAbbreviation(w, from, k + 1) <=>
          (k + 1) - b <= ABBRLOWER \/ ((k + 1) - b <= ABBRUPPER /\ isUppercaseCode(w[b]))
    BY <1>0, <1>2, <2>0, OfAbbreviationIs, Zenon
  <2>4. Abbreviated(f) <=> (f.abbrl < ABBRUPPER /\ f.abbrs) \/ f.abbrl < ABBRLOWER
    BY <2>2 DEF Abbreviated
  <2>5. /\ k - b < ABBRUPPER <=> (k + 1) - b <= ABBRUPPER
        /\ k - b < ABBRLOWER <=> (k + 1) - b <= ABBRLOWER
    BY <2>1, TokenizerAssumption
  <2> QED
    BY <2>2, <2>3, <2>4, <2>5
<1> QED
  BY <1>1, <1>2

LEMMA MarkOne ==
  ASSUME NEW w, NEW from \in Nat, NEW k \in Nat, from <= k,
         NEW f \in MarkStates, MarksSay(w, from, k, f),
         NEW c, c = k + 1, NEW first, first = from + 1,
         NEW g, g = Signed(f, w, c), NEW h, h = Abbr(g, w, first, c)
  PROVE  MarksSay(w, from, c, h)
<1> DEFINE P == (from + 1)..k
           Q == (from + 1)..c
<1>0. c \in Nat
  OBVIOUS
<1>1. Q = P \cup {c} /\ c \notin P /\ c - 1 = k
  OBVIOUS
<1>2. /\ g \in MarkStates /\ SignedIs(f, w, c, g)
      /\ h \in MarkStates /\ AbbrIs(g, w, first, c, h)
  <2>1. g \in MarkStates /\ SignedIs(f, w, c, g)
    BY SignedShape
  <2> QED
    BY <2>1, AbbrShape
<1>3. /\ h.quotflag = g.quotflag /\ h.sqbSflag = g.sqbSflag
      /\ h.sqbEflag = g.sqbEflag /\ h.stopflag = g.stopflag
  BY <1>2 DEF AbbrIs
<1>4. h.quotflag = Cardinality({p \in Q : w[p] = "q"})
  <2> DEFINE A == {p \in P : w[p] = "q"}
             B == {p \in Q : w[p] = "q"}
  <2>1. g.quotflag = IF w[c] = "q" THEN f.quotflag + 1 ELSE f.quotflag
    BY <1>2 DEF SignedIs
  <2>2. f.quotflag = Cardinality(A)
    BY DEF MarksSay
  <2>3. IsFiniteSet(A)
    <3>1. IsFiniteSet(P) /\ A \in SUBSET P
      BY FS_Interval
    <3> QED
      BY <3>1, FS_Subset
  <2>4. B = IF w[c] = "q" THEN A \cup {c} ELSE A
    BY <1>1
  <2>5. c \notin A
    BY <1>1
  <2> HIDE DEF A, B
  <2>6. Cardinality(A \cup {c}) = Cardinality(A) + 1
    BY <2>3, <2>5, FS_AddElement
  <2> QED
    BY <1>3, <2>1, <2>2, <2>4, <2>6 DEF B
<1>5. h.sqbSflag <=> \E p \in Q : w[p] = "["
  <2>1. g.sqbSflag <=> f.sqbSflag \/ w[c] = "["
    BY <1>2 DEF SignedIs
  <2> QED
    BY <1>1, <1>3, <2>1 DEF MarksSay
<1>6. h.sqbEflag <=> \E p \in Q : Closes(w, from, p)
  <2>1. g.sqbEflag <=> \/ f.sqbEflag \/ w[c] = "]"
                       \/ /\ w[c] \in {"I", "l"} /\ isBlank(CharAt(w, c + 1))
                          /\ f.sqbSflag
    BY <1>2 DEF SignedIs
  <2>2. f.sqbSflag <=> \E o \in (from + 1)..(c - 1) : w[o] = "["
    BY <1>1 DEF MarksSay
  <2>3. g.sqbEflag <=> f.sqbEflag \/ Closes(w, from, c)
    BY <2>1, <2>2 DEF Closes
  <2>4. f.sqbEflag <=> \E p \in P : Closes(w, from, p)
    BY DEF MarksSay
  <2> QED
    BY <1>1, <1>3, <2>3, <2>4
<1>7. h.stopflag = IF \E p \in Q : Stops(w, from, p) THEN 2
                   ELSE IF \E p \in Q : Commas(w, from, p) THEN 1 ELSE 0
  <2>1. g.stopflag = IF w[c] = "!" \/ (w[c] = "." /\ ~Abbreviated(f)) THEN 2
                     ELSE IF w[c] = "," /\ ~Abbreviated(f) /\ f.stopflag # 2 THEN 1
                     ELSE f.stopflag
    BY <1>2 DEF SignedIs
  <2>2. Abbreviated(f) <=> OfAbbreviation(w, from, c)
    BY AbbreviatedIs
  <2>3. g.stopflag = IF Stops(w, from, c) THEN 2
                     ELSE IF Commas(w, from, c) /\ f.stopflag # 2 THEN 1
                     ELSE f.stopflag
    BY <2>1, <2>2 DEF Stops, Commas
  <2>4. f.stopflag = IF \E p \in P : Stops(w, from, p) THEN 2
                     ELSE IF \E p \in P : Commas(w, from, p) THEN 1 ELSE 0
    BY DEF MarksSay
  <2>5. /\ (\E p \in Q : Stops(w, from, p)) <=>
             Stops(w, from, c) \/ \E p \in P : Stops(w, from, p)
        /\ (\E p \in Q : Commas(w, from, p)) <=>
             Commas(w, from, c) \/ \E p \in P : Commas(w, from, p)
    BY <1>1
  <2> QED
    BY <1>3, <2>3, <2>4, <2>5
<1>8. /\ h.abbrc <=> Firsts(w, from, c + 1) # {}
      /\ h.abbrc => /\ h.abbrl = c - Max(Firsts(w, from, c + 1))
                    /\ h.abbrs <=> isUppercaseCode(w[Max(Firsts(w, from, c + 1))])
  <2> DEFINE I == Firsts(w, from, c)
             J == Firsts(w, from, c + 1)
  <2>1. I = {b \in P : Begins(w, from + 1, b)} /\ J = {b \in Q : Begins(w, from + 1, b)}
    BY <1>1 DEF Firsts
  <2>2. g.abbrc = f.abbrc /\ g.abbrl = f.abbrl /\ g.abbrs = f.abbrs
    BY <1>2 DEF SignedIs
  <2>3. CASE Begins(w, first, c)
    <3>1. h.abbrc /\ h.abbrl = 0 /\ (h.abbrs <=> isUppercaseCode(w[c]))
      BY <1>2, <2>3 DEF AbbrIs
    <3>2. J \subseteq Int /\ c \in J /\ \A x \in J : x <= c
      BY <1>1, <2>1, <2>3
    <3> HIDE DEF J
    <3>3. Max(J) = c
      BY <3>2, LargestIs
    <3>4. J # {} /\ c - Max(J) = 0
      BY <3>2, <3>3
    <3> QED
      BY <3>1, <3>3, <3>4 DEF J
  <2>4. CASE ~Begins(w, first, c)
    <3>1. J = I
      BY <1>1, <2>1, <2>4
    <3>2. h.abbrc = g.abbrc /\ h.abbrs = g.abbrs /\ (g.abbrc => h.abbrl = g.abbrl + 1)
      BY <1>2, <2>4 DEF AbbrIs
    <3>3. /\ f.abbrc <=> I # {}
          /\ f.abbrc => f.abbrl = k - Max(I) /\ (f.abbrs <=> isUppercaseCode(w[Max(I)]))
      BY DEF MarksSay
    <3>4. I # {} => Max(I) \in Int
      BY FirstsLargest
    <3> HIDE DEF I, J
    <3>5. h.abbrc => h.abbrl = c - Max(J)
      <4>1. ASSUME h.abbrc PROVE h.abbrl = c - Max(I)
        <5>1. f.abbrc /\ h.abbrl = f.abbrl + 1 /\ f.abbrl = k - Max(I) /\ Max(I) \in Int
          BY <2>2, <3>2, <3>3, <3>4, <4>1
        <5> QED
          BY <5>1
      <4> QED
        BY <3>1, <4>1
    <3>6. h.abbrc <=> J # {}
      BY <2>2, <3>1, <3>2, <3>3
    <3>7. h.abbrc => (h.abbrs <=> isUppercaseCode(w[Max(J)]))
      BY <2>2, <3>1, <3>2, <3>3
    <3> QED
      BY <3>5, <3>6, <3>7 DEF J
  <2> QED
    BY <2>3, <2>4
<1> QED
  BY <1>4, <1>5, <1>6, <1>7, <1>8 DEF MarksSay

\* The flags of a word say what its bytes say, if the byte after them is no delimiter.
BytesSay(w, from, to, m) ==
  /\ m.quotflag = Cardinality({p \in (from + 1)..to : w[p] = "q"})
  /\ m.sqbSflag <=> \E p \in (from + 1)..to : w[p] = "["
  /\ m.sqbEflag <=> \E p \in (from + 1)..(to + 1) : p \in DOMAIN w /\ Closes(w, from, p)
  /\ m.stopflag = IF \E p \in (from + 1)..to : Stops(w, from, p) THEN 2
                  ELSE IF \E p \in (from + 1)..to : Commas(w, from, p) THEN 1 ELSE 0

LEMMA MarksSayBytes ==
  ASSUME NEW w, Len(w) \in Nat, DOMAIN w = 1..Len(w), NEW from \in Nat, NEW to \in Nat,
         from < to, to <= Len(w), to < Len(w) => ~isDelimiter(w[to + 1]),
         NEW m, m = Marks(w, from, to)
  PROVE  BytesSay(w, from, to, m)
<1> DEFINE last == IF to < Len(w) THEN to + 1 ELSE to
           f == Noted(w, from, last)
<1>1. last \in Nat /\ from <= last
  <2>1. to + 1 \in Nat /\ from <= to /\ from <= to + 1
    OBVIOUS
  <2> QED
    BY <2>1
<1>2. m = f[last - from]
  BY DEF Marks
<1> HIDE DEF last
<1>3. /\ f[0] = Unmarked /\ \A n \in 0..(last - from) : f[n] \in MarkStates
      /\ \A n \in 1..(last - from) :
           f[n] = Abbr(Signed(f[n - 1], w, from + n), w, from + 1, from + n)
  <2>1. NotedSays(w, from, last, f)
    BY <1>1, NotedUnfolds
  <2> HIDE DEF f
  <2> QED
    BY <2>1 DEF NotedSays
<1> HIDE DEF f
<1>4. MarksSay(w, from, from, Unmarked)
  <2>1. (from + 1)..from = {} /\ (from + 1)..((from + 1) - 1) = {}
    OBVIOUS
  <2>2. Cardinality({p \in (from + 1)..from : w[p] = "q"}) = 0
    BY <2>1, FS_EmptySet
  <2>3. Firsts(w, from, from + 1) = {}
    BY <2>1 DEF Firsts
  <2> QED
    BY <2>1, <2>2, <2>3 DEF MarksSay, Unmarked
<1>5. MarksSay(w, from, last, m)
  <2> DEFINE Says == {n \in 0..(last - from) : MarksSay(w, from, from + n, f[n])}
  <2>1. last - from \in Nat
    BY <1>1
  <2>2. 0 \in Says
    BY <1>3, <1>4, <2>1
  <2>3. ASSUME NEW n \in 0..((last - from) - 1), n \in Says PROVE n + 1 \in Says
    <3>1. /\ n + 1 \in 1..(last - from) /\ n + 1 \in 0..(last - from) /\ (n + 1) - 1 = n
          /\ n \in 0..(last - from) /\ from + n \in Nat /\ from <= from + n
          /\ (from + n) + 1 = from + (n + 1)
      BY <2>1
    <3>2. f[n + 1] = Abbr(Signed(f[n], w, from + (n + 1)), w, from + 1, from + (n + 1))
      BY <1>3, <3>1
    <3>3. f[n] \in MarkStates /\ MarksSay(w, from, from + n, f[n])
      BY <1>3, <2>3, <3>1
    <3>4. MarksSay(w, from, from + (n + 1), f[n + 1])
      BY <3>1, <3>2, <3>3, MarkOne
    <3> QED
      BY <3>1, <3>4
  <2> HIDE DEF Says
  <2>4. last - from \in Says
    BY <2>1, <2>2, <2>3, StepsSay
  <2>5. from + (last - from) = last
    BY <1>1
  <2> QED
    BY <1>2, <2>4, <2>5 DEF Says
<1>6. /\ last = to \/ (last = to + 1 /\ to + 1 \in DOMAIN w /\ ~isDelimiter(w[to + 1]))
      /\ last = to => to + 1 \notin DOMAIN w
  BY DEF last
<1>7. \A p \in (from + 1)..last :
         p \in (from + 1)..to \/ (p = to + 1 /\ last = to + 1 /\ ~isDelimiter(w[p]))
  BY <1>6
<1>8. (from + 1)..to \subseteq (from + 1)..last /\ (from + 1)..to \subseteq DOMAIN w
  BY <1>6
<1>9. \A c : ~isDelimiter(c) => c \notin {"q", "[", "]", ".", ",", "!"}
  BY DEF isDelimiter, Quoting
<1>10. {p \in (from + 1)..last : w[p] = "q"} = {p \in (from + 1)..to : w[p] = "q"}
  BY <1>7, <1>8, <1>9
<1>11. (\E p \in (from + 1)..last : w[p] = "[") <=> \E p \in (from + 1)..to : w[p] = "["
  BY <1>7, <1>8, <1>9
<1>12. /\ (\E p \in (from + 1)..last : Stops(w, from, p)) <=>
            \E p \in (from + 1)..to : Stops(w, from, p)
       /\ (\E p \in (from + 1)..last : Commas(w, from, p)) <=>
            \E p \in (from + 1)..to : Commas(w, from, p)
  BY <1>7, <1>8, <1>9 DEF Stops, Commas
<1>13. (\E p \in (from + 1)..last : Closes(w, from, p)) <=>
          \E p \in (from + 1)..(to + 1) : p \in DOMAIN w /\ Closes(w, from, p)
  <2>1. \A p : p \in (from + 1)..last <=> p \in (from + 1)..(to + 1) /\ p \in DOMAIN w
    BY <1>6
  <2> QED
    BY <2>1
<1> QED
  BY <1>5, <1>10, <1>11, <1>12, <1>13 DEF MarksSay, BytesSay

\* Bytes and signs of the n-th word.
LEMMA SignsRight ==
  ASSUME Len(text) \in Nat, DOMAIN text = 1..Len(text), NEW n,
         words[n].from \in Nat, words[n].to \in Nat, words[n].from < words[n].to,
         words[n].to <= Len(text),
         words[n].to < Len(text) => ~isDelimiter(text[words[n].to + 1]),
         words[n].marks = Marks(text, words[n].from, words[n].to)
  PROVE  LET marks == words[n].marks
             At(S) == {p \in Bytes(n) : text[p] \in S}
             Opens == At({"["})
         IN
         /\ marks.quotflag = Cardinality(At({"q"}))
         /\ marks.sqbSflag <=> Opens # {}
         /\ marks.sqbEflag <=>
              \/ At({"]"}) # {}
              \/ \E p \in Bytes(n) \cup {words[n].to + 1} :
                   /\ CharAt(text, p) \in {"I", "l"} /\ isBlank(CharAt(text, p + 1))
                   /\ \E o \in Opens : o < p
         /\ marks.stopflag =
              IF At({"!"}) # {} \/ \E p \in At({"."}) : ~InAbbreviation(n, p) THEN 2
              ELSE IF \E p \in At({","}) : ~InAbbreviation(n, p) THEN 1 ELSE 0
<1> DEFINE from == words[n].from
           to == words[n].to
           marks == words[n].marks
           B == (from + 1)..to
<1>1. /\ marks.quotflag = Cardinality({p \in B : text[p] = "q"})
      /\ marks.sqbSflag <=> \E p \in B : text[p] = "["
      /\ marks.sqbEflag <=>
           \E p \in (from + 1)..(to + 1) : p \in DOMAIN text /\ Closes(text, from, p)
      /\ marks.stopflag = IF \E p \in B : Stops(text, from, p) THEN 2
                          ELSE IF \E p \in B : Commas(text, from, p) THEN 1 ELSE 0
  <2>1. BytesSay(text, from, to, marks)
    BY MarksSayBytes
  <2> QED
    BY <2>1 DEF BytesSay
<1>2. Bytes(n) = B /\ from \in Nat /\ to \in Nat /\ from < to /\ to <= Len(text)
  BY DEF Bytes
<1>3. \A p \in B : InAbbreviation(n, p) <=> OfAbbreviation(text, from, p)
  <2> SUFFICES ASSUME NEW p \in B PROVE InAbbreviation(n, p) <=> OfAbbreviation(text, from, p)
    OBVIOUS
  <2>1. Initials(n, p) = Firsts(text, from, p)
    BY <1>2 DEF Initials, Firsts
  <2> QED
    BY <2>1 DEF InAbbreviation, OfAbbreviation
<1>4. {p \in Bytes(n) : text[p] \in {"q"}} = {p \in B : text[p] = "q"}
  BY <1>2
<1>5. (\E p \in B : text[p] = "[") <=> {p \in Bytes(n) : text[p] \in {"["}} # {}
  BY <1>2
<1>6. (\E p \in (from + 1)..(to + 1) : p \in DOMAIN text /\ Closes(text, from, p)) <=>
        \/ {p \in Bytes(n) : text[p] \in {"]"}} # {}
        \/ \E p \in Bytes(n) \cup {to + 1} :
             /\ CharAt(text, p) \in {"I", "l"} /\ isBlank(CharAt(text, p + 1))
             /\ \E o \in {q \in Bytes(n) : text[q] \in {"["}} : o < p
  <2>1. (from + 1)..(to + 1) = B \cup {to + 1} /\ B \subseteq DOMAIN text
    BY <1>2
  <2>2. to + 1 \in DOMAIN text => text[to + 1] # "]"
    <3>1. to + 1 \in DOMAIN text => ~isDelimiter(text[to + 1])
      BY <1>2
    <3> QED
      BY <3>1 DEF isDelimiter, Quoting
  <2>3. \A p \in B \cup {to + 1} :
          (CharAt(text, p) \in {"I", "l"} <=> p \in DOMAIN text /\ text[p] \in {"I", "l"})
    BY DEF CharAt
  <2>4. \A p \in B \cup {to + 1} :
          ((\E o \in (from + 1)..(p - 1) : text[o] = "[") <=>
             \E o \in {q \in B : text[q] \in {"["}} : o < p)
    BY <1>2
  <2> HIDE DEF B
  <2>5. \A p \in B \cup {to + 1} :
          p \in DOMAIN text /\ Closes(text, from, p) <=>
            \/ p \in B /\ text[p] = "]"
            \/ /\ CharAt(text, p) \in {"I", "l"} /\ isBlank(CharAt(text, p + 1))
               /\ \E o \in {q \in B : text[q] \in {"["}} : o < p
    BY <2>1, <2>2, <2>3, <2>4 DEF Closes
  <2> QED
    BY <1>2, <2>1, <2>5
<1>7. /\ (\E p \in B : Stops(text, from, p)) <=>
           \/ {p \in Bytes(n) : text[p] \in {"!"}} # {}
           \/ \E p \in {q \in Bytes(n) : text[q] \in {"."}} : ~InAbbreviation(n, p)
      /\ (\E p \in B : Commas(text, from, p)) <=>
           \E p \in {q \in Bytes(n) : text[q] \in {","}} : ~InAbbreviation(n, p)
  <2> HIDE DEF B
  <2> QED
    BY <1>2, <1>3 DEF Stops, Commas
<1> QED
  BY <1>1, <1>4, <1>5, <1>6, <1>7

--------------------------------------------------------------------------------
(* The parts of a word.                                                       *)

CutStates == [flg : Seq(Nat), ltype : -1..3]

CutIs(s, c, n, t) ==
  /\ t.ltype = charType(c)
  /\ t.flg = IF charType(c) # s.ltype /\ s.ltype # 1 THEN Append(s.flg, n) ELSE s.flg

LEMMA CutShape ==
  ASSUME NEW s \in CutStates, NEW c, NEW n \in Nat, NEW t, t = Cut(s, c, n)
  PROVE  t \in CutStates /\ CutIs(s, c, n, t)
<1>1. charType(c) \in 0..3
  BY DEF charType
<1>2. s.flg \in Seq(Nat) /\ s.ltype \in -1..3
  BY DEF CutStates
<1> DEFINE flg == IF charType(c) # s.ltype /\ s.ltype # 1 THEN Append(s.flg, n) ELSE s.flg
<1>3. flg \in Seq(Nat)
  BY <1>2
<1>4. t = [flg |-> flg, ltype |-> charType(c)]
  BY DEF Cut
<1>5. CutIs(s, c, n, t)
  BY <1>4 DEF CutIs
<1> HIDE DEF flg
<1>6. charType(c) \in -1..3
  BY <1>1
<1> QED
  BY <1>3, <1>4, <1>5, <1>6 DEF CutStates

LEMMA CutsUnfolds ==
  ASSUME NEW str, Len(str) \in Nat
  PROVE  LET f == Cuts(str) IN
         /\ f[0] = [flg |-> <<>>, ltype |-> -1] /\ \A n \in 0..Len(str) : f[n] \in CutStates
         /\ \A n \in 1..Len(str) : f[n] = Cut(f[n - 1], str[n], n - 1)
<1> DEFINE N == Len(str)
           None == [flg |-> <<>>, ltype |-> -1]
           Turn(n, s) == Cut(s, str[n], n - 1)
           F == [x \in (1..N) \X CutStates |-> Turn(x[1], x[2])]
           Unfolds(f) == f = [n \in 0..N |-> IF n = 0 THEN None ELSE Turn(n, f[n - 1])]
<1>1. N \in Nat /\ None \in CutStates
  BY DEF CutStates
<1>2. \A n \in 1..N : \A s \in CutStates : F[<<n, s>>] = Turn(n, s)
  OBVIOUS
<1>3. \A n \in 1..N : \A s \in CutStates : Turn(n, s) \in CutStates
  <2> SUFFICES ASSUME NEW n \in 1..N, NEW s \in CutStates PROVE Turn(n, s) \in CutStates
    OBVIOUS
  <2>1. n - 1 \in Nat
    BY <1>1
  <2> QED
    BY <2>1, CutShape
<1> HIDE DEF F, Turn, None
<1>4. PICK f : Steps(f, N, CutStates, None, F)
  <2>1. Stays(N, CutStates, F)
    BY <1>2, <1>3 DEF Stays
  <2> HIDE DEF N
  <2> QED
    BY <1>1, <2>1, StepsExist
<1>5. \A n \in 1..N : n \in 0..N /\ n # 0 /\ n - 1 \in 0..N
  BY <1>1
<1>6. \A n \in 0..N : n = 0 \/ n \in 1..N
  BY <1>1
<1>7. Unfolds(f)
  <2>1. f \in [0..N -> CutStates] /\ f[0] = None
    BY <1>4 DEF Steps
  <2>2. \A n \in 1..N : f[n] = Turn(n, f[n - 1])
    <3> SUFFICES ASSUME NEW n \in 1..N PROVE f[n] = Turn(n, f[n - 1])
      OBVIOUS
    <3>1. f[n - 1] \in CutStates
      BY <1>5, <2>1
    <3> QED
      BY <1>2, <1>4, <3>1 DEF Steps
  <2> HIDE DEF N
  <2>3. \A n \in 0..N : f[n] = IF n = 0 THEN None ELSE Turn(n, f[n - 1])
    BY <1>6, <2>1, <2>2
  <2> QED
    BY <2>1, <2>3
<1>8. Cuts(str) = CHOOSE g : Unfolds(g)
  BY DEF Cuts, Turn, None
<1>9. Unfolds(Cuts(str))
  <2> HIDE DEF Unfolds
  <2> QED
    BY <1>7, <1>8
<1> DEFINE g == Cuts(str)
<1>10. g = [n \in 0..N |-> IF n = 0 THEN None ELSE Turn(n, g[n - 1])]
  BY <1>9
<1> HIDE DEF g, Unfolds
<1>11. 0 \in 0..N
  BY <1>1
<1> HIDE DEF N
<1>12. g[0] = None /\ \A n \in 1..N : g[n] = Turn(n, g[n - 1])
  BY <1>5, <1>10, <1>11
<1>13. \A n \in 0..N : g[n] \in CutStates
  <2> DEFINE Says == {n \in 0..N : g[n] \in CutStates}
  <2>1. 0 \in Says
    BY <1>1, <1>11, <1>12
  <2>2. ASSUME NEW n \in 0..(N - 1), n \in Says PROVE n + 1 \in Says
    <3>1. n + 1 \in 1..N /\ n + 1 \in 0..N /\ (n + 1) - 1 = n
      BY <1>1
    <3>2. g[n + 1] = Turn(n + 1, g[n])
      BY <1>12, <3>1
    <3> QED
      BY <1>3, <2>2, <3>1, <3>2
  <2> HIDE DEF Says
  <2>3. ASSUME NEW k \in 0..N PROVE k \in Says
    <3>1. k \in Nat /\ \A n \in 0..(k - 1) : n \in 0..(N - 1)
      BY <1>1
    <3> QED
      BY <2>1, <2>2, <3>1, StepsSay
  <2> QED
    BY <2>3 DEF Says
<1> QED
  BY <1>12, <1>13 DEF g, N, Turn, None

\* Places among the first n characters where another kind follows one that is not a capital.
TurnsOf(str, n) ==
  {k \in 1..(n - 1) : charType(str[k]) # charType(str[k + 1]) /\ charType(str[k]) # 1}

\* What is known of the parts after n characters.
CutsSay(str, n, flg, ltype) ==
  IF n = 0 THEN flg = <<>> /\ ltype = -1
  ELSE /\ ltype = charType(str[n])
       /\ Len(flg) >= 1 /\ flg[1] = 0 /\ flg[Len(flg)] < n
       /\ \A k \in 1..(Len(flg) - 1) : flg[k] < flg[k + 1]
       /\ {flg[k] : k \in 2..Len(flg)} = TurnsOf(str, n)
       /\ Cardinality(TurnsOf(str, n)) = Len(flg) - 1

LEMMA CutOne ==
  ASSUME NEW str, NEW n \in Nat, NEW c, c = n + 1, NEW s \in CutStates, NEW t,
         CutsSay(str, n, s.flg, s.ltype), t = Cut(s, str[c], n)
  PROVE  CutsSay(str, c, t.flg, t.ltype)
<1> DEFINE new == charType(str[c]) # s.ltype /\ s.ltype # 1
           flg == s.flg
<1>1. t.ltype = charType(str[c]) /\ t.flg = IF new THEN Append(flg, n) ELSE flg
  <2>1. CutIs(s, str[c], n, t)
    BY CutShape
  <2> QED
    BY <2>1 DEF CutIs
<1>2. flg \in Seq(Nat)
  BY DEF CutStates
<1>3. c \in Nat /\ c # 0
  OBVIOUS
<1>4. CASE n = 0
  <2>1. charType(str[c]) \in 0..3
    BY DEF charType
  <2>2. flg = <<>> /\ s.ltype = -1
    BY <1>4 DEF CutsSay
  <2>3. t.flg = <<0>>
    <3>1. new
      BY <2>1, <2>2
    <3>2. Append(<<>>, 0) = <<0>>
      OBVIOUS
    <3> HIDE DEF new
    <3> QED
      BY <1>1, <1>4, <2>2, <3>1, <3>2
  <2>4. TurnsOf(str, c) = {}
    BY <1>4 DEF TurnsOf
  <2>5. Cardinality(TurnsOf(str, c)) = 0
    BY <2>4, FS_EmptySet
  <2>6. Len(t.flg) = 1 /\ t.flg[1] = 0
    BY <2>3
  <2>7. {t.flg[k] : k \in 2..Len(t.flg)} = {}
    BY <2>6
  <2> QED
    BY <1>1, <1>3, <1>4, <2>4, <2>5, <2>6, <2>7 DEF CutsSay
<1>5. CASE n # 0
  <2>1. /\ s.ltype = charType(str[n])
        /\ Len(flg) \in Nat /\ Len(flg) >= 1 /\ flg[1] = 0 /\ flg[Len(flg)] < n
        /\ \A k \in 1..(Len(flg) - 1) : flg[k] < flg[k + 1]
        /\ {flg[k] : k \in 2..Len(flg)} = TurnsOf(str, n)
        /\ Cardinality(TurnsOf(str, n)) = Len(flg) - 1
    BY <1>2, <1>5 DEF CutsSay
  <2>2. /\ n \in 1..(c - 1) /\ n \notin 1..(n - 1) /\ 1..(c - 1) = (1..(n - 1)) \cup {n}
    BY <1>5
  <2>3. /\ new => TurnsOf(str, c) = TurnsOf(str, n) \cup {n}
        /\ ~new => TurnsOf(str, c) = TurnsOf(str, n)
    <3>1. n \in TurnsOf(str, c) <=> new
      BY <2>1, <2>2 DEF TurnsOf
    <3>2. \A k \in 1..(n - 1) : k \in TurnsOf(str, c) <=> k \in TurnsOf(str, n)
      BY <2>2 DEF TurnsOf
    <3>3. TurnsOf(str, c) \subseteq 1..(c - 1) /\ TurnsOf(str, n) \subseteq 1..(n - 1)
      BY DEF TurnsOf
    <3>4. \A k \in TurnsOf(str, c) : k = n \/ k \in TurnsOf(str, n)
      BY <2>2, <3>2, <3>3
    <3>5. TurnsOf(str, n) \subseteq TurnsOf(str, c)
      BY <3>2, <3>3
    <3> HIDE DEF new
    <3> QED
      BY <3>1, <3>4, <3>5
  <2>4. CASE new
    <3> DEFINE u == Append(flg, n)
    <3>1. /\ Len(u) = Len(flg) + 1 /\ u[Len(flg) + 1] = n
          /\ \A k \in 1..Len(flg) : u[k] = flg[k]
      BY <1>2
    <3>2. t.flg = u
      BY <1>1, <2>4
    <3>3. TurnsOf(str, c) = TurnsOf(str, n) \cup {n}
      BY <2>3, <2>4
    <3> HIDE DEF u, new, flg
    <3>4. Cardinality(TurnsOf(str, c)) = Len(u) - 1
      <4>1. IsFiniteSet(1..(n - 1)) /\ TurnsOf(str, n) \in SUBSET (1..(n - 1))
        BY FS_Interval DEF TurnsOf
      <4>2. IsFiniteSet(TurnsOf(str, n)) /\ n \notin TurnsOf(str, n)
        BY <2>2, <4>1, FS_Subset
      <4>3. Cardinality(TurnsOf(str, n) \cup {n}) = Cardinality(TurnsOf(str, n)) + 1
        BY <4>2, FS_AddElement
      <4>4. Cardinality(TurnsOf(str, c)) = (Len(flg) - 1) + 1
        BY <2>1, <3>3, <4>3
      <4> QED
        BY <2>1, <3>1, <4>4
    <3>5. {u[k] : k \in 2..Len(u)} = TurnsOf(str, c)
      <4>1. 2..Len(u) = (2..Len(flg)) \cup {Len(flg) + 1}
        BY <2>1, <3>1
      <4>2. \A k \in 2..Len(flg) : u[k] = flg[k]
        BY <3>1
      <4>3. {u[k] : k \in 2..Len(u)} = {u[k] : k \in 2..Len(flg)} \cup {u[Len(flg) + 1]}
        BY <4>1
      <4>4. {u[k] : k \in 2..Len(flg)} = {flg[k] : k \in 2..Len(flg)}
        BY <4>2
      <4> QED
        BY <2>1, <3>1, <3>3, <4>3, <4>4
    <3>6. \A k \in 1..(Len(u) - 1) : u[k] < u[k + 1]
      <4> SUFFICES ASSUME NEW k \in 1..(Len(u) - 1) PROVE u[k] < u[k + 1]
        OBVIOUS
      <4>1. k \in 1..Len(flg) /\ u[k] = flg[k]
        BY <2>1, <3>1
      <4>2. CASE k = Len(flg)
        BY <2>1, <3>1, <4>1, <4>2
      <4>3. CASE k # Len(flg)
        <5>1. k \in 1..(Len(flg) - 1) /\ k + 1 \in 1..Len(flg)
          BY <2>1, <4>1, <4>3
        <5> QED
          BY <2>1, <3>1, <4>1, <5>1
      <4> QED
        BY <4>2, <4>3
    <3>7. Len(u) >= 1 /\ u[1] = 0 /\ u[Len(u)] < c
      BY <2>1, <3>1
    <3>8. CutsSay(str, c, u, charType(str[c]))
      BY <1>3, <3>4, <3>5, <3>6, <3>7 DEF CutsSay
    <3> QED
      BY <1>1, <3>2, <3>8
  <2>5. CASE ~new
    <3>1. t.flg = flg /\ TurnsOf(str, c) = TurnsOf(str, n)
      BY <1>1, <2>3, <2>5
    <3>2. flg[Len(flg)] < c
      <4>1. flg[Len(flg)] \in Nat
        BY <1>2, <2>1
      <4> QED
        BY <2>1, <4>1
    <3> HIDE DEF new, flg
    <3>3. CutsSay(str, c, flg, charType(str[c]))
      BY <1>3, <2>1, <3>1, <3>2 DEF CutsSay
    <3> QED
      BY <1>1, <3>1, <3>3
  <2> QED
    BY <2>4, <2>5
<1> QED
  BY <1>4, <1>5

\* The parts of a word lie side by side, as many as its turns and one.
PartsSay(str, parts) ==
  /\ parts[1] = 0 /\ parts[Len(parts)] = Len(str) /\ Len(parts) \in Nat
  /\ \A k \in 1..(Len(parts) - 1) : parts[k] < parts[k + 1]
  /\ {parts[k] : k \in 2..(Len(parts) - 1)} = TurnsOf(str, Len(str))
  /\ Len(parts) > SPSTR => Cardinality(TurnsOf(str, Len(str))) >= SPSTR - 1

LEMMA PartsRight ==
  ASSUME NEW str, Len(str) \in Nat, NEW parts, parts = spilitStr(str)
  PROVE  PartsSay(str, parts)
<1> DEFINE f == Cuts(str)
           N == Len(str)
<1>1. /\ f[0] = [flg |-> <<>>, ltype |-> -1] /\ \A n \in 0..N : f[n] \in CutStates
      /\ \A n \in 1..N : f[n] = Cut(f[n - 1], str[n], n - 1)
  BY CutsUnfolds
<1>2. parts = Append(f[N].flg, N)
  BY DEF spilitStr
<1>0. N \in Nat /\ N = Len(str)
  OBVIOUS
<1> HIDE DEF f, N
<1>3. CutsSay(str, N, f[N].flg, f[N].ltype)
  <2> DEFINE Says == {n \in 0..N : CutsSay(str, n, f[n].flg, f[n].ltype)}
  <2>1. 0 \in Says
    BY <1>0, <1>1 DEF CutsSay
  <2>2. ASSUME NEW n \in 0..(N - 1), n \in Says PROVE n + 1 \in Says
    <3>1. /\ n + 1 \in 1..N /\ n + 1 \in 0..N /\ (n + 1) - 1 = n /\ n \in 0..N /\ n \in Nat
      BY <1>0
    <3>2. f[n + 1] = Cut(f[n], str[n + 1], n) /\ f[n] \in CutStates
      BY <1>1, <3>1
    <3>3. CutsSay(str, n, f[n].flg, f[n].ltype)
      BY <2>2
    <3>4. CutsSay(str, n + 1, f[n + 1].flg, f[n + 1].ltype)
      BY <3>1, <3>2, <3>3, CutOne
    <3> QED
      BY <3>1, <3>4
  <2> HIDE DEF Says
  <2>3. N \in Says
    BY <1>0, <2>1, <2>2, StepsSay
  <2> QED
    BY <2>3 DEF Says
<1> DEFINE flg == f[N].flg
<1>4. flg \in Seq(Nat)
  BY <1>0, <1>1 DEF CutStates
<1>5. /\ Len(parts) = Len(flg) + 1 /\ parts[Len(flg) + 1] = N /\ Len(flg) \in Nat
      /\ \A k \in 1..Len(flg) : parts[k] = flg[k]
  <2> HIDE DEF flg
  <2>1. parts = Append(flg, N)
    BY <1>2 DEF flg
  <2>2. flg \in Seq(Nat) /\ N \in Nat
    BY <1>0, <1>4
  <2> QED
    BY <2>1, <2>2
<1>6. CASE N = 0
  <2>1. flg = <<>>
    BY <1>3, <1>6 DEF CutsSay
  <2>2. Len(flg) = 0
    BY <2>1
  <2> HIDE DEF flg
  <2>3. Len(parts) = 1 /\ parts[1] = 0
    BY <1>5, <1>6, <2>2
  <2>4. TurnsOf(str, N) = {} /\ {parts[k] : k \in 2..(Len(parts) - 1)} = {}
    BY <1>6, <2>3 DEF TurnsOf
  <2>5. ~(Len(parts) > SPSTR)
    BY <2>3, TokenizerAssumption
  <2> QED
    BY <1>0, <1>6, <2>3, <2>4, <2>5 DEF PartsSay
<1>7. CASE N # 0
  <2>1. /\ Len(flg) >= 1 /\ flg[1] = 0 /\ flg[Len(flg)] < N
        /\ \A k \in 1..(Len(flg) - 1) : flg[k] < flg[k + 1]
        /\ {flg[k] : k \in 2..Len(flg)} = TurnsOf(str, N)
        /\ Cardinality(TurnsOf(str, N)) = Len(flg) - 1
    BY <1>3, <1>7 DEF CutsSay
  <2> HIDE DEF flg
  <2>2. parts[1] = 0 /\ parts[Len(parts)] = N /\ Len(parts) \in Nat
    BY <1>5, <2>1
  <2>3. \A k \in 1..(Len(parts) - 1) : parts[k] < parts[k + 1]
    <3> SUFFICES ASSUME NEW k \in 1..(Len(parts) - 1) PROVE parts[k] < parts[k + 1]
      OBVIOUS
    <3>1. k \in 1..Len(flg) /\ parts[k] = flg[k]
      BY <1>5
    <3>2. CASE k = Len(flg)
      BY <1>5, <2>1, <3>1, <3>2
    <3>3. CASE k # Len(flg)
      <4>1. k \in 1..(Len(flg) - 1) /\ k + 1 \in 1..Len(flg)
        BY <1>5, <3>1, <3>3
      <4> QED
        BY <1>5, <2>1, <3>1, <4>1
    <3> QED
      BY <3>2, <3>3
  <2>4. {parts[k] : k \in 2..(Len(parts) - 1)} = TurnsOf(str, N)
    <3>1. 2..(Len(parts) - 1) = 2..Len(flg) /\ \A k \in 2..Len(flg) : parts[k] = flg[k]
      BY <1>5
    <3>2. {parts[k] : k \in 2..Len(flg)} = {flg[k] : k \in 2..Len(flg)}
      BY <3>1
    <3> QED
      BY <2>1, <3>1, <3>2
  <2>5. Len(parts) > SPSTR => Cardinality(TurnsOf(str, N)) >= SPSTR - 1
    BY <1>5, <2>1, TokenizerAssumption
  <2> QED
    BY <1>0, <2>2, <2>3, <2>4, <2>5 DEF PartsSay
<1> QED
  BY <1>6, <1>7

--------------------------------------------------------------------------------
(* Characters and places.                                                     *)

LEMMA Classes ==
  /\ \A c : isAsciiOrDigit(c) => ~isDelimiter(c) /\ ~isConnectCh(c) /\ ~isBlank(c)
  /\ \A c : isConnectCh(c) => ~isDelimiter(c) /\ ~isBlank(c) /\ c = "-"
  /\ \A c : isBlank(c) => isDelimiter(c) /\ c = "b"
  /\ \A c \in AnyClass : isAsciiOrDigit(c) \/ isDelimiter(c) \/ isConnectCh(c) \/ c = "%"
  /\ ~isAsciiOrDigit("%") /\ ~isDelimiter("%") /\ ~isConnectCh("%")
  /\ ~isAsciiOrDigit("end") /\ ~isDelimiter("end") /\ ~isConnectCh("end")
  /\ isBlank("b") /\ isConnectCh("-") /\ "b" \in AnyClass /\ "-" \in AnyClass
  /\ "unset" \notin AnyClass
<1>1. /\ \A c : isAsciiOrDigit(c) => ~isDelimiter(c) /\ ~isConnectCh(c) /\ ~isBlank(c)
      /\ \A c : isConnectCh(c) => ~isDelimiter(c) /\ ~isBlank(c) /\ c = "-"
      /\ \A c : isBlank(c) => isDelimiter(c) /\ c = "b"
  BY DEF isAsciiOrDigit, isDelimiter, isConnectCh, isBlank, Upper, Lower, Digits, Quoting
<1>2. \A c \in AnyClass : isAsciiOrDigit(c) \/ isDelimiter(c) \/ isConnectCh(c) \/ c = "%"
  BY DEF AnyClass, isAsciiOrDigit, isDelimiter, isConnectCh
<1>3. /\ ~isAsciiOrDigit("%") /\ ~isDelimiter("%") /\ ~isConnectCh("%")
      /\ ~isAsciiOrDigit("end") /\ ~isDelimiter("end") /\ ~isConnectCh("end")
  BY DEF isAsciiOrDigit, isDelimiter, isConnectCh, Upper, Lower, Digits, Quoting
<1>4. /\ isBlank("b") /\ isConnectCh("-") /\ "b" \in AnyClass /\ "-" \in AnyClass
      /\ "unset" \notin AnyClass
  BY DEF isBlank, isConnectCh, AnyClass, Upper, Lower, Digits, Quoting
<1> QED
  BY <1>1, <1>2, <1>3, <1>4

IsText(t) == Len(t) \in Nat /\ DOMAIN t = 1..Len(t) /\ \A p \in 1..Len(t) : t[p] \in AnyClass

LEMMA Source ==
  ASSUME IsText(text), currentOffset \in 0..Len(text)
  PROVE  /\ len \in Nat /\ len = Len(text) - currentOffset
         /\ \A n \in 0..(len - 1) :
              /\ currentOffset + n + 1 \in 1..Len(text)
              /\ src(n) = text[currentOffset + n + 1] /\ src(n) \in AnyClass
         /\ \A n \in Nat : n >= len => src(n) = "end"
<1>1. len \in Nat /\ len = Len(text) - currentOffset
  BY DEF len, IsText
<1>2. ASSUME NEW n \in 0..(len - 1)
      PROVE  /\ currentOffset + n + 1 \in 1..Len(text)
             /\ src(n) = text[currentOffset + n + 1] /\ src(n) \in AnyClass
  <2>1. n < len /\ currentOffset + n + 1 \in 1..Len(text)
    BY <1>1
  <2>2. src(n) = text[currentOffset + n + 1]
    BY <2>1 DEF src
  <2> QED
    BY <2>1, <2>2 DEF IsText
<1>3. ASSUME NEW n \in Nat, n >= len PROVE src(n) = "end"
  <2>1. ~(n < len)
    BY <1>1, <1>3
  <2> QED
    BY <2>1 DEF src
<1> QED
  BY <1>1, <1>2, <1>3

\* e is the first place from `from' on in S, or the end.
NextIs(from, S, e) ==
  /\ e \in from..len
  /\ e < len => e \in S
  /\ \A n \in from..(e - 1) : n \notin S

LEMMA NextFrom ==
  ASSUME len \in Nat, NEW from \in 0..len, NEW S, NEW e, e = Next1(from, S)
  PROVE  NextIs(from, S, e)
<1> DEFINE T == {n \in from..(len - 1) : n \in S}
<1>1. e = IF T = {} THEN len ELSE Min(T)
  BY DEF Next1
<1>2. CASE T = {}
  <2>1. e = len
    BY <1>1, <1>2
  <2>2. \A n \in from..(e - 1) : n \notin S
    BY <1>2, <2>1
  <2> QED
    BY <2>1, <2>2 DEF NextIs
<1>3. CASE T # {}
  <2>1. T \subseteq Nat
    OBVIOUS
  <2>2. e = Min(T)
    BY <1>1, <1>3
  <2>3. e \in T /\ \A x \in T : e <= x
    BY <1>3, <2>1, <2>2, SmallestExists
  <2>4. e \in from..(len - 1) /\ e \in S
    BY <2>3
  <2>5. \A n \in from..(e - 1) : n \notin S
    <3> SUFFICES ASSUME NEW n \in from..(e - 1), n \in S PROVE FALSE
      OBVIOUS
    <3>1. n \in T /\ n < e
      BY <2>4
    <3>2. e <= n
      BY <2>3, <3>1
    <3> QED
      BY <2>4, <3>1, <3>2
  <2> QED
    BY <2>4, <2>5 DEF NextIs
<1> QED
  BY <1>2, <1>3

IsSequence(s) == Len(s) \in Nat /\ s = [k \in 1..Len(s) |-> s[k]]

LEMMA SequenceForm ==
  ASSUME NEW S, NEW s \in Seq(S)
  PROVE  IsSequence(s)
BY DEF IsSequence

LEMMA Appended ==
  ASSUME NEW s, IsSequence(s), NEW e
  PROVE  /\ IsSequence(Append(s, e)) /\ Len(Append(s, e)) = Len(s) + 1
         /\ \A k \in 1..Len(s) : Append(s, e)[k] = s[k]
         /\ Append(s, e)[Len(s) + 1] = e
<1> DEFINE S == {s[k] : k \in 1..Len(s)} \cup {e}
<1>1. s \in Seq(S) /\ e \in S
  <2>1. Len(s) \in Nat /\ s = [k \in 1..Len(s) |-> s[k]]
    BY DEF IsSequence
  <2>2. \A k \in 1..Len(s) : s[k] \in S
    OBVIOUS
  <2> HIDE DEF S
  <2>3. [k \in 1..Len(s) |-> s[k]] \in Seq(S)
    BY <2>1, <2>2
  <2> QED
    BY <2>1, <2>3 DEF S
<1> HIDE DEF S
<1>2. /\ Append(s, e) \in Seq(S) /\ Len(Append(s, e)) = Len(s) + 1
      /\ \A k \in 1..Len(s) : Append(s, e)[k] = s[k]
      /\ Append(s, e)[Len(s) + 1] = e
  BY <1>1
<1>3. IsSequence(Append(s, e))
  BY <1>2, SequenceForm
<1> QED
  BY <1>2, <1>3

--------------------------------------------------------------------------------
(* The word under way.                                                        *)

\* In the text t, k bytes from o on, the word's characters are at the places d: each
\* letter is in it, and as long as it has not begun (f) there were only delimiters.
Underway(t, o, k, d, f, y) ==
  /\ d \in Seq(1..Len(t)) /\ Len(d) <= SINGLEWORDLEN
  /\ \A m \in 1..Len(d) : d[m] \in (o + 1)..(o + k)
  /\ \A m, n \in 1..Len(d) : m < n => d[m] < d[n]
  /\ \A p \in (o + 1)..(o + k) : isAsciiOrDigit(t[p]) => \E m \in 1..Len(d) : d[m] = p
  /\ f => k > 0
  /\ ~f => d = <<>> /\ \A p \in (o + 1)..(o + k) : isDelimiter(t[p])
  /\ y # 0 => d # <<>>

\* If no connector is pending (c), the last byte was the word's; else it has come after
\* the word's last character.
Straight(t, o, k, d, c) ==
  /\ ~c => d # <<>> /\ d[Len(d)] = o + k
  /\ c => \E p \in (o + 1)..(o + k) : isConnectCh(t[p]) /\ \A m \in 1..Len(d) : d[m] < p

\* Passing bytes that are no letters.
LEMMA Passing ==
  ASSUME NEW t, IsText(t), NEW o \in 0..Len(t), NEW k \in Nat, NEW d, NEW f, NEW y,
         Underway(t, o, k, d, f, y), NEW l \in Nat, k <= l, o + l <= Len(t),
         \A p \in (o + k + 1)..(o + l) : ~isAsciiOrDigit(t[p]),
         NEW g, g => l > 0,
         ~g => ~f /\ \A p \in (o + k + 1)..(o + l) : isDelimiter(t[p])
  PROVE  Underway(t, o, l, d, g, y)
<1>1. Len(d) \in Nat
  BY DEF Underway
<1>2. \A p \in (o + 1)..(o + l) : p \in (o + 1)..(o + k) \/ p \in (o + k + 1)..(o + l)
  BY DEF IsText
<1>3. (o + 1)..(o + k) \subseteq (o + 1)..(o + l)
  BY DEF IsText
<1>4. \A m \in 1..Len(d) : d[m] \in (o + 1)..(o + l)
  BY <1>3 DEF Underway
<1>5. \A p \in (o + 1)..(o + l) : isAsciiOrDigit(t[p]) => \E m \in 1..Len(d) : d[m] = p
  BY <1>2 DEF Underway
<1>6. ~g => d = <<>> /\ \A p \in (o + 1)..(o + l) : isDelimiter(t[p])
  BY <1>2 DEF Underway
<1> QED
  BY <1>4, <1>5, <1>6 DEF Underway

\* Copying a byte.
LEMMA Copying ==
  ASSUME NEW t, IsText(t), NEW o \in 0..Len(t), NEW k \in Nat, NEW d, NEW f, NEW y,
         Underway(t, o, k, d, f, y), NEW l \in Nat, l = k + 1, o + l <= Len(t),
         Len(d) < SINGLEWORDLEN, NEW z, NEW e, e = Append(d, o + l)
  PROVE  Underway(t, o, l, e, TRUE, z) /\ Straight(t, o, l, e, FALSE)
<1>1. d \in Seq(1..Len(t)) /\ Len(d) \in Nat
  BY DEF Underway
<1>2. o + l \in 1..Len(t) /\ Len(t) \in Nat
  BY DEF IsText
<1>3. /\ e \in Seq(1..Len(t)) /\ Len(e) = Len(d) + 1 /\ e[Len(d) + 1] = o + l
      /\ \A m \in 1..Len(d) : e[m] = d[m]
  BY <1>1, <1>2
<1>4. /\ 1..Len(e) = (1..Len(d)) \cup {Len(d) + 1} /\ Len(d) + 1 \notin 1..Len(d)
      /\ (o + 1)..(o + l) = ((o + 1)..(o + k)) \cup {o + l} /\ o + k < o + l
  <2>1. 1..(Len(d) + 1) = (1..Len(d)) \cup {Len(d) + 1} /\ Len(d) + 1 \notin 1..Len(d)
    BY <1>1
  <2>2. (o + 1)..(o + l) = ((o + 1)..(o + k)) \cup {o + l} /\ o + k < o + l
    BY <1>2
  <2> QED
    BY <1>3, <2>1, <2>2
<1>5. \A m \in 1..Len(e) : e[m] \in (o + 1)..(o + l)
  BY <1>3, <1>4 DEF Underway
<1>6. \A m, n \in 1..Len(e) : m < n => e[m] < e[n]
  <2> SUFFICES ASSUME NEW m \in 1..Len(e), NEW n \in 1..Len(e), m < n PROVE e[m] < e[n]
    OBVIOUS
  <2>1. m \in 1..Len(d)
    BY <1>1, <1>3
  <2>2. CASE n \in 1..Len(d)
    BY <1>3, <2>1, <2>2 DEF Underway
  <2>3. CASE n = Len(d) + 1
    <3>1. e[m] = d[m] /\ d[m] \in (o + 1)..(o + k)
      BY <1>3, <2>1 DEF Underway
    <3> QED
      BY <1>2, <1>3, <2>3, <3>1
  <2> QED
    BY <1>4, <2>2, <2>3
<1>7. \A p \in (o + 1)..(o + l) : isAsciiOrDigit(t[p]) => \E m \in 1..Len(e) : e[m] = p
  <2> SUFFICES ASSUME NEW p \in (o + 1)..(o + l), isAsciiOrDigit(t[p])
               PROVE  \E m \in 1..Len(e) : e[m] = p
    OBVIOUS
  <2>1. CASE p = o + l
    BY <1>3, <1>4, <2>1
  <2>2. CASE p \in (o + 1)..(o + k)
    <3>1. PICK m \in 1..Len(d) : d[m] = p
      BY <2>2 DEF Underway
    <3> QED
      BY <1>3, <1>4, <3>1
  <2> QED
    BY <1>4, <2>1, <2>2
<1>8. e # <<>> /\ e[Len(e)] = o + l /\ Len(e) <= SINGLEWORDLEN /\ l > 0
  <2>1. Len(e) # 0
    BY <1>1, <1>3
  <2>2. Len(e) <= SINGLEWORDLEN
    BY <1>1, <1>3, TokenizerAssumption
  <2> QED
    BY <1>3, <2>1, <2>2
<1>9. Underway(t, o, l, e, TRUE, z)
  BY <1>3, <1>5, <1>6, <1>7, <1>8 DEF Underway
<1>10. Straight(t, o, l, e, FALSE)
  BY <1>8 DEF Straight
<1> QED
  BY <1>9, <1>10

--------------------------------------------------------------------------------
(* The loop.                                                                  *)

\* How the loop was left: before a connector and a digit; in a gap behind the word that
\* no connector ends; before a letter of the other kind; at the end.
RangeAt(t, o, k) ==
  k > 0 /\ o + k + 2 <= Len(t) /\ isConnectCh(t[o + k + 1]) /\ DIGITLIKE(t[o + k + 2])

GapAt(t, o, k, d) ==
  /\ o + k < Len(t) /\ isDelimiter(t[o + k + 1])
  /\ d # <<>> /\ d[Len(d)] = o + k
  /\ \E e \in (o + k + 1)..Len(t) :
       /\ \A p \in (o + k + 2)..e : /\ ~isAsciiOrDigit(t[p]) /\ ~isConnectCh(t[p])
                                    /\ isDelimiter(t[p]) => isBlank(t[p])
       /\ e < Len(t) => ~isConnectCh(t[e + 1]) /\ ~isBlank(t[e + 1])

Ended(t, o, k, d, f, c, x) ==
  IF f
  THEN \/ RangeAt(t, o, k) /\ x = "-"
       \/ GapAt(t, o, k, d) /\ x = t[o + k + 1]
       \/ /\ o + k = Len(t) \/ isAsciiOrDigit(t[o + k + 1])
          /\ x = "b" /\ Straight(t, o, k, d, c)
  ELSE o + k = Len(t) \/ RangeAt(t, o, k)

Going(t, o, k, d, f, c, x) ==
  x = "b" /\ (f => Straight(t, o, k, d, c)) /\ (~f => ~c)

Typed ==
  /\ IsText(text) /\ currentOffset \in 0..Len(text) /\ i \in 0..len
  /\ pc \in {"scan", "rest", "stop"} /\ flag \in BOOLEAN /\ connect \in BOOLEAN
  /\ datatype \in 0..2 /\ nextdeli \in AnyClass /\ mpredeli \in AnyClass \cup {"unset"}

Loop ==
  /\ Typed
  /\ Underway(text, currentOffset, i, dest, flag, datatype)
  /\ pc = "scan" => Going(text, currentOffset, i, dest, flag, connect, nextdeli)
  /\ pc = "rest" => Ended(text, currentOffset, i, dest, flag, connect, nextdeli)

\* The facts the steps of the loop start from.
LEMMA Here ==
  ASSUME Loop
  PROVE  /\ Typed /\ len \in Nat /\ len = Len(text) - currentOffset /\ i \in 0..len
         /\ Len(text) \in Nat /\ currentOffset \in 0..Len(text)
         /\ i < len => /\ currentOffset + i + 1 \in 1..Len(text)
                       /\ src(i) = text[currentOffset + i + 1] /\ src(i) \in AnyClass
         /\ \A n \in 0..(len - 1) :
              /\ currentOffset + n + 1 \in 1..Len(text)
              /\ src(n) = text[currentOffset + n + 1] /\ src(n) \in AnyClass
         /\ \A n \in Nat : n >= len => src(n) = "end"
<1>1. IsText(text) /\ currentOffset \in 0..Len(text) /\ i \in 0..len
  BY DEF Loop, Typed
<1>2. /\ len \in Nat /\ len = Len(text) - currentOffset
      /\ \A n \in 0..(len - 1) :
           /\ currentOffset + n + 1 \in 1..Len(text)
           /\ src(n) = text[currentOffset + n + 1] /\ src(n) \in AnyClass
      /\ \A n \in Nat : n >= len => src(n) = "end"
  BY <1>1, Source
<1>3. i < len => i \in 0..(len - 1)
  BY <1>1, <1>2
<1> QED
  BY <1>1, <1>2, <1>3 DEF Loop, IsText

LEMMA RangeEnds ==
  ASSUME Loop, BreakAtRange, UNCHANGED <<text, currentOffset, mpredeli>>
  PROVE  Loop'
<1>1. /\ pc = "scan" /\ i < len /\ isConnectCh(src(i)) /\ i > 0 /\ DIGITLIKE(src(i + 1))
      /\ pc' = "rest" /\ nextdeli' = "-" /\ connect' = FALSE
      /\ i' = i /\ dest' = dest /\ flag' = flag /\ datatype' = datatype
      /\ text' = text /\ currentOffset' = currentOffset /\ mpredeli' = mpredeli
  BY DEF BreakAtRange, Scanning, AtRange, Break
<1>2. /\ len \in Nat /\ len = Len(text) - currentOffset /\ i \in 0..len
      /\ Len(text) \in Nat /\ currentOffset \in 0..Len(text)
      /\ src(i) = text[currentOffset + i + 1]
      /\ \A n \in 0..(len - 1) : src(n) = text[currentOffset + n + 1]
      /\ \A n \in Nat : n >= len => src(n) = "end"
  BY <1>1, Here
<1>3. i + 1 < len
  <2>1. i + 1 >= len => src(i + 1) = "end"
    BY <1>2
  <2>2. ~DIGITLIKE("end")
    BY DEF DIGITLIKE
  <2> QED
    BY <1>1, <1>2, <2>1, <2>2
<1>4. src(i + 1) = text[currentOffset + i + 2]
  <2>1. i + 1 \in 0..(len - 1) /\ currentOffset + (i + 1) + 1 = currentOffset + i + 2
    BY <1>2, <1>3
  <2> QED
    BY <1>2, <2>1
<1>5. RangeAt(text, currentOffset, i)
  BY <1>1, <1>2, <1>3, <1>4 DEF RangeAt
<1>6. Typed'
  BY <1>1, Classes DEF Loop, Typed, len
<1>7. Ended(text, currentOffset, i, dest, flag, FALSE, "-")
  BY <1>5 DEF Ended
<1> QED
  BY <1>1, <1>6, <1>7 DEF Loop

LEMMA TextEnds ==
  ASSUME Loop, EndOfText, UNCHANGED <<text, currentOffset, mpredeli>>
  PROVE  Loop'
<1>1. /\ pc = "scan" /\ i >= len /\ pc' = "rest" /\ nextdeli' = nextdeli /\ connect' = connect
      /\ i' = i /\ dest' = dest /\ flag' = flag /\ datatype' = datatype
      /\ text' = text /\ currentOffset' = currentOffset /\ mpredeli' = mpredeli
  BY DEF EndOfText, locals
<1>2. currentOffset + i = Len(text)
  BY <1>1, Here
<1>3. Going(text, currentOffset, i, dest, flag, connect, nextdeli)
  BY <1>1 DEF Loop
<1>4. Ended(text, currentOffset, i, dest, flag, connect, nextdeli)
  BY <1>2, <1>3 DEF Ended, Going
<1>5. Typed'
  BY <1>1 DEF Loop, Typed, len
<1> QED
  BY <1>1, <1>4, <1>5 DEF Loop

LEMMA TypeEnds ==
  ASSUME Loop, BreakAtType, UNCHANGED <<text, currentOffset, mpredeli>>
  PROVE  Loop'
<1>1. /\ pc = "scan" /\ i < len /\ flag /\ checkCharType(src(i)) # 0
      /\ pc' = "rest" /\ nextdeli' = nextdeli /\ connect' = Connected
      /\ i' = i /\ dest' = dest /\ flag' = flag /\ datatype' = datatype
      /\ text' = text /\ currentOffset' = currentOffset /\ mpredeli' = mpredeli
  BY DEF BreakAtType, Scanning, AtOtherType, Break
<1>2. isAsciiOrDigit(src(i)) /\ ~isConnectCh(src(i))
  BY <1>1 DEF checkCharType, isAsciiOrDigit, isConnectCh, Upper, Lower, Digits
<1>3. connect' = connect
  <2>1. connect \in BOOLEAN
    BY DEF Loop, Typed
  <2> QED
    BY <1>1, <1>2, <2>1 DEF Connected
<1>4. isAsciiOrDigit(text[currentOffset + i + 1])
  BY <1>1, <1>2, Here
<1>5. Going(text, currentOffset, i, dest, flag, connect, nextdeli)
  BY <1>1 DEF Loop
<1>6. Ended(text, currentOffset, i, dest, flag, connect, nextdeli)
  BY <1>1, <1>4, <1>5 DEF Ended, Going
<1>7. Typed'
  BY <1>1, <1>3 DEF Loop, Typed, len
<1> QED
  BY <1>1, <1>3, <1>6, <1>7 DEF Loop

\* Behind a gap the search has stopped at the end, at a letter, at a connector or at a
\* sign; it has passed none.
LEMMA GapEndSays ==
  ASSUME Loop, i < len, NEW e, e = GapEnd
  PROVE  /\ e \in (i + 1)..len
         /\ \A n \in (i + 1)..(e - 1) :
              /\ ~isAsciiOrDigit(src(n)) /\ ~isConnectCh(src(n))
              /\ isDelimiter(src(n)) => isBlank(src(n))
         /\ e < len => \/ isAsciiOrDigit(src(e)) \/ isConnectCh(src(e))
                       \/ isDelimiter(src(e)) /\ ~isBlank(src(e))
<1> DEFINE S == Where(isAsciiOrDigit) \cup Where(isConnectCh)
                  \cup (Where(isDelimiter) \ Where(isBlank))
<1>1. len \in Nat /\ i \in 0..len /\ i + 1 \in 0..len
  BY Here
<1>2. e = Next1(i + 1, S)
  BY DEF GapEnd
<1>3. \A n \in 0..(len - 1) :
        n \in S <=> \/ isAsciiOrDigit(src(n)) \/ isConnectCh(src(n))
                    \/ isDelimiter(src(n)) /\ ~isBlank(src(n))
  BY DEF Where
<1> HIDE DEF S
<1>4. NextIs(i + 1, S, e)
  BY <1>1, <1>2, NextFrom
<1>5. e \in (i + 1)..len /\ (e < len => e \in S) /\ \A n \in (i + 1)..(e - 1) : n \notin S
  BY <1>4 DEF NextIs
<1>6. \A n \in (i + 1)..(e - 1) : n \in 0..(len - 1)
  BY <1>1, <1>5
<1>7. e < len => e \in 0..(len - 1)
  BY <1>1, <1>5
<1> QED
  BY <1>3, <1>5, <1>6, <1>7

LEMMA GapEnds ==
  ASSUME Loop, BreakAtGap, UNCHANGED <<text, currentOffset, mpredeli>>
  PROVE  Loop'
<1> DEFINE o == currentOffset
           g == GapEnd
<1>1. /\ pc = "scan" /\ i < len /\ AtGap /\ ~isConnectCh(src(g))
      /\ pc' = "rest" /\ nextdeli' = src(i) /\ connect' = connect
      /\ i' = i /\ dest' = dest /\ flag' = flag /\ datatype' = datatype
      /\ text' = text /\ currentOffset' = currentOffset /\ mpredeli' = mpredeli
  BY DEF BreakAtGap, Scanning, Break
<1>2. flag /\ isDelimiter(src(i)) /\ ~connect
  BY <1>1 DEF AtGap, Connected
<1>3. /\ len \in Nat /\ len = Len(text) - o /\ i \in 0..len
      /\ Len(text) \in Nat /\ o \in 0..Len(text)
      /\ src(i) = text[o + i + 1] /\ src(i) \in AnyClass
      /\ \A n \in 0..(len - 1) : src(n) = text[o + n + 1]
  BY <1>1, Here
<1>4. /\ g \in (i + 1)..len
      /\ \A n \in (i + 1)..(g - 1) :
           /\ ~isAsciiOrDigit(src(n)) /\ ~isConnectCh(src(n))
           /\ isDelimiter(src(n)) => isBlank(src(n))
      /\ g < len => \/ isAsciiOrDigit(src(g)) \/ isConnectCh(src(g))
                    \/ isDelimiter(src(g)) /\ ~isBlank(src(g))
  BY <1>1, GapEndSays
<1> HIDE DEF g, o
<1>5. Straight(text, o, i, dest, connect)
  BY <1>1, <1>2 DEF Loop, Going, o
<1>6. GapAt(text, o, i, dest)
  <2>1. o + i < Len(text) /\ isDelimiter(text[o + i + 1])
    BY <1>1, <1>2, <1>3
  <2>2. dest # <<>> /\ dest[Len(dest)] = o + i
    BY <1>2, <1>5 DEF Straight
  <2>3. o + g \in (o + i + 1)..Len(text)
    BY <1>3, <1>4
  <2>4. ASSUME NEW p \in (o + i + 2)..(o + g)
        PROVE  /\ ~isAsciiOrDigit(text[p]) /\ ~isConnectCh(text[p])
               /\ isDelimiter(text[p]) => isBlank(text[p])
    <3> DEFINE n == p - o - 1
    <3>1. n \in (i + 1)..(g - 1) /\ n \in 0..(len - 1) /\ o + n + 1 = p
      BY <1>3, <1>4
    <3> HIDE DEF n
    <3>2. src(n) = text[p]
      BY <1>3, <3>1
    <3> QED
      BY <1>4, <3>1, <3>2
  <2>5. ASSUME o + g < Len(text)
        PROVE  ~isConnectCh(text[o + g + 1]) /\ ~isBlank(text[o + g + 1])
    <3>1. g < len /\ g \in 0..(len - 1)
      BY <1>3, <1>4, <2>5
    <3>2. src(g) = text[o + g + 1]
      BY <1>3, <3>1
    <3>3. ~isBlank(src(g))
      BY <1>1, <1>4, <3>1, Classes
    <3> QED
      BY <1>1, <3>2, <3>3
  <2> QED
    BY <2>1, <2>2, <2>3, <2>4, <2>5 DEF GapAt
<1>7. Ended(text, o, i, dest, flag, connect, nextdeli')
  BY <1>1, <1>2, <1>3, <1>6 DEF Ended
<1>8. Typed'
  BY <1>1, <1>3 DEF Loop, Typed, len
<1> QED
  BY <1>1, <1>7, <1>8 DEF Loop, o

LEMMA GapJoined ==
  ASSUME Loop, JoinOverGap, UNCHANGED <<text, currentOffset, mpredeli>>
  PROVE  Loop'
<1> DEFINE o == currentOffset
           g == GapEnd
           l == g + 1
<1>1. /\ pc = "scan" /\ i < len /\ AtGap /\ isConnectCh(src(g))
      /\ pc' = pc /\ nextdeli' = nextdeli /\ connect' = TRUE
      /\ i' = l /\ dest' = dest /\ flag' = flag /\ datatype' = datatype
      /\ text' = text /\ currentOffset' = currentOffset /\ mpredeli' = mpredeli
  BY DEF JoinOverGap, Scanning
<1>2. flag /\ isDelimiter(src(i))
  BY <1>1 DEF AtGap
<1>3. /\ len \in Nat /\ len = Len(text) - o /\ i \in 0..len
      /\ Len(text) \in Nat /\ o \in 0..Len(text) /\ IsText(text)
      /\ src(i) = text[o + i + 1]
      /\ \A n \in 0..(len - 1) : src(n) = text[o + n + 1]
      /\ \A n \in Nat : n >= len => src(n) = "end"
  BY <1>1, Here DEF Typed
<1>4. /\ g \in (i + 1)..len
      /\ \A n \in (i + 1)..(g - 1) : ~isAsciiOrDigit(src(n))
  BY <1>1, GapEndSays
<1> HIDE DEF g
<1>5. g < len
  BY <1>1, <1>3, <1>4, Classes
<1>6. /\ l \in Nat /\ l \in 0..len /\ i <= l /\ o + l <= Len(text) /\ l > 0
      /\ o + l \in (o + 1)..(o + l)
  BY <1>3, <1>4, <1>5
<1>7. isConnectCh(text[o + l])
  <2>1. g \in 0..(len - 1) /\ o + g + 1 = o + l
    BY <1>3, <1>4, <1>5
  <2> QED
    BY <1>1, <1>3, <2>1
<1>8. ASSUME NEW p \in (o + i + 1)..(o + l) PROVE ~isAsciiOrDigit(text[p])
  <2> DEFINE n == p - o - 1
  <2>1. n \in i..g /\ n \in 0..(len - 1) /\ o + n + 1 = p
    BY <1>3, <1>4, <1>5
  <2> HIDE DEF n
  <2>2. src(n) = text[p]
    BY <1>3, <2>1
  <2>3. CASE n = i
    BY <1>2, <2>2, <2>3, Classes
  <2>4. CASE n = g
    BY <1>1, <2>2, <2>4, Classes
  <2>5. CASE n # i /\ n # g
    <3>1. n \in (i + 1)..(g - 1)
      BY <1>3, <1>4, <2>1, <2>5
    <3> QED
      BY <1>4, <2>2, <3>1
  <2> QED
    BY <2>3, <2>4, <2>5
<1>9. Underway(text, o, i, dest, flag, datatype)
  BY DEF Loop
<1> HIDE DEF o, l
<1>10. Underway(text, o, l, dest, flag, datatype)
  <2>1. i \in Nat
    BY <1>3
  <2> QED
    BY <1>2, <1>3, <1>6, <1>8, <1>9, <2>1, Passing
<1>11. Straight(text, o, l, dest, TRUE)
  <2>1. \A m \in 1..Len(dest) : dest[m] < o + l
    <3> SUFFICES ASSUME NEW m \in 1..Len(dest) PROVE dest[m] < o + l
      OBVIOUS
    <3>1. dest[m] \in (o + 1)..(o + i)
      BY <1>9 DEF Underway
    <3> QED
      BY <1>3, <1>4, <1>5, <3>1 DEF l
  <2> QED
    BY <1>6, <1>7, <2>1 DEF Straight
<1>12. Going(text, o, l, dest, flag, TRUE, nextdeli)
  <2>1. nextdeli = "b"
    BY <1>1 DEF Loop, Going
  <2> QED
    BY <1>2, <1>11, <2>1 DEF Going
<1>13. Typed'
  BY <1>1, <1>6 DEF Loop, Typed, len
<1> QED
  BY <1>1, <1>10, <1>12, <1>13 DEF Loop, o

LEMMA SignSkipped ==
  ASSUME Loop, SkipSign, UNCHANGED <<text, currentOffset, mpredeli>>
  PROVE  Loop'
<1> DEFINE o == currentOffset
           l == i + 1
           g == flag \/ ~isDelimiter(src(i))
<1>1. /\ pc = "scan" /\ i < len /\ ~AtGap /\ AtSign
      /\ pc' = pc /\ nextdeli' = nextdeli /\ connect' = Connected /\ flag' = g
      /\ i' = l /\ dest' = dest /\ datatype' = datatype
      /\ text' = text /\ currentOffset' = currentOffset /\ mpredeli' = mpredeli
  BY DEF SkipSign, Scanning
<1>2. /\ len \in Nat /\ len = Len(text) - o /\ i \in 0..len
      /\ Len(text) \in Nat /\ o \in 0..Len(text) /\ IsText(text)
      /\ src(i) = text[o + i + 1] /\ o + l \in 1..Len(text)
  BY <1>1, Here DEF Typed
<1>3. l \in Nat /\ l \in 0..len /\ i <= l /\ o + l <= Len(text) /\ l > 0 /\ i \in Nat
  BY <1>1, <1>2
<1>4. isDelimiter(src(i)) \/ isConnectCh(src(i))
  BY <1>1 DEF AtSign
<1>5. ~isAsciiOrDigit(src(i)) /\ (isConnectCh(src(i)) => ~isDelimiter(src(i)))
  BY <1>4, Classes
<1>6. \A p \in (o + i + 1)..(o + l) : p = o + i + 1
  BY <1>2, <1>3
<1>7. Underway(text, o, i, dest, flag, datatype)
      /\ Going(text, o, i, dest, flag, connect, nextdeli)
      /\ flag \in BOOLEAN /\ connect \in BOOLEAN
  BY <1>1 DEF Loop, Typed
<1>8. g \in BOOLEAN /\ Connected \in BOOLEAN
  BY <1>7 DEF Connected, isConnectCh
<1> HIDE DEF o, l
<1>9. Underway(text, o, l, dest, g, datatype)
  <2>1. \A p \in (o + i + 1)..(o + l) : ~isAsciiOrDigit(text[p])
    BY <1>2, <1>5, <1>6
  <2>2. ~g => ~flag /\ \A p \in (o + i + 1)..(o + l) : isDelimiter(text[p])
    BY <1>2, <1>6
  <2> HIDE DEF g
  <2> QED
    BY <1>2, <1>3, <1>7, <2>1, <2>2, Passing
<1>10. Going(text, o, l, dest, g, Connected, nextdeli)
  <2>1. nextdeli = "b"
    BY <1>7 DEF Going
  <2>2. ASSUME g PROVE Straight(text, o, l, dest, Connected)
    <3>1. Connected
      BY <1>1, <1>4, <2>2 DEF AtGap, Connected
    <3>2. \E p \in (o + 1)..(o + l) : isConnectCh(text[p]) /\ \A m \in 1..Len(dest) : dest[m] < p
      <4>1. CASE isConnectCh(src(i))
        <5>1. o + l \in (o + 1)..(o + l) /\ isConnectCh(text[o + l])
          BY <1>2, <1>3, <4>1 DEF l
        <5>2. \A m \in 1..Len(dest) : dest[m] < o + l
          <6> SUFFICES ASSUME NEW m \in 1..Len(dest) PROVE dest[m] < o + l
            OBVIOUS
          <6>1. dest[m] \in (o + 1)..(o + i)
            BY <1>7 DEF Underway
          <6> QED
            BY <1>2, <6>1 DEF l
        <5> QED
          BY <5>1, <5>2
      <4>2. CASE ~isConnectCh(src(i))
        <5>1. connect /\ flag
          BY <1>4, <1>7, <2>2, <3>1, <4>2 DEF Connected, Going
        <5>2. PICK p \in (o + 1)..(o + i) :
                isConnectCh(text[p]) /\ \A m \in 1..Len(dest) : dest[m] < p
          BY <1>7, <5>1 DEF Going, Straight
        <5>3. p \in (o + 1)..(o + l)
          BY <1>2 DEF l
        <5> QED
          BY <5>2, <5>3
      <4> QED
        BY <4>1, <4>2
    <3> QED
      BY <3>1, <3>2 DEF Straight
  <2>3. ASSUME ~g PROVE ~Connected
    BY <1>5, <1>7, <2>3 DEF Connected, Going
  <2> QED
    BY <2>1, <2>2, <2>3 DEF Going
<1> HIDE DEF g
<1>11. Typed'
  BY <1>1, <1>3, <1>8 DEF Loop, Typed, len
<1> QED
  BY <1>1, <1>9, <1>10, <1>11 DEF Loop, o

LEMMA WordTooLong ==
  ASSUME Loop, TooLong, UNCHANGED <<text, currentOffset, mpredeli>>
  PROVE  Loop' /\ Len(dest') = SINGLEWORDLEN
<1> DEFINE o == currentOffset
<1>1. /\ pc = "scan" /\ i < len /\ Len(dest) >= SINGLEWORDLEN
      /\ pc' = "stop" /\ nextdeli' = nextdeli /\ connect' = connect /\ flag' = TRUE
      /\ i' = i /\ dest' = dest /\ datatype' = datatype
      /\ text' = text /\ currentOffset' = currentOffset /\ mpredeli' = mpredeli
  BY DEF TooLong, Scanning
<1>2. Underway(text, o, i, dest, flag, datatype) /\ i \in Nat /\ o \in Nat
  BY Here DEF Loop
<1>3. Len(dest) \in Nat /\ Len(dest) = SINGLEWORDLEN /\ Len(dest) > 0
  BY <1>1, <1>2, TokenizerAssumption DEF Underway
<1>4. i > 0 /\ dest # <<>>
  <2>1. dest[1] \in (o + 1)..(o + i)
    BY <1>2, <1>3 DEF Underway
  <2> QED
    BY <1>2, <1>3, <2>1
<1>5. Underway(text, o, i, dest, TRUE, datatype)
  BY <1>2, <1>4 DEF Underway
<1>6. Typed'
  BY <1>1 DEF Loop, Typed, len
<1> QED
  BY <1>1, <1>3, <1>5, <1>6 DEF Loop, o

LEMMA ByteCopied ==
  ASSUME Loop, Copy, UNCHANGED <<text, currentOffset, mpredeli>>
  PROVE  Loop'
<1> DEFINE o == currentOffset
           l == i + 1
           y == checkCharType(src(i))
<1>1. /\ pc = "scan" /\ i < len /\ Len(dest) < SINGLEWORDLEN
      /\ pc' = pc /\ nextdeli' = nextdeli /\ connect' = FALSE /\ flag' = TRUE
      /\ i' = l /\ dest' = Append(dest, o + l) /\ datatype' = y
      /\ text' = text /\ currentOffset' = currentOffset /\ mpredeli' = mpredeli
  <2>1. o \in Nat /\ i \in Nat
    BY Here
  <2>2. o + i + 1 = o + l
    BY <2>1
  <2> QED
    BY <2>2 DEF Copy, Scanning
<1>2. /\ len \in Nat /\ len = Len(text) - o /\ i \in 0..len
      /\ Len(text) \in Nat /\ o \in 0..Len(text) /\ IsText(text)
  BY <1>1, Here DEF Typed
<1>3. l \in Nat /\ l \in 0..len /\ o + l <= Len(text) /\ i \in Nat
  BY <1>1, <1>2
<1>4. y \in 0..2
  BY DEF checkCharType
<1>5. Underway(text, o, i, dest, flag, datatype) /\ nextdeli = "b"
  BY <1>1 DEF Loop, Going
<1> DEFINE e == Append(dest, o + l)
<1>6. l = i + 1 /\ e = Append(dest, o + l)
  OBVIOUS
<1> HIDE DEF o, l, y, e
<1>7. Underway(text, o, l, e, TRUE, y) /\ Straight(text, o, l, e, FALSE)
  BY <1>1, <1>2, <1>3, <1>5, <1>6, Copying
<1>8. Going(text, o, l, e, TRUE, FALSE, nextdeli)
  BY <1>5, <1>7 DEF Going
<1>9. Typed'
  BY <1>1, <1>3, <1>4 DEF Loop, Typed, len
<1> QED
  BY <1>1, <1>6, <1>7, <1>8, <1>9 DEF Loop, o

--------------------------------------------------------------------------------
(* A word is returned.                                                        *)

\* Behind the word come b - i blanks and connectors, then t - b delimiters.
TakenSays(b, t) ==
  /\ b \in i..len /\ t \in b..len
  /\ \A n \in i..(b - 1) : isBlank(src(n)) \/ isConnectCh(src(n))
  /\ \A n \in b..(t - 1) : isDelimiter(src(n))
  /\ t < len => ~isDelimiter(src(t))
  /\ IF isBlank(nextdeli) THEN b < len => ~isBlank(src(b)) /\ ~isConnectCh(src(b))
     ELSE b = i

LEMMA BytesTaken ==
  ASSUME Loop
  PROVE  TakenSays(Behind, Taken)
<1> DEFINE P == (0..(len - 1)) \ (Where(isBlank) \cup Where(isConnectCh))
           Q == (0..(len - 1)) \ Where(isDelimiter)
           b == Behind
           t == Taken
<1>1. len \in Nat /\ i \in 0..len
  BY Here
<1>2. \A n \in 0..(len - 1) : n \in P <=> ~isBlank(src(n)) /\ ~isConnectCh(src(n))
  BY DEF Where
<1>3. \A n \in 0..(len - 1) : n \in Q <=> ~isDelimiter(src(n))
  BY DEF Where
<1>4. b = IF isBlank(nextdeli) THEN Next1(i, P) ELSE i
  BY DEF Behind
<1>5. t = Next1(b, Q)
  BY DEF Taken
<1> HIDE DEF P, Q, b, t
<1>6. isBlank(nextdeli) => NextIs(i, P, b)
  BY <1>1, <1>4, NextFrom
<1>7. /\ b \in i..len /\ \A n \in i..(b - 1) : isBlank(src(n)) \/ isConnectCh(src(n))
      /\ IF isBlank(nextdeli) THEN b < len => ~isBlank(src(b)) /\ ~isConnectCh(src(b))
         ELSE b = i
  <2>1. CASE isBlank(nextdeli)
    <3>1. b \in i..len /\ (b < len => b \in P) /\ \A n \in i..(b - 1) : n \notin P
      BY <1>6, <2>1 DEF NextIs
    <3>2. \A n \in i..(b - 1) : n \in 0..(len - 1)
      BY <1>1, <3>1
    <3>3. b < len => b \in 0..(len - 1)
      BY <1>1, <3>1
    <3> QED
      BY <1>2, <2>1, <3>1, <3>2, <3>3
  <2>2. CASE ~isBlank(nextdeli)
    BY <1>1, <1>4, <2>2
  <2> QED
    BY <2>1, <2>2
<1>8. NextIs(b, Q, t)
  BY <1>1, <1>5, <1>7, NextFrom
<1>9. /\ t \in b..len /\ \A n \in b..(t - 1) : isDelimiter(src(n))
      /\ t < len => ~isDelimiter(src(t))
  <2>1. t \in b..len /\ (t < len => t \in Q) /\ \A n \in b..(t - 1) : n \notin Q
    BY <1>8 DEF NextIs
  <2>2. \A n \in b..(t - 1) : n \in 0..(len - 1)
    BY <1>1, <1>7, <2>1
  <2>3. t < len => t \in 0..(len - 1)
    BY <1>1, <1>7, <2>1
  <2> QED
    BY <1>3, <2>1, <2>2, <2>3
<1> QED
  BY <1>7, <1>9 DEF TakenSays, b, t

\* The bytes behind the last character of a word, and the signs among them.
AfterOf(d, from, to) == {p \in (from + 1)..to : \A m \in DOMAIN d : d[m] < p}
SignsOf(t, A) == {p \in A : isDelimiter(t[p]) /\ ~isBlank(t[p])}
Apart(t, A) == \A p \in A : ~isConnectCh(t[p])

\* How the delimiter noted for the words to come changes with one that ends with the
\* bytes of A and the delimiter x.
TailSays(t, A, x, old, new) ==
  \/ isBlank(x) /\ new = old /\ (~Apart(t, A) \/ SignsOf(t, A) = {})
  \/ x \in {"-", "%"} /\ new = "unset"
  \/ /\ Apart(t, A) /\ SignsOf(t, A) # {} /\ new = t[Max(SignsOf(t, A))]
     /\ new \in AnyClass \ {"b"}

\* The bytes after a word whose last character the loop has just passed.
LEMMA AfterLast ==
  ASSUME NEW t, NEW o \in Nat, NEW k \in Nat, NEW d, NEW f, NEW y, Underway(t, o, k, d, f, y),
         d # <<>>, d[Len(d)] = o + k, NEW to \in Nat
  PROVE  AfterOf(d, o, to) = (o + k + 1)..to
<1>1. d \in Seq(1..Len(t)) /\ Len(d) \in Nat /\ DOMAIN d = 1..Len(d) /\ Len(d) \in 1..Len(d)
  BY DEF Underway
<1>2. \A m \in 1..Len(d) : d[m] \in (o + 1)..(o + k)
  BY DEF Underway
<1>3. ASSUME NEW p \in AfterOf(d, o, to) PROVE p \in (o + k + 1)..to
  <2>1. p \in (o + 1)..to /\ d[Len(d)] < p
    BY <1>1 DEF AfterOf
  <2> QED
    BY <2>1
<1>4. ASSUME NEW p \in (o + k + 1)..to PROVE p \in AfterOf(d, o, to)
  <2>1. p \in (o + 1)..to
    OBVIOUS
  <2>2. \A m \in 1..Len(d) : d[m] < p
    BY <1>2
  <2> QED
    BY <1>1, <2>1, <2>2 DEF AfterOf
<1> QED
  BY <1>3, <1>4

\* A word with no sign behind it, or none but those about a connector.
LEMMA PlainTail ==
  ASSUME Loop, NEW A, A = AfterOf(dest, currentOffset, currentOffset + i),
         Straight(text, currentOffset, i, dest, connect)
  PROVE  ~Apart(text, A) \/ A = {}
<1> DEFINE o == currentOffset
<1>1. Underway(text, o, i, dest, flag, datatype) /\ o \in Nat /\ i \in Nat /\ o + i \in Nat
  <2>1. o \in Nat /\ i \in Nat
    BY Here
  <2>2. Underway(text, o, i, dest, flag, datatype)
    BY DEF Loop
  <2> QED
    BY <2>1, <2>2
<1>2. DOMAIN dest = 1..Len(dest)
  BY <1>1 DEF Underway
<1>3. CASE connect
  <2>1. PICK p \in (o + 1)..(o + i) : isConnectCh(text[p]) /\ \A m \in 1..Len(dest) : dest[m] < p
    BY <1>3 DEF Straight
  <2>2. p \in A
    BY <1>2, <2>1 DEF AfterOf
  <2> QED
    BY <2>1, <2>2 DEF Apart
<1>4. CASE ~connect
  <2>1. dest # <<>> /\ dest[Len(dest)] = o + i
    BY <1>4 DEF Straight
  <2>2. A = (o + i + 1)..(o + i)
    BY <1>1, <2>1, AfterLast
  <2> QED
    BY <1>1, <2>2
<1> QED
  BY <1>3, <1>4

\* After a gap that no connector ends, the delimiters are looked for in it only.
LEMMA GapTail ==
  ASSUME Loop, GapAt(text, currentOffset, i, dest), nextdeli = text[currentOffset + i + 1],
         NEW b, NEW t, TakenSays(b, t)
  PROVE  /\ \A n \in i..(t - 1) : isDelimiter(src(n))
         /\ \A n \in i..(b - 1) : isBlank(src(n))
         /\ ~isBlank(nextdeli) => b = i /\ t > b
<1> DEFINE o == currentOffset
<1>1. /\ len \in Nat /\ len = Len(text) - o /\ i \in 0..len
      /\ Len(text) \in Nat /\ o \in 0..Len(text)
      /\ \A n \in 0..(len - 1) : src(n) = text[o + n + 1]
  BY Here
<1>2. /\ b \in i..len /\ t \in b..len
      /\ \A n \in i..(b - 1) : isBlank(src(n)) \/ isConnectCh(src(n))
      /\ \A n \in b..(t - 1) : isDelimiter(src(n))
      /\ t < len => ~isDelimiter(src(t))
      /\ isBlank(nextdeli) => (b < len => ~isBlank(src(b)) /\ ~isConnectCh(src(b)))
      /\ ~isBlank(nextdeli) => b = i
  BY DEF TakenSays
<1> HIDE DEF o
<1>3. o + i < Len(text) /\ isDelimiter(text[o + i + 1])
  BY DEF GapAt, o
<1>4. i < len /\ i \in 0..(len - 1) /\ src(i) = text[o + i + 1] /\ nextdeli = src(i)
  BY <1>1, <1>3 DEF o
<1>5. ~isBlank(nextdeli) => b = i /\ t > b
  <2>1. t # i \/ isBlank(nextdeli)
    BY <1>2, <1>3, <1>4
  <2> QED
    BY <1>1, <1>2, <2>1
<1>6. CASE ~isBlank(nextdeli)
  <2>1. b = i
    BY <1>5, <1>6
  <2>2. \A n \in i..(b - 1) : isBlank(src(n))
    BY <1>1, <2>1
  <2> QED
    BY <1>2, <1>5, <2>1, <2>2
<1>7. CASE isBlank(nextdeli)
  <2>1. PICK e \in (o + i + 1)..Len(text) :
          /\ \A p \in (o + i + 2)..e : /\ ~isAsciiOrDigit(text[p]) /\ ~isConnectCh(text[p])
                                       /\ isDelimiter(text[p]) => isBlank(text[p])
          /\ e < Len(text) => ~isConnectCh(text[e + 1]) /\ ~isBlank(text[e + 1])
    BY DEF GapAt, o
  <2> DEFINE g == e - o
  <2>2. g \in (i + 1)..len /\ o + g = e
    BY <1>1, <2>1
  <2>3. g < len => ~isConnectCh(src(g)) /\ ~isBlank(src(g))
    <3>1. g < len => g \in 0..(len - 1) /\ o + g + 1 = e + 1 /\ e < Len(text)
      BY <1>1, <2>1, <2>2
    <3> HIDE DEF g
    <3> QED
      BY <1>1, <2>1, <3>1
  <2> HIDE DEF g
  <2>4. b <= g
    <3> SUFFICES ASSUME g < b PROVE FALSE
      BY <1>1, <1>2, <2>2
    <3>1. g \in i..(b - 1) /\ g < len
      BY <1>1, <1>2, <2>2
    <3> QED
      BY <1>2, <2>3, <3>1
  <2>5. ASSUME NEW n \in i..(b - 1) PROVE isBlank(src(n))
    <3>1. CASE n = i
      BY <1>4, <1>7, <3>1
    <3>2. CASE n # i
      <4>1. /\ n \in 0..(len - 1) /\ o + n + 1 \in (o + i + 2)..e
        BY <1>1, <1>2, <2>2, <2>4, <3>2
      <4>2. ~isConnectCh(src(n))
        BY <1>1, <2>1, <4>1
      <4> QED
        BY <1>2, <4>2
    <3> QED
      BY <3>1, <3>2
  <2>6. ASSUME NEW n \in i..(t - 1) PROVE isDelimiter(src(n))
    <3>1. CASE n < b
      <4>1. n \in i..(b - 1)
        BY <1>1, <1>2, <3>1
      <4> QED
        BY <2>5, <4>1, Classes
    <3>2. CASE ~(n < b)
      <4>1. n \in b..(t - 1)
        BY <1>1, <1>2, <3>2
      <4> QED
        BY <1>2, <4>1
    <3> QED
      BY <3>1, <3>2
  <2> QED
    BY <1>7, <2>5, <2>6
<1> QED
  BY <1>5, <1>6, <1>7

\* The delimiter and the one noted for the next word, in the terms of TakenSays.
DelimiterIs(b, x) ==
  x = IF isBlank(nextdeli) /\ b < len /\ ~isAsciiOrDigit(src(b)) THEN src(b) ELSE nextdeli

NextIsNoted(b, t, x, new) ==
  LET S == {n \in b..(t - 1) : ~isBlank(src(n))}
  IN  new = IF isBlank(x) THEN mpredeli ELSE IF S = {} THEN "unset" ELSE src(Max(S))

\* The places S and the bytes A have the same signs, and the same last one.
GapSay(S, A) ==
  /\ Apart(text, A)
  /\ S = {} => SignsOf(text, A) = {}
  /\ S # {} => SignsOf(text, A) # {} /\ src(Max(S)) = text[Max(SignsOf(text, A))]
               /\ src(Max(S)) \in AnyClass \ {"b"}

\* The signs behind a word that a gap follows.
LEMMA GapSigns ==
  ASSUME Loop, GapAt(text, currentOffset, i, dest), NEW b \in i..len, NEW t \in b..len,
         \A n \in i..(t - 1) : isDelimiter(src(n)), \A n \in i..(b - 1) : isBlank(src(n)),
         NEW S, S = {n \in b..(t - 1) : ~isBlank(src(n))},
         NEW A, A = AfterOf(dest, currentOffset, currentOffset + t)
  PROVE  GapSay(S, A)
<1> DEFINE o == currentOffset
           G == SignsOf(text, A)
<1>1. /\ len \in Nat /\ len = Len(text) - o /\ i \in 0..len
      /\ Len(text) \in Nat /\ o \in 0..Len(text)
      /\ \A n \in 0..(len - 1) : src(n) = text[o + n + 1] /\ src(n) \in AnyClass
  BY Here
<1>2. Underway(text, o, i, dest, flag, datatype)
  BY DEF Loop
<1>3. A = (o + i + 1)..(o + t)
  <2>1. dest # <<>> /\ dest[Len(dest)] = o + i /\ o \in Nat /\ i \in Nat /\ o + t \in Nat
    BY <1>1 DEF GapAt
  <2> QED
    BY <1>2, <2>1, AfterLast
<1> HIDE DEF o
<1>4. ASSUME NEW p \in A
      PROVE  /\ p - o - 1 \in i..(t - 1) /\ p - o - 1 \in 0..(len - 1)
             /\ src(p - o - 1) = text[p] /\ isDelimiter(text[p])
  <2>1. /\ p - o - 1 \in i..(t - 1) /\ p - o - 1 \in 0..(len - 1)
        /\ o + (p - o - 1) + 1 = p
    BY <1>1, <1>3
  <2>2. src(p - o - 1) = text[p]
    BY <1>1, <2>1
  <2> QED
    BY <2>1, <2>2
<1>5. Apart(text, A)
  <2>1. \A p \in A : isDelimiter(text[p])
    BY <1>4
  <2> QED
    BY <2>1, Classes DEF Apart
<1>6. ASSUME NEW n \in S
      PROVE  /\ o + n + 1 \in G /\ n \in 0..(len - 1) /\ n \in b..(t - 1)
             /\ src(n) = text[o + n + 1]
  <2>1. n \in b..(t - 1) /\ ~isBlank(src(n)) /\ n \in 0..(len - 1) /\ o + n + 1 \in A
    BY <1>1, <1>3
  <2>2. src(n) = text[o + n + 1]
    BY <1>1, <2>1
  <2>3. isDelimiter(text[o + n + 1])
    BY <1>4, <2>1
  <2> QED
    BY <2>1, <2>2, <2>3 DEF SignsOf
<1>7. ASSUME NEW p \in G PROVE p - o - 1 \in S /\ p = o + (p - o - 1) + 1
  <2>1. p \in A /\ ~isBlank(text[p])
    BY DEF SignsOf
  <2>2. p - o - 1 \in i..(t - 1) /\ src(p - o - 1) = text[p]
    BY <1>4, <2>1
  <2>3. ~(p - o - 1 \in i..(b - 1))
    BY <2>1, <2>2
  <2>4. p - o - 1 \in b..(t - 1) /\ p \in Int
    BY <1>1, <1>3, <2>1, <2>2, <2>3
  <2> QED
    BY <1>1, <2>1, <2>2, <2>4
<1> HIDE DEF G
<1>8. G = {o + n + 1 : n \in S}
  BY <1>6, <1>7
<1>9. ASSUME S # {}
      PROVE  G # {} /\ src(Max(S)) = text[Max(G)] /\ src(Max(S)) \in AnyClass \ {"b"}
  <2> DEFINE m == Max(S)
  <2>1. S \subseteq 0..len /\ len \in Nat
    BY <1>1, <1>6
  <2>2. m \in S /\ \A n \in S : n <= m
    BY <1>9, <2>1, LargestExists
  <2>3. /\ o + m + 1 \in G /\ m \in 0..(len - 1) /\ src(m) = text[o + m + 1]
    BY <1>6, <2>2
  <2> HIDE DEF m
  <2>4. \A p \in G : p \in Int /\ p <= o + m + 1
    BY <1>1, <1>8, <2>1, <2>2, <2>3
  <2>5. Max(G) = o + m + 1
    BY <2>3, <2>4, LargestIs
  <2>6. ~isBlank(src(m)) /\ src(m) \in AnyClass
    BY <1>1, <2>2, <2>3
  <2>7. src(m) # "b"
    BY <2>6, Classes
  <2> QED
    BY <2>3, <2>5, <2>6, <2>7 DEF m
<1>10. S = {} => G = {}
  BY <1>8
<1> QED
  BY <1>5, <1>9, <1>10 DEF G, GapSay

LEMMA TailRight ==
  ASSUME Loop, pc = "rest", flag = TRUE, NEW b, NEW t, TakenSays(b, t),
         NEW x, DelimiterIs(b, x), NEW new, NextIsNoted(b, t, x, new),
         NEW A, A = AfterOf(dest, currentOffset, currentOffset + t)
  PROVE  TailSays(text, A, x, mpredeli, new) /\ x \in AnyClass
<1> DEFINE o == currentOffset
           S == {n \in b..(t - 1) : ~isBlank(src(n))}
<1>1. /\ len \in Nat /\ len = Len(text) - o /\ i \in 0..len
      /\ Len(text) \in Nat /\ o \in 0..Len(text)
      /\ \A n \in 0..(len - 1) : src(n) = text[o + n + 1] /\ src(n) \in AnyClass
      /\ nextdeli \in AnyClass
  BY Here DEF Typed
<1>2. /\ b \in i..len /\ t \in b..len
      /\ \A n \in i..(b - 1) : isBlank(src(n)) \/ isConnectCh(src(n))
      /\ \A n \in b..(t - 1) : isDelimiter(src(n))
      /\ t < len => ~isDelimiter(src(t))
      /\ isBlank(nextdeli) => (b < len => ~isBlank(src(b)) /\ ~isConnectCh(src(b)))
      /\ ~isBlank(nextdeli) => b = i
  BY DEF TakenSays
<1>3. /\ x = IF isBlank(nextdeli) /\ b < len /\ ~isAsciiOrDigit(src(b)) THEN src(b) ELSE nextdeli
      /\ new = IF isBlank(x) THEN mpredeli ELSE IF S = {} THEN "unset" ELSE src(Max(S))
  BY DEF DelimiterIs, NextIsNoted
<1>4. Ended(text, o, i, dest, TRUE, connect, nextdeli)
  BY DEF Loop
<1>5. b < len => b \in 0..(len - 1)
  BY <1>1, <1>2
<1>6. x \in AnyClass
  BY <1>1, <1>3, <1>5
<1>7. ASSUME b = t PROVE S = {}
  BY <1>1, <1>2, <1>7
<1> HIDE DEF o, S
<1>8. CASE RangeAt(text, o, i) /\ nextdeli = "-"
  <2>1. i < len /\ isConnectCh(src(i))
    <3>1. o + i + 2 <= Len(text) /\ isConnectCh(text[o + i + 1])
      BY <1>8 DEF RangeAt
    <3>2. i \in 0..(len - 1)
      BY <1>1, <3>1
    <3> QED
      BY <1>1, <3>1, <3>2
  <2>2. ~isBlank(nextdeli)
    BY <1>8, Classes
  <2>3. b = i /\ t = i
    <3>1. ~isDelimiter(src(i))
      BY <2>1, Classes
    <3> QED
      BY <1>1, <1>2, <2>1, <2>2, <3>1
  <2>4. x = "-" /\ new = "unset"
    BY <1>3, <1>7, <1>8, <2>2, <2>3
  <2> QED
    BY <1>6, <2>4 DEF TailSays
<1>9. CASE GapAt(text, o, i, dest) /\ nextdeli = text[o + i + 1]
  <2>1. /\ \A n \in i..(t - 1) : isDelimiter(src(n)) /\ \A m \in i..(b - 1) : isBlank(src(m))
        /\ ~isBlank(nextdeli) => b = i /\ t > b
    BY <1>9, GapTail DEF o
  <2>2. GapSay(S, A)
    BY <1>2, <1>9, <2>1, GapSigns DEF o, S
  <2>3. /\ Apart(text, A) /\ (S = {} => SignsOf(text, A) = {})
        /\ S # {} => SignsOf(text, A) # {} /\ src(Max(S)) = text[Max(SignsOf(text, A))]
                     /\ src(Max(S)) \in AnyClass \ {"b"}
    BY <2>2 DEF GapSay
  <2>4. CASE S # {} /\ ~isBlank(x)
    <3>1. new = src(Max(S))
      BY <1>3, <2>4
    <3> QED
      BY <1>6, <2>3, <2>4, <3>1 DEF TailSays
  <2>5. CASE S = {} /\ ~isBlank(x)
    <3>1. new = "unset"
      BY <1>3, <2>5
    <3>2. isBlank(nextdeli)
      <4> SUFFICES ASSUME ~isBlank(nextdeli) PROVE FALSE
        OBVIOUS
      <4>1. b = i /\ t > b /\ i \in b..(t - 1)
        BY <1>1, <1>2, <2>1
      <4>2. nextdeli = src(i)
        BY <1>1, <1>2, <1>9, <4>1
      <4> QED
        BY <2>5, <4>1, <4>2 DEF S
    <3>3. b < len /\ x = src(b) /\ ~isAsciiOrDigit(src(b)) /\ ~isConnectCh(src(b))
      BY <1>2, <1>3, <2>5, <3>2
    <3>4. ~isDelimiter(src(b))
      <4>1. b = t \/ b \in b..(t - 1)
        BY <1>1, <1>2
      <4>2. CASE b = t
        BY <1>2, <3>3, <4>2
      <4>3. CASE b \in b..(t - 1)
        BY <2>5, <3>3, <4>3 DEF S
      <4> QED
        BY <4>1, <4>2, <4>3
    <3>5. x = "%"
      BY <1>6, <3>3, <3>4, Classes
    <3> QED
      BY <1>6, <3>1, <3>5 DEF TailSays
  <2>6. CASE isBlank(x)
    <3>1. new = mpredeli
      BY <1>3, <2>6
    <3>2. S = {}
      <4> SUFFICES ASSUME S # {} PROVE FALSE
        OBVIOUS
      <4>1. PICK n \in b..(t - 1) : ~isBlank(src(n))
        BY DEF S
      <4>2. b < len /\ b \in b..(t - 1)
        BY <1>1, <1>2, <4>1
      <4>3. isDelimiter(src(b))
        BY <1>2, <4>2
      <4>4. ~isBlank(nextdeli) \/ x = src(b)
        BY <1>3, <4>2, <4>3, Classes
      <4>5. CASE isBlank(nextdeli)
        BY <1>2, <2>6, <4>2, <4>4, <4>5
      <4>6. CASE ~isBlank(nextdeli)
        BY <1>3, <2>6, <4>6
      <4> QED
        BY <4>5, <4>6
    <3>3. SignsOf(text, A) = {}
      BY <2>3, <3>2
    <3> QED
      BY <1>6, <2>6, <3>1, <3>3 DEF TailSays
  <2> QED
    BY <2>4, <2>5, <2>6
<1>10. CASE /\ o + i = Len(text) \/ isAsciiOrDigit(text[o + i + 1])
            /\ nextdeli = "b" /\ Straight(text, o, i, dest, connect)
  <2>1. isBlank(nextdeli)
    BY <1>10, Classes
  <2>2. b = i /\ t = i
    <3>1. CASE o + i = Len(text)
      BY <1>1, <1>2, <3>1
    <3>2. CASE o + i # Len(text)
      <4>1. i \in 0..(len - 1) /\ i < len
        BY <1>1, <3>2
      <4>2. isAsciiOrDigit(src(i))
        BY <1>1, <1>10, <3>2, <4>1
      <4>3. ~isBlank(src(i)) /\ ~isConnectCh(src(i)) /\ ~isDelimiter(src(i))
        BY <4>2, Classes
      <4>4. b = i
        BY <1>1, <1>2, <4>1, <4>3
      <4> QED
        BY <1>1, <1>2, <4>1, <4>3, <4>4
    <3> QED
      BY <3>1, <3>2
  <2>3. x = "b"
    <3>1. b < len => isAsciiOrDigit(src(b))
      <4> SUFFICES ASSUME b < len PROVE isAsciiOrDigit(src(b))
        OBVIOUS
      <4>1. o + i # Len(text) /\ i \in 0..(len - 1)
        BY <1>1, <2>2
      <4> QED
        BY <1>1, <1>10, <2>2, <4>1
    <3> QED
      BY <1>3, <1>10, <3>1
  <2>4. new = mpredeli /\ isBlank(x)
    BY <1>3, <2>3, Classes
  <2>5. ~Apart(text, A) \/ A = {}
    BY <1>10, <2>2, PlainTail DEF o
  <2>6. ~Apart(text, A) \/ SignsOf(text, A) = {}
    BY <2>5 DEF SignsOf
  <2> QED
    BY <1>6, <2>4, <2>6 DEF TailSays
<1> QED
  BY <1>4, <1>8, <1>9, <1>10 DEF Ended

--------------------------------------------------------------------------------
(* The words found.                                                           *)

WordSays(t, w) ==
  /\ w.from \in Nat /\ w.to \in Nat /\ w.from < w.to /\ w.to <= Len(t)
  /\ w.str \in Seq(1..Len(t))
  /\ \A m \in 1..Len(w.str) : w.str[m] \in (w.from + 1)..w.to
  /\ \A m, n \in 1..Len(w.str) : m < n => w.str[m] < w.str[n]
  /\ \A p \in (w.from + 1)..w.to : isAsciiOrDigit(t[p]) => \E m \in 1..Len(w.str) : w.str[m] = p
  /\ w.to < Len(t) => ~isDelimiter(t[w.to + 1])
  /\ w.marks = Marks(t, w.from, w.to)
  /\ w.parts = spilitStr([k \in DOMAIN w.str |-> t[w.str[k]]])

\* The words ws cover the text up to o.
WordsSay(t, ws, o) ==
  /\ IsSequence(ws)
  /\ \A n \in 1..Len(ws) : WordSays(t, ws[n]) /\ ws[n].to <= o
  /\ \A m, n \in 1..Len(ws) : m < n => ws[m].to <= ws[n].from
  /\ \A n \in 1..Len(ws) : ws[n].from = IF n = 1 THEN 0 ELSE ws[n - 1].to
  /\ o = IF Len(ws) = 0 THEN 0 ELSE ws[Len(ws)].to

LEMMA WordsGoOn ==
  ASSUME NEW t, NEW ws, NEW o \in Nat, WordsSay(t, ws, o),
         NEW w, WordSays(t, w), w.from = o, NEW vs, vs = Append(ws, w)
  PROVE  WordsSay(t, vs, w.to)
<1> DEFINE L == Len(ws)
<1>1. IsSequence(ws) /\ L \in Nat
  BY DEF WordsSay, IsSequence
<1>2. /\ IsSequence(vs) /\ Len(vs) = L + 1 /\ vs[L + 1] = w
      /\ \A k \in 1..L : vs[k] = ws[k]
  BY <1>1, Appended
<1>3. o < w.to /\ w.to \in Nat
  BY DEF WordSays
<1> HIDE DEF L
<1>4. \A n \in 1..Len(vs) : n = L + 1 \/ n \in 1..L
  BY <1>1, <1>2
<1>5. ASSUME NEW n \in 1..L PROVE WordSays(t, ws[n]) /\ ws[n].to <= o /\ ws[n].to \in Nat
  BY DEF WordsSay, L, WordSays
<1>6. \A n \in 1..Len(vs) : WordSays(t, vs[n]) /\ vs[n].to <= w.to
  <2> SUFFICES ASSUME NEW n \in 1..Len(vs) PROVE WordSays(t, vs[n]) /\ vs[n].to <= w.to
    OBVIOUS
  <2>1. CASE n = L + 1
    BY <1>2, <1>3, <2>1
  <2>2. CASE n \in 1..L
    <3>1. ws[n].to <= w.to
      BY <1>3, <1>5, <2>2
    <3> QED
      BY <1>2, <1>5, <2>2, <3>1
  <2> QED
    BY <1>4, <2>1, <2>2
<1>7. \A m, n \in 1..Len(vs) : m < n => vs[m].to <= vs[n].from
  <2> SUFFICES ASSUME NEW m \in 1..Len(vs), NEW n \in 1..Len(vs), m < n
               PROVE  vs[m].to <= vs[n].from
    OBVIOUS
  <2>1. m \in 1..L
    BY <1>1, <1>2
  <2>2. CASE n = L + 1
    BY <1>2, <1>5, <2>1, <2>2
  <2>3. CASE n \in 1..L
    BY <1>2, <2>1, <2>3 DEF WordsSay, L
  <2> QED
    BY <1>4, <2>2, <2>3
<1>8. \A n \in 1..Len(vs) : vs[n].from = IF n = 1 THEN 0 ELSE vs[n - 1].to
  <2> SUFFICES ASSUME NEW n \in 1..Len(vs)
               PROVE  vs[n].from = IF n = 1 THEN 0 ELSE vs[n - 1].to
    OBVIOUS
  <2>1. CASE n = L + 1
    <3>1. vs[n].from = IF L = 0 THEN 0 ELSE ws[L].to
      BY <1>2, <2>1 DEF WordsSay, L
    <3>2. CASE L = 0
      BY <2>1, <3>1, <3>2
    <3>3. CASE L # 0
      <4>1. n # 1 /\ n - 1 = L /\ L \in 1..L
        BY <1>1, <2>1, <3>3
      <4> QED
        BY <1>2, <3>1, <3>3, <4>1
    <3> QED
      BY <3>2, <3>3
  <2>2. CASE n \in 1..L
    <3>1. ws[n].from = IF n = 1 THEN 0 ELSE ws[n - 1].to
      BY <2>2 DEF WordsSay, L
    <3>2. n # 1 => n - 1 \in 1..L
      BY <1>1, <2>2
    <3> QED
      BY <1>2, <2>2, <3>1, <3>2
  <2> QED
    BY <1>4, <2>1, <2>2
<1>9. w.to = IF Len(vs) = 0 THEN 0 ELSE vs[Len(vs)].to
  BY <1>1, <1>2
<1> QED
  BY <1>2, <1>6, <1>7, <1>8, <1>9 DEF WordsSay

AfterWord(w) == AfterOf(w.str, w.from, w.to)

\* The delimiters before the n-th word that count.
OuterOf(t, ws, n) ==
  UNION {SignsOf(t, AfterWord(ws[m])) : m \in {m \in 1..(n - 1) : Apart(t, AfterWord(ws[m]))}}

PredeliSays(t, ws, n, x) ==
  CASE x = "unset" -> \E m \in 1..(n - 1) : ws[m].nextdeli \in {"-", "%"}
    [] x = "b" -> OuterOf(t, ws, n) = {}
    [] OTHER -> OuterOf(t, ws, n) # {} /\ x = t[Max(OuterOf(t, ws, n))]

PredelisSay(t, ws, x) ==
  /\ \A n \in 1..Len(ws) : PredeliSays(t, ws, n, ws[n].mpredeli)
  /\ PredeliSays(t, ws, Len(ws) + 1, x)

LEMMA OuterHas ==
  ASSUME NEW t, NEW ws, NEW n, NEW p
  PROVE  p \in OuterOf(t, ws, n) <=>
           \E m \in 1..(n - 1) : /\ Apart(t, AfterWord(ws[m]))
                                 /\ p \in SignsOf(t, AfterWord(ws[m]))
BY DEF OuterOf

\* What is said of a word does not change with the words after it.
LEMMA EarlierWords ==
  ASSUME NEW t, NEW ws, NEW vs, NEW n \in Nat, \A m \in 1..(n - 1) : vs[m] = ws[m], NEW x,
         PredeliSays(t, ws, n, x)
  PROVE  PredeliSays(t, vs, n, x)
<1>1. \A p : p \in OuterOf(t, vs, n) <=> p \in OuterOf(t, ws, n)
  BY OuterHas
<1>2. OuterOf(t, vs, n) = OuterOf(t, ws, n)
  BY <1>1
<1> QED
  BY <1>2 DEF PredeliSays

LEMMA PredelisGoOn ==
  ASSUME NEW t, IsText(t), NEW ws, NEW o \in Nat, WordsSay(t, ws, o),
         NEW x, PredelisSay(t, ws, x), NEW w, WordSays(t, w), w.from = o, w.mpredeli = x,
         NEW A, A = AfterWord(w), NEW new, TailSays(t, A, w.nextdeli, x, new),
         NEW vs, vs = Append(ws, w)
  PROVE  PredelisSay(t, vs, new)
<1> DEFINE L == Len(ws)
           n == L + 1
<1>1. IsSequence(ws) /\ L \in Nat
  BY DEF WordsSay, IsSequence
<1>2. /\ Len(vs) = n /\ vs[n] = w /\ \A k \in 1..L : vs[k] = ws[k]
  BY <1>1, Appended
<1>3. /\ \A m \in 1..L : PredeliSays(t, ws, m, ws[m].mpredeli)
      /\ PredeliSays(t, ws, n, x)
  BY DEF PredelisSay
<1> HIDE DEF L
<1>4. \A m \in 1..n : PredeliSays(t, vs, m, vs[m].mpredeli)
  <2> SUFFICES ASSUME NEW m \in 1..n PROVE PredeliSays(t, vs, m, vs[m].mpredeli)
    OBVIOUS
  <2>0. m \in Nat /\ \A k \in 1..(m - 1) : vs[k] = ws[k]
    BY <1>1, <1>2
  <2>1. CASE m = n
    BY <1>2, <1>3, <2>0, <2>1, EarlierWords
  <2>2. CASE m # n
    <3>1. m \in 1..L
      BY <1>1, <2>2
    <3>2. PredeliSays(t, ws, m, ws[m].mpredeli) /\ vs[m] = ws[m]
      BY <1>2, <1>3, <3>1
    <3> QED
      BY <2>0, <3>2, EarlierWords
  <2> QED
    BY <2>1, <2>2
<1>5. PredeliSays(t, vs, n, x)
  <2>1. n \in Nat /\ \A k \in 1..(n - 1) : vs[k] = ws[k]
    BY <1>1, <1>2
  <2> HIDE DEF n
  <2> QED
    BY <1>3, <2>1, EarlierWords
<1> DEFINE O == OuterOf(t, vs, n)
           P == OuterOf(t, vs, n + 1)
           G == SignsOf(t, A)
<1>6. \A p : p \in P <=> p \in O \/ (Apart(t, A) /\ p \in G)
  <2>1. \A m : m \in 1..((n + 1) - 1) <=> m \in 1..(n - 1) \/ m = n
    BY <1>1
  <2>2. AfterWord(vs[n]) = A
    BY <1>2
  <2> SUFFICES ASSUME NEW p PROVE p \in P <=> p \in O \/ (Apart(t, A) /\ p \in G)
    OBVIOUS
  <2>3. p \in P <=> \E m \in 1..((n + 1) - 1) : /\ Apart(t, AfterWord(vs[m]))
                                             /\ p \in SignsOf(t, AfterWord(vs[m]))
    BY OuterHas
  <2>4. p \in O <=> \E m \in 1..(n - 1) : /\ Apart(t, AfterWord(vs[m]))
                                       /\ p \in SignsOf(t, AfterWord(vs[m]))
    BY OuterHas
  <2> HIDE DEF n, O, P
  <2> QED
    BY <2>1, <2>2, <2>3, <2>4
<1>7. \A m \in 1..(n - 1) : m \in 1..L /\ n - 1 = L
  BY <1>1
<1>8. PredeliSays(t, vs, n + 1, new)
  <2>1. CASE isBlank(w.nextdeli) /\ new = x /\ (~Apart(t, A) \/ G = {})
    <3>1. P = O
      BY <1>6, <2>1
    <3>2. 1..(n - 1) \subseteq 1..((n + 1) - 1)
      BY <1>1
    <3> HIDE DEF P, O, G, n
    <3> QED
      BY <1>5, <2>1, <3>1, <3>2 DEF PredeliSays, P, O
  <2>2. CASE w.nextdeli \in {"-", "%"} /\ new = "unset"
    <3>1. n \in 1..((n + 1) - 1) /\ vs[n].nextdeli \in {"-", "%"}
      BY <1>1, <1>2, <2>2
    <3> HIDE DEF n
    <3> QED
      BY <2>2, <3>1 DEF PredeliSays
  <2>3. CASE /\ Apart(t, A) /\ G # {} /\ new = t[Max(G)]
             /\ new \in AnyClass \ {"b"}
    <3>1. \A p \in G : p \in (o + 1)..w.to
      BY DEF SignsOf, AfterWord, AfterOf
    <3>2. w.to \in Nat
      BY DEF WordSays
    <3>3. G \subseteq 0..w.to
      BY <3>1, <3>2
    <3> HIDE DEF G
    <3>4. Max(G) \in G /\ \A p \in G : p <= Max(G)
      BY <2>3, <3>2, <3>3, LargestExists
    <3>5. ASSUME NEW p \in O PROVE p \in Int /\ p <= o
      <4>1. PICK m \in 1..(n - 1) : p \in SignsOf(t, AfterWord(vs[m]))
        BY OuterHas
      <4>2. m \in 1..L /\ vs[m] = ws[m]
        BY <1>2, <1>7
      <4>3. WordSays(t, ws[m]) /\ ws[m].to <= o
        BY <4>2 DEF WordsSay, L
      <4>4. p \in (ws[m].from + 1)..ws[m].to /\ ws[m].from \in Nat /\ ws[m].to \in Nat
        BY <4>1, <4>2, <4>3 DEF SignsOf, AfterWord, AfterOf, WordSays
      <4> QED
        BY <4>3, <4>4
    <3> HIDE DEF O, P
    <3>6. Max(G) \in P
      BY <1>6, <2>3, <3>4
    <3>7. \A p \in P : p \in Int /\ p <= Max(G)
      <4> SUFFICES ASSUME NEW p \in P PROVE p \in Int /\ p <= Max(G)
        OBVIOUS
      <4>1. Max(G) \in (o + 1)..w.to
        BY <3>1, <3>4
      <4>2. CASE p \in O
        BY <3>5, <4>1, <4>2
      <4>3. CASE p \in G
        BY <3>1, <3>4, <4>3
      <4> QED
        BY <1>6, <4>2, <4>3
    <3>8. Max(P) = Max(G)
      BY <3>6, <3>7, LargestIs
    <3>9. new # "unset" /\ new # "b"
      BY <2>3, Classes
    <3> QED
      BY <2>3, <3>6, <3>8, <3>9 DEF PredeliSays, P
  <2> QED
    BY <2>1, <2>2, <2>3 DEF TailSays
<1> HIDE DEF n
<1>9. \A m \in 1..Len(vs) : PredeliSays(t, vs, m, vs[m].mpredeli)
  BY <1>2, <1>4
<1> QED
  BY <1>2, <1>8, <1>9 DEF PredelisSay

\* Where a word ends no word is under way.
LEMMA Fresh ==
  ASSUME NEW t, IsText(t), NEW o \in 0..Len(t)
  PROVE  Underway(t, o, 0, <<>>, FALSE, 0) /\ Going(t, o, 0, <<>>, FALSE, FALSE, "b")
<1>1. <<>> \in Seq(1..Len(t)) /\ Len(<<>>) = 0
  OBVIOUS
<1>2. (o + 1)..(o + 0) = {}
  BY DEF IsText
<1>3. 0 <= SINGLEWORDLEN
  BY TokenizerAssumption
<1>4. Underway(t, o, 0, <<>>, FALSE, 0)
  BY <1>1, <1>2, <1>3 DEF Underway
<1> QED
  BY <1>4 DEF Going

\* The splitting in full.
IInv ==
  /\ Loop
  /\ pc = "stop" => StopsEarlyOnly
  /\ WordsSay(text, words, currentOffset)
  /\ PredelisSay(text, words, mpredeli)

LEMMA Initially == Init => IInv
<1> SUFFICES ASSUME Init PROVE IInv
  OBVIOUS
<1>1. /\ text \in Seq(AnyClass) /\ pc = "scan" /\ currentOffset = 0 /\ mpredeli = "b"
      /\ i = 0 /\ dest = <<>> /\ flag = FALSE /\ connect = FALSE
      /\ datatype = 0 /\ nextdeli = "b" /\ words = <<>>
  BY TokenizerAssumption DEF Init, Begun
<1>2. IsText(text) /\ 0 \in 0..Len(text) /\ 0 \in 0..len
  <2>1. IsText(text)
    BY <1>1 DEF IsText
  <2> QED
    BY <1>1, <2>1 DEF IsText, len
<1>3. Typed
  <2>1. IsText(text) /\ currentOffset \in 0..Len(text) /\ i \in 0..len
    BY <1>1, <1>2
  <2>2. /\ pc \in {"scan", "rest", "stop"} /\ flag \in BOOLEAN /\ connect \in BOOLEAN
        /\ datatype \in 0..2
    <3>1. pc = "scan" /\ flag = FALSE /\ connect = FALSE /\ datatype = 0
      BY <1>1
    <3>2. pc \in {"scan", "rest", "stop"} /\ datatype \in 0..2
      BY <3>1
    <3>3. flag \in BOOLEAN /\ connect \in BOOLEAN
      BY <3>1
    <3> QED
      BY <3>2, <3>3
  <2>3. nextdeli \in AnyClass /\ mpredeli \in AnyClass \cup {"unset"}
    BY <1>1, Classes
  <2> QED
    BY <2>1, <2>2, <2>3 DEF Typed
<1>4. Loop
  BY <1>1, <1>2, <1>3, Fresh DEF Loop
<1>5. IsSequence(words) /\ Len(words) = 0
  BY <1>1 DEF IsSequence
<1>6. WordsSay(text, words, currentOffset)
  BY <1>1, <1>5 DEF WordsSay
<1>7. PredelisSay(text, words, mpredeli)
  <2>1. OuterOf(text, words, 1) = {}
    BY DEF OuterOf
  <2>2. PredeliSays(text, words, 1, mpredeli)
    BY <1>1, <2>1 DEF PredeliSays
  <2> QED
    BY <1>5, <2>2 DEF PredelisSay
<1> QED
  BY <1>1, <1>4, <1>6, <1>7 DEF IInv

\* The splitting ends without a word where no letter is left, or before a connector and
\* a digit at the very beginning: behind a word there is no delimiter to pass.
LEMMA NoWordLeft ==
  ASSUME IInv, pc = "rest", flag = FALSE
  PROVE  \/ \A p \in (currentOffset + 1)..Len(text) : ~Letter(p)
         \/ /\ words = <<>> /\ FirstSign > 0
            /\ isConnectCh(src(FirstSign)) /\ DIGITLIKE(src(FirstSign + 1))
<1> DEFINE o == currentOffset
<1>1. /\ len \in Nat /\ len = Len(text) - o /\ i \in 0..len
      /\ Len(text) \in Nat /\ o \in 0..Len(text)
      /\ \A n \in 0..(len - 1) : src(n) = text[o + n + 1]
  BY Here DEF IInv
<1>2. /\ Underway(text, o, i, dest, FALSE, datatype)
      /\ Ended(text, o, i, dest, FALSE, connect, nextdeli)
  BY DEF IInv, Loop
<1>3. \A p \in (o + 1)..(o + i) : isDelimiter(text[p])
  BY <1>2 DEF Underway
<1> HIDE DEF o
<1>4. CASE o + i = Len(text)
  <2>1. \A p \in (o + 1)..Len(text) : ~Letter(p)
    BY <1>3, <1>4, Classes DEF Letter
  <2> QED
    BY <2>1 DEF o
<1>5. CASE RangeAt(text, o, i)
  <2>1. /\ i > 0 /\ o + i + 2 <= Len(text)
        /\ isConnectCh(text[o + i + 1]) /\ DIGITLIKE(text[o + i + 2])
    BY <1>5 DEF RangeAt
  <2>2. /\ i \in 0..(len - 1) /\ i + 1 \in 0..(len - 1) /\ o + (i + 1) + 1 = o + i + 2
    BY <1>1, <2>1
  <2>3. isConnectCh(src(i)) /\ DIGITLIKE(src(i + 1))
    BY <1>1, <2>1, <2>2
  <2>4. \A n \in 0..(i - 1) : isDelimiter(src(n))
    <3> SUFFICES ASSUME NEW n \in 0..(i - 1) PROVE isDelimiter(src(n))
      OBVIOUS
    <3>1. n \in 0..(len - 1) /\ o + n + 1 \in (o + 1)..(o + i)
      BY <1>1, <2>2
    <3> QED
      BY <1>1, <1>3, <3>1
  <2>5. FirstSign = i
    <3> DEFINE S == {n \in 0..(len - 1) : ~isDelimiter(src(n))}
    <3>1. i \in S /\ S \subseteq Nat
      BY <2>2, <2>3, Classes
    <3>2. FirstSign = Min(S)
      BY <3>1 DEF FirstSign
    <3>3. Min(S) \in S /\ \A n \in S : Min(S) <= n
      <4>1. S # {} /\ S \subseteq Nat
        BY <3>1
      <4> HIDE DEF S
      <4> QED
        BY <4>1, SmallestExists
    <3>4. Min(S) \in 0..(len - 1) /\ Min(S) <= i /\ ~isDelimiter(src(Min(S)))
      BY <3>1, <3>3
    <3> HIDE DEF S
    <3>5. ~(Min(S) \in 0..(i - 1))
      BY <2>4, <3>4
    <3> QED
      BY <1>1, <3>2, <3>4, <3>5
  <2>6. words = <<>>
    <3>1. IsSequence(words) /\ Len(words) \in Nat
      BY DEF IInv, WordsSay, IsSequence
    <3>2. Len(words) = 0
      <4> SUFFICES ASSUME Len(words) # 0 PROVE FALSE
        OBVIOUS
      <4> DEFINE w == words[Len(words)]
      <4>1. o = w.to /\ WordSays(text, w)
        BY <3>1 DEF IInv, WordsSay, o
      <4>2. w.to < Len(text) => ~isDelimiter(text[w.to + 1])
        BY <4>1 DEF WordSays
      <4> HIDE DEF w
      <4>3. o < Len(text) /\ o + 1 \in (o + 1)..(o + i)
        BY <1>1, <2>1, <2>2
      <4> QED
        BY <1>3, <4>1, <4>2, <4>3
    <3> QED
      BY <3>1, <3>2 DEF IsSequence
  <2> QED
    BY <2>1, <2>3, <2>5, <2>6
<1> QED
  BY <1>2, <1>4, <1>5 DEF Ended

LEMMA WordReturned ==
  ASSUME IInv, Return
  PROVE  IInv'
<1> DEFINE o == currentOffset
           to == o + Taken
           w == [str |-> dest, from |-> o, to |-> to, mpredeli |-> mpredeli,
                 nextdeli |-> Delimiter, marks |-> Marks(text, o, to),
                 parts |-> spilitStr([k \in DOMAIN dest |-> text[dest[k]]])]
<1>1. /\ pc = "rest" /\ flag
      /\ words' = Append(words, w) /\ currentOffset' = to /\ mpredeli' = NewPredeli
      /\ pc' = "scan" /\ i' = 0 /\ dest' = <<>> /\ flag' = FALSE /\ connect' = FALSE
      /\ datatype' = 0 /\ nextdeli' = "b" /\ text' = text
  BY DEF Return
<1>2. /\ w.from = o /\ w.to = to /\ w.str = dest /\ w.mpredeli = mpredeli
      /\ w.nextdeli = Delimiter /\ w.marks = Marks(text, o, to)
      /\ w.parts = spilitStr([k \in DOMAIN dest |-> text[dest[k]]])
  OBVIOUS
<1> HIDE DEF w
<1>3. Loop
  BY DEF IInv
<1>4. flag = TRUE
  BY <1>1, <1>3 DEF Loop, Typed
<1>5. /\ len \in Nat /\ len = Len(text) - o /\ i \in 0..len
      /\ Len(text) \in Nat /\ o \in 0..Len(text) /\ IsText(text)
      /\ \A n \in 0..(len - 1) : src(n) = text[o + n + 1]
      /\ mpredeli \in AnyClass \cup {"unset"}
  BY <1>3, Here DEF Typed
<1>6. TakenSays(Behind, Taken)
  BY <1>3, BytesTaken
<1>7. /\ Behind \in i..len /\ Taken \in Behind..len
      /\ \A n \in i..(Behind - 1) : isBlank(src(n)) \/ isConnectCh(src(n))
      /\ \A n \in Behind..(Taken - 1) : isDelimiter(src(n))
      /\ Taken < len => ~isDelimiter(src(Taken))
  BY <1>6 DEF TakenSays
<1>8. Underway(text, o, i, dest, TRUE, datatype)
  BY <1>3, <1>4 DEF Loop
<1>9. i > 0
  BY <1>8 DEF Underway
<1>10. /\ Taken \in Nat /\ i <= Taken /\ Taken > 0 /\ i \in Nat
       /\ to <= Len(text) /\ to \in Nat /\ o < to
  BY <1>5, <1>7, <1>9
<1>11. Underway(text, o, Taken, dest, TRUE, datatype)
  <2>1. ASSUME NEW p \in (o + i + 1)..(o + Taken) PROVE ~isAsciiOrDigit(text[p])
    <3> DEFINE n == p - o - 1
    <3>1. n \in i..(Taken - 1) /\ n \in 0..(len - 1) /\ o + n + 1 = p
      BY <1>5, <1>7
    <3> HIDE DEF n
    <3>2. src(n) = text[p]
      BY <1>5, <3>1
    <3>3. n \in i..(Behind - 1) \/ n \in Behind..(Taken - 1)
      BY <1>5, <1>7, <3>1
    <3> QED
      BY <1>7, <3>2, <3>3, Classes
  <2> QED
    BY <1>5, <1>8, <1>10, <2>1, Passing
<1>12. WordSays(text, w)
  <2>1. to < Len(text) => ~isDelimiter(text[to + 1])
    <3> SUFFICES ASSUME to < Len(text) PROVE ~isDelimiter(text[to + 1])
      OBVIOUS
    <3>1. Taken \in 0..(len - 1) /\ Taken < len
      BY <1>5, <1>10
    <3> QED
      BY <1>5, <1>7, <3>1
  <2> QED
    BY <1>2, <1>5, <1>10, <1>11, <2>1 DEF WordSays, Underway
<1>13. TailSays(text, AfterWord(w), Delimiter, mpredeli, NewPredeli) /\ Delimiter \in AnyClass
  <2>1. DelimiterIs(Behind, Delimiter)
    BY DEF DelimiterIs, Delimiter
  <2>2. NextIsNoted(Behind, Taken, Delimiter, NewPredeli)
    BY DEF NextIsNoted, NewPredeli, nextpre, Signs
  <2>3. AfterWord(w) = AfterOf(dest, currentOffset, currentOffset + Taken)
    BY <1>2 DEF AfterWord
  <2> QED
    BY <1>1, <1>3, <1>4, <1>6, <2>1, <2>2, <2>3, TailRight
<1>14. WordsSay(text', words', currentOffset')
  <2>1. WordsSay(text, words, o) /\ o \in Nat
    BY <1>5 DEF IInv
  <2> HIDE DEF o, to
  <2> QED
    BY <1>1, <1>2, <1>12, <2>1, WordsGoOn
<1>15. PredelisSay(text', words', mpredeli')
  <2>1. WordsSay(text, words, o) /\ o \in Nat /\ PredelisSay(text, words, mpredeli)
    BY <1>5 DEF IInv
  <2> HIDE DEF o, to
  <2> QED
    BY <1>1, <1>2, <1>5, <1>12, <1>13, <2>1, PredelisGoOn
<1>16. Loop'
  <2>1. 0 \in 0..(Len(text) - to) /\ to \in 0..Len(text)
    BY <1>5, <1>10
  <2> HIDE DEF o, to
  <2>2. /\ Underway(text, to, 0, <<>>, FALSE, 0)
        /\ Going(text, to, 0, <<>>, FALSE, FALSE, "b")
    BY <1>5, <2>1, Fresh
  <2>3. NewPredeli \in AnyClass \cup {"unset"}
    BY <1>5, <1>13 DEF TailSays
  <2>4. Typed'
    <3>1. /\ IsText(text') /\ currentOffset' \in 0..Len(text')
          /\ i' \in 0..(Len(text') - currentOffset')
      BY <1>1, <1>5, <2>1
    <3>2. pc' \in {"scan", "rest", "stop"} /\ datatype' \in 0..2
      BY <1>1
    <3>3. flag' \in BOOLEAN /\ connect' \in BOOLEAN
      BY <1>1
    <3>4. nextdeli' \in AnyClass /\ mpredeli' \in AnyClass \cup {"unset"}
      BY <1>1, <2>3, Classes
    <3> QED
      BY <3>1, <3>2, <3>3, <3>4 DEF Typed, len
  <2> QED
    BY <1>1, <2>2, <2>4 DEF Loop
<1> QED
  BY <1>1, <1>14, <1>15, <1>16 DEF IInv

\* Each step keeps the invariant.
LEMMA Inductive == IInv /\ [Next]_vars => IInv'
<1> SUFFICES ASSUME IInv, [Next]_vars PROVE IInv'
  OBVIOUS
<1>1. Loop
  BY DEF IInv
<1>2. ASSUME UNCHANGED <<text, currentOffset, mpredeli, words>>
      PROVE  WordsSay(text', words', currentOffset') /\ PredelisSay(text', words', mpredeli')
  BY <1>2 DEF IInv
<1>3. CASE scan
  <2>1. UNCHANGED <<text, currentOffset, mpredeli, words>>
    BY <1>3 DEF scan
  <2>2. ASSUME Loop', pc' # "stop" PROVE IInv'
    BY <1>2, <2>1, <2>2 DEF IInv
  <2>3. CASE BreakAtRange
    <3>1. Loop'
      BY <1>1, <2>1, <2>3, RangeEnds
    <3> QED
      BY <2>2, <2>3, <3>1 DEF BreakAtRange, Break
  <2>4. CASE BreakAtGap
    <3>1. Loop'
      BY <1>1, <2>1, <2>4, GapEnds
    <3> QED
      BY <2>2, <2>4, <3>1 DEF BreakAtGap, Break
  <2>5. CASE JoinOverGap
    <3>1. Loop'
      BY <1>1, <2>1, <2>5, GapJoined
    <3> QED
      BY <2>2, <2>5, <3>1 DEF JoinOverGap, Scanning
  <2>6. CASE BreakAtType
    <3>1. Loop'
      BY <1>1, <2>1, <2>6, TypeEnds
    <3> QED
      BY <2>2, <2>6, <3>1 DEF BreakAtType, Break
  <2>7. CASE SkipSign
    <3>1. Loop'
      BY <1>1, <2>1, <2>7, SignSkipped
    <3> QED
      BY <2>2, <2>7, <3>1 DEF SkipSign, Scanning
  <2>8. CASE TooLong
    <3>1. Loop' /\ Len(dest') = SINGLEWORDLEN
      BY <1>1, <2>1, <2>8, WordTooLong
    <3>2. StopsEarlyOnly'
      BY <3>1 DEF StopsEarlyOnly
    <3> QED
      BY <1>2, <2>1, <3>1, <3>2 DEF IInv
  <2>9. CASE Copy
    <3>1. Loop'
      BY <1>1, <2>1, <2>9, ByteCopied
    <3> QED
      BY <2>2, <2>9, <3>1 DEF Copy, Scanning
  <2>10. CASE EndOfText
    <3>1. Loop'
      BY <1>1, <2>1, <2>10, TextEnds
    <3> QED
      BY <2>2, <2>10, <3>1 DEF EndOfText
  <2> QED
    BY <1>3, <2>3, <2>4, <2>5, <2>6, <2>7, <2>8, <2>9, <2>10 DEF scan
<1>4. CASE NoWord
  <2>1. /\ pc = "rest" /\ ~flag /\ pc' = "stop"
        /\ UNCHANGED <<text, currentOffset, mpredeli, locals, words>>
    BY <1>4 DEF NoWord
  <2>2. flag = FALSE
    BY <1>1, <2>1 DEF Loop, Typed
  <2> DEFINE Ends == \/ \A p \in (currentOffset + 1)..Len(text) : ~Letter(p)
                     \/ /\ words = <<>> /\ FirstSign > 0
                        /\ isConnectCh(src(FirstSign)) /\ DIGITLIKE(src(FirstSign + 1))
  <2>3. Ends
    BY <2>1, <2>2, NoWordLeft
  <2>4. Ends'
    BY <2>1, <2>3 DEF FirstSign, src, len, Letter
  <2>5. StopsEarlyOnly'
    BY <2>4 DEF StopsEarlyOnly
  <2>6. Loop'
    <3>1. Typed'
      BY <1>1, <2>1 DEF Loop, Typed, len, locals
    <3> QED
      BY <1>1, <2>1, <3>1 DEF Loop, locals
  <2> QED
    BY <1>2, <2>1, <2>5, <2>6 DEF IInv
<1>5. CASE Return
  BY <1>5, WordReturned
<1>6. CASE UNCHANGED vars
  <2>1. UNCHANGED <<text, pc, currentOffset, mpredeli, locals, words>>
    BY <1>6 DEF vars
  <2>2. Loop'
    <3>1. Typed'
      BY <1>1, <2>1 DEF Loop, Typed, len, locals
    <3> QED
      BY <1>1, <2>1, <3>1 DEF Loop, locals
  <2>3. pc' = "stop" => StopsEarlyOnly'
    BY <2>1 DEF IInv, StopsEarlyOnly, FirstSign, src, len, Letter, locals
  <2> QED
    BY <1>2, <2>1, <2>2, <2>3 DEF IInv
<1> QED
  BY <1>3, <1>4, <1>5, <1>6 DEF Next

LEMMA Invariant == Spec => []IInv
<1>1. IInv /\ [Next]_vars => IInv'
  BY Inductive
<1> QED
  BY Initially, <1>1, PTL DEF Spec

--------------------------------------------------------------------------------
(* What follows from it.                                                      *)

LEMMA WordsKnown ==
  ASSUME IInv
  PROVE  /\ IsText(text) /\ Len(text) \in Nat /\ DOMAIN text = 1..Len(text)
         /\ Len(words) \in Nat /\ DOMAIN words = 1..Len(words)
         /\ words = [k \in 1..Len(words) |-> words[k]]
         /\ \A n \in 1..Len(words) : WordSays(text, words[n]) /\ words[n].to <= currentOffset
  BY DEF IInv, Loop, Typed, IsText, WordsSay, IsSequence

\* The types of the state.
LEMMA TypesHold == IInv => TypeOK
<1> SUFFICES ASSUME IInv PROVE TypeOK
  OBVIOUS
<1>1. Loop /\ Typed /\ Underway(text, currentOffset, i, dest, flag, datatype)
  BY DEF IInv, Loop
<1>2. DOMAIN text = 1..Len(text)
  BY WordsKnown
<1>3. dest \in Seq(DOMAIN text) /\ Len(dest) <= SINGLEWORDLEN
  BY <1>1, <1>2 DEF Underway
<1>4. \A n \in DOMAIN words : words[n].str \in Seq(DOMAIN text)
  BY <1>2, WordsKnown DEF WordSays
<1> QED
  BY <1>1, <1>3, <1>4 DEF TypeOK, Typed

LEMMA TilesHold == IInv => WordsTile
<1> SUFFICES ASSUME IInv PROVE WordsTile
  OBVIOUS
<1>1. /\ Len(words) \in Nat /\ DOMAIN words = 1..Len(words)
      /\ words = [k \in 1..Len(words) |-> words[k]]
      /\ \A n \in 1..Len(words) : WordSays(text, words[n])
  BY WordsKnown
<1>2. ASSUME NEW n \in DOMAIN words
      PROVE  /\ words[n].from < words[n].to
             /\ words[n].from = IF n = 1 THEN 0 ELSE words[n - 1].to
             /\ \A m \in DOMAIN words[n].str :
                  words[n].str[m] \in (words[n].from + 1)..words[n].to
  <2>1. WordSays(text, words[n]) /\ n \in 1..Len(words)
    BY <1>1
  <2>2. DOMAIN words[n].str = 1..Len(words[n].str)
    BY <2>1 DEF WordSays
  <2>3. words[n].from = IF n = 1 THEN 0 ELSE words[n - 1].to
    BY <2>1 DEF IInv, WordsSay
  <2> QED
    BY <2>1, <2>2, <2>3 DEF WordSays
<1>3. currentOffset = IF words = <<>> THEN 0 ELSE Last(words).to
  <2>1. currentOffset = IF Len(words) = 0 THEN 0 ELSE words[Len(words)].to
    BY DEF IInv, WordsSay
  <2>2. words = <<>> <=> Len(words) = 0
    BY <1>1
  <2>3. Last(words) = words[Len(words)]
    BY DEF Last
  <2> QED
    BY <2>1, <2>2, <2>3
<1> QED
  BY <1>2, <1>3 DEF WordsTile

\* Each byte that has gone with a word has gone with one of them.
LEMMA BytesOfWords ==
  ASSUME IInv, NEW p \in 1..currentOffset
  PROVE  \E n \in 1..Len(words) : p \in (words[n].from + 1)..words[n].to
<1> DEFINE L == Len(words)
           Before(n) == p > IF n = 0 THEN 0 ELSE words[n].to
           In(m) == p \in (words[m].from + 1)..words[m].to
           Says == {n \in 0..L : Before(n) \/ \E m \in 1..L : In(m)}
<1>1. /\ L \in Nat /\ \A n \in 1..L : words[n].from \in Nat /\ words[n].to \in Nat
      /\ currentOffset = IF L = 0 THEN 0 ELSE words[L].to
      /\ \A n \in 1..L : words[n].from = IF n = 1 THEN 0 ELSE words[n - 1].to
  BY WordsKnown DEF IInv, WordsSay, WordSays
<1>2. 0 \in Says
  BY <1>1
<1>3. ASSUME NEW n \in 0..(L - 1), n \in Says PROVE n + 1 \in Says
  <2>1. n + 1 \in 1..L /\ n + 1 \in 0..L /\ (n + 1) - 1 = n /\ n + 1 # 0
    BY <1>1
  <2>2. words[n + 1].from = IF n = 0 THEN 0 ELSE words[n].to
    BY <1>1, <2>1
  <2>3. CASE Before(n)
    <3>1. p > words[n + 1].from
      BY <2>2, <2>3
    <3>2. words[n + 1].from \in Nat /\ words[n + 1].to \in Nat
      BY <1>1, <2>1
    <3>3. p > words[n + 1].to \/ p \in (words[n + 1].from + 1)..words[n + 1].to
      BY <3>1, <3>2
    <3> QED
      BY <2>1, <3>3
  <2>4. CASE ~Before(n)
    BY <1>3, <2>1, <2>4
  <2> QED
    BY <2>3, <2>4
<1> HIDE DEF Says
<1>4. L \in Says
  BY <1>1, <1>2, <1>3, StepsSay
<1>5. ~Before(L)
  <2>1. currentOffset = IF L = 0 THEN 0 ELSE words[L].to
    BY <1>1
  <2>2. currentOffset \in Nat
    BY Here DEF IInv
  <2> QED
    BY <2>1, <2>2
<1> QED
  BY <1>4, <1>5 DEF Says

\* The pieces of the text: the words and the one under way.
LEMMA PiecesAre ==
  ASSUME IInv
  PROVE  /\ DOMAIN Pieces = 1..(Len(words) + 1) /\ Pieces[Len(words) + 1] = dest
         /\ \A n \in 1..Len(words) : Pieces[n] = words[n].str
<1> DEFINE L == Len(words)
           q == [n \in DOMAIN words |-> words[n].str]
<1>1. L \in Nat /\ DOMAIN words = 1..L
  BY WordsKnown
<1>2. q = [n \in 1..L |-> words[n].str] /\ \A n \in 1..L : q[n] = words[n].str
  BY <1>1
<1>3. Pieces = Append(q, dest)
  BY DEF Pieces
<1> HIDE DEF L, q
<1>4. IsSequence(q) /\ Len(q) = L
  BY <1>1, <1>2 DEF IsSequence
<1>5. /\ IsSequence(Pieces) /\ Len(Pieces) = L + 1 /\ Pieces[L + 1] = dest
      /\ \A n \in 1..L : Pieces[n] = q[n]
  BY <1>3, <1>4, Appended
<1>6. DOMAIN Pieces = 1..(L + 1)
  BY <1>5 DEF IsSequence
<1> QED
  BY <1>2, <1>5, <1>6 DEF L

\* A piece goes through its part of the text from its beginning to its end.
PieceSays(d, a, b) ==
  /\ DOMAIN d = 1..Len(d) /\ Len(d) \in Nat
  /\ \A m \in 1..Len(d) : d[m] \in (a + 1)..b
  /\ \A m, n \in 1..Len(d) : m < n => d[m] < d[n]

LEMMA LettersHold == IInv => EveryLetterOnce
<1> SUFFICES ASSUME IInv PROVE EveryLetterOnce
  OBVIOUS
<1> DEFINE L == Len(words)
           o == currentOffset
<1>1. /\ L \in Nat /\ o \in Nat /\ i \in Nat
  BY WordsKnown, Here DEF IInv
<1>2. /\ DOMAIN Pieces = 1..(L + 1) /\ Pieces[L + 1] = dest
      /\ \A n \in 1..L : Pieces[n] = words[n].str
  BY PiecesAre
<1>3. /\ \A n \in 1..L : WordSays(text, words[n]) /\ words[n].to <= o
      /\ \A m, n \in 1..L : m < n => words[m].to <= words[n].from
  BY WordsKnown DEF IInv, WordsSay
<1>4. Underway(text, o, i, dest, flag, datatype)
  BY DEF IInv, Loop
<1>5. ASSUME NEW n \in 1..L
      PROVE  /\ PieceSays(Pieces[n], words[n].from, words[n].to)
             /\ words[n].from \in Nat /\ words[n].to \in Nat
  <2>1. WordSays(text, words[n])
    BY <1>3
  <2>2. PieceSays(words[n].str, words[n].from, words[n].to)
    BY <2>1 DEF WordSays, PieceSays
  <2>3. words[n].from \in Nat /\ words[n].to \in Nat
    BY <2>1 DEF WordSays
  <2>4. Pieces[n] = words[n].str
    BY <1>2
  <2> QED
    BY <2>2, <2>3, <2>4
<1>6. PieceSays(Pieces[L + 1], o, o + i)
  BY <1>2, <1>4 DEF Underway, PieceSays
<1> HIDE DEF L, o
<1>7. \A n \in 1..(L + 1) : n \in 1..L \/ n = L + 1
  BY <1>1
<1>8. \A m \in 1..(L + 1) : \A p, q \in DOMAIN Pieces[m] : p < q => Pieces[m][p] < Pieces[m][q]
  <2> SUFFICES ASSUME NEW m \in 1..(L + 1)
               PROVE  \A p, q \in DOMAIN Pieces[m] : p < q => Pieces[m][p] < Pieces[m][q]
    OBVIOUS
  <2>1. CASE m \in 1..L
    BY <1>5, <2>1 DEF PieceSays
  <2>2. CASE m = L + 1
    BY <1>6, <2>2 DEF PieceSays
  <2> QED
    BY <1>7, <2>1, <2>2
<1>9. ASSUME NEW m \in 1..(L + 1), NEW n \in 1..(L + 1), m < n,
             NEW p \in DOMAIN Pieces[m], NEW q \in DOMAIN Pieces[n]
      PROVE  Pieces[m][p] < Pieces[n][q]
  <2>1. m \in 1..L
    BY <1>1, <1>9
  <2>2. Pieces[m][p] \in (words[m].from + 1)..words[m].to
    BY <1>5, <2>1 DEF PieceSays
  <2>3. CASE n \in 1..L
    <3>1. Pieces[n][q] \in (words[n].from + 1)..words[n].to
      BY <1>5, <2>3 DEF PieceSays
    <3>2. words[m].to <= words[n].from
      BY <1>3, <1>9, <2>1, <2>3
    <3> QED
      BY <1>5, <2>1, <2>2, <2>3, <3>1, <3>2
  <2>4. CASE n = L + 1
    <3>1. Pieces[n][q] \in (o + 1)..(o + i)
      BY <1>6, <2>4 DEF PieceSays
    <3> QED
      BY <1>1, <1>3, <1>5, <2>1, <2>2, <3>1
  <2> QED
    BY <1>7, <2>3, <2>4
<1>10. ASSUME NEW p \in 1..(o + i), Letter(p)
       PROVE  \E n \in 1..(L + 1) : \E q \in DOMAIN Pieces[n] : Pieces[n][q] = p
  <2>0. isAsciiOrDigit(text[p])
    BY <1>10 DEF Letter
  <2>1. CASE p <= o
    <3>1. p \in 1..o
      BY <1>1, <2>1
    <3>2. PICK n \in 1..L : p \in (words[n].from + 1)..words[n].to
      BY <3>1, BytesOfWords DEF o, L
    <3>3. PICK q \in 1..Len(words[n].str) : words[n].str[q] = p
      BY <1>3, <2>0, <3>2 DEF WordSays
    <3>4. Pieces[n] = words[n].str /\ q \in DOMAIN Pieces[n] /\ n \in 1..(L + 1)
      BY <1>1, <1>2, <1>5, <3>3 DEF PieceSays
    <3> QED
      BY <3>3, <3>4
  <2>2. CASE p > o
    <3>1. p \in (o + 1)..(o + i)
      BY <1>1, <2>2
    <3>2. PICK q \in 1..Len(dest) : dest[q] = p
      BY <1>4, <2>0, <3>1 DEF Underway
    <3>3. q \in DOMAIN Pieces[L + 1] /\ L + 1 \in 1..(L + 1)
      BY <1>1, <1>2, <1>6, <3>2 DEF PieceSays
    <3> QED
      BY <1>2, <3>2, <3>3
  <2> QED
    BY <1>1, <2>1, <2>2
<1> QED
  BY <1>2, <1>8, <1>9, <1>10 DEF EveryLetterOnce, o

LEMMA StopsHold == IInv => StopsEarlyOnly
BY DEF IInv, StopsEarlyOnly

LEMMA PredelisHold == IInv => PredeliIsLast
<1> SUFFICES ASSUME IInv PROVE PredeliIsLast
  OBVIOUS
<1>1. ASSUME NEW n \in DOMAIN words PROVE PredeliSays(text, words, n, words[n].mpredeli)
  BY <1>1, WordsKnown DEF IInv, PredelisSay
<1>2. ASSUME NEW n PROVE Outer(n) = OuterOf(text, words, n)
  BY Zenon DEF Outer, After, OuterOf, AfterWord, AfterOf, SignsOf, Apart
<1> QED
  BY <1>1, <1>2 DEF PredeliIsLast, PredeliSays

LEMMA SignsHold == IInv => SignsNoted
<1> SUFFICES ASSUME IInv, NEW n \in DOMAIN words
             PROVE  LET marks == words[n].marks
                        At(S) == {p \in Bytes(n) : text[p] \in S}
                        Opens == At({"["})
                    IN
                    /\ marks.quotflag = Cardinality(At({"q"}))
                    /\ marks.sqbSflag <=> Opens # {}
                    /\ marks.sqbEflag <=>
                         \/ At({"]"}) # {}
                         \/ \E p \in Bytes(n) \cup {words[n].to + 1} :
                              /\ CharAt(text, p) \in {"I", "l"} /\ isBlank(CharAt(text, p + 1))
                              /\ \E o \in Opens : o < p
                    /\ marks.stopflag =
                         IF At({"!"}) # {} \/ \E p \in At({"."}) : ~InAbbreviation(n, p) THEN 2
                         ELSE IF \E p \in At({","}) : ~InAbbreviation(n, p) THEN 1 ELSE 0
  BY DEF SignsNoted
<1>1. Len(text) \in Nat /\ DOMAIN text = 1..Len(text) /\ WordSays(text, words[n])
  BY WordsKnown
<1>2. /\ words[n].from \in Nat /\ words[n].to \in Nat /\ words[n].from < words[n].to
      /\ words[n].to <= Len(text)
      /\ words[n].to < Len(text) => ~isDelimiter(text[words[n].to + 1])
      /\ words[n].marks = Marks(text, words[n].from, words[n].to)
  BY <1>1 DEF WordSays
<1> QED
  BY <1>1, <1>2, SignsRight

LEMMA PartsHold == IInv => PartsFit
<1> SUFFICES ASSUME IInv, NEW n \in DOMAIN words
             PROVE  LET parts == words[n].parts IN
                    /\ parts[1] = 0 /\ Last(parts) = Len(words[n].str)
                    /\ \A k \in 1..(Len(parts) - 1) : parts[k] < parts[k + 1]
                    /\ {parts[k] : k \in 2..(Len(parts) - 1)} = Turns(n)
                    /\ Len(parts) > SPSTR => Cardinality(Turns(n)) >= SPSTR - 1
  BY DEF PartsFit
<1> DEFINE d == words[n].str
           parts == words[n].parts
           str == [k \in DOMAIN d |-> text[d[k]]]
<1>1. WordSays(text, words[n])
  BY WordsKnown
<1>2. d \in Seq(1..Len(text)) /\ parts = spilitStr(str)
  BY <1>1 DEF WordSays
<1>3. DOMAIN d = 1..Len(d) /\ Len(d) \in Nat
  BY <1>2
<1>4. Len(str) = Len(d) /\ \A k \in 1..Len(d) : str[k] = text[d[k]]
  BY <1>3
<1> HIDE DEF str, d, parts
<1>5. PartsSay(str, parts)
  BY <1>2, <1>3, <1>4, PartsRight
<1>6. TurnsOf(str, Len(str)) = Turns(n)
  <2>1. Turns(n) = {k \in 1..(Len(d) - 1) : /\ charType(text[d[k]]) # charType(text[d[k + 1]])
                                            /\ charType(text[d[k]]) # 1}
    BY DEF Turns, d
  <2>2. \A k \in 1..(Len(d) - 1) : /\ k \in 1..Len(d) /\ k + 1 \in 1..Len(d)
                                   /\ str[k] = text[d[k]] /\ str[k + 1] = text[d[k + 1]]
    <3>1. \A k \in 1..(Len(d) - 1) : k \in 1..Len(d) /\ k + 1 \in 1..Len(d)
      BY <1>3
    <3> QED
      BY <1>4, <3>1
  <2>3. TurnsOf(str, Len(str)) = {k \in 1..(Len(d) - 1) : /\ charType(str[k]) # charType(str[k + 1])
                                                          /\ charType(str[k]) # 1}
    BY <1>4 DEF TurnsOf
  <2>4. \A k \in 1..(Len(d) - 1) :
          charType(str[k]) = charType(text[d[k]]) /\ charType(str[k + 1]) = charType(text[d[k + 1]])
    BY <2>2
  <2> QED
    BY <2>1, <2>3, <2>4
<1>7. Last(parts) = parts[Len(parts)]
  BY DEF Last
<1> QED
  BY <1>4, <1>5, <1>6, <1>7 DEF PartsSay, d, parts

--------------------------------------------------------------------------------
(* The theorems.                                                              *)

\* The words cover the text: each letter and digit is in exactly one of them, in the
\* order of the text, they follow each other without a gap, each takes a byte at
\* least, and none is longer than its buffer, for every text and every buffer.
THEOREM WordsCovered == Spec => []WordsCover
<1>1. IInv => WordsCover
  BY TypesHold, LettersHold, TilesHold DEF WordsCover
<1> QED
  BY Invariant, <1>1, PTL

\* The splitting gives a text up before its last letter only at a word that does not
\* fit and at a text that begins with delimiters, a connector and a digit.
THEOREM StopsEarly == Spec => []StopsEarlyOnly
BY Invariant, StopsHold, PTL

\* The delimiter a word is told is the last one between two words before it, none, or
\* was never written, and this only after a word that a connector or another sign
\* follows.
THEOREM PredeliRight == Spec => []PredeliIsLast
BY Invariant, PredelisHold, PTL

\* Each quotation mark and bracket is noted for the word with whose bytes it goes, a
\* sentence ends unless the sign may belong to an abbreviation, and the parts of a
\* word lie side by side, for abbreviations of every length.
THEOREM NotesRight == Spec => []WordsNoted
<1>1. IInv => WordsNoted
  BY SignsHold, PartsHold DEF WordsNoted
<1> QED
  BY Invariant, <1>1, PTL

================================================================================
