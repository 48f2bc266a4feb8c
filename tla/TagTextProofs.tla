----------------------------- MODULE TagTextProofs -----------------------------
(****************************************************************************)
(* Proofs about parseFile's scan for every text, every set of tag names and *)
(* every width of the integer that holds the stack of open tags: what is    *)
(* stored is the text without whole tags (StoredIsText), with the tags open *)
(* around each character as long as they fit (TagsAreOpen), a text whose    *)
(* tags do not is refused or leaves one open (RefusedOrLeftOpen), and the   *)
(* trainers find a reference area that is there (ReferenceAreaFound).       *)
(****************************************************************************)
EXTENDS TagText, WellFoundedInduction, TLAPS

--------------------------------------------------------------------------------
(* The integer as a stack.                                                    *)

LEMMA Base == TOKEN_MAX_LEN \in Nat /\ TOKEN_MAX_LEN > 1 /\ MaxUint \in Nat /\ MaxUint >= TOKEN_MAX_LEN
BY TokenStackAssumption

\* Popping takes back what was pushed.
LEMMA Pops ==
  ASSUME NEW x \in Nat, NEW d \in 0..(TOKEN_MAX_LEN - 1)
  PROVE  /\ x * TOKEN_MAX_LEN + d \in Nat
         /\ tokenPop(x * TOKEN_MAX_LEN + d) = x
         /\ Top(x * TOKEN_MAX_LEN + d) = d
BY Base DEF tokenPop, Top

LEMMA PopType ==
  ASSUME NEW x \in UnsignedInt
  PROVE  tokenPop(x) \in UnsignedInt
BY Base DEF tokenPop, UnsignedInt

LEMMA PushType ==
  ASSUME NEW x \in UnsignedInt, NEW d \in TagId
  PROVE  /\ tokenPush(x, d) \in UnsignedInt
         /\ tokenPush(x, d) <= x * TOKEN_MAX_LEN + d
<1>1. /\ Pushed(x, d) \in UnsignedInt /\ Pushed(x, d) <= x * TOKEN_MAX_LEN + d
  BY Base DEF Pushed, UnsignedInt, TagId
<1>2. x <= x * TOKEN_MAX_LEN + d
  BY Base DEF UnsignedInt, TagId
<1> QED
  BY <1>1, <1>2 DEF tokenPush

\* A push that fits is made, and leaves the number it should.
LEMMA PushFits ==
  ASSUME NEW x \in UnsignedInt, NEW d \in TagId, x * TOKEN_MAX_LEN + d <= MaxUint
  PROVE  tokenPush(x, d) = x * TOKEN_MAX_LEN + d
<1>1. HasRoom(x, d)
  BY Base DEF HasRoom, UnsignedInt, TagId
<1>2. Pushed(x, d) = x * TOKEN_MAX_LEN + d
  BY Base DEF Pushed, UnsignedInt, TagId
<1> QED
  BY <1>1, <1>2 DEF tokenPush

\* One that does not fit is dropped, or leaves less than the base.
LEMMA PushFails ==
  ASSUME NEW x \in UnsignedInt, NEW d \in TagId, x * TOKEN_MAX_LEN + d > MaxUint
  PROVE  x > 0 /\ (tokenPush(x, d) = x \/ tokenPush(x, d) < TOKEN_MAX_LEN)
<1>1. x > 0
  BY Base DEF UnsignedInt, TagId
<1>2. ASSUME HasRoom(x, d) PROVE Pushed(x, d) < TOKEN_MAX_LEN
  BY <1>2, Base DEF Pushed, UnsignedInt, TagId, HasRoom
<1> QED
  BY <1>1, <1>2 DEF tokenPush

--------------------------------------------------------------------------------
(* The number a sequence of tags stands for.                                  *)

\* A set of numbers with 0 and with the successor of each has all of them.
LEMMA Induction ==
  ASSUME NEW S, 0 \in S, \A n \in Nat : n \in S => n + 1 \in S
  PROVE  Nat \subseteq S
<1> DEFINE T == Nat \ S
           R == OpToRel(<, Nat)
<1> SUFFICES ASSUME T # {} PROVE FALSE
  OBVIOUS
<1>1. PICK m \in T : \A y \in T : ~(<<y, m>> \in R)
  <2>1. IsWellFoundedOn(R, Nat)
    BY NatLessThanWellFounded
  <2>2. T \subseteq Nat
    OBVIOUS
  <2> HIDE DEF T, R
  <2>3. QED
    BY <2>1, <2>2, WFMin
<1>2. \A y, z \in Nat : y < z => <<y, z>> \in R
  BY DEF OpToRel
<1> HIDE DEF R
<1>3. m \in Nat /\ m # 0 /\ m \notin S
  OBVIOUS
<1>4. m - 1 \in Nat /\ m - 1 < m
  BY <1>3
<1>5. m - 1 \in S
  BY <1>1, <1>2, <1>3, <1>4
<1>6. QED
  BY <1>3, <1>4, <1>5

\* h are the numbers of the first m tags of t.
NumbersUpto(t, m, h) ==
  /\ h \in [0..m -> Nat]
  /\ h[0] = 0
  /\ \A n \in 1..m : h[n] = h[n - 1] * TOKEN_MAX_LEN + t[n]

HasNumbers(t, m) == \E h : NumbersUpto(t, m, h)

AreNumbers(t, h) == NumbersUpto(t, Len(t), h)

LEMMA NumbersExist ==
  ASSUME NEW t \in Seq(TagId)
  PROVE  \E h : AreNumbers(t, h)
<1> DEFINE K == {m \in Nat : m <= Len(t) => HasNumbers(t, m)}
<1>1. Len(t) \in Nat /\ \A n \in 1..Len(t) : t[n] \in Nat
  BY Base DEF TagId
<1>2. HasNumbers(t, 0)
  <2> DEFINE z == [n \in 0..0 |-> 0]
  <2>1. z \in [0..0 -> Nat] /\ z[0] = 0 /\ 1..0 = {}
    OBVIOUS
  <2> HIDE DEF z
  <2> QED
    BY <2>1 DEF HasNumbers, NumbersUpto
<1>3. ASSUME NEW m \in Nat, m \in K PROVE m + 1 \in K
  <2> SUFFICES ASSUME m + 1 <= Len(t) PROVE HasNumbers(t, m + 1)
    OBVIOUS
  <2>1. PICK h : NumbersUpto(t, m, h)
    BY <1>1, <1>3 DEF HasNumbers
  <2> DEFINE v == h[m] * TOKEN_MAX_LEN + t[m + 1]
             g == [n \in 0..(m + 1) |-> IF n = m + 1 THEN v ELSE h[n]]
  <2>2. v \in Nat
    <3>1. h[m] \in Nat
      BY <2>1 DEF NumbersUpto
    <3>2. t[m + 1] \in Nat
      BY <1>1
    <3> QED
      BY <3>1, <3>2, Base
  <2> HIDE DEF v
  <2>3. g \in [0..(m + 1) -> Nat] /\ g[0] = 0 /\ g[m + 1] = v
    BY <2>1, <2>2 DEF NumbersUpto
  <2>4. \A n \in 0..m : g[n] = h[n]
    OBVIOUS
  <2>5. ASSUME NEW n \in 1..(m + 1) PROVE g[n] = g[n - 1] * TOKEN_MAX_LEN + t[n]
    <3> HIDE DEF g
    <3>1. CASE n = m + 1
      <4>1. g[n - 1] = h[m]
        BY <2>4, <3>1
      <4> QED
        BY <2>3, <3>1, <4>1 DEF v
    <3>2. CASE n # m + 1
      <4>1. n \in 1..m /\ n \in 0..m /\ n - 1 \in 0..m
        BY <3>2
      <4> QED
        BY <2>1, <2>4, <4>1 DEF NumbersUpto
    <3> QED
      BY <3>1, <3>2
  <2> HIDE DEF g
  <2>6. NumbersUpto(t, m + 1, g)
    BY <2>3, <2>5 DEF NumbersUpto
  <2> QED
    BY <2>6 DEF HasNumbers
<1>4. 0 \in K
  BY <1>2
<1> HIDE DEF K
<1>5. Len(t) \in K
  BY <1>1, <1>3, <1>4, Induction
<1> QED
  BY <1>1, <1>5 DEF K, HasNumbers, AreNumbers

LEMMA NumbersAre ==
  ASSUME NEW t \in Seq(TagId)
  PROVE  AreNumbers(t, Numbers(t))
<1> DEFINE Unfolds(f) == f = [n \in 0..Len(t) |->
                                IF n = 0 THEN 0 ELSE f[n - 1] * TOKEN_MAX_LEN + t[n]]
<1>1. PICK h : AreNumbers(t, h)
  BY NumbersExist
<1>2. Unfolds(h)
  <2>1. h = [n \in 0..Len(t) |-> h[n]]
    BY <1>1 DEF AreNumbers, NumbersUpto
  <2>2. \A n \in 0..Len(t) : h[n] = IF n = 0 THEN 0 ELSE h[n - 1] * TOKEN_MAX_LEN + t[n]
    BY <1>1 DEF AreNumbers, NumbersUpto
  <2> QED
    BY <2>1, <2>2
<1>3. Numbers(t) = CHOOSE g : Unfolds(g)
  BY DEF Numbers
<1>4. Unfolds(Numbers(t))
  <2> HIDE DEF Unfolds
  <2> QED
    BY <1>2, <1>3
<1> DEFINE g == Numbers(t)
           K == {m \in Nat : m <= Len(t) => g[m] = h[m]}
<1>5. g = [n \in 0..Len(t) |-> IF n = 0 THEN 0 ELSE g[n - 1] * TOKEN_MAX_LEN + t[n]]
  BY <1>4
<1> HIDE DEF g
<1>6. Len(t) \in Nat
  OBVIOUS
<1>7. g[0] = 0 /\ \A n \in 1..Len(t) : g[n] = g[n - 1] * TOKEN_MAX_LEN + t[n]
  <2> DEFINE Step(n) == IF n = 0 THEN 0 ELSE g[n - 1] * TOKEN_MAX_LEN + t[n]
  <2>1. g = [n \in 0..Len(t) |-> Step(n)]
    BY <1>5
  <2>2. Step(0) = 0 /\ \A n \in 1..Len(t) : Step(n) = g[n - 1] * TOKEN_MAX_LEN + t[n]
    OBVIOUS
  <2>3. 0 \in 0..Len(t) /\ \A n \in 1..Len(t) : n \in 0..Len(t)
    BY <1>6
  <2> HIDE DEF Step
  <2>4. \A n \in 0..Len(t) : g[n] = Step(n)
    BY <2>1
  <2> QED
    BY <2>2, <2>3, <2>4
<1>8. 0 \in K
  BY <1>1, <1>7 DEF AreNumbers, NumbersUpto
<1>9. ASSUME NEW m \in Nat, m \in K PROVE m + 1 \in K
  <2> SUFFICES ASSUME m + 1 <= Len(t) PROVE g[m + 1] = h[m + 1]
    OBVIOUS
  <2>1. m + 1 \in 1..Len(t) /\ (m + 1) - 1 = m /\ g[m] = h[m]
    BY <1>6, <1>9
  <2>2. g[m + 1] = g[(m + 1) - 1] * TOKEN_MAX_LEN + t[m + 1]
    BY <1>7, <2>1
  <2>3. h[m + 1] = h[(m + 1) - 1] * TOKEN_MAX_LEN + t[m + 1]
    BY <1>1, <2>1 DEF AreNumbers, NumbersUpto
  <2> QED
    BY <2>1, <2>2, <2>3
<1> HIDE DEF K
<1>10. Nat \subseteq K
  BY <1>8, <1>9, Induction
<1>11. \A n \in 0..Len(t) : g[n] = h[n]
  BY <1>6, <1>10 DEF K
<1>12. g = h
  <2>1. h = [n \in 0..Len(t) |-> h[n]]
    BY <1>1 DEF AreNumbers, NumbersUpto
  <2>2. g = [n \in 0..Len(t) |-> g[n]]
    BY <1>5
  <2> QED
    BY <1>11, <2>1, <2>2
<1> QED
  BY <1>1, <1>12 DEF g

\* The tags say what number they stand for: none for 0, and one more tag for the number
\* with one more digit.
LEMMA NumberOf ==
  /\ Number(<<>>) = 0
  /\ \A t \in Seq(TagId) : Number(t) \in Nat
  /\ \A t \in Seq(TagId) : \A d \in TagId :
       Number(Append(t, d)) = Number(t) * TOKEN_MAX_LEN + d
<1>1. ASSUME NEW t \in Seq(TagId) PROVE Number(t) \in Nat
  BY NumbersAre DEF Number, AreNumbers, NumbersUpto
<1>2. Number(<<>>) = 0
  <2>1. <<>> \in Seq(TagId) /\ Len(<<>>) = 0
    OBVIOUS
  <2> QED
    BY <2>1, NumbersAre DEF Number, AreNumbers, NumbersUpto
<1>3. ASSUME NEW t \in Seq(TagId), NEW d \in TagId
      PROVE  Number(Append(t, d)) = Number(t) * TOKEN_MAX_LEN + d
  <2> DEFINE u == Append(t, d)
             g == Numbers(t)
             h == Numbers(u)
             K == {m \in Nat : m <= Len(t) => g[m] = h[m]}
  <2>1. u \in Seq(TagId) /\ Len(t) \in Nat /\ Len(u) = Len(t) + 1 /\ u[Len(t) + 1] = d
        /\ \A n \in 1..Len(t) : u[n] = t[n]
    OBVIOUS
  <2> HIDE DEF u
  <2>2. AreNumbers(t, g) /\ AreNumbers(u, h)
    BY <2>1, NumbersAre
  <2> HIDE DEF g, h
  <2>3. 0 \in K
    BY <2>2 DEF AreNumbers, NumbersUpto
  <2>4. ASSUME NEW m \in Nat, m \in K PROVE m + 1 \in K
    <3> SUFFICES ASSUME m + 1 <= Len(t) PROVE g[m + 1] = h[m + 1]
      OBVIOUS
    <3>1. m + 1 \in 1..Len(t) /\ m + 1 \in 1..Len(u) /\ (m + 1) - 1 = m /\ g[m] = h[m]
      BY <2>1, <2>4
    <3>2. g[m + 1] = g[(m + 1) - 1] * TOKEN_MAX_LEN + t[m + 1]
      BY <2>2, <3>1 DEF AreNumbers, NumbersUpto
    <3>3. h[m + 1] = h[(m + 1) - 1] * TOKEN_MAX_LEN + u[m + 1]
      BY <2>2, <3>1 DEF AreNumbers, NumbersUpto
    <3> QED
      BY <2>1, <3>1, <3>2, <3>3
  <2> HIDE DEF K
  <2>5. Len(t) \in K
    BY <2>1, <2>3, <2>4, Induction
  <2>6. g[Len(t)] = h[Len(t)]
    BY <2>1, <2>5 DEF K
  <2>7. Len(u) \in 1..Len(u) /\ Len(u) - 1 = Len(t)
    BY <2>1
  <2>8. h[Len(u)] = h[Len(u) - 1] * TOKEN_MAX_LEN + u[Len(u)]
    BY <2>2, <2>7 DEF AreNumbers, NumbersUpto
  <2>9. h[Len(u)] = g[Len(t)] * TOKEN_MAX_LEN + d
    BY <2>1, <2>6, <2>7, <2>8
  <2> QED
    BY <2>9 DEF Number, g, h, u
<1> QED
  BY <1>1, <1>2, <1>3

\* A sequence of tags that is not empty is its front and its last one.
LEMMA FrontAndLast ==
  ASSUME NEW S, NEW t \in Seq(S), t # <<>>
  PROVE  /\ Front(t) \in Seq(S) /\ Last(t) \in S /\ Len(t) \in Nat /\ Len(t) > 0
         /\ Len(Front(t)) = Len(t) - 1
         /\ t = Append(Front(t), Last(t))
<1>1. Len(t) \in Nat /\ Len(t) > 0
  OBVIOUS
<1>2. Last(t) \in S
  BY <1>1 DEF Last
<1>3. /\ Front(t) \in Seq(S) /\ Len(Front(t)) = Len(t) - 1
      /\ \A n \in 1..(Len(t) - 1) : Front(t)[n] = t[n]
  <2>1. Front(t) = SubSeq(t, 1, Len(t) - 1)
    BY DEF Front
  <2>2. \A n \in 1..Len(t) : t[n] \in S
    OBVIOUS
  <2>3. Front(t) = [n \in 1..(Len(t) - 1) |-> t[n]]
    BY <1>1, <2>1
  <2>4. Len(t) - 1 \in Nat /\ \A n \in 1..(Len(t) - 1) : n \in 1..Len(t)
    BY <1>1
  <2> QED
    BY <2>2, <2>3, <2>4
<1>4. t = Append(Front(t), Last(t))
  <2>1. Append(Front(t), Last(t)) \in Seq(S) /\ Len(Append(Front(t), Last(t))) = Len(t)
    BY <1>1, <1>2, <1>3
  <2>2. \A n \in 1..Len(t) : Append(Front(t), Last(t))[n] = t[n]
    BY <1>1, <1>2, <1>3 DEF Last
  <2> HIDE DEF Front, Last
  <2> QED
    BY <2>1, <2>2
<1> QED
  BY <1>1, <1>2, <1>3, <1>4

\* Closing the innermost of some open tags, as the number sees it.
LEMMA Unstacked ==
  ASSUME NEW t \in Seq(TagId), t # <<>>
  PROVE  Top(Number(t)) = Last(t) /\ tokenPop(Number(t)) = Number(Front(t))
<1>1. /\ Front(t) \in Seq(TagId) /\ Last(t) \in TagId /\ t = Append(Front(t), Last(t))
  BY FrontAndLast
<1>2. Number(t) = Number(Front(t)) * TOKEN_MAX_LEN + Last(t) /\ Number(Front(t)) \in Nat
  BY <1>1, NumberOf
<1>3. Last(t) \in 0..(TOKEN_MAX_LEN - 1)
  BY <1>1 DEF TagId
<1> QED
  BY <1>2, <1>3, Pops

\* x has at most n digits.
Fits(x, n) ==
  \E p \in [0..n -> Nat] :
    p[0] = 1 /\ (\A m \in 1..n : p[m] = p[m - 1] * TOKEN_MAX_LEN) /\ x < p[n]

LEMMA FitsMore ==
  ASSUME NEW n \in Nat, NEW x \in Nat, Fits(x, n), NEW y \in Nat,
         y <= x * TOKEN_MAX_LEN + (TOKEN_MAX_LEN - 1)
  PROVE  Fits(y, n + 1)
<1>1. PICK p \in [0..n -> Nat] :
        p[0] = 1 /\ (\A m \in 1..n : p[m] = p[m - 1] * TOKEN_MAX_LEN) /\ x < p[n]
  BY DEF Fits
<1> DEFINE q == [m \in 0..(n + 1) |-> IF m = n + 1 THEN p[n] * TOKEN_MAX_LEN ELSE p[m]]
<1>2. p[n] \in Nat /\ p[n] * TOKEN_MAX_LEN \in Nat
  BY <1>1, Base
<1>3. q \in [0..(n + 1) -> Nat] /\ q[0] = 1 /\ q[n + 1] = p[n] * TOKEN_MAX_LEN
  BY <1>1, <1>2
<1>4. \A m \in 0..n : q[m] = p[m]
  OBVIOUS
<1> HIDE DEF q
<1>5. ASSUME NEW m \in 1..(n + 1) PROVE q[m] = q[m - 1] * TOKEN_MAX_LEN
  <2>1. CASE m = n + 1
    <3>1. m - 1 = n /\ q[n] = p[n]
      BY <1>4, <2>1
    <3> QED
      BY <1>3, <2>1, <3>1
  <2>2. CASE m # n + 1
    <3>1. m \in 1..n /\ m \in 0..n /\ m - 1 \in 0..n
      BY <2>2
    <3> QED
      BY <1>1, <1>4, <3>1
  <2> QED
    BY <2>1, <2>2
<1>6. y < p[n] * TOKEN_MAX_LEN
  <2> DEFINE f == p[n]
             b == TOKEN_MAX_LEN
  <2>1. f \in Nat /\ x + 1 <= f /\ b \in Nat /\ y <= x * b + (b - 1)
    BY <1>1, <1>2, Base
  <2> HIDE DEF f, b
  <2>2. (x + 1) * b <= f * b /\ x * b + b = (x + 1) * b
    BY <2>1
  <2>3. y < f * b
    BY <2>1, <2>2
  <2> QED
    BY <2>3 DEF f, b
<1> QED
  BY <1>3, <1>5, <1>6 DEF Fits

LEMMA DivLess ==
  ASSUME NEW b \in Nat, b > 0, NEW x \in Nat, NEW f \in Nat, x < f * b
  PROVE  x \div b < f
OBVIOUS

LEMMA FitsLess ==
  ASSUME NEW n \in Nat, n > 0, NEW x \in Nat, Fits(x, n)
  PROVE  Fits(tokenPop(x), n - 1)
<1>1. PICK p \in [0..n -> Nat] :
        p[0] = 1 /\ (\A m \in 1..n : p[m] = p[m - 1] * TOKEN_MAX_LEN) /\ x < p[n]
  BY DEF Fits
<1> DEFINE q == [m \in 0..(n - 1) |-> p[m]]
<1>2. q \in [0..(n - 1) -> Nat] /\ q[0] = 1 /\ \A m \in 1..(n - 1) : q[m] = q[m - 1] * TOKEN_MAX_LEN
  BY <1>1
<1>3. n \in 1..n /\ n - 1 \in 0..n /\ n - 1 \in 0..(n - 1)
  OBVIOUS
<1>4. q[n - 1] = p[n - 1] /\ p[n - 1] \in Nat /\ x < p[n - 1] * TOKEN_MAX_LEN
  BY <1>1, <1>3
<1>5. tokenPop(x) < p[n - 1]
  <2>1. PICK f \in Nat : f = p[n - 1]
    BY <1>4
  <2>2. TOKEN_MAX_LEN \in Nat /\ TOKEN_MAX_LEN > 0 /\ x < f * TOKEN_MAX_LEN
    BY <1>4, <2>1, Base
  <2>3. x \div TOKEN_MAX_LEN < f
    BY <2>2, DivLess
  <2> QED
    BY <2>1, <2>3 DEF tokenPop
<1> HIDE DEF q
<1> QED
  BY <1>2, <1>4, <1>5 DEF Fits

LEMMA FitsNone ==
  /\ Fits(0, 0)
  /\ \A x \in Nat : Fits(x, 0) => x = 0
<1>1. Fits(0, 0)
  <2> DEFINE p == [m \in 0..0 |-> 1]
  <2>1. p \in [0..0 -> Nat] /\ p[0] = 1 /\ 1..0 = {}
    OBVIOUS
  <2> HIDE DEF p
  <2> QED
    BY <2>1 DEF Fits
<1>2. ASSUME NEW x \in Nat, Fits(x, 0) PROVE x = 0
  BY <1>2 DEF Fits
<1> QED
  BY <1>1, <1>2

\* A number has no more digits than there are tags.
LEMMA NumberFits ==
  ASSUME NEW t \in Seq(TagId)
  PROVE  Fits(Number(t), Len(t))
<1> DEFINE K == {n \in Nat : \A u \in Seq(TagId) : Len(u) = n => Fits(Number(u), n)}
<1>1. 0 \in K
  <2>1. \A u \in Seq(TagId) : Len(u) = 0 => u = <<>>
    OBVIOUS
  <2> QED
    BY <2>1, NumberOf, FitsNone
<1>2. ASSUME NEW n \in Nat, n \in K PROVE n + 1 \in K
  <2> SUFFICES ASSUME NEW u \in Seq(TagId), Len(u) = n + 1 PROVE Fits(Number(u), n + 1)
    OBVIOUS
  <2>1. u # <<>>
    OBVIOUS
  <2>2. /\ Front(u) \in Seq(TagId) /\ Last(u) \in TagId /\ Len(Front(u)) = n
        /\ u = Append(Front(u), Last(u))
    BY <2>1, FrontAndLast
  <2>3. Number(u) = Number(Front(u)) * TOKEN_MAX_LEN + Last(u) /\ Number(Front(u)) \in Nat
        /\ Number(u) \in Nat
    BY <2>2, NumberOf
  <2>4. Fits(Number(Front(u)), n)
    BY <1>2, <2>2
  <2>5. Last(u) <= TOKEN_MAX_LEN - 1 /\ Last(u) \in Nat
    BY <2>2, Base DEF TagId
  <2>6. Number(u) <= Number(Front(u)) * TOKEN_MAX_LEN + (TOKEN_MAX_LEN - 1)
    BY <2>3, <2>5, Base
  <2> QED
    BY <2>3, <2>4, <2>6, FitsMore
<1> HIDE DEF K
<1>3. Nat \subseteq K
  BY <1>1, <1>2, Induction
<1>4. Len(t) \in Nat
  OBVIOUS
<1> QED
  BY <1>3, <1>4 DEF K

\* Zero fits everywhere, and one digit wherever there is room for one.
LEMMA FitsDigit ==
  ASSUME NEW n \in Nat, n > 0, NEW y \in Nat, y < TOKEN_MAX_LEN
  PROVE  Fits(y, n)
<1> DEFINE K == {m \in Nat : Fits(0, m)}
<1>1. 0 \in K
  BY FitsNone
<1>2. ASSUME NEW m \in Nat, m \in K PROVE m + 1 \in K
  BY <1>2, FitsMore, Base
<1> HIDE DEF K
<1>3. n - 1 \in Nat /\ n - 1 \in K
  BY <1>1, <1>2, Induction
<1>4. Fits(0, n - 1)
  BY <1>3 DEF K
<1>5. y <= 0 * TOKEN_MAX_LEN + (TOKEN_MAX_LEN - 1)
  BY Base
<1>6. Fits(y, (n - 1) + 1)
  BY <1>3, <1>4, <1>5, FitsMore
<1> QED
  BY <1>6

--------------------------------------------------------------------------------
(* The integer beside the sequence of open tags.                              *)

\* While all the open tags have fitted, the integer is their number.  Afterwards it
\* has fewer digits than there are open tags: one of the closing tags finds it empty.
Stack(tg, op, lg) ==
  IF lg <= MaxUint THEN tg = Number(op) ELSE op # <<>> /\ Fits(tg, Len(op) - 1)

LEMMA Opening ==
  ASSUME NEW tg \in UnsignedInt, NEW op \in Seq(TagId), NEW lg \in Nat, NEW d \in TagId,
         Stack(tg, op, lg),
         NEW wide, wide = IF Number(Append(op, d)) > lg THEN Number(Append(op, d)) ELSE lg
  PROVE  /\ wide \in Nat /\ wide >= lg
         /\ Stack(tokenPush(tg, d), Append(op, d), wide)
<1> DEFINE u == Append(op, d)
<1>1. u \in Seq(TagId) /\ u # <<>> /\ Len(u) = Len(op) + 1 /\ Len(op) \in Nat
  OBVIOUS
<1>2. Number(u) \in Nat /\ Number(u) = Number(op) * TOKEN_MAX_LEN + d /\ Number(op) \in Nat
  BY <1>1, NumberOf
<1> HIDE DEF u
<1>3. wide = IF Number(u) > lg THEN Number(u) ELSE lg
  BY DEF u
<1>4. wide \in Nat /\ wide >= lg /\ wide >= Number(u) /\ MaxUint \in Nat
  BY <1>2, <1>3, Base
<1>5. /\ tokenPush(tg, d) \in UnsignedInt /\ tokenPush(tg, d) <= tg * TOKEN_MAX_LEN + d
      /\ tokenPush(tg, d) \in Nat /\ tg \in Nat
  BY PushType DEF UnsignedInt
<1>6. Stack(tokenPush(tg, d), u, wide)
  <2>1. ASSUME wide <= MaxUint PROVE tokenPush(tg, d) = Number(u)
    <3>1. tg = Number(op) /\ tg * TOKEN_MAX_LEN + d <= MaxUint
      BY <1>2, <1>4, <2>1 DEF Stack
    <3> QED
      BY <1>2, <3>1, PushFits
  <2>2. ASSUME wide > MaxUint, lg <= MaxUint PROVE Fits(tokenPush(tg, d), Len(op))
    <3>1. tg = Number(op) /\ tg * TOKEN_MAX_LEN + d > MaxUint
      BY <1>2, <1>3, <1>4, <2>2 DEF Stack
    <3>2. tg > 0 /\ (tokenPush(tg, d) = tg \/ tokenPush(tg, d) < TOKEN_MAX_LEN)
      BY <3>1, PushFails
    <3>3. op # <<>>
      BY <3>1, <3>2, NumberOf
    <3>4. Len(op) > 0
      BY <3>3
    <3>5. CASE tokenPush(tg, d) = tg
      BY <3>1, <3>5, NumberFits
    <3>6. CASE tokenPush(tg, d) < TOKEN_MAX_LEN
      BY <1>1, <1>5, <3>4, <3>6, FitsDigit
    <3> QED
      BY <3>2, <3>5, <3>6
  <2>3. ASSUME lg > MaxUint PROVE Fits(tokenPush(tg, d), Len(op))
    <3>1. op # <<>> /\ Fits(tg, Len(op) - 1)
      BY <1>4, <2>3 DEF Stack
    <3>2. Len(op) - 1 \in Nat
      BY <3>1
    <3>3. d <= TOKEN_MAX_LEN - 1 /\ d \in Nat
      BY Base DEF TagId
    <3>4. tg * TOKEN_MAX_LEN \in Nat
      BY <1>5, Base
    <3>5. tokenPush(tg, d) <= tg * TOKEN_MAX_LEN + (TOKEN_MAX_LEN - 1)
      BY <1>5, <3>3, <3>4, Base
    <3>6. Fits(tokenPush(tg, d), (Len(op) - 1) + 1)
      BY <1>5, <3>1, <3>2, <3>5, FitsMore
    <3> QED
      BY <1>1, <3>6
  <2>4. Len(u) - 1 = Len(op)
    BY <1>1
  <2>5. wide > MaxUint <=> ~(wide <= MaxUint)
    BY <1>4
  <2>6. lg > MaxUint <=> ~(lg <= MaxUint)
    BY <1>4
  <2> QED
    BY <1>1, <2>1, <2>2, <2>3, <2>4, <2>5, <2>6 DEF Stack
<1> QED
  BY <1>4, <1>6 DEF u

LEMMA Closing ==
  ASSUME NEW tg \in UnsignedInt, NEW op \in Seq(TagId), NEW lg \in Nat,
         Stack(tg, op, lg), Top(tg) \in TagId
  PROVE  op # <<>> /\ Stack(tokenPop(tg), Front(op), lg)
<1>1. tg \in Nat /\ MaxUint \in Nat /\ Top(0) = 0 /\ 0 \notin TagId
  BY Base DEF UnsignedInt, Top, TagId
<1>2. CASE lg <= MaxUint
  <2>1. tg = Number(op)
    BY <1>2 DEF Stack
  <2>2. op # <<>>
    BY <1>1, <2>1, NumberOf
  <2> QED
    BY <1>2, <2>1, <2>2, Unstacked DEF Stack
<1>3. CASE ~(lg <= MaxUint)
  <2>1. op # <<>> /\ Fits(tg, Len(op) - 1)
    BY <1>3 DEF Stack
  <2>2. Front(op) \in Seq(TagId) /\ Len(Front(op)) = Len(op) - 1 /\ Len(op) - 1 \in Nat
    BY <2>1, FrontAndLast
  <2>3. Len(op) - 1 # 0
    BY <1>1, <2>1, FitsNone
  <2>4. Fits(tokenPop(tg), (Len(op) - 1) - 1)
    BY <1>1, <2>1, <2>2, <2>3, FitsLess
  <2>5. Front(op) # <<>>
    BY <2>2, <2>3
  <2> QED
    BY <1>3, <2>1, <2>2, <2>4, <2>5 DEF Stack
<1> QED
  BY <1>2, <1>3

LEMMA Mismatching ==
  ASSUME NEW tg \in UnsignedInt, NEW op \in Seq(TagId), NEW lg \in Nat,
         Stack(tg, op, lg), lg <= MaxUint, op # <<>>
  PROVE  Top(tg) = Last(op)
BY Unstacked DEF Stack

--------------------------------------------------------------------------------
(* What is stored beside the text.                                            *)

Cells(t) == [char : {t[n] : n \in DOMAIN t}, offset : DOMAIN t, tags : UnsignedInt,
             open : Seq(DOMAIN Tokens)]

\* Between the positions a and b of the text there is nothing, or whole tags.
Gap(t, a, b) == b = a + 1 \/ (a + 1 < b /\ t[a + 1] = "<" /\ t[b - 1] = ">")

\* st is the text up to the position p, whole tags left out.
Copied(t, p, st) ==
  /\ p \in 1..(Len(t) + 1)
  /\ st \in Seq(Cells(t)) /\ Len(st) < p
  /\ \A n \in 1..Len(st) : st[n].char = t[st[n].offset] /\ st[n].offset < p
  /\ \A n \in 2..Len(st) : Gap(t, st[n - 1].offset, st[n].offset)
  /\ Len(st) > 0 => Gap(t, st[Len(st)].offset, p)

IsText(t) == t \in Seq({t[n] : n \in DOMAIN t})

LEMMA CellOffsets ==
  ASSUME NEW t, IsText(t), NEW st \in Seq(Cells(t))
  PROVE  /\ DOMAIN t = 1..Len(t) /\ Len(t) \in Nat /\ Len(st) \in Nat
         /\ \A n \in 1..Len(st) : st[n] \in Cells(t) /\ st[n].offset \in 1..Len(t) /\ st[n].offset \in Nat
<1>1. DOMAIN t = 1..Len(t) /\ Len(t) \in Nat
  <2>1. PICK S : t \in Seq(S)
    BY DEF IsText
  <2> QED
    BY <2>1
<1>2. \A c \in Cells(t) : c.offset \in DOMAIN t
  BY DEF Cells
<1>3. Len(st) \in Nat /\ \A n \in 1..Len(st) : st[n] \in Cells(t)
  OBVIOUS
<1> QED
  BY <1>1, <1>2, <1>3

\* A tag from p to q - 1 is passed over.
LEMMA Skipping ==
  ASSUME NEW t, IsText(t), NEW p, NEW st, Copied(t, p, st),
         NEW q \in Int, p + 1 < q, q <= Len(t) + 1, t[p] = "<", t[q - 1] = ">"
  PROVE  Copied(t, q, st)
<1>1. Len(t) \in Nat /\ p \in Nat /\ p >= 1 /\ q \in 1..(Len(t) + 1)
  BY DEF Copied, IsText
<1>2. st \in Seq(Cells(t)) /\ Len(st) \in Nat /\ Len(st) < q
  BY <1>1 DEF Copied
<1>3. \A n \in 1..Len(st) : st[n].char = t[st[n].offset] /\ st[n].offset < q
  <2>1. \A n \in 1..Len(st) : st[n].offset \in Nat
    BY <1>2, CellOffsets
  <2> QED
    BY <1>1, <2>1 DEF Copied
<1>4. ASSUME Len(st) > 0 PROVE Gap(t, st[Len(st)].offset, q)
  <2>1. PICK a \in Nat : a = st[Len(st)].offset
    <3>1. Len(st) \in 1..Len(st)
      BY <1>2, <1>4
    <3> QED
      BY <1>2, <3>1, CellOffsets
  <2>2. Gap(t, a, p)
    BY <1>4, <2>1 DEF Copied
  <2>3. a + 1 <= p /\ t[a + 1] = "<"
    <3>1. CASE p = a + 1
      BY <3>1
    <3>2. CASE a + 1 < p /\ t[a + 1] = "<"
      BY <1>1, <2>1, <3>2
    <3> QED
      BY <2>2, <3>1, <3>2 DEF Gap
  <2> QED
    BY <1>1, <2>1, <2>3 DEF Gap
<1> QED
  BY <1>1, <1>2, <1>3, <1>4 DEF Copied

\* The character at p is stored.
LEMMA Storing ==
  ASSUME NEW t, IsText(t), NEW p, NEW st, Copied(t, p, st), p <= Len(t),
         NEW c \in Cells(t), c.offset = p, c.char = t[p]
  PROVE  Copied(t, p + 1, Append(st, c))
<1> DEFINE u == Append(st, c)
<1>1. Len(t) \in Nat /\ p \in Nat /\ p >= 1 /\ p + 1 \in 1..(Len(t) + 1)
  BY DEF Copied, IsText
<1>2. st \in Seq(Cells(t)) /\ Len(st) \in Nat /\ Len(st) < p
  BY DEF Copied
<1>3. u \in Seq(Cells(t)) /\ Len(u) = Len(st) + 1 /\ u[Len(st) + 1] = c
      /\ \A n \in 1..Len(st) : u[n] = st[n]
  BY <1>2
<1> HIDE DEF u
<1>4. \A n \in 1..Len(st) : st[n].offset \in Nat /\ st[n].offset < p /\ st[n].char = t[st[n].offset]
  BY <1>2, CellOffsets DEF Copied
<1>5. ASSUME NEW n \in 1..Len(u) PROVE u[n].char = t[u[n].offset] /\ u[n].offset < p + 1
  <2>1. CASE n = Len(st) + 1
    BY <1>1, <1>3, <2>1
  <2>2. CASE n # Len(st) + 1
    <3>1. n \in 1..Len(st)
      BY <1>2, <1>3, <2>2
    <3> QED
      BY <1>1, <1>3, <1>4, <3>1
  <2> QED
    BY <2>1, <2>2
<1>6. ASSUME NEW n \in 2..Len(u) PROVE Gap(t, u[n - 1].offset, u[n].offset)
  <2>1. CASE n = Len(st) + 1
    <3>1. n - 1 = Len(st) /\ Len(st) > 0 /\ Len(st) \in 1..Len(st)
      BY <1>2, <2>1
    <3>2. Gap(t, st[Len(st)].offset, p)
      BY <3>1 DEF Copied
    <3> QED
      BY <1>3, <2>1, <3>1, <3>2
  <2>2. CASE n # Len(st) + 1
    <3>1. n \in 2..Len(st) /\ n \in 1..Len(st) /\ n - 1 \in 1..Len(st)
      BY <1>2, <1>3, <2>2
    <3> QED
      BY <1>3, <3>1 DEF Copied
  <2> QED
    BY <2>1, <2>2
<1>7. Gap(t, u[Len(u)].offset, p + 1)
  BY <1>3 DEF Gap
<1>8. Len(u) < p + 1
  BY <1>1, <1>2, <1>3
<1>9. Copied(t, p + 1, u)
  BY <1>1, <1>3, <1>5, <1>6, <1>7, <1>8 DEF Copied
<1> QED
  BY <1>9 DEF u

--------------------------------------------------------------------------------
(* The inductive invariant.                                                   *)

Right(st) == \A n \in DOMAIN st : st[n].tags = Number(st[n].open)

Stacked(tg, op, lg, st, at, bal) ==
  /\ tg \in UnsignedInt /\ op \in Seq(DOMAIN Tokens) /\ lg \in Nat /\ bal \in BOOLEAN
  /\ at \in {"scan", "ok", "refused"}
  /\ lg <= MaxUint => (at = "refused" <=> ~bal)
  /\ at # "refused" => Stack(tg, op, lg)
  /\ lg <= MaxUint => Right(st)

IInv ==
  /\ content \in Texts
  /\ Copied(content, i, stored)
  /\ pclen = IF pc = "ok" THEN Len(stored) + 1 ELSE 0
  /\ Stacked(nowTag, open, largest, stored, pc, balanced)

LEMMA TextsAreTexts == \A t \in Texts : IsText(t)
BY TagTextAssumption DEF IsText

LEMMA TagsAreTagIds == DOMAIN Tokens \subseteq TagId /\ \A op \in Seq(DOMAIN Tokens) : op \in Seq(TagId)
BY TagTextAssumption

LEMMA OpensIn ==
  ASSUME IInv, NEW e \in Places, OpensTag(e)
  PROVE  /\ e[2] \in DOMAIN Tokens /\ e[1] \in Nat
         /\ Copied(content, i + e[1] + 2, stored)
<1>1. e[2] \in DOMAIN Tokens /\ e[1] \in Nat
  BY TagTextAssumption DEF Places
<1>2. IsText(content) /\ Copied(content, i, stored) /\ i \in Nat /\ Len(content) \in Nat
  BY TextsAreTexts DEF IInv, Copied, IsText
<1>3. CharAt(i) = "<" /\ CharAt(i + 1 + e[1]) = ">"
  BY DEF OpensTag, TagEnds
<1>4. content[i] = "<" /\ i + 1 + e[1] \in DOMAIN content /\ content[i + 1 + e[1]] = ">"
  BY <1>3 DEF CharAt
<1> DEFINE q == i + e[1] + 2
<1>5. q \in Int /\ i + 1 < q /\ q - 1 = i + 1 + e[1]
  BY <1>1, <1>2
<1>6. q <= Len(content) + 1
  <2>1. DOMAIN content = 1..Len(content)
    BY <1>2, CellOffsets DEF Copied
  <2>2. q - 1 \in 1..Len(content)
    BY <1>4, <1>5, <2>1
  <2> HIDE DEF q
  <2> QED
    BY <1>2, <1>5, <2>2
<1> HIDE DEF q
<1>7. Copied(content, q, stored)
  BY <1>2, <1>4, <1>5, <1>6, Skipping
<1> QED
  BY <1>1, <1>7 DEF q

LEMMA ClosesIn ==
  ASSUME IInv, NEW e \in Places, ClosesTag(e)
  PROVE  /\ e[2] \in DOMAIN Tokens /\ e[1] \in Nat
         /\ Copied(content, i + (e[1] + 3), stored)
<1>1. e[2] \in DOMAIN Tokens /\ e[1] \in Nat
  BY TagTextAssumption DEF Places
<1>2. IsText(content) /\ Copied(content, i, stored) /\ i \in Nat /\ Len(content) \in Nat
  BY TextsAreTexts DEF IInv, Copied, IsText
<1>3. CharAt(i) = "<" /\ CharAt(i + 2 + e[1]) = ">"
  BY DEF ClosesTag, TagEnds
<1>4. content[i] = "<" /\ i + 2 + e[1] \in DOMAIN content /\ content[i + 2 + e[1]] = ">"
  BY <1>3 DEF CharAt
<1> DEFINE q == i + (e[1] + 3)
<1>5. q \in Int /\ i + 1 < q /\ q - 1 = i + 2 + e[1]
  BY <1>1, <1>2
<1>6. q <= Len(content) + 1
  <2>1. DOMAIN content = 1..Len(content)
    BY <1>2, CellOffsets DEF Copied
  <2>2. q - 1 \in 1..Len(content)
    BY <1>4, <1>5, <2>1
  <2> HIDE DEF q
  <2> QED
    BY <1>2, <1>5, <2>2
<1> HIDE DEF q
<1>7. Copied(content, q, stored)
  BY <1>2, <1>4, <1>5, <1>6, Skipping
<1> QED
  BY <1>1, <1>7 DEF q

LEMMA InvInit == Init => IInv
<1> SUFFICES ASSUME Init PROVE IInv
  OBVIOUS
<1>1. content \in Texts /\ i = 1 /\ stored = <<>> /\ nowTag = 0 /\ pclen = 0 /\ pc = "scan"
      /\ open = <<>> /\ largest = 0 /\ balanced = TRUE
  BY DEF Init
<1>2. Len(content) \in Nat
  BY <1>1, TextsAreTexts DEF IsText
<1>3. Copied(content, 1, <<>>)
  BY <1>2 DEF Copied
<1>4. Stacked(0, <<>>, 0, <<>>, "scan", TRUE)
  <2>1. 0 \in UnsignedInt /\ Number(<<>>) = 0 /\ 0 <= MaxUint
    BY Base, NumberOf DEF UnsignedInt
  <2>2. Stack(0, <<>>, 0)
    BY <2>1 DEF Stack
  <2>3. Right(<<>>)
    BY DEF Right
  <2> QED
    BY <2>1, <2>2, <2>3 DEF Stacked
<1> QED
  BY <1>1, <1>3, <1>4 DEF IInv

LEMMA InvNext == IInv /\ [Next]_vars => IInv'
<1> SUFFICES ASSUME IInv, [Next]_vars PROVE IInv'
  OBVIOUS
<1>1. /\ content \in Texts /\ Copied(content, i, stored)
      /\ pclen = (IF pc = "ok" THEN Len(stored) + 1 ELSE 0)
      /\ Stacked(nowTag, open, largest, stored, pc, balanced)
  BY DEF IInv
<1>2. /\ nowTag \in UnsignedInt /\ open \in Seq(DOMAIN Tokens) /\ open \in Seq(TagId)
      /\ largest \in Nat /\ balanced \in BOOLEAN
      /\ largest <= MaxUint => Right(stored)
  BY <1>1, TagsAreTagIds DEF Stacked
<1>3. ASSUME pc = "scan" PROVE Stack(nowTag, open, largest) /\ pclen = 0
  BY <1>1, <1>3 DEF Stacked
<1>4. MaxUint \in Nat
  BY Base
<1>5. CASE OpenTag
  <2>1. PICK e \in Places : OpensTag(e) /\ nowTag' = tokenPush(nowTag, e[2]) /\ i' = i + e[1] + 2
                            /\ Opened(e[2])
    BY <1>5 DEF OpenTag
  <2>2. pc = "scan" /\ UNCHANGED <<content, stored, pclen, pc>>
    BY <1>5 DEF OpenTag
  <2>3. e[2] \in DOMAIN Tokens /\ e[2] \in TagId /\ Copied(content, i', stored)
    BY <2>1, OpensIn, TagsAreTagIds
  <2>4. /\ open' = Append(open, e[2]) /\ balanced' = balanced
        /\ largest' = IF Number(Append(open, e[2])) > largest THEN Number(Append(open, e[2])) ELSE largest
    BY <2>1 DEF Opened
  <2>5. /\ largest' \in Nat /\ largest' >= largest
        /\ Stack(nowTag', open', largest')
    <3>1. /\ largest' \in Nat /\ largest' >= largest
          /\ Stack(tokenPush(nowTag, e[2]), Append(open, e[2]), largest')
      BY <1>2, <1>3, <2>2, <2>3, <2>4, Opening
    <3> QED
      BY <2>1, <2>4, <3>1
  <2>6. nowTag' \in UnsignedInt /\ open' \in Seq(DOMAIN Tokens)
    BY <1>2, <2>1, <2>3, <2>4, PushType
  <2>7. largest' <= MaxUint => Right(stored) /\ balanced
    <3>1. largest' <= MaxUint => largest <= MaxUint
      BY <1>2, <1>4, <2>5
    <3> QED
      BY <1>1, <1>2, <2>2, <3>1 DEF Stacked
  <2>8. Stacked(nowTag', open', largest', stored, pc, balanced)
    BY <1>2, <2>2, <2>5, <2>6, <2>7 DEF Stacked
  <2> QED
    BY <1>1, <2>2, <2>3, <2>4, <2>8 DEF IInv
<1>6. CASE CloseTag
  <2>1. PICK e \in Places : ClosesTag(e) /\ Top(nowTag) = e[2] /\ PopsAndSkips(e[2], e[1] + 3)
    BY <1>6 DEF CloseTag
  <2>2. pc = "scan" /\ UNCHANGED <<content, stored, pclen, pc>>
    BY <1>6, <2>1 DEF CloseTag, PopsAndSkips
  <2>3. e[2] \in TagId /\ i' = i + (e[1] + 3) /\ nowTag' = tokenPop(nowTag) /\ Closed(e[2])
        /\ Copied(content, i', stored)
    BY <2>1, ClosesIn, TagsAreTagIds DEF PopsAndSkips
  <2>4. open # <<>> /\ Stack(tokenPop(nowTag), Front(open), largest)
    BY <1>2, <1>3, <2>1, <2>2, <2>3, Closing
  <2>5. open' = Front(open) /\ largest' = largest /\ balanced' \in BOOLEAN
    BY <2>3, <2>4 DEF Closed
  <2>6. nowTag' \in UnsignedInt /\ open' \in Seq(DOMAIN Tokens)
    BY <1>2, <2>3, <2>4, <2>5, PopType, FrontAndLast
  <2>7. largest <= MaxUint => balanced'
    <3>1. largest <= MaxUint => balanced /\ Last(open) = e[2]
      BY <1>1, <1>2, <1>3, <2>1, <2>2, <2>4, Mismatching DEF Stacked
    <3> QED
      BY <2>3, <2>4, <3>1 DEF Closed
  <2>8. Stacked(nowTag', open', largest', stored, pc, balanced')
    BY <1>2, <2>2, <2>3, <2>4, <2>5, <2>6, <2>7 DEF Stacked
  <2> QED
    BY <1>1, <2>2, <2>3, <2>8 DEF IInv
<1>7. CASE Mismatch
  <2>1. PICK e \in Places : ClosesTag(e) /\ Top(nowTag) # e[2] /\ Closed(e[2])
    BY <1>7 DEF Mismatch
  <2>2. pc = "scan" /\ pc' = "refused" /\ UNCHANGED <<content, i, nowTag, stored, pclen>>
    BY <1>7 DEF Mismatch
  <2>3. balanced' = (balanced /\ open # <<>> /\ Last(open) = e[2]) /\ largest' = largest
        /\ open' = IF open = <<>> THEN open ELSE Front(open)
    BY <2>1 DEF Closed
  <2>4. open' \in Seq(DOMAIN Tokens) /\ balanced' \in BOOLEAN
    BY <1>2, <2>3, FrontAndLast
  <2>5. largest <= MaxUint => ~balanced'
    <3> SUFFICES ASSUME balanced', largest <= MaxUint PROVE FALSE
      OBVIOUS
    <3>1. open # <<>> /\ Last(open) = e[2]
      BY <2>3
    <3>2. Top(nowTag) = Last(open)
      BY <1>2, <1>3, <2>2, <3>1, Mismatching
    <3> QED
      BY <2>1, <3>1, <3>2
  <2>6. Stacked(nowTag, open', largest', stored, "refused", balanced')
    BY <1>2, <2>3, <2>4, <2>5 DEF Stacked
  <2> QED
    BY <1>1, <1>3, <2>2, <2>6 DEF IInv
<1>8. CASE Copy
  <2> DEFINE c == [char |-> content[i], offset |-> i, tags |-> nowTag, open |-> open]
  <2>1. /\ pc = "scan" /\ i <= Len(content) /\ stored' = Append(stored, c) /\ i' = i + 1
        /\ UNCHANGED <<content, nowTag, pclen, pc, open, largest, balanced>>
    BY <1>8 DEF Copy, record
  <2>2. c.char = content[i] /\ c.offset = i /\ c.tags = nowTag /\ c.open = open
    OBVIOUS
  <2>3. IsText(content) /\ i \in DOMAIN content
    BY <1>1, <2>1, TextsAreTexts DEF Copied, IsText
  <2>4. c \in Cells(content)
    BY <1>2, <2>3 DEF Cells
  <2> HIDE DEF c
  <2>5. Copied(content, i', stored')
    BY <1>1, <2>1, <2>2, <2>3, <2>4, Storing
  <2>6. ASSUME largest <= MaxUint PROVE Right(stored')
    <3>1. Right(stored) /\ c.tags = Number(c.open)
      BY <1>2, <1>3, <2>1, <2>2, <2>6 DEF Stack
    <3>2. stored \in Seq(Cells(content))
      BY <1>1 DEF Copied
    <3>3. /\ DOMAIN stored' = 1..(Len(stored) + 1) /\ stored'[Len(stored) + 1] = c
          /\ \A n \in 1..Len(stored) : stored'[n] = stored[n] /\ n \in DOMAIN stored
          /\ Len(stored) \in Nat
      BY <2>1, <2>4, <3>2
    <3>4. ASSUME NEW n \in 1..(Len(stored) + 1) PROVE stored'[n].tags = Number(stored'[n].open)
      <4>1. CASE n = Len(stored) + 1
        BY <3>1, <3>3, <4>1
      <4>2. CASE n # Len(stored) + 1
        <5>1. n \in 1..Len(stored)
          BY <3>3, <4>2
        <5> QED
          BY <3>1, <3>3, <5>1 DEF Right
      <4> QED
        BY <4>1, <4>2
    <3> QED
      BY <3>3, <3>4 DEF Right
  <2>7. Stacked(nowTag, open, largest, stored', pc, balanced)
    BY <1>1, <1>2, <1>3, <2>1, <2>6 DEF Stacked
  <2> QED
    BY <1>1, <1>3, <2>1, <2>5, <2>7 DEF IInv
<1>9. CASE Finish
  <2>1. pc = "scan" /\ pclen' = Len(stored) + 1 /\ pc' = "ok"
        /\ UNCHANGED <<content, i, nowTag, stored, open, largest, balanced>>
    BY <1>9 DEF Finish, record, k
  <2>2. Stacked(nowTag, open, largest, stored, "ok", balanced)
    BY <1>1, <1>2, <1>3, <2>1 DEF Stacked
  <2> QED
    BY <1>1, <2>1, <2>2 DEF IInv
<1>10. CASE UNCHANGED vars
  BY <1>1, <1>10 DEF vars, record, IInv
<1> QED
  BY <1>5, <1>6, <1>7, <1>8, <1>9, <1>10 DEF Next

LEMMA Invariance == Spec => []IInv
BY InvInit, InvNext, PTL DEF Spec

--------------------------------------------------------------------------------
(* What is stored, and what is refused.                                       *)

LEMMA Typed == IInv => TypeOK
<1> SUFFICES ASSUME IInv PROVE TypeOK
  OBVIOUS
<1>1. Copied(content, i, stored) /\ stored \in Seq(Cells(content)) /\ IsText(content)
      /\ i \in 1..(Len(content) + 1)
  BY TextsAreTexts DEF IInv, Copied
<1>2. /\ nowTag \in UnsignedInt /\ open \in Seq(DOMAIN Tokens) /\ largest \in Nat
      /\ balanced \in BOOLEAN /\ pc \in {"scan", "ok", "refused"}
  BY DEF IInv, Stacked
<1>3. /\ DOMAIN content = 1..Len(content) /\ Len(content) \in Nat /\ Len(stored) \in Nat
      /\ \A n \in 1..Len(stored) : stored[n] \in Cells(content)
  BY <1>1, CellOffsets
<1>4. pclen \in 0..(Len(content) + 1)
  <2>1. Len(stored) < i /\ pclen = IF pc = "ok" THEN Len(stored) + 1 ELSE 0
    BY <1>1 DEF IInv, Copied
  <2> QED
    BY <1>1, <1>3, <2>1
<1>5. ASSUME NEW n \in DOMAIN stored
      PROVE  /\ stored[n].offset \in DOMAIN content
             /\ stored[n].char = content[stored[n].offset]
             /\ stored[n].tags \in UnsignedInt
             /\ stored[n].open \in Seq(DOMAIN Tokens)
  <2>1. n \in 1..Len(stored)
    BY <1>1
  <2>2. stored[n] \in Cells(content) /\ stored[n].char = content[stored[n].offset]
    BY <1>1, <1>3, <2>1 DEF Copied
  <2>3. \A c \in Cells(content) : /\ c.offset \in DOMAIN content /\ c.tags \in UnsignedInt
                                  /\ c.open \in Seq(DOMAIN Tokens)
    BY DEF Cells
  <2> QED
    BY <2>2, <2>3
<1> QED
  BY <1>1, <1>2, <1>4, <1>5 DEF TypeOK

\* What a gap says of the characters in it.
LEMMA GapIsTags ==
  ASSUME NEW t, IsText(t), NEW a \in 1..Len(t), NEW b \in 1..Len(t), Gap(t, a, b)
  PROVE  \/ SubSeq(t, a + 1, b - 1) = <<>>
         \/ SubSeq(t, a + 1, b - 1)[1] = "<" /\ Last(SubSeq(t, a + 1, b - 1)) = ">"
<1>1. PICK S : t \in Seq(S)
  BY DEF IsText
<1>2. Len(t) \in Nat /\ a \in Nat /\ b \in Nat
  BY <1>1
<1>3. CASE b = a + 1
  BY <1>1, <1>2, <1>3
<1>4. CASE a + 1 < b /\ t[a + 1] = "<" /\ t[b - 1] = ">"
  <2> DEFINE u == SubSeq(t, a + 1, b - 1)
  <2>1. u = [n \in 1..(b - 1 - a) |-> t[n + a]]
    BY <1>1, <1>2, <1>4
  <2>2. b - 1 - a \in Nat /\ 1 \in 1..(b - 1 - a) /\ b - 1 - a \in 1..(b - 1 - a)
        /\ (b - 1 - a) + a = b - 1 /\ 1 + a = a + 1
    BY <1>2, <1>4
  <2> HIDE DEF u
  <2>3. Len(u) = b - 1 - a
    BY <2>1, <2>2
  <2>4. u[1] = "<" /\ u[Len(u)] = ">"
    <3>1. u[1] = t[1 + a] /\ u[b - 1 - a] = t[(b - 1 - a) + a]
      BY <2>1, <2>2
    <3> QED
      BY <1>4, <2>2, <2>3, <3>1
  <2> QED
    BY <2>4 DEF u, Last
<1> QED
  BY <1>3, <1>4 DEF Gap

LEMMA LeftOut == IInv => OnlyTagsLeftOut
<1> SUFFICES ASSUME IInv PROVE OnlyTagsLeftOut
  OBVIOUS
<1>1. Copied(content, i, stored) /\ stored \in Seq(Cells(content)) /\ IsText(content)
  BY TextsAreTexts DEF IInv, Copied
<1>2. Len(stored) \in Nat /\ \A n \in 1..Len(stored) : stored[n].offset \in 1..Len(content)
  BY <1>1, CellOffsets
<1>3. ASSUME NEW n \in 2..Len(stored)
      PROVE  LET gap == SubSeq(content, stored[n - 1].offset + 1, stored[n].offset - 1)
             IN  gap = <<>> \/ (gap[1] = "<" /\ Last(gap) = ">")
  <2>1. n \in 1..Len(stored) /\ n - 1 \in 1..Len(stored)
    BY <1>2
  <2>2. Gap(content, stored[n - 1].offset, stored[n].offset)
    BY <1>1 DEF Copied
  <2> QED
    BY <1>1, <1>2, <2>1, <2>2, GapIsTags
<1> QED
  BY <1>3 DEF OnlyTagsLeftOut, k

\* What is stored is the text, each character with its own offset and nothing but whole
\* tags left out, for every text and every set of tag names (virtualcontent.c, 184-285).
THEOREM TextRight == Spec => []StoredIsText
<1>1. IInv => StoredIsText
  BY Typed, LeftOut DEF StoredIsText
<1> QED
  BY <1>1, Invariance, PTL

\* Every character is stored with the tags open around it as long as they fit into an
\* unsigned int, whatever the base and the width (tokens.c: tokenPush and tokenPop).
THEOREM TagsRight == Spec => []TagsAreOpen
<1>1. IInv => TagsAreOpen
  BY DEF IInv, Stacked, Right, TagsAreOpen
<1> QED
  BY <1>1, Invariance, PTL

\* For every base and width of the integer: as long as the tags fit, a text is refused
\* exactly when they do not balance, and one whose tags did not fit is accepted only with
\* a tag left open at its end (virtualcontent.c, 205-222).
THEOREM RefusalsRight == Spec => []RefusedOrLeftOpen
<1>1. IInv => RefusedOrLeftOpen
  <2> SUFFICES ASSUME IInv PROVE RefusedOrLeftOpen
    OBVIOUS
  <2>1. Stacked(nowTag, open, largest, stored, pc, balanced)
    BY DEF IInv
  <2>2. RefusedWhereTheyFit
    BY <2>1 DEF Stacked, RefusedWhereTheyFit
  <2>3. LostPushLeavesOpen
    <3>1. largest \in Nat /\ MaxUint \in Nat
      BY <2>1, Base DEF Stacked
    <3>2. pc = "ok" /\ largest > MaxUint => Stack(nowTag, open, largest) /\ ~(largest <= MaxUint)
      BY <2>1, <3>1 DEF Stacked
    <3> QED
      BY <3>2 DEF Stack, LostPushLeavesOpen
  <2> QED
    BY <2>2, <2>3 DEF RefusedOrLeftOpen
<1> QED
  BY <1>1, Invariance, PTL

--------------------------------------------------------------------------------
(* The reference area.                                                        *)

\* The first of some numbers is one of them and the least.
LEMMA FirstIsLeast ==
  ASSUME NEW S \in SUBSET Nat, S # {}
  PROVE  FirstOf(S) \in S /\ \A m \in S : FirstOf(S) <= m
<1> DEFINE K == {n \in Nat : \A m \in Nat : m <= n => m \notin S}
<1>1. \E n \in S : \A m \in S : n <= m
  <2> SUFFICES ASSUME \A n \in S : \E m \in S : m < n PROVE FALSE
    <3>1. ASSUME NEW n \in S, ~(\A m \in S : n <= m) PROVE \E m \in S : m < n
      BY <3>1
    <3> QED
      BY <3>1
  <2>1. 0 \in K
    OBVIOUS
  <2>2. ASSUME NEW n \in Nat, n \in K PROVE n + 1 \in K
    <3>1. \A m \in S : m < n + 1 => FALSE
      BY <2>2
    <3>2. n + 1 \notin S
      BY <3>1
    <3>3. ASSUME NEW m \in Nat, m <= n + 1 PROVE m \notin S
      BY <3>1, <3>2, <3>3
    <3> QED
      BY <3>3
  <2> HIDE DEF K
  <2>3. Nat \subseteq K
    BY <2>1, <2>2, Induction
  <2>4. PICK n \in S : TRUE
    OBVIOUS
  <2>5. n \in K /\ n \in Nat
    BY <2>3, <2>4
  <2> QED
    BY <2>4, <2>5 DEF K
<1>2. FirstOf(S) = CHOOSE n \in S : \A m \in S : n <= m
  BY DEF FirstOf
<1> QED
  BY <1>1, <1>2

\* f says which tags are open on the stacks up to m.
OpenUpto(m, f) ==
  f = [x \in 0..m |-> IF Top(x) = 0 THEN {} ELSE {Top(x)} \cup f[tokenPop(x)]]

HasOpenUpto(m) == \E f : OpenUpto(m, f)

LEMMA PopShrinks ==
  ASSUME NEW x \in Nat, Top(x) # 0
  PROVE  tokenPop(x) \in Nat /\ tokenPop(x) < x
BY Base DEF Top, tokenPop

LEMMA OpenTagsExist == HasOpenUpto(MaxUint)
<1> DEFINE K == {m \in Nat : HasOpenUpto(m)}
<1>1. HasOpenUpto(0)
  <2> DEFINE f == [x \in 0..0 |-> {}]
             Step(x) == IF Top(x) = 0 THEN {} ELSE {Top(x)} \cup f[tokenPop(x)]
  <2>1. Top(0) = 0
    BY Base DEF Top
  <2>2. \A x \in 0..0 : Step(x) = {}
    BY <2>1
  <2> HIDE DEF Step
  <2>3. f = [x \in 0..0 |-> Step(x)]
    BY <2>2
  <2> QED
    BY <2>3 DEF Step, HasOpenUpto, OpenUpto
<1>2. ASSUME NEW m \in Nat, m \in K PROVE m + 1 \in K
  <2>1. PICK f : OpenUpto(m, f)
    BY <1>2 DEF HasOpenUpto
  <2> DEFINE Old(x) == IF Top(x) = 0 THEN {} ELSE {Top(x)} \cup f[tokenPop(x)]
             g == [x \in 0..(m + 1) |-> IF x = m + 1 THEN Old(x) ELSE f[x]]
             Step(x) == IF Top(x) = 0 THEN {} ELSE {Top(x)} \cup g[tokenPop(x)]
  <2>2. \A x \in 0..m : f[x] = Old(x)
    <3>1. f = [x \in 0..m |-> Old(x)]
      BY <2>1 DEF OpenUpto
    <3> HIDE DEF Old
    <3> QED
      BY <3>1
  <2>3. /\ \A x \in 0..m : g[x] = f[x]
        /\ \A x \in 0..(m + 1) : g[x] = IF x = m + 1 THEN Old(x) ELSE f[x]
        /\ g = [x \in 0..(m + 1) |-> g[x]]
    <3> HIDE DEF Old
    <3> QED
      OBVIOUS
  <2> HIDE DEF g
  <2>4. ASSUME NEW x \in 0..(m + 1) PROVE g[x] = Step(x)
    <3>1. Old(x) = Step(x)
      <4>1. CASE Top(x) = 0
        BY <4>1
      <4>2. CASE Top(x) # 0
        <5>1. tokenPop(x) \in 0..m
          BY <4>2, PopShrinks
        <5>2. g[tokenPop(x)] = f[tokenPop(x)]
          BY <2>3, <5>1
        <5> QED
          BY <5>2
      <4> QED
        BY <4>1, <4>2
    <3>2. CASE x = m + 1
      BY <2>3, <3>1, <3>2
    <3>3. CASE x # m + 1
      <4>1. x \in 0..m
        BY <3>3
      <4> HIDE DEF Old, Step
      <4> QED
        BY <2>2, <2>3, <3>1, <4>1
    <3> QED
      BY <3>2, <3>3
  <2> HIDE DEF Step
  <2>5. g = [x \in 0..(m + 1) |-> Step(x)]
    BY <2>3, <2>4
  <2> QED
    BY <2>5 DEF Step, HasOpenUpto, OpenUpto
<1> HIDE DEF K
<1>3. 0 \in K
  BY <1>1 DEF K
<1>4. MaxUint \in K
  BY <1>2, <1>3, Induction, Base
<1> QED
  BY <1>4 DEF K

\* No tag is open on an empty stack.
LEMMA EmptyStack == OpenTags[0] = {}
<1>1. OpenTags = CHOOSE f : OpenUpto(MaxUint, f)
  BY DEF OpenTags, OpenUpto, UnsignedInt
<1>2. OpenUpto(MaxUint, OpenTags)
  BY <1>1, OpenTagsExist DEF HasOpenUpto
<1> DEFINE f == OpenTags
           Step(x) == IF Top(x) = 0 THEN {} ELSE {Top(x)} \cup f[tokenPop(x)]
<1>3. f = [x \in 0..MaxUint |-> Step(x)]
  BY <1>2 DEF OpenUpto
<1>4. Step(0) = {} /\ 0 \in 0..MaxUint
  BY Base DEF Top
<1> HIDE DEF Step, f
<1>5. f[0] = {}
  BY <1>3, <1>4
<1> QED
  BY <1>5 DEF f

\* A reference area that is in the text is found: its head before its end, and inside
\* some tag all the way (getReferenceHeadOffset and getReferenceEndOffset).
THEOREM AreaRight == Spec => []ReferenceAreaFound
<1>1. IInv => ReferenceAreaFound
  <2> SUFFICES ASSUME IInv, pc = "ok", NEW x \in 0..(k - 1), InRefA(x)
               PROVE  /\ InRefA(getReferenceHeadOffset)
                      /\ getReferenceHeadOffset < getReferenceEndOffset
                      /\ TagsAt(getReferenceEndOffset) = 0
                      /\ \A n \in getReferenceHeadOffset..(getReferenceEndOffset - 1) : TagsAt(n) # 0
    BY DEF ReferenceAreaFound
  <2>1. k \in Nat /\ pclen = k + 1
    BY CellOffsets, TextsAreTexts DEF IInv, Copied, k
  <2> DEFINE Inside == {n \in 0..(pclen - 1) : InRefA(n)}
             Ends == {n \in 0..(pclen - 1) : TagsAt(n) = 0 /\ \E m \in 0..(n - 1) : InRefA(m)}
             head == FirstOf(Inside)
             end == FirstOf(Ends)
  <2>2. \A n \in 0..k : InRefA(n) => TagsAt(n) # 0
    BY EmptyStack DEF InRefA
  <2>3. TagsAt(k) = 0
    BY <2>1 DEF TagsAt
  <2>4. Inside \in SUBSET Nat /\ x \in Inside /\ Ends \in SUBSET Nat /\ k \in Ends
    BY <2>1, <2>3
  <2>5. head \in Inside /\ end \in Ends /\ (\A m \in Inside : head <= m) /\ \A m \in Ends : end <= m
    <3> HIDE DEF Inside, Ends
    <3> QED
      BY <2>4, FirstIsLeast
  <2> HIDE DEF head, end
  <2>6. head \in Nat /\ head \in 0..k /\ InRefA(head) /\ end \in Nat /\ end \in 0..k /\ TagsAt(end) = 0
    BY <2>1, <2>5
  <2>7. head < end
    <3>1. PICK m \in 0..(end - 1) : InRefA(m)
      BY <2>5
    <3>2. m \in Inside /\ m < end
      BY <2>1, <2>6, <3>1
    <3> QED
      BY <2>5, <2>6, <3>2
  <2>8. ASSUME NEW n \in head..(end - 1), TagsAt(n) = 0 PROVE FALSE
    <3>1. n \in 0..k /\ n < end
      BY <2>1, <2>6
    <3>2. n # head
      BY <2>2, <2>6, <2>8
    <3>3. head \in 0..(n - 1)
      BY <2>6, <3>2
    <3>4. n \in Ends
      BY <2>1, <2>6, <2>8, <3>1, <3>3
    <3> QED
      BY <2>5, <2>6, <3>1, <3>4
  <2>9. getReferenceHeadOffset = head /\ getReferenceEndOffset = end
    BY DEF getReferenceHeadOffset, getReferenceEndOffset, head, end
  <2> QED
    BY <2>6, <2>7, <2>8, <2>9
<1> QED
  BY <1>1, Invariance, PTL

================================================================================
