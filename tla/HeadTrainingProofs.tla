---------------------------- MODULE HeadTrainingProofs ----------------------------
(****************************************************************************)
(* Proofs about the database of the heading trainer, for every number of    *)
(* thresholds, every text, whatever an uninitialized int holds, and any     *)
(* number of runs, kills and failed inserts: deleting the rows of a file    *)
(* heals what was left of it (StoreSettles), what is read from it is what   *)
(* would be computed (HitIsTruth), the merge ends (OneOffsetEach) and has   *)
(* every offset in one candidate of its own rank (EveryHeadingOnce).        *)
(****************************************************************************)
EXTENDS HeadTraining, WellFoundedInduction, FiniteSetTheorems, TLAPS

\* A candidate lies at the last one of a set of places.
Places == {Max(P) : P \in SUBSET Nat}
Row    == [offset : Places, t : [Stacks -> Nat]]

\* The stacks and the ranks.
StacksOK ==
  /\ info \in [Stacks -> Seq(Nat)]
  /\ top \in [Stacks -> Int]
  /\ \A i \in Stacks : top[i] <= Len(info[i])
  /\ count \in [Stacks -> Nat]

\* The candidates, the database and what is remembered of it.
StoreOK ==
  /\ mfdc \in Seq(Row) /\ rows \in Seq(Row) /\ computed \in Seq(Row)
  /\ numbers \in Seq(Nat)
  /\ torn \in Nat /\ finished \in Nat
  /\ pc \in {"idle", "merge", "sample"}

\* As long as nothing was torn since the rows were deleted: until a merge is
\* finished they are the candidates of the merge that is going on, and after that
\* nothing is merged any more.
Unfinished ==
  torn = 0 /\ finished = 0 => IF pc = "merge" THEN rows = mfdc ELSE rows = <<>>

HInv == StacksOK /\ StoreOK /\ Unfinished /\ StoreSettles

--------------------------------------------------------------------------------
\* A candidate the merge finds is one.
LEMMA CandidateTyped ==
  ASSUME StacksOK, NEW N \in SUBSET Stacks PROVE Candidate(N) \in Row
<1>1. \A i \in Left : Tip(i) \in Nat
  BY DEF StacksOK, Left, Tip
<1>2. Largest \in Places
  BY <1>1 DEF Largest, Places
<1>3. [i \in Stacks |-> IF i \in N THEN count[i] ELSE 0] \in [Stacks -> Nat]
  BY DEF StacksOK
<1>4. QED
  BY <1>2, <1>3 DEF Candidate, Row

LEMMA Start == Init => HInv
<1> SUFFICES ASSUME Init PROVE HInv
  OBVIOUS
<1>1. StacksOK
  <2>1. info \in [Stacks -> Seq(Nat)]
    BY TrainingAssumption DEF Init
  <2>2. \A i \in Stacks : Len(info[i]) \in Nat
    BY <2>1
  <2>3. QED
    BY <2>1, <2>2 DEF Init, StacksOK
<1>2. StoreOK /\ Unfinished /\ StoreSettles
  BY DEF Init, StoreOK, Unfinished, StoreSettles
<1>3. QED
  BY <1>1, <1>2 DEF HInv

\* getFeature: rows that settled are found by their number.
LEMMA getFeatureKeeps == HInv /\ getFeature => HInv'
<1> SUFFICES ASSUME HInv, getFeature PROVE HInv'
  OBVIOUS
<1> USE DEF HInv
<1>1. StacksOK'
  <2>1. info' = info /\ top' = [i \in Stacks |-> Len(info[i])]
        /\ count' = [i \in Stacks |-> 1]
    BY DEF getFeature
  <2>2. \A i \in Stacks : Len(info[i]) \in Nat
    BY DEF StacksOK
  <2>3. QED
    BY <2>1, <2>2 DEF StacksOK
<1>2. rows' = rows /\ numbers' = numbers /\ computed' = computed
      /\ finished' = finished /\ torn' = torn /\ pc = "idle"
  BY DEF getFeature, store, record
<1>3. \/ mfdc' = rows /\ pc' = "sample"
      \/ mfdc' = <<>> /\ pc' = "merge"
  BY DEF getFeature
<1>4. numbers # <<>> /\ numbers[Len(numbers)] = Len(rows) => pc' = "sample"
  BY DEF getFeature, Hits
<1>5. StoreOK'
  <2>1. mfdc' \in Seq(Row) /\ pc' \in {"idle", "merge", "sample"}
    <3>1. rows \in Seq(Row) /\ <<>> \in Seq(Row)
      BY DEF StoreOK
    <3>2. QED
      BY <1>3, <3>1
  <2>2. QED
    BY <1>2, <2>1 DEF StoreOK
<1>6. Unfinished'
  BY <1>2, <1>3 DEF Unfinished
<1>7. StoreSettles'
  BY <1>2, <1>4 DEF StoreSettles
<1>8. QED
  BY <1>1, <1>5, <1>6, <1>7

\* Merge: the row goes where the candidate goes, or something is torn.
LEMMA MergeKeeps == HInv /\ Merge => HInv'
<1> SUFFICES ASSUME HInv, Merge PROVE HInv'
  OBVIOUS
<1> USE DEF HInv
<1>1. PICK N \in NearStacks :
        /\ top' = Popped(N)
        /\ count' = [i \in Stacks |-> IF i \in N THEN count[i] + 1 ELSE count[i]]
        /\ mfdc' = Append(mfdc, Candidate(N))
        /\ \/ rows' = Append(rows, Candidate(N)) /\ torn' = torn
           \/ rows' = rows /\ torn' = torn + 1
  BY DEF Merge
<1>2. info' = info /\ numbers' = numbers /\ computed' = computed
      /\ finished' = finished /\ pc' = "merge" /\ pc = "merge"
  BY DEF Merge, record
<1>3. N \in SUBSET Stacks
  BY DEF NearStacks
<1>4. Candidate(N) \in Row
  BY <1>3, CandidateTyped
<1>5. StacksOK'
  <2>1. \A i \in Stacks : Len(info[i]) \in Nat
    BY DEF StacksOK
  <2>2. top' \in [Stacks -> Int] /\ \A i \in Stacks : top'[i] <= top[i]
    BY <1>1 DEF StacksOK, Popped
  <2>3. count' \in [Stacks -> Nat]
    BY <1>1 DEF StacksOK
  <2>4. QED
    BY <1>2, <2>1, <2>2, <2>3 DEF StacksOK
<1>6. StoreOK'
  <2>1. \A s \in Seq(Row) : Append(s, Candidate(N)) \in Seq(Row)
    BY <1>4
  <2>2. mfdc' \in Seq(Row) /\ rows' \in Seq(Row)
    BY <1>1, <2>1 DEF StoreOK
  <2>3. torn' \in Nat
    BY <1>1 DEF StoreOK
  <2>4. QED
    BY <1>2, <2>2, <2>3 DEF StoreOK
<1>7. Unfinished'
  BY <1>1, <1>2 DEF Unfinished, StoreOK
<1>8. StoreSettles'
  BY <1>1, <1>2 DEF StoreSettles, StoreOK
<1>9. QED
  BY <1>5, <1>6, <1>7, <1>8

\* insertFeatureInfo: the merge is finished, and its number is the last one.
LEMMA insertFeatureInfoKeeps == HInv /\ insertFeatureInfo => HInv'
<1> SUFFICES ASSUME HInv, insertFeatureInfo PROVE HInv'
  OBVIOUS
<1> USE DEF HInv
<1>1. /\ pc = "merge" /\ pc' = "sample"
      /\ info' = info /\ top' = top /\ count' = count /\ mfdc' = mfdc /\ rows' = rows
      /\ computed' = mfdc /\ finished' = finished + 1
      /\ \/ numbers' = Append(numbers, Len(mfdc)) /\ torn' = torn
         \/ numbers' = numbers /\ torn' = torn + 1
  BY DEF insertFeatureInfo, work
<1>2. StacksOK'
  BY <1>1 DEF StacksOK
<1>3. Len(mfdc) \in Nat
  BY DEF StoreOK
<1>4. StoreOK'
  <2>1. numbers' \in Seq(Nat) /\ torn' \in Nat /\ finished' \in Nat
    <3>1. numbers \in Seq(Nat) /\ torn \in Nat /\ finished \in Nat
      BY DEF StoreOK
    <3>2. Append(numbers, Len(mfdc)) \in Seq(Nat)
      BY <1>3, <3>1
    <3>3. \/ numbers' = Append(numbers, Len(mfdc)) /\ torn' = torn
          \/ numbers' = numbers /\ torn' = torn + 1
      BY <1>1
    <3>4. finished' = finished + 1
      BY <1>1
    <3>5. CASE numbers' = Append(numbers, Len(mfdc)) /\ torn' = torn
      BY <3>1, <3>2, <3>4, <3>5
    <3>6. CASE numbers' = numbers /\ torn' = torn + 1
      BY <3>1, <3>4, <3>6
    <3>7. QED
      BY <3>3, <3>5, <3>6
  <2>2. mfdc' \in Seq(Row) /\ rows' \in Seq(Row) /\ computed' \in Seq(Row)
    BY <1>1 DEF StoreOK
  <2>3. QED
    BY <1>1, <2>1, <2>2 DEF StoreOK
<1>5. Unfinished'
  BY <1>1 DEF Unfinished, StoreOK
<1>6. StoreSettles'
  <2> SUFFICES ASSUME torn' = 0
               PROVE  /\ rows' = computed'
                      /\ numbers' # <<>> /\ numbers'[Len(numbers')] = Len(rows')
                      /\ pc' # "merge"
    BY DEF StoreSettles
  <2>1. torn = 0 /\ numbers' = Append(numbers, Len(mfdc))
    BY <1>1 DEF StoreOK
  <2>2. finished = 0
    BY <1>1, <2>1 DEF StoreSettles, StoreOK
  <2>3. rows = mfdc
    BY <1>1, <2>1, <2>2 DEF Unfinished
  <2>4. numbers' # <<>> /\ numbers'[Len(numbers')] = Len(mfdc)
    <3>1. numbers \in Seq(Nat)
      BY DEF StoreOK
    <3>2. QED
      BY <1>3, <2>1, <3>1
  <2>5. QED
    BY <1>1, <2>3, <2>4
<1>7. QED
  BY <1>2, <1>4, <1>5, <1>6

\* The end of a run: nothing of the database changes, and a merge that is
\* interrupted is torn.
LEMMA StopKeeps == HInv /\ (WriteSample \/ Kill) => HInv'
<1> SUFFICES ASSUME HInv, WriteSample \/ Kill PROVE HInv'
  OBVIOUS
<1> USE DEF HInv
<1>1. /\ info' = info /\ top' = top /\ count' = count /\ mfdc' = mfdc
      /\ rows' = rows /\ numbers' = numbers
      /\ computed' = computed /\ finished' = finished /\ pc' = "idle"
      /\ torn' = IF pc = "merge" THEN torn + 1 ELSE torn
  BY DEF WriteSample, Kill, work, store, record
<1>2. StacksOK' /\ StoreOK'
  BY <1>1 DEF StacksOK, StoreOK
<1>3. Unfinished' /\ StoreSettles'
  BY <1>1 DEF Unfinished, StoreSettles, StoreOK
<1>4. QED
  BY <1>2, <1>3

LEMMA cleanFeatureKeeps == HInv /\ cleanFeature => HInv'
<1> SUFFICES ASSUME HInv, cleanFeature PROVE HInv'
  OBVIOUS
<1> USE DEF HInv
<1>1. /\ info' = info /\ top' = top /\ count' = count /\ mfdc' = mfdc
      /\ rows' = <<>> /\ numbers' = numbers /\ computed' = computed
      /\ finished' = 0 /\ torn' = 0 /\ pc' = pc /\ pc = "idle"
  BY DEF cleanFeature, work
<1>2. StacksOK' /\ StoreOK'
  BY <1>1 DEF StacksOK, StoreOK
<1>3. Unfinished' /\ StoreSettles'
  BY <1>1 DEF Unfinished, StoreSettles
<1>4. QED
  BY <1>2, <1>3

\* HInv is inductive.
LEMMA StepHInv == HInv /\ [Next]_vars => HInv'
<1> SUFFICES ASSUME HInv, [Next]_vars PROVE HInv'
  OBVIOUS
<1>1. CASE UNCHANGED vars
  BY <1>1 DEF HInv, StacksOK, StoreOK, Unfinished, StoreSettles, vars, work, store, record
<1>2. CASE Next
  BY <1>2, getFeatureKeeps, MergeKeeps, insertFeatureInfoKeeps, StopKeeps,
     cleanFeatureKeeps DEF Next
<1>3. QED
  BY <1>1, <1>2

LEMMA Invariance == Spec => []HInv
  BY Start, StepHInv, PTL DEF Spec

\* Once the rows of a file are deleted, one run that is neither killed nor refused an
\* insert leaves the candidates it found and their number as the last one, and no
\* later run merges again, however many runs were torn before.
THEOREM Settles == Spec => []StoreSettles
<1>1. HInv => StoreSettles
  BY DEF HInv
<1>2. QED
  BY <1>1, Invariance, PTL
--------------------------------------------------------------------------------
(* The merge.                                                                 *)

\* What a stack gave so far: the ranks up to its count, each once and in order, near
\* their offsets as long as there are any, and as many offsets are left as are missing.
\* Below its bottom a stack is popped only at the beginning of the text.
Ranked(i) ==
  /\ count[i] - 1 + top[i] = Len(info[i])
  /\ top[i] < 0 => mfdc # <<>> /\ mfdc[Len(mfdc)].offset < Width
  /\ \A c \in 1..Len(mfdc) :
       mfdc[c].t[i] # 0 =>
         /\ mfdc[c].t[i] < count[i]
         /\ \A d \in 1..(c - 1) : mfdc[d].t[i] < mfdc[c].t[i]
         /\ \/ NearOffset(i, mfdc[c].t[i], c)
            \/ mfdc[c].t[i] > Len(info[i]) /\ mfdc[c].offset < Width
  /\ \A r \in 1..(count[i] - 1) : \E c \in 1..Len(mfdc) : mfdc[c].t[i] = r

\* Every candidate is at an offset of a stack that it takes.
Placed == \A c \in 1..Len(mfdc) : \E i \in Stacks : AtOffset(i, mfdc[c].t[i], c)

\* The candidates go backwards, and what is left lies before the last of them.
Backwards ==
  /\ \A c \in 1..(Len(mfdc) - 1) : mfdc[c + 1].offset < mfdc[c].offset
  /\ mfdc # <<>> => \A i \in Left : Tip(i) < mfdc[Len(mfdc)].offset

Merging == pc = "merge" \/ (pc = "sample" /\ ~hit)

Merged ==
  /\ info \in Contents
  /\ Merging =>
       /\ Backwards /\ Placed
       /\ \A i \in Stacks : Ranked(i) /\ (pc = "sample" => top[i] <= 0)

\* A non-empty set of numbers with a bound has a largest one.
LEMMA LargestExists ==
  ASSUME NEW b \in Nat, NEW S, S \subseteq 0..b, S # {}
  PROVE  Max(S) \in S /\ \A x \in S : x <= Max(S)
<1> DEFINE T == {b - x : x \in S}
           R == OpToRel(<, Nat)
<1>1. T \subseteq Nat /\ T # {}
  <2>1. PICK x \in S : TRUE
    OBVIOUS
  <2>2. b - x \in T
    BY <2>1
  <2>3. ASSUME NEW t \in T PROVE t \in Nat
    <3>1. PICK y \in S : t = b - y
      OBVIOUS
    <3>2. y \in 0..b
      OBVIOUS
    <3> HIDE DEF T
    <3>3. QED
      BY <3>1, <3>2
  <2> HIDE DEF T
  <2>4. QED
    BY <2>2, <2>3
<1>2. \E m \in T : \A y \in T : ~(<<y, m>> \in R)
  <2>1. IsWellFoundedOn(R, Nat)
    BY NatLessThanWellFounded
  <2> HIDE DEF T, R
  <2>2. QED
    BY <1>1, <2>1, WFMin
<1>3. \A y, m \in Nat : y < m => <<y, m>> \in R
  BY DEF OpToRel
<1> HIDE DEF R
<1>4. PICK m \in T : \A y \in T : ~(y < m)
  BY <1>1, <1>2, <1>3
<1>5. PICK z \in S : m = b - z
  OBVIOUS
<1>6. \A x \in S : z >= x
  <2> SUFFICES ASSUME NEW x \in S PROVE z >= x
    OBVIOUS
  <2>1. b - x \in T /\ x \in Nat /\ z \in Nat
    OBVIOUS
  <2>2. ~(b - x < b - z)
    BY <1>4, <1>5, <2>1
  <2> HIDE DEF T
  <2>3. QED
    BY <2>1, <2>2
<1>7. \A x \in S : x \in Int
  OBVIOUS
<1> HIDE DEF T
<1>8. Max(S) \in S /\ \A x \in S : Max(S) >= x
  BY <1>5, <1>6 DEF Max
<1>9. QED
  BY <1>7, <1>8

\* The stacks hold what was found in the text, in order.
LEMMA StacksGrow ==
  ASSUME info \in Contents, NEW i \in Stacks, NEW k \in 1..Len(info[i])
  PROVE  /\ info[i] \in Seq(Nat) /\ info[i][k] \in 0..TextSize
         /\ \A j \in 1..(k - 1) : info[i][j] < info[i][k]
<1>1. info[i] \in Seq(Nat)
  BY TrainingAssumption
<1>2. info[i][k] \in Nat
  BY <1>1
<1>3. info[i][k] <= TextSize /\ \A j \in 1..(k - 1) : info[i][j] < info[i][k]
  BY TrainingAssumption
<1>4. QED
  BY <1>1, <1>2, <1>3, TrainingAssumption

\* The top of a stack that is left is one of the offsets found, and maxTop finds a
\* stack whose top none is behind.
LEMMA Tops ==
  ASSUME StacksOK, info \in Contents
  PROVE  /\ \A i \in Left : top[i] \in 1..Len(info[i]) /\ Tip(i) \in 0..TextSize
         /\ Left # {} => /\ \E j \in Left : Largest = Tip(j)
                         /\ \A i \in Left : Tip(i) <= Largest
<1>1. \A i \in Left : i \in Stacks /\ top[i] \in 1..Len(info[i])
  BY DEF Left, StacksOK
<1>2. \A i \in Left : Tip(i) \in 0..TextSize
  BY <1>1, StacksGrow DEF Tip
<1>3. CASE Left # {}
  <2> DEFINE S == {Tip(i) : i \in Left}
  <2>1. S \subseteq 0..TextSize /\ S # {}
    BY <1>2, <1>3
  <2>2. Max(S) \in S /\ \A x \in S : x <= Max(S)
    <3> HIDE DEF S
    <3>1. QED
      BY <2>1, LargestExists, TrainingAssumption
  <2>3. QED
    BY <1>1, <1>2, <2>2 DEF Largest
<1>4. QED
  BY <1>1, <1>2, <1>3

\* If no heading is near the beginning, an empty stack is not near the largest top,
\* and nothing is popped below the bottom of a stack.
LEMMA OnlyLeftNear ==
  ASSUME StacksOK, info \in Contents, NoneEarly, \A i \in Stacks : top[i] \in Nat, Left # {},
         NEW N \in NearStacks
  PROVE  /\ N \subseteq Left
         /\ \A i \in Left : i \in N <=> VALUESDIFF(Tip(i), Largest) < Width
<1>1. PICK j \in Left : Largest = Tip(j)
  BY Tops
<1>2. top[j] \in 1..Len(info[j]) /\ Tip(j) \in 0..TextSize /\ j \in Stacks
  BY Tops DEF Left
<1>3. Largest >= Width /\ Largest \in Nat /\ Width \in Nat /\ Width > 0
  BY <1>1, <1>2, TrainingAssumption DEF NoneEarly, Tip
<1> HIDE DEF Largest
<1>4. ~(VALUESDIFF(0, Largest) < Width)
  BY <1>3 DEF VALUESDIFF
<1>5. \A i \in Stacks : Near(i, i \in N)
  BY DEF NearStacks
<1>6. \A i \in Stacks : top[i] = 0 => i \notin N
  BY <1>4, <1>5 DEF Near
<1>7. \A i \in Left : i \in N <=> VALUESDIFF(Tip(i), Largest) < Width
  BY <1>5 DEF Near, Left
<1>8. N \subseteq Left
  BY <1>6 DEF Left, NearStacks
<1>9. QED
  BY <1>7, <1>8

\* The last candidate is at an offset of the text.
LEMMA OffsetNat ==
  ASSUME HInv, info \in Contents, Placed, mfdc # <<>>
  PROVE  \E j \in Stacks, k \in Nat :
           k \in 1..Len(info[j]) /\ info[j][k] = mfdc[Len(mfdc)].offset /\ info[j][k] \in Nat
<1>1. mfdc \in Seq(Row) /\ Len(mfdc) \in 1..Len(mfdc)
  BY DEF HInv, StoreOK
<1>2. PICK j \in Stacks : AtOffset(j, mfdc[Len(mfdc)].t[j], Len(mfdc))
  BY <1>1 DEF Placed
<1> DEFINE k == Len(info[j]) + 1 - mfdc[Len(mfdc)].t[j]
<1>3. k \in 1..Len(info[j]) /\ info[j][k] = mfdc[Len(mfdc)].offset
  <2>1. Len(info[j]) \in Nat
    BY DEF HInv, StacksOK
  <2>2. QED
    BY <1>2, <2>1 DEF AtOffset
<1> HIDE DEF k
<1>4. info[j][k] \in Nat /\ k \in Nat
  BY <1>3, StacksGrow, TrainingAssumption
<1>5. QED
  BY <1>3, <1>4

\* If no heading is near the beginning, no candidate is, and no stack was popped below
\* its bottom.
LEMMA NoneBelow ==
  ASSUME HInv, Merged, Merging, NoneEarly
  PROVE  \A i \in Stacks : top[i] \in Nat /\ count[i] - 1 + top[i] = Len(info[i])
<1> SUFFICES ASSUME NEW i \in Stacks
             PROVE  top[i] \in Nat /\ count[i] - 1 + top[i] = Len(info[i])
  OBVIOUS
<1>1. Placed /\ Ranked(i) /\ mfdc \in Seq(Row) /\ top[i] \in Int
  BY DEF Merged, HInv, StoreOK, StacksOK
<1>2. CASE top[i] < 0
  <2>1. mfdc # <<>> /\ mfdc[Len(mfdc)].offset < Width
    BY <1>1, <1>2 DEF Ranked
  <2>2. PICK j \in Stacks, k \in Nat :
          k \in 1..Len(info[j]) /\ info[j][k] = mfdc[Len(mfdc)].offset /\ info[j][k] \in Nat
    BY <1>1, <2>1, OffsetNat DEF Merged
  <2>3. info[j][k] >= Width /\ Width \in Nat
    BY <2>2, TrainingAssumption DEF NoneEarly
  <2>4. QED
    BY <2>1, <2>2, <2>3
<1>3. CASE ~(top[i] < 0)
  BY <1>1, <1>3 DEF Ranked
<1>4. QED
  BY <1>2, <1>3

\* What a stack that is taken gives: an offset near the largest top, or nothing but a
\* rank, at the beginning of the text.
LEMMA TakenNear ==
  ASSUME HInv, info \in Contents, Backwards, Placed, NEW i \in Stacks, Ranked(i), Left # {},
         NEW N \in NearStacks
  PROVE  /\ i \in N /\ top[i] > 0 => VALUESDIFF(Tip(i), Largest) < Width
         /\ i \in N /\ top[i] = 0 => Largest < Width
         /\ top[i] < 0 => Largest < Width
<1>1. PICK j \in Left : Largest = Tip(j)
  BY Tops DEF HInv
<1>2. Largest \in Nat /\ Width \in Nat
  BY <1>1, Tops, TrainingAssumption DEF HInv
<1>3. Near(i, i \in N)
  BY DEF NearStacks
<1>4. ASSUME i \in N, top[i] > 0 PROVE VALUESDIFF(Tip(i), Largest) < Width
  BY <1>3, <1>4 DEF Near
<1>5. ASSUME i \in N, top[i] = 0 PROVE Largest < Width
  <2>1. VALUESDIFF(0, Largest) < Width
    BY <1>3, <1>5 DEF Near
  <2> HIDE DEF Largest
  <2>2. QED
    BY <1>2, <2>1 DEF VALUESDIFF
<1>6. ASSUME top[i] < 0 PROVE Largest < Width
  <2>1. mfdc # <<>> /\ mfdc[Len(mfdc)].offset < Width
    BY <1>6 DEF Ranked
  <2>2. Largest < mfdc[Len(mfdc)].offset
    BY <1>1, <2>1 DEF Backwards
  <2>3. mfdc[Len(mfdc)].offset \in Nat
    BY <2>1, OffsetNat
  <2> HIDE DEF Largest
  <2>4. QED
    BY <1>2, <2>1, <2>2, <2>3
<1>7. QED
  BY <1>4, <1>5, <1>6

\* One turn of the merge, for one stack: if it is near the largest top, that is the
\* offset the next rank of it stands for, as long as it has one.
LEMMA TurnRanks ==
  ASSUME HInv, info \in Contents, Backwards, Placed, Left # {}, NEW i \in Stacks, Ranked(i),
         NEW N \in NearStacks,
         info' = info, top' = Popped(N),
         count' = [j \in Stacks |-> IF j \in N THEN count[j] + 1 ELSE count[j]],
         mfdc' = Append(mfdc, Candidate(N))
  PROVE  Ranked(i)'
<1>1. /\ mfdc \in Seq(Row) /\ Candidate(N) \in Row
      /\ Len(info[i]) \in Nat /\ count[i] \in Nat /\ top[i] \in Int
  <2>1. N \in SUBSET Stacks
    BY DEF NearStacks
  <2>2. QED
    BY <2>1, CandidateTyped, TrainingAssumption DEF HInv, StoreOK, StacksOK, Ranked
<1>2. /\ Len(mfdc') = Len(mfdc) + 1 /\ Len(mfdc) \in Nat
      /\ \A c \in 1..Len(mfdc) : mfdc'[c] = mfdc[c]
      /\ mfdc'[Len(mfdc) + 1] = Candidate(N)
  BY <1>1
<1>3. \A c \in 1..Len(mfdc) : mfdc[c].t[i] \in Nat
  <2>1. ASSUME NEW c \in 1..Len(mfdc) PROVE mfdc[c] \in Row
    BY <1>1
  <2>2. ASSUME NEW r \in Row PROVE r.t[i] \in Nat
    BY DEF Row
  <2>3. QED
    BY <2>1, <2>2
<1>4. /\ Candidate(N).t[i] = IF i \in N THEN count[i] ELSE 0
      /\ Candidate(N).offset = Largest
  BY DEF Candidate
<1>5. /\ top'[i] = IF i \in N THEN top[i] - 1 ELSE top[i]
      /\ count'[i] = IF i \in N THEN count[i] + 1 ELSE count[i]
  BY DEF Popped
<1>6. /\ i \in N /\ top[i] > 0 => VALUESDIFF(Tip(i), Largest) < Width
      /\ i \in N /\ top[i] = 0 => Largest < Width
      /\ top[i] < 0 => Largest < Width
  BY TakenNear
<1>7. count'[i] - 1 + top'[i] = Len(info[i])
  <2> DEFINE l == Len(info[i])
  <2>1. l \in Int /\ top[i] \in Int /\ count[i] \in Nat
    BY <1>1
  <2>2. count[i] - 1 + top[i] = l
    BY DEF Ranked
  <2> HIDE DEF l
  <2>3. count'[i] - 1 + top'[i] = l
    <3>1. CASE i \in N
      <4>1. top'[i] = top[i] - 1 /\ count'[i] = count[i] + 1
        BY <1>5, <3>1
      <4>2. QED
        BY <2>1, <2>2, <4>1
    <3>2. CASE i \notin N
      BY <1>5, <2>1, <2>2, <3>2
    <3>3. QED
      BY <3>1, <3>2
  <2>4. QED
    BY <2>3 DEF l
<1>b. top'[i] < 0 => mfdc' # <<>> /\ mfdc'[Len(mfdc')].offset < Width
  <2>1. mfdc' # <<>> /\ mfdc'[Len(mfdc')].offset = Largest
    BY <1>1, <1>2, <1>4
  <2>2. top'[i] < 0 => (i \in N /\ top[i] = 0) \/ top[i] < 0
    BY <1>1, <1>5
  <2>3. QED
    BY <1>6, <2>1, <2>2
<1>8. ASSUME NEW c \in 1..Len(mfdc'), mfdc'[c].t[i] # 0
      PROVE  /\ mfdc'[c].t[i] < count'[i]
             /\ \A d \in 1..(c - 1) : mfdc'[d].t[i] < mfdc'[c].t[i]
             /\ \/ NearOffset(i, mfdc[c].t[i], c)'
                \/ mfdc'[c].t[i] > Len(info[i]) /\ mfdc'[c].offset < Width
  <2>1. CASE c \in 1..Len(mfdc)
    <3>1. mfdc'[c] = mfdc[c] /\ \A d \in 1..(c - 1) : mfdc'[d] = mfdc[d]
      <4>1. \A d \in 1..(c - 1) : d \in 1..Len(mfdc)
        BY <1>2, <2>1
      <4>2. QED
        BY <1>2, <2>1, <4>1
    <3>2. mfdc[c].t[i] < count[i] /\ mfdc[c].t[i] \in Nat
      BY <1>3, <1>8, <2>1, <3>1 DEF Ranked
    <3>3. mfdc[c].t[i] < count'[i]
      BY <1>1, <1>5, <3>2
    <3>4. \/ NearOffset(i, mfdc[c].t[i], c)
          \/ mfdc[c].t[i] > Len(info[i]) /\ mfdc[c].offset < Width
      BY <1>8, <2>1, <3>1 DEF Ranked
    <3>5. \/ NearOffset(i, mfdc[c].t[i], c)'
          \/ mfdc'[c].t[i] > Len(info[i]) /\ mfdc'[c].offset < Width
      BY <3>1, <3>4 DEF NearOffset
    <3>6. \A d \in 1..(c - 1) : mfdc[d].t[i] < mfdc[c].t[i]
      BY <1>8, <2>1, <3>1 DEF Ranked
    <3>7. QED
      BY <3>1, <3>3, <3>5, <3>6
  <2>2. CASE c = Len(mfdc) + 1
    <3>1. i \in N /\ mfdc'[c].t[i] = count[i] /\ mfdc'[c].offset = Largest
      BY <1>2, <1>4, <1>8, <2>2
    <3>2. \A d \in 1..(c - 1) : mfdc'[d] = mfdc[d] /\ d \in 1..Len(mfdc)
      BY <1>2, <2>2
    <3>3. count[i] # 0
      BY <1>8, <3>1
    <3>4. \A d \in 1..Len(mfdc) : mfdc[d].t[i] < count[i]
      BY <1>1, <1>3, <3>3 DEF Ranked
    <3>5. Len(info[i]) + 1 - count[i] = top[i]
      BY <1>1 DEF Ranked
    <3>6. \/ NearOffset(i, mfdc[c].t[i], c)'
          \/ mfdc'[c].t[i] > Len(info[i]) /\ mfdc'[c].offset < Width
      <4>1. CASE top[i] > 0
        <5>1. VALUESDIFF(info[i][top[i]], Largest) < Width
          BY <1>6, <3>1, <4>1 DEF Tip
        <5>2. count[i] \in 1..Len(info[i])
          BY <1>1, <3>3, <3>5, <4>1
        <5>3. QED
          BY <3>1, <3>5, <5>1, <5>2 DEF NearOffset
      <4>2. CASE top[i] <= 0
        <5>1. Largest < Width
          BY <1>1, <1>6, <3>1, <4>2
        <5>2. count[i] > Len(info[i])
          BY <1>1, <3>5, <4>2
        <5>3. QED
          BY <3>1, <5>1, <5>2
      <4>3. QED
        BY <1>1, <4>1, <4>2
    <3>7. count[i] < count'[i]
      BY <1>1, <1>5, <3>1
    <3>8. QED
      BY <3>1, <3>2, <3>4, <3>6, <3>7
  <2>3. QED
    BY <1>2, <2>1, <2>2
<1>9. ASSUME NEW r \in 1..(count'[i] - 1)
      PROVE  \E c \in 1..Len(mfdc') : mfdc'[c].t[i] = r
  <2>1. \A c \in 1..Len(mfdc) : c \in 1..Len(mfdc')
    BY <1>2
  <2>2. Len(mfdc) + 1 \in 1..Len(mfdc')
    BY <1>2
  <2>3. r \in 1..(count[i] - 1) \/ (i \in N /\ r = count[i])
    BY <1>1, <1>5
  <2>4. QED
    BY <1>2, <1>4, <2>1, <2>2, <2>3 DEF Ranked
<1>10. QED
  BY <1>7, <1>8, <1>9, <1>b DEF Ranked

\* One turn of the merge, for the candidates: the next one lies before this one.
LEMMA TurnBackwards ==
  ASSUME HInv, info \in Contents, Backwards, Left # {},
         NEW N \in NearStacks,
         info' = info, top' = Popped(N), mfdc' = Append(mfdc, Candidate(N))
  PROVE  Backwards'
<1>0. \A i \in Left : i \in N <=> VALUESDIFF(Tip(i), Largest) < Width
  BY DEF NearStacks, Near, Left
<1>1. mfdc \in Seq(Row) /\ Candidate(N) \in Row /\ Candidate(N).offset = Largest
  <2>1. N \in SUBSET Stacks
    BY DEF NearStacks
  <2>2. QED
    BY <2>1, CandidateTyped DEF HInv, StoreOK, Candidate
<1>2. /\ Len(mfdc') = Len(mfdc) + 1 /\ Len(mfdc) \in Nat
      /\ \A c \in 1..Len(mfdc) : mfdc'[c] = mfdc[c]
      /\ mfdc'[Len(mfdc) + 1] = Candidate(N)
  BY <1>1
<1>3. /\ \E j \in Left : Largest = Tip(j)
      /\ \A i \in Left : /\ Tip(i) <= Largest /\ Tip(i) \in Nat
                         /\ top[i] \in 1..Len(info[i]) /\ i \in Stacks
  BY Tops DEF HInv, Left
<1>4. Largest \in Nat
  BY <1>3
<1>5. mfdc # <<>> => Largest < mfdc[Len(mfdc)].offset
  BY <1>3 DEF Backwards
<1>6. \A c \in 1..(Len(mfdc') - 1) : mfdc'[c + 1].offset < mfdc'[c].offset
  <2> SUFFICES ASSUME NEW c \in 1..(Len(mfdc') - 1)
               PROVE  mfdc'[c + 1].offset < mfdc'[c].offset
    OBVIOUS
  <2>1. c \in 1..Len(mfdc)
    BY <1>2
  <2>2. CASE c = Len(mfdc)
    <3>1. mfdc # <<>>
      BY <2>1, <2>2
    <3>2. QED
      BY <1>1, <1>2, <1>5, <2>1, <2>2, <3>1
  <2>3. CASE c # Len(mfdc)
    <3>1. c \in 1..(Len(mfdc) - 1) /\ c + 1 \in 1..Len(mfdc)
      BY <1>2, <2>1, <2>3
    <3>2. QED
      BY <1>2, <2>1, <3>1 DEF Backwards
  <2>4. QED
    BY <2>2, <2>3
<1>7. \A i \in Left' : Tip(i)' < Largest
  <2> SUFFICES ASSUME NEW i \in Stacks, top'[i] > 0
               PROVE  info[i][top'[i]] < Largest
    BY DEF Left, Tip
  <2>1. top'[i] = IF i \in N THEN top[i] - 1 ELSE top[i]
    BY DEF Popped
  <2>2. top[i] \in Int
    BY DEF HInv, StacksOK
  <2>3. i \in Left
    BY <2>1, <2>2 DEF Left
  <2>4. CASE i \in N
    <3>1. top[i] \in 1..Len(info[i]) /\ top'[i] \in 1..(top[i] - 1)
      BY <1>3, <2>1, <2>2, <2>3, <2>4
    <3>2. info[i][top'[i]] < Tip(i)
      BY <3>1, StacksGrow DEF Tip
    <3>3. info[i][top'[i]] \in Nat
      <4>1. top'[i] \in 1..Len(info[i])
        BY <1>3, <2>3, <3>1
      <4>2. QED
        BY <4>1, StacksGrow
    <3>4. Tip(i) <= Largest /\ Tip(i) \in Int
      BY <1>3, <2>3
    <3>5. QED
      BY <1>4, <3>2, <3>3, <3>4
  <2>5. CASE i \notin N
    <3>1. ~(VALUESDIFF(Tip(i), Largest) < Width) /\ top'[i] = top[i]
      BY <1>0, <2>1, <2>3, <2>5
    <3>2. Tip(i) # Largest
      BY <1>4, <3>1, TrainingAssumption DEF VALUESDIFF
    <3>3. QED
      BY <1>3, <1>4, <2>3, <3>1, <3>2 DEF Tip
  <2>6. QED
    BY <2>4, <2>5
<1>8. mfdc'[Len(mfdc')].offset = Largest
  BY <1>1, <1>2
<1>9. QED
  BY <1>6, <1>7, <1>8 DEF Backwards

\* One turn of the merge, for the new candidate: it is at the largest top, whose stack
\* it takes.
LEMMA TurnPlaced ==
  ASSUME HInv, info \in Contents, Placed, \A i \in Stacks : Ranked(i), Left # {},
         NEW N \in NearStacks,
         info' = info, mfdc' = Append(mfdc, Candidate(N))
  PROVE  Placed'
<1>1. mfdc \in Seq(Row) /\ Candidate(N) \in Row
  <2>1. N \in SUBSET Stacks
    BY DEF NearStacks
  <2>2. QED
    BY <2>1, CandidateTyped DEF HInv, StoreOK
<1>2. /\ Len(mfdc') = Len(mfdc) + 1 /\ Len(mfdc) \in Nat
      /\ \A c \in 1..Len(mfdc) : mfdc'[c] = mfdc[c]
      /\ mfdc'[Len(mfdc) + 1] = Candidate(N)
  BY <1>1
<1>3. PICK j \in Left : Largest = Tip(j)
  BY Tops DEF HInv
<1>4. j \in Stacks /\ top[j] \in 1..Len(info[j]) /\ top[j] > 0 /\ Tip(j) \in 0..TextSize
  BY Tops DEF HInv, Left
<1>5. j \in N
  <2>1. (j \in N) = (VALUESDIFF(Tip(j), Largest) < Width)
    BY <1>4 DEF NearStacks, Near
  <2> HIDE DEF Largest
  <2>2. VALUESDIFF(Tip(j), Largest) = 0
    BY <1>3, <1>4, TrainingAssumption DEF VALUESDIFF
  <2>3. QED
    BY <2>1, <2>2, TrainingAssumption
<1>6. Candidate(N).t[j] = count[j] /\ Candidate(N).offset = info[j][top[j]]
  BY <1>3, <1>4, <1>5 DEF Candidate, Tip
<1>7. count[j] \in 1..Len(info[j]) /\ Len(info[j]) + 1 - count[j] = top[j]
  <2>1. count[j] - 1 + top[j] = Len(info[j])
    BY <1>4 DEF Ranked
  <2>2. count[j] \in Nat /\ Len(info[j]) \in Nat
    BY <1>4 DEF HInv, StacksOK
  <2>3. QED
    BY <1>4, <2>1, <2>2
<1>9. ASSUME NEW c \in 1..Len(mfdc')
      PROVE  \E i \in Stacks : AtOffset(i, mfdc[c].t[i], c)'
  <2>1. CASE c \in 1..Len(mfdc)
    <3>1. PICK i \in Stacks : AtOffset(i, mfdc[c].t[i], c)
      BY <2>1 DEF Placed
    <3>2. AtOffset(i, mfdc[c].t[i], c)'
      BY <1>2, <2>1, <3>1 DEF AtOffset
    <3>3. QED
      BY <3>2
  <2>2. CASE c = Len(mfdc) + 1
    <3>2. AtOffset(j, mfdc[c].t[j], c)'
      BY <1>2, <1>6, <1>7, <2>2 DEF AtOffset
    <3>3. QED
      BY <1>4, <3>2
  <2>3. QED
    BY <1>2, <2>1, <2>2
<1>10. QED
  BY <1>9 DEF Placed

LEMMA MergeOn == HInv /\ Merged /\ Merge => Merged'
<1> SUFFICES ASSUME HInv, Merged, Merge PROVE Merged'
  OBVIOUS
<1>1. /\ pc = "merge" /\ pc' = "merge" /\ Left # {} /\ info' = info /\ hit' = hit
  BY DEF Merge
<1>2. PICK N \in NearStacks :
        /\ top' = Popped(N)
        /\ count' = [i \in Stacks |-> IF i \in N THEN count[i] + 1 ELSE count[i]]
        /\ mfdc' = Append(mfdc, Candidate(N))
  BY DEF Merge
<1>3. info \in Contents /\ Backwards /\ Placed /\ \A i \in Stacks : Ranked(i)
  BY <1>1 DEF Merged, Merging
<1>4. Backwards'
  BY <1>1, <1>2, <1>3, TurnBackwards
<1>5. ASSUME NEW i \in Stacks PROVE Ranked(i)'
  BY <1>1, <1>2, <1>3, TurnRanks
<1>6. Placed'
  BY <1>1, <1>2, <1>3, TurnPlaced
<1>7. QED
  BY <1>1, <1>3, <1>4, <1>5, <1>6 DEF Merged

\* A merge begins with the whole stacks and no candidate, and is over when the stacks
\* are empty.
LEMMA MergeBeginsAndEnds == HInv /\ Merged /\ [Next]_vars => Merged'
<1> SUFFICES ASSUME HInv, Merged, [Next]_vars PROVE Merged'
  OBVIOUS
<1>1. CASE getFeature
  <2>1. /\ info' = info /\ (pc' = "merge" => mfdc' = <<>>) /\ (pc' = "sample" => hit')
        /\ top' = [i \in Stacks |-> Len(info[i])] /\ count' = [i \in Stacks |-> 1]
    BY <1>1 DEF getFeature
  <2>2. \A i \in Stacks : Len(info[i]) \in Nat
    BY DEF HInv, StacksOK
  <2>3. Merging' => pc' = "merge" /\ mfdc' = <<>> /\ Len(mfdc') = 0
    BY <2>1 DEF Merging
  <2>4. ASSUME Merging' PROVE Backwards' /\ Placed' /\ \A i \in Stacks : Ranked(i)'
    <3>1. mfdc' = <<>> /\ 1..Len(mfdc') = {} /\ 1..(Len(mfdc') - 1) = {}
      BY <2>3, <2>4
    <3>2. Backwards' /\ Placed'
      BY <3>1 DEF Backwards, Placed
    <3>3. \A i \in Stacks : /\ top'[i] = Len(info[i]) /\ count'[i] = 1 /\ 1..(count'[i] - 1) = {}
                           /\ ~(top'[i] < 0)
      BY <2>1, <2>2
    <3>4. \A i \in Stacks : Ranked(i)'
      BY <2>1, <2>2, <3>1, <3>3 DEF Ranked
    <3>5. QED
      BY <3>2, <3>4
  <2>5. info \in Contents
    BY DEF Merged
  <2>6. QED
    BY <2>1, <2>3, <2>4, <2>5 DEF Merged
<1>2. CASE Merge
  BY <1>2, MergeOn
<1>3. CASE insertFeatureInfo
  <2>1. /\ pc = "merge" /\ Left = {}
        /\ info' = info /\ top' = top /\ count' = count /\ mfdc' = mfdc
    BY <1>3 DEF insertFeatureInfo, work
  <2>2. info \in Contents /\ Backwards /\ Placed /\ \A i \in Stacks : Ranked(i)
    BY <2>1 DEF Merged, Merging
  <2>3. Backwards' /\ Placed'
    BY <2>1, <2>2 DEF Backwards, Placed, AtOffset, Left, Tip
  <2>4. \A i \in Stacks : Ranked(i)'
    BY <2>1, <2>2 DEF Ranked, NearOffset
  <2>5. \A i \in Stacks : top[i] <= 0
    BY <2>1 DEF Left, HInv, StacksOK
  <2>6. QED
    BY <2>1, <2>2, <2>3, <2>4, <2>5 DEF Merged
<1>4. CASE WriteSample \/ Kill \/ cleanFeature
  <2>1. info' = info /\ pc' = "idle"
    BY <1>4 DEF WriteSample, Kill, cleanFeature
  <2>2. QED
    BY <2>1 DEF Merged, Merging
<1>5. CASE UNCHANGED vars
  <2>1. /\ info' = info /\ pc' = pc /\ hit' = hit
        /\ top' = top /\ count' = count /\ mfdc' = mfdc
    BY <1>5 DEF vars, work
  <2>2. QED
    BY <2>1 DEF Merged, Merging, Backwards, Placed, AtOffset, Ranked, NearOffset, Left, Tip
<1>6. QED
  BY <1>1, <1>2, <1>3, <1>4, <1>5 DEF Next

\* Whatever the thresholds find: the merge lists its candidates backwards, each at an
\* offset that was found, and every offset of every stack is in exactly one of them, near
\* its offset and ranked by its place.  Ranks that stand for no offset are given only
\* near the beginning of the text.
THEOREM HeadingsOnce == Spec => []EveryHeadingOnce
<1>1. Init => Merged
  BY DEF Init, Merged, Merging
<1>2. HInv /\ Merged /\ [Next]_vars => Merged'
  BY MergeBeginsAndEnds
<1>3. HInv /\ Merged => EveryHeadingOnce
  <2> SUFFICES ASSUME HInv, Merged, pc = "sample", ~hit PROVE EveryHeadingOnce
    BY DEF EveryHeadingOnce
  <2>1. Backwards /\ Placed /\ \A i \in Stacks : Ranked(i) /\ top[i] <= 0
    BY DEF Merged, Merging
  <2>2. mfdc \in Seq(Row) /\ Len(mfdc) \in Nat
    BY DEF HInv, StoreOK
  <2>3. ASSUME NEW c \in 1..Len(mfdc)
        PROVE  /\ \E i \in Stacks : AtOffset(i, mfdc[c].t[i], c)
               /\ c > 1 => mfdc[c].offset < mfdc[c - 1].offset
    <3>1. c > 1 => c - 1 \in 1..(Len(mfdc) - 1) /\ (c - 1) + 1 = c
      BY <2>2
    <3>2. c > 1 => mfdc[c].offset < mfdc[c - 1].offset
      BY <2>1, <3>1 DEF Backwards
    <3>3. QED
      BY <2>1, <3>2 DEF Placed
  <2>4. ASSUME NEW i \in Stacks
        PROVE  LET ranked == {c \in 1..Len(mfdc) : mfdc[c].t[i] # 0} IN
               /\ 1..Len(info[i]) \subseteq {mfdc[c].t[i] : c \in ranked}
               /\ \A c \in ranked :
                    /\ \A d \in ranked : d < c => mfdc[d].t[i] < mfdc[c].t[i]
                    /\ \/ NearOffset(i, mfdc[c].t[i], c)
                       \/ mfdc[c].t[i] > Len(info[i]) /\ mfdc[c].offset < Width
    <3> DEFINE ranked == {c \in 1..Len(mfdc) : mfdc[c].t[i] # 0}
    <3>1. /\ count[i] \in Nat /\ Len(info[i]) \in Nat /\ top[i] \in Int
          /\ count[i] - 1 + top[i] = Len(info[i]) /\ top[i] <= 0
      BY <2>1 DEF HInv, StacksOK, Ranked
    <3>2. ASSUME NEW r \in 1..Len(info[i]) PROVE \E c \in ranked : mfdc[c].t[i] = r
      <4>1. r \in 1..(count[i] - 1) /\ r # 0
        BY <3>1
      <4>2. QED
        BY <2>1, <4>1 DEF Ranked
    <3>3. 1..Len(info[i]) \subseteq {mfdc[c].t[i] : c \in ranked}
      BY <3>2
    <3>4. \A c \in ranked :
            /\ \A d \in ranked : d < c => mfdc[d].t[i] < mfdc[c].t[i]
            /\ \/ NearOffset(i, mfdc[c].t[i], c)
               \/ mfdc[c].t[i] > Len(info[i]) /\ mfdc[c].offset < Width
      <4>1. \A c, d \in 1..Len(mfdc) : d < c => d \in 1..(c - 1)
        BY <2>2
      <4>2. QED
        BY <2>1, <4>1 DEF Ranked
    <3>5. QED
      BY <3>3, <3>4
  <2>5. QED
    BY <2>3, <2>4 DEF EveryHeadingOnce
<1>4. QED
  BY <1>1, <1>2, <1>3, Invariance, PTL DEF Spec
--------------------------------------------------------------------------------
(* The merge ends, and the container has room for its candidates.             *)

\* What is left of the stacks is a finite number of offsets.
LEMMA OffsetsFinite ==
  ASSUME NEW t \in [Stacks -> Int]
  PROVE  IsFiniteSet(Offsets(t)) /\ Cardinality(Offsets(t)) \in Nat
<1> DEFINE F == [i \in Stacks |-> {i} \X (1..t[i])]
           S == {{i} \X (1..t[i]) : i \in Stacks}
<1>1. IsFiniteSet(S)
  <2>1. F \in Surjection(Stacks, S)
    BY DEF Surjection
  <2> HIDE DEF F, S
  <2>2. QED
    BY <2>1, FS_Surjection, TrainingAssumption
<1>2. \A T \in S : IsFiniteSet(T)
  <2> SUFFICES ASSUME NEW i \in Stacks PROVE IsFiniteSet({i} \X (1..t[i]))
    OBVIOUS
  <2>1. IsFiniteSet({i}) /\ IsFiniteSet(1..t[i])
    <3>1. 1 \in Int /\ t[i] \in Int
      OBVIOUS
    <3>2. QED
      BY <3>1, FS_Singleton, FS_Interval
  <2>2. QED
    BY <2>1, FS_Product
<1>3. IsFiniteSet(Offsets(t))
  <2> HIDE DEF S
  <2>1. IsFiniteSet(UNION S)
    BY <1>1, <1>2, FS_UNION
  <2>2. QED
    BY <2>1 DEF S, Offsets
<1>4. QED
  BY <1>3, FS_CardinalityType

\* If no stack grows and one that had an offset left has one less, there are fewer left.
LEMMA OneOffsetLess ==
  ASSUME NEW t \in [Stacks -> Int], NEW u \in [Stacks -> Int],
         \A i \in Stacks : u[i] <= t[i],
         NEW j \in Stacks, t[j] > 0, u[j] < t[j]
  PROVE  Cardinality(Offsets(u)) + 1 <= Cardinality(Offsets(t))
<1> DEFINE X == Offsets(t) \ {<<j, t[j]>>}
<1>1. <<j, t[j]>> \in Offsets(t)
  BY DEF Offsets
<1>2. Offsets(u) \subseteq X
  <2> SUFFICES ASSUME NEW i \in Stacks, NEW k \in 1..u[i]
               PROVE  <<i, k>> \in Offsets(t) /\ <<i, k>> # <<j, t[j]>>
    BY DEF Offsets
  <2>1. k \in 1..t[i] /\ (i = j => k # t[j])
    OBVIOUS
  <2>2. QED
    BY <2>1 DEF Offsets
<1>3. IsFiniteSet(X) /\ Cardinality(X) = Cardinality(Offsets(t)) - 1
  BY <1>1, OffsetsFinite, FS_RemoveElement
<1>4. Cardinality(Offsets(u)) <= Cardinality(X)
  BY <1>2, <1>3, FS_Subset
<1>5. QED
  BY <1>3, <1>4, OffsetsFinite

\* One turn of the merge uses up an offset: the largest one is near itself, whatever
\* seems to be below an empty stack.
LEMMA TurnUsesOffset == HInv /\ info \in Contents /\ Merge =>
  /\ Len(mfdc') = Len(mfdc) + 1
  /\ Cardinality(Offsets(top')) + 1 <= Cardinality(Offsets(top))
<1> SUFFICES ASSUME HInv, info \in Contents, Merge
             PROVE  /\ Len(mfdc') = Len(mfdc) + 1
                    /\ Cardinality(Offsets(top')) + 1 <= Cardinality(Offsets(top))
  OBVIOUS
<1>1. PICK N \in NearStacks : top' = Popped(N) /\ mfdc' = Append(mfdc, Candidate(N))
  BY DEF Merge
<1>2. PICK j \in Left : Largest = Tip(j)
  BY Tops DEF HInv, Merge
<1>3. j \in Stacks /\ top[j] > 0 /\ Tip(j) \in 0..TextSize
  BY Tops DEF HInv, Left
<1>4. j \in N
  <2>1. (j \in N) = (VALUESDIFF(Tip(j), Largest) < Width)
    BY <1>3 DEF NearStacks, Near
  <2> HIDE DEF Largest
  <2>2. VALUESDIFF(Tip(j), Largest) = 0
    BY <1>2, <1>3, TrainingAssumption DEF VALUESDIFF
  <2>3. QED
    BY <2>1, <2>2, TrainingAssumption
<1>5. /\ top \in [Stacks -> Int] /\ top' \in [Stacks -> Int]
      /\ \A i \in Stacks : top'[i] <= top[i]
      /\ top'[j] < top[j]
  BY <1>1, <1>3, <1>4 DEF HInv, StacksOK, Popped
<1>6. Cardinality(Offsets(top')) + 1 <= Cardinality(Offsets(top))
  BY <1>3, <1>5, OneOffsetLess
<1>7. Len(mfdc') = Len(mfdc) + 1
  BY <1>1 DEF HInv, StoreOK
<1>8. QED
  BY <1>6, <1>7

\* However often an empty stack is popped below its bottom, every turn of the merge takes
\* at least one offset that was found: there are never more candidates than offsets, so
\* that the merge ends, and the container is large enough if it has room for as many as
\* the stacks together.
THEOREM MergeEnds == Spec => []OneOffsetEach
<1> DEFINE Inv == HInv /\ info \in Contents /\ OneOffsetEach
           Full == [i \in Stacks |-> Len(info[i])]
<1>1. Init => Inv
  BY Start DEF Init, OneOffsetEach
<1>2. Inv /\ [Next]_vars => Inv'
  <2> SUFFICES ASSUME HInv, info \in Contents, OneOffsetEach, [Next]_vars
               PROVE  HInv' /\ info' \in Contents /\ OneOffsetEach'
    OBVIOUS
  <2>1. HInv'
    BY StepHInv
  <2>2. info' = info
    BY DEF Next, getFeature, Merge, insertFeatureInfo, WriteSample, Kill, cleanFeature, vars
  <2>3. Full \in [Stacks -> Int] /\ top \in [Stacks -> Int]
    BY DEF HInv, StacksOK
  <2>4. Cardinality(Offsets(Full)) \in Nat /\ Cardinality(Offsets(top)) \in Nat
    <3> HIDE DEF Full
    <3>1. QED
      BY <2>3, OffsetsFinite
  <2>5. CASE getFeature
    <3>1. top' = Full /\ (pc' = "merge" => mfdc' = <<>>)
      BY <2>2, <2>5 DEF getFeature
    <3>2. QED
      BY <2>1, <2>2, <2>4, <3>1 DEF OneOffsetEach
  <2>6. CASE Merge
    <3>1. /\ Len(mfdc') = Len(mfdc) + 1
          /\ Cardinality(Offsets(top')) + 1 <= Cardinality(Offsets(top))
      BY <2>6, TurnUsesOffset
    <3>2. pc = "merge" /\ Len(mfdc) \in Nat /\ Cardinality(Offsets(top')) \in Nat
      BY <2>1, <2>6, OffsetsFinite DEF Merge, HInv, StoreOK, StacksOK
    <3>3. Len(mfdc) + Cardinality(Offsets(top)) <= Cardinality(Offsets(Full))
      BY <3>2 DEF OneOffsetEach
    <3>4. Len(mfdc') + Cardinality(Offsets(top')) <= Cardinality(Offsets(Full))
      <4> HIDE DEF Full
      <4>1. QED
        BY <2>4, <3>1, <3>2, <3>3
    <3>5. QED
      BY <2>1, <2>2, <3>4 DEF OneOffsetEach
  <2>7. CASE insertFeatureInfo \/ WriteSample \/ Kill \/ cleanFeature
    <3>1. pc' # "merge"
      BY <2>7 DEF insertFeatureInfo, WriteSample, Kill, cleanFeature
    <3>2. QED
      BY <2>1, <2>2, <3>1 DEF OneOffsetEach
  <2>8. CASE UNCHANGED vars
    BY <2>1, <2>2, <2>8 DEF vars, work, OneOffsetEach
  <2>9. QED
    BY <2>5, <2>6, <2>7, <2>8 DEF Next
<1>3. Inv => OneOffsetEach
  OBVIOUS
<1>4. QED
  BY <1>1, <1>2, <1>3, PTL DEF Spec
--------------------------------------------------------------------------------
(* What the rows of the database are worth.                                   *)

\* The merge again, as operators on the stacks of a text, x, and what is left of them, t:
\* if no heading is near the beginning of the text, nothing is left to choose.
LeftOf(t) == {i \in Stacks : t[i] > 0}
LargestOf(x, t) == Max({x[i][t[i]] : i \in LeftOf(t)})
NearOf(x, t) == {i \in LeftOf(t) : VALUESDIFF(x[i][t[i]], LargestOf(x, t)) < Width}
CandidateOf(x, t) ==
  [offset |-> LargestOf(x, t),
   t |-> [i \in Stacks |-> IF i \in NearOf(x, t) THEN Len(x[i]) + 1 - t[i] ELSE 0]]
PoppedOf(x, t) == [i \in Stacks |-> IF i \in NearOf(x, t) THEN t[i] - 1 ELSE t[i]]

\* The merge gives the candidates s on its way from the whole stacks to t; u are the
\* stacks on that way.
Gives(x, s, u, t) ==
  /\ s \in Seq(Row)
  /\ u[1] = [i \in Stacks |-> Len(x[i])]
  /\ u[Len(s) + 1] = t
  /\ \A n \in 1..Len(s) :
       LeftOf(u[n]) # {} /\ s[n] = CandidateOf(x, u[n]) /\ u[n + 1] = PoppedOf(x, u[n])

IsPart(x, s)  == \E u, t : Gives(x, s, u, t)
IsWhole(x, s) == \E u, t : Gives(x, s, u, t) /\ LeftOf(t) = {}

\* A set of numbers with 0 and with the successor of each has all of them.
LEMMA Induction ==
  ASSUME NEW S, 0 \in S, \A n \in Nat : n \in S => n + 1 \in S
  PROVE  Nat \subseteq S
<1> DEFINE T == Nat \ S
           R == OpToRel(<, Nat)
<1> SUFFICES ASSUME T # {} PROVE FALSE
  OBVIOUS
<1>1. PICK m \in T : \A y \in T : ~(<<y, m>> \in R)
  <2>1. IsWellFoundedOn(R, Nat)
    BY NatLessThanWellFounded
  <2>2. T \subseteq Nat
    OBVIOUS
  <2> HIDE DEF T, R
  <2>3. QED
    BY <2>1, <2>2, WFMin
<1>2. \A y, z \in Nat : y < z => <<y, z>> \in R
  BY DEF OpToRel
<1> HIDE DEF R
<1>3. m \in Nat /\ m # 0 /\ m \notin S
  OBVIOUS
<1>4. m - 1 \in Nat /\ m - 1 < m
  BY <1>3
<1>5. m - 1 \in S
  BY <1>1, <1>2, <1>3, <1>4
<1>6. QED
  BY <1>3, <1>4, <1>5

\* Two merges of the same text go the same way, as far as both go.
LEMMA SameWay ==
  ASSUME NEW x, NEW s1, NEW u1, NEW t1, Gives(x, s1, u1, t1),
         NEW s2, NEW u2, NEW t2, Gives(x, s2, u2, t2),
         NEW n \in Nat, n <= Len(s1), n <= Len(s2)
  PROVE  u1[n + 1] = u2[n + 1]
<1> DEFINE S == {k \in Nat : k <= Len(s1) /\ k <= Len(s2) => u1[k + 1] = u2[k + 1]}
<1>1. Len(s1) \in Nat /\ Len(s2) \in Nat
  BY DEF Gives
<1>2. 0 \in S
  BY DEF Gives
<1>3. ASSUME NEW k \in Nat, k \in S PROVE k + 1 \in S
  <2> SUFFICES ASSUME k + 1 <= Len(s1), k + 1 <= Len(s2) PROVE u1[k + 2] = u2[k + 2]
    OBVIOUS
  <2>1. k + 1 \in 1..Len(s1) /\ k + 1 \in 1..Len(s2) /\ (k + 1) + 1 = k + 2
    BY <1>1
  <2>2. u1[k + 1] = u2[k + 1]
    BY <1>1, <1>3
  <2>3. u1[(k + 1) + 1] = PoppedOf(x, u1[k + 1]) /\ u2[(k + 1) + 1] = PoppedOf(x, u2[k + 1])
    BY <2>1 DEF Gives
  <2>4. QED
    BY <2>1, <2>2, <2>3
<1> HIDE DEF S
<1>4. Nat \subseteq S
  BY <1>2, <1>3, Induction
<1>5. QED
  BY <1>4 DEF S

\* What a merge gives begins with what it has given before it was interrupted.
LEMMA PartOfWhole ==
  ASSUME NEW x, NEW s, IsPart(x, s), NEW w, IsWhole(x, w)
  PROVE  /\ s \in Seq(Row) /\ w \in Seq(Row) /\ Len(s) <= Len(w)
         /\ Len(s) = Len(w) => s = w
<1>1. PICK u1, t1 : Gives(x, s, u1, t1)
  BY DEF IsPart
<1>2. PICK u2, t2 : Gives(x, w, u2, t2) /\ LeftOf(t2) = {}
  BY DEF IsWhole
<1>3. s \in Seq(Row) /\ w \in Seq(Row) /\ Len(s) \in Nat /\ Len(w) \in Nat
  BY <1>1, <1>2 DEF Gives
<1>4. Len(s) <= Len(w)
  <2> SUFFICES ASSUME Len(w) < Len(s) PROVE FALSE
    BY <1>3
  <2>1. u1[Len(w) + 1] = u2[Len(w) + 1]
    BY <1>1, <1>2, <1>3, SameWay
  <2>2. Len(w) + 1 \in 1..Len(s)
    BY <1>3
  <2>3. LeftOf(u1[Len(w) + 1]) # {} /\ u2[Len(w) + 1] = t2
    BY <1>1, <1>2, <2>2 DEF Gives
  <2>4. QED
    BY <1>2, <2>1, <2>3
<1>5. ASSUME Len(s) = Len(w) PROVE s = w
  <2>0. ASSUME NEW k \in Nat, k <= Len(s), k <= Len(w) PROVE u1[k + 1] = u2[k + 1]
    BY <1>1, <1>2, <2>0, SameWay
  <2>1. ASSUME NEW n \in 1..Len(s) PROVE s[n] = w[n]
    <3>1. n - 1 \in Nat /\ n - 1 <= Len(s) /\ n - 1 <= Len(w) /\ (n - 1) + 1 = n
      BY <1>3, <1>5
    <3>2. u1[(n - 1) + 1] = u2[(n - 1) + 1]
      BY <2>0, <3>1
    <3>3. s[n] = CandidateOf(x, u1[n]) /\ w[n] = CandidateOf(x, u2[n])
      BY <1>1, <1>2, <1>5 DEF Gives
    <3>4. QED
      BY <3>1, <3>2, <3>3
  <2>2. QED
    BY <1>3, <1>5, <2>1
<1>6. QED
  BY <1>3, <1>4, <1>5

\* As many rows are at the end as there are candidates, and they are the candidates.
RowsEnd ==
  /\ Len(mfdc) <= Len(rows)
  /\ \A n \in 1..Len(mfdc) : rows[Len(rows) - Len(mfdc) + n] = mfdc[n]

\* If one thing went wrong since the rows were deleted: while a merge goes on, its
\* candidates are the last rows, or this merge itself has lost one; else as many rows as
\* the merge gives candidates are these candidates.
OneTear ==
  torn = 1 =>
    IF pc = "merge" THEN RowsEnd \/ Len(rows) + 1 = Len(mfdc)
    ELSE numbers # <<>> /\ Len(rows) = Len(computed) => rows = computed

Whole ==
  /\ Merging => IsPart(info, mfdc) /\ \E u : Gives(info, mfdc, u, top)
  /\ numbers # <<>> \/ finished > 0 => IsWhole(info, computed)
  /\ \A n \in 1..Len(numbers) : numbers[n] = Len(computed)

Trusted == NoneEarly => Whole /\ OneTear /\ ReadIsTruth

\* One turn of the merge is the one the operators describe.
LEMMA TurnGives ==
  ASSUME HInv, Merged, NoneEarly, Merge, NEW u, Gives(info, mfdc, u, top)
  PROVE  \E v : Gives(info, mfdc', v, top')
<1>1. PICK N \in NearStacks :
        /\ top' = Popped(N)
        /\ mfdc' = Append(mfdc, Candidate(N))
  BY DEF Merge
<1>2. /\ pc = "merge" /\ Left # {} /\ info \in Contents
      /\ \A i \in Stacks : top[i] \in Nat /\ count[i] - 1 + top[i] = Len(info[i])
                           /\ count[i] \in Nat /\ Len(info[i]) \in Nat
  BY NoneBelow DEF Merge, Merged, Merging, HInv, StacksOK
<1>3. /\ N \subseteq Left
      /\ \A i \in Left : i \in N <=> VALUESDIFF(Tip(i), Largest) < Width
  BY <1>2, OnlyLeftNear DEF HInv
<1>4. Left = LeftOf(top) /\ Largest = LargestOf(info, top)
  BY DEF Left, LeftOf, Largest, LargestOf, Tip
<1>5. N = NearOf(info, top)
  BY <1>3, <1>4 DEF NearOf, Tip
<1>6. Popped(N) = PoppedOf(info, top)
  BY <1>5 DEF Popped, PoppedOf
<1>7. Candidate(N) = CandidateOf(info, top)
  <2>1. \A i \in Stacks : count[i] = Len(info[i]) + 1 - top[i]
    BY <1>2
  <2>2. [i \in Stacks |-> IF i \in N THEN count[i] ELSE 0]
          = [i \in Stacks |-> IF i \in NearOf(info, top) THEN Len(info[i]) + 1 - top[i] ELSE 0]
    BY <1>5, <2>1
  <2>3. QED
    BY <1>4, <2>2 DEF Candidate, CandidateOf
<1>8. Candidate(N) \in Row /\ mfdc \in Seq(Row) /\ Len(mfdc) \in Nat
  <2>1. N \in SUBSET Stacks
    BY DEF NearStacks
  <2>2. QED
    BY <2>1, CandidateTyped DEF HInv, StoreOK
<1>9. /\ mfdc' \in Seq(Row) /\ Len(mfdc') = Len(mfdc) + 1
      /\ \A n \in 1..Len(mfdc) : mfdc'[n] = mfdc[n]
      /\ mfdc'[Len(mfdc) + 1] = Candidate(N)
  BY <1>1, <1>8
<1> DEFINE v == [n \in 1..(Len(mfdc) + 2) |-> IF n <= Len(mfdc) + 1 THEN u[n] ELSE top']
<1>10. /\ \A n \in 1..(Len(mfdc) + 1) : v[n] = u[n]
       /\ v[Len(mfdc) + 2] = top'
  BY <1>8
<1> HIDE DEF v
<1>11. v[1] = [i \in Stacks |-> Len(info[i])] /\ v[Len(mfdc') + 1] = top'
  BY <1>8, <1>9, <1>10 DEF Gives
<1>12. ASSUME NEW n \in 1..Len(mfdc')
       PROVE  LeftOf(v[n]) # {} /\ mfdc'[n] = CandidateOf(info, v[n]) /\ v[n + 1] = PoppedOf(info, v[n])
  <2>1. CASE n \in 1..Len(mfdc)
    <3>1. v[n] = u[n] /\ v[n + 1] = u[n + 1] /\ mfdc'[n] = mfdc[n]
      <4>1. n \in 1..(Len(mfdc) + 1) /\ n + 1 \in 1..(Len(mfdc) + 1)
        BY <1>8, <2>1
      <4>2. QED
        BY <1>9, <1>10, <2>1, <4>1
    <3>2. QED
      BY <2>1, <3>1 DEF Gives
  <2>2. CASE n = Len(mfdc) + 1
    <3>1. n \in 1..(Len(mfdc) + 1) /\ n + 1 = Len(mfdc) + 2
      BY <1>8, <2>2
    <3>2. v[n] = top /\ v[n + 1] = top'
      BY <1>10, <2>2, <3>1 DEF Gives
    <3>3. QED
      BY <1>1, <1>2, <1>4, <1>6, <1>7, <1>9, <2>2, <3>2
  <2>3. QED
    BY <1>8, <1>9, <2>1, <2>2
<1>13. Gives(info, mfdc', v, top')
  BY <1>9, <1>11, <1>12 DEF Gives
<1>14. QED
  BY <1>13

\* getFeature: rows that are as many as their number are the candidates of a merge.
LEMMA TrustedRead == HInv /\ Trusted /\ getFeature => Trusted'
<1> SUFFICES ASSUME HInv, Trusted, getFeature, NoneEarly' PROVE Whole' /\ OneTear' /\ ReadIsTruth'
  BY DEF Trusted
<1>1. /\ info' = info /\ rows' = rows /\ numbers' = numbers /\ computed' = computed
      /\ finished' = finished /\ torn' = torn /\ pc = "idle"
      /\ top' = [i \in Stacks |-> Len(info[i])]
      /\ known' = (numbers # <<>>)
  BY DEF getFeature, store, record
<1>2. Whole /\ OneTear
  BY <1>1 DEF Trusted, NoneEarly
<1>3. \/ pc' = "merge" /\ mfdc' = <<>> /\ hit' = FALSE
      \/ pc' = "sample" /\ mfdc' = rows /\ hit' = TRUE
  BY DEF getFeature
<1>4. numbers # <<>> /\ pc' = "sample" => numbers[Len(numbers)] = Len(rows)
  BY DEF getFeature, Hits
<1>5. Whole'
  <2>1. ASSUME pc' = "merge" PROVE \E u : Gives(info, mfdc, u, top)'
    <3> DEFINE u == [n \in {1} |-> [i \in Stacks |-> Len(info[i])]]
    <3>1. mfdc' = <<>> /\ <<>> \in Seq(Row) /\ Len(mfdc') = 0
      BY <1>3, <2>1
    <3>2. u[1] = [i \in Stacks |-> Len(info[i])]
      OBVIOUS
    <3> HIDE DEF u
    <3>3. u[Len(mfdc') + 1] = top' /\ 1..Len(mfdc') = {}
      BY <1>1, <3>1, <3>2
    <3>4. Gives(info, mfdc', u, top')
      BY <3>1, <3>2, <3>3 DEF Gives
    <3>5. QED
      BY <1>1, <3>4
  <2>2. Merging' => pc' = "merge"
    BY <1>3 DEF Merging
  <2>3. numbers # <<>> \/ finished > 0 => IsWhole(info, computed)'
    BY <1>1, <1>2 DEF Whole
  <2>4. QED
    BY <1>1, <1>2, <2>1, <2>2, <2>3 DEF Whole, IsPart
<1>6. OneTear'
  BY <1>1, <1>2, <1>3 DEF OneTear, RowsEnd, HInv, StoreOK
<1>7. ReadIsTruth'
  <2> SUFFICES ASSUME pc' = "sample", numbers # <<>>, torn <= 1 PROVE rows = computed
    BY <1>1, <1>3 DEF ReadIsTruth
  <2>1. rows \in Seq(Row) /\ computed \in Seq(Row) /\ numbers \in Seq(Nat)
        /\ torn \in Nat /\ finished \in Nat
    BY DEF HInv, StoreOK
  <2>2. Len(numbers) \in 1..Len(numbers)
    BY <2>1
  <2>3. Len(rows) = Len(computed)
    BY <1>2, <1>4, <2>2 DEF Whole
  <2>4. CASE torn = 1
    BY <1>1, <1>2, <2>3, <2>4 DEF OneTear
  <2>5. CASE torn = 0 /\ finished > 0
    BY <2>5 DEF HInv, StoreSettles
  <2>6. CASE torn = 0 /\ finished = 0
    <3>1. rows = <<>>
      BY <1>1, <2>6 DEF HInv, Unfinished
    <3>2. QED
      BY <2>1, <2>3, <3>1
  <2>7. QED
    BY <2>1, <2>4, <2>5, <2>6
<1>8. QED
  BY <1>5, <1>6, <1>7

\* Merge: the candidates stay at the end of the rows, or this is the one that is lost.
LEMMA TrustedTurn == HInv /\ Merged /\ Trusted /\ Merge => Trusted'
<1> SUFFICES ASSUME HInv, Merged, Trusted, Merge, NoneEarly'
             PROVE  Whole' /\ OneTear' /\ ReadIsTruth'
  BY DEF Trusted
<1>1. /\ info' = info /\ numbers' = numbers /\ computed' = computed
      /\ finished' = finished /\ pc = "merge" /\ pc' = "merge"
  BY DEF Merge, record
<1>2. Whole /\ OneTear /\ NoneEarly
  BY <1>1 DEF Trusted, NoneEarly
<1>3. PICK N \in NearStacks :
        /\ mfdc' = Append(mfdc, Candidate(N))
        /\ \/ rows' = Append(rows, Candidate(N)) /\ torn' = torn
           \/ rows' = rows /\ torn' = torn + 1
  BY DEF Merge
<1>4. /\ mfdc \in Seq(Row) /\ rows \in Seq(Row) /\ Candidate(N) \in Row
      /\ torn \in Nat /\ finished \in Nat
  <2>1. N \in SUBSET Stacks
    BY DEF NearStacks
  <2>2. QED
    BY <2>1, CandidateTyped DEF HInv, StoreOK
<1>5. Whole'
  <2>1. \E v : Gives(info, mfdc', v, top')
    <3>1. PICK u : Gives(info, mfdc, u, top)
      BY <1>1, <1>2 DEF Whole, Merging
    <3>2. QED
      BY <1>2, <3>1, TurnGives
  <2>2. \E v : Gives(info, mfdc, v, top)'
    BY <1>1, <2>1
  <2>3. numbers # <<>> \/ finished > 0 => IsWhole(info, computed)'
    BY <1>1, <1>2 DEF Whole
  <2>4. QED
    BY <1>1, <1>2, <2>2, <2>3 DEF Whole, IsPart
<1>6. OneTear'
  <2> SUFFICES ASSUME torn' = 1 PROVE RowsEnd' \/ Len(rows') + 1 = Len(mfdc')
    BY <1>1 DEF OneTear
  <2>1. /\ Len(mfdc') = Len(mfdc) + 1 /\ mfdc'[Len(mfdc) + 1] = Candidate(N)
        /\ \A n \in 1..Len(mfdc) : mfdc'[n] = mfdc[n]
        /\ Len(mfdc) \in Nat /\ Len(rows) \in Nat
    BY <1>3, <1>4
  <2>2. CASE rows' = rows /\ torn' = torn + 1
    <3>1. torn = 0 /\ finished = 0
      BY <1>1, <1>4, <2>2 DEF HInv, StoreSettles
    <3>2. rows = mfdc
      BY <1>1, <3>1 DEF HInv, Unfinished
    <3>3. QED
      BY <2>1, <2>2, <3>2
  <2>3. CASE rows' = Append(rows, Candidate(N)) /\ torn' = torn
    <3>1. /\ Len(rows') = Len(rows) + 1 /\ rows'[Len(rows) + 1] = Candidate(N)
          /\ \A n \in 1..Len(rows) : rows'[n] = rows[n]
      BY <1>4, <2>3
    <3>2. CASE RowsEnd
      <4>1. Len(rows') - Len(mfdc') = Len(rows) - Len(mfdc) /\ Len(mfdc) <= Len(rows)
        BY <2>1, <3>1, <3>2 DEF RowsEnd
      <4>2. ASSUME NEW n \in 1..Len(mfdc')
            PROVE  rows'[Len(rows') - Len(mfdc') + n] = mfdc'[n]
        <5>1. CASE n \in 1..Len(mfdc)
          <6>1. Len(rows) - Len(mfdc) + n \in 1..Len(rows)
            BY <2>1, <4>1, <5>1
          <6>2. QED
            BY <2>1, <3>1, <3>2, <4>1, <5>1, <6>1 DEF RowsEnd
        <5>2. CASE n = Len(mfdc) + 1
          <6>1. Len(rows) - Len(mfdc) + n = Len(rows) + 1
            BY <2>1, <5>2
          <6>2. QED
            BY <2>1, <3>1, <4>1, <5>2, <6>1
        <5>3. QED
          BY <2>1, <5>1, <5>2
      <4>3. Len(mfdc') <= Len(rows')
        BY <2>1, <3>1, <4>1
      <4>4. QED
        BY <4>2, <4>3 DEF RowsEnd
    <3>3. CASE Len(rows) + 1 = Len(mfdc)
      BY <2>1, <3>1, <3>3
    <3>4. QED
      BY <1>1, <1>2, <2>3, <3>2, <3>3 DEF OneTear
  <2>4. QED
    BY <1>3, <2>2, <2>3
<1>7. ReadIsTruth'
  BY <1>1 DEF ReadIsTruth
<1>8. QED
  BY <1>5, <1>6, <1>7

\* insertFeatureInfo: every merge of the text that is finished gives as many candidates.
LEMMA TrustedNumber == HInv /\ Trusted /\ insertFeatureInfo => Trusted'
<1> SUFFICES ASSUME HInv, Trusted, insertFeatureInfo, NoneEarly'
             PROVE  Whole' /\ OneTear' /\ ReadIsTruth'
  BY DEF Trusted
<1>1. /\ pc = "merge" /\ Left = {} /\ pc' = "sample" /\ computed' = mfdc
      /\ finished' = finished + 1
      /\ info' = info /\ top' = top /\ mfdc' = mfdc /\ rows' = rows
      /\ \/ numbers' = Append(numbers, Len(mfdc)) /\ torn' = torn
         \/ numbers' = numbers /\ torn' = torn + 1
  BY DEF insertFeatureInfo, work
<1>2. Whole /\ OneTear
  BY <1>1 DEF Trusted, NoneEarly
<1>3. /\ mfdc \in Seq(Row) /\ rows \in Seq(Row) /\ numbers \in Seq(Nat)
      /\ torn \in Nat /\ finished \in Nat
  BY DEF HInv, StoreOK
<1>4. IsWhole(info, mfdc) /\ IsPart(info, mfdc)
  <2>1. LeftOf(top) = {}
    BY <1>1 DEF Left, LeftOf
  <2>2. PICK u : Gives(info, mfdc, u, top)
    BY <1>1, <1>2 DEF Whole, Merging
  <2>3. QED
    BY <2>1, <2>2 DEF IsWhole, IsPart
<1>5. ASSUME NEW n \in 1..Len(numbers) PROVE numbers[n] = Len(mfdc)
  <2>1. numbers # <<>> /\ IsWhole(info, computed) /\ numbers[n] = Len(computed)
    BY <1>2, <1>3, <1>5 DEF Whole
  <2>2. IsPart(info, computed)
    BY <2>1 DEF IsWhole, IsPart
  <2>3. /\ mfdc \in Seq(Row) /\ computed \in Seq(Row)
        /\ Len(computed) <= Len(mfdc) /\ Len(mfdc) <= Len(computed)
    BY <1>4, <2>1, <2>2, PartOfWhole
  <2>4. QED
    BY <2>1, <2>3
<1>6. Whole'
  <2>1. (IsPart(info, mfdc) /\ \E u : Gives(info, mfdc, u, top))'
    BY <1>1, <1>2 DEF Whole, Merging
  <2>2. IsWhole(info, computed)'
    BY <1>1, <1>4
  <2>3. \A n \in 1..Len(numbers') : numbers'[n] = Len(computed')
    <3>1. Len(mfdc) \in Nat /\ Len(numbers) \in Nat
      BY <1>3
    <3>2. CASE numbers' = numbers
      BY <1>1, <1>5, <3>2
    <3>3. CASE numbers' = Append(numbers, Len(mfdc))
      <4>1. /\ Len(numbers') = Len(numbers) + 1 /\ numbers'[Len(numbers) + 1] = Len(mfdc)
            /\ \A n \in 1..Len(numbers) : numbers'[n] = numbers[n]
        BY <1>3, <3>1, <3>3
      <4>2. QED
        BY <1>1, <1>5, <3>1, <4>1
    <3>4. QED
      BY <1>1, <3>2, <3>3
  <2>4. QED
    BY <2>1, <2>2, <2>3 DEF Whole
<1>7. OneTear'
  <2> SUFFICES ASSUME torn' = 1, Len(rows) = Len(mfdc) PROVE rows = mfdc
    BY <1>1 DEF OneTear
  <2>1. CASE torn' = torn + 1
    <3>1. torn = 0 /\ finished = 0
      BY <1>1, <1>3, <2>1 DEF HInv, StoreSettles
    <3>2. QED
      BY <1>1, <3>1 DEF HInv, Unfinished
  <2>2. CASE torn' = torn
    <3>1. RowsEnd
      BY <1>1, <1>2, <1>3, <2>2 DEF OneTear
    <3>2. \A n \in 1..Len(mfdc) : rows[n] = mfdc[n]
      BY <1>3, <3>1 DEF RowsEnd
    <3>3. QED
      BY <1>3, <3>2
  <2>3. QED
    BY <1>1, <2>1, <2>2
<1>8. ReadIsTruth'
  BY <1>1 DEF ReadIsTruth
<1>9. QED
  BY <1>6, <1>7, <1>8

\* Kill: the rows of the first merge after the deletion that is interrupted begin what
\* the merge gives, so that as many rows as it gives are all of them.
LEMMA TrustedStop == HInv /\ Trusted /\ (WriteSample \/ Kill \/ cleanFeature) => Trusted'
<1> SUFFICES ASSUME HInv, Trusted, WriteSample \/ Kill \/ cleanFeature, NoneEarly'
             PROVE  Whole' /\ OneTear' /\ ReadIsTruth'
  BY DEF Trusted
<1>1. /\ info' = info /\ numbers' = numbers /\ computed' = computed /\ pc' = "idle"
      /\ \/ /\ rows' = rows /\ finished' = finished
            /\ torn' = IF pc = "merge" THEN torn + 1 ELSE torn
         \/ finished' = 0 /\ torn' = 0
  BY DEF WriteSample, Kill, cleanFeature, work, store, record
<1>2. Whole /\ OneTear
  BY <1>1 DEF Trusted, NoneEarly
<1>3. /\ mfdc \in Seq(Row) /\ rows \in Seq(Row) /\ computed \in Seq(Row)
      /\ torn \in Nat /\ finished \in Nat
  BY DEF HInv, StoreOK
<1>4. Whole'
  <2>1. IsWhole(info, computed) => IsWhole(info, computed)'
    BY <1>1
  <2>2. ~Merging'
    BY <1>1 DEF Merging
  <2>3. QED
    BY <1>1, <1>2, <2>1, <2>2 DEF Whole
<1>5. OneTear'
  <2> SUFFICES ASSUME torn' = 1, numbers # <<>>, Len(rows') = Len(computed)
               PROVE  rows' = computed
    BY <1>1 DEF OneTear
  <2>1. rows' = rows /\ torn' = IF pc = "merge" THEN torn + 1 ELSE torn
    BY <1>1
  <2>2. CASE pc = "merge"
    <3>1. torn = 0 /\ finished = 0
      BY <1>3, <2>1, <2>2 DEF HInv, StoreSettles
    <3>2. rows = mfdc
      BY <2>2, <3>1 DEF HInv, Unfinished
    <3>3. IsPart(info, mfdc) /\ IsWhole(info, computed)
      BY <1>2, <2>2 DEF Whole, Merging
    <3>4. QED
      BY <2>1, <3>2, <3>3, PartOfWhole
  <2>3. CASE pc # "merge"
    BY <1>2, <2>1, <2>3 DEF OneTear
  <2>4. QED
    BY <2>2, <2>3
<1>6. ReadIsTruth'
  BY <1>1 DEF ReadIsTruth
<1>7. QED
  BY <1>4, <1>5, <1>6

\* A merge that goes on follows no hit, and rows that are taken without a number are
\* none, as long as nothing is torn.
Unread == UnreadIsEmpty /\ (pc = "merge" => ~hit)

\* Before a merge is finished there are no rows without a tear, and after it there is a
\* number that is read.
LEMMA UnreadStays == HInv /\ Unread /\ [Next]_vars => Unread'
<1> SUFFICES ASSUME HInv, Unread, [Next]_vars PROVE Unread'
  OBVIOUS
<1>1. CASE getFeature
  <2>1. /\ pc = "idle" /\ torn' = torn /\ known' = (numbers # <<>>)
        /\ \/ hit' = TRUE /\ mfdc' = rows /\ pc' = "sample"
           \/ hit' = FALSE /\ pc' = "merge"
    BY <1>1 DEF getFeature, Hits
  <2>2. torn = 0 /\ numbers = <<>> => rows = <<>>
    BY <2>1 DEF HInv, Unfinished, StoreSettles, StoreOK
  <2>3. QED
    BY <2>1, <2>2 DEF Unread, UnreadIsEmpty
<1>2. CASE Merge
  BY <1>2 DEF Merge, Unread, UnreadIsEmpty
<1>3. CASE insertFeatureInfo
  BY <1>3 DEF insertFeatureInfo, work, Unread, UnreadIsEmpty
<1>4. CASE WriteSample \/ Kill \/ cleanFeature
  BY <1>4 DEF WriteSample, Kill, cleanFeature, Unread, UnreadIsEmpty
<1>5. CASE UNCHANGED vars
  BY <1>5 DEF vars, work, Unread, UnreadIsEmpty
<1>6. QED
  BY <1>1, <1>2, <1>3, <1>4, <1>5 DEF Next

\* Rows that are taken from the database because their number is right are what a merge
\* of the text gives, with at most one kill or lost insert since they were deleted, and
\* rows that are taken without a number are none, if there was no such event.
THEOREM RowsTrusted == Spec => []HitIsTruth
<1> DEFINE Inv == HInv /\ Merged /\ Trusted /\ Unread
<1>1. Init => Inv
  <2> SUFFICES ASSUME Init PROVE HInv /\ Merged /\ Trusted /\ Unread
    OBVIOUS
  <2>1. Merged
    BY DEF Init, Merged, Merging
  <2>2. Trusted
    BY DEF Init, Trusted, Whole, Merging, OneTear, ReadIsTruth
  <2>3. Unread
    BY DEF Init, Unread, UnreadIsEmpty
  <2>4. QED
    BY <2>1, <2>2, <2>3, Start
<1>2. Inv /\ [Next]_vars => Inv'
  <2> SUFFICES ASSUME HInv, Merged, Trusted, Unread, [Next]_vars
               PROVE  HInv' /\ Merged' /\ Trusted' /\ Unread'
    OBVIOUS
  <2>1. HInv' /\ Merged' /\ Unread'
    BY StepHInv, MergeBeginsAndEnds, UnreadStays
  <2>2. ASSUME UNCHANGED vars PROVE Trusted'
    BY <2>2 DEF vars, work, store, record, Trusted, NoneEarly, Whole, Merging, OneTear, RowsEnd,
       ReadIsTruth
  <2>3. ASSUME Next PROVE Trusted'
    BY <2>3, TrustedRead, TrustedTurn, TrustedNumber, TrustedStop DEF Next
  <2>4. QED
    BY <2>1, <2>2, <2>3
<1>3. Inv => HitIsTruth
  <2> SUFFICES ASSUME Trusted, Unread PROVE HitIsTruth
    OBVIOUS
  <2>1. QED
    BY DEF Trusted, Unread, ReadIsTruth, HitIsTruth
<1>4. QED
  BY <1>1, <1>2, <1>3, PTL DEF Spec
================================================================================
