------------------------------ MODULE HeadTraining ------------------------------
(****************************************************************************)
(* The trainer that looks for the heading of the references (hftctl.c) and  *)
(* the database its candidates are kept in (persistence.c), for one file    *)
(* that is worked on again and again.  The offsets at which the text looks  *)
(* like a heading, by FEATURE_SIZE thresholds, are merged into candidates;  *)
(* each is inserted as it is found, and their number at the end; the next   *)
(* run takes the rows if there are as many of them as the number says.      *)
(* The trainer for the end of the references (eftctl.c) deletes the rows.   *)
(****************************************************************************)
EXTENDS Integers, Sequences, FiniteSets, FiniteSetsExt

CONSTANTS
  Stacks,         \* the thresholds, 0..FEATURE_SIZE - 1
  TextSize,       \* the size of the longest text
  Contents,       \* texts: for each threshold the offsets found, increasing
  Width,          \* offsets less than this apart are one candidate, 10
  Garbage,        \* what an int may hold that was not initialized
  MaxRuns, MaxKills, MaxFailures, MaxCleans      \* bounds: events of each kind

ASSUME TrainingAssumption ==
  /\ IsFiniteSet(Stacks)
  /\ Width \in Nat \ {0} /\ TextSize \in Nat
  /\ Contents \subseteq [Stacks -> Seq(Nat)]
  /\ \A s \in Contents : \A i \in Stacks : \A k \in 1..Len(s[i]) :
       s[i][k] <= TextSize /\ \A j \in 1..(k - 1) : s[i][j] < s[i][k]
  /\ Garbage \subseteq Int

VARIABLES
  info,           \* the stacks of the text, which is the same in every run
  pc,             \* "idle", "merge", "sample": what is done with the file
  top,            \* how much of each stack is left
  count,          \* the next rank for each threshold
  mfdc,           \* the candidates of this run
  hit,            \* they were taken from the database
  rows,           \* table OneToFive
  numbers,        \* table OneToFiveInfo: sampleNumber of its rows
  known,          \* history: the number compared in this run was read from it
  computed,       \* history: the candidates of the last merge that was finished
  finished,       \* history: merges finished since the rows were deleted
  torn,           \* history: kills while merging and failed inserts since then
  runs, kills, failures, cleans     \* history: events so far

store  == <<rows, numbers>>
work   == <<top, count, mfdc, hit, known>>
record == <<computed, finished>>
bounds == <<runs, kills, failures, cleans>>
vars   == <<info, pc, work, store, record, torn, bounds>>

Init ==
  /\ info \in Contents
  /\ pc = "idle"
  /\ top = [i \in Stacks |-> 0] /\ count = [i \in Stacks |-> 1]
  /\ mfdc = <<>> /\ hit = FALSE /\ known = FALSE
  /\ rows = <<>> /\ numbers = <<>>
  /\ computed = <<>> /\ finished = 0 /\ torn = 0
  /\ runs = 0 /\ kills = 0 /\ failures = 0 /\ cleans = 0

--------------------------------------------------------------------------------
(* getFeature *)

Hits_AtLeast(num) == num <= Len(rows)
Hits(num) == num = Len(rows)

\* num is only written if the table has a number for the file, by the last one.
getFeature ==
  /\ pc = "idle" /\ runs < MaxRuns
  /\ \E num \in IF numbers = <<>> THEN Garbage ELSE {numbers[Len(numbers)]} :
       /\ hit' = Hits(num)
       /\ mfdc' = IF Hits(num) THEN rows ELSE <<>>
       /\ pc' = IF Hits(num) THEN "sample" ELSE "merge"
  /\ known' = (numbers # <<>>)
  /\ top' = [i \in Stacks |-> Len(info[i])]
  /\ count' = [i \in Stacks |-> 1]
  /\ runs' = runs + 1
  /\ UNCHANGED <<info, store, record, torn, kills, failures, cleans>>

--------------------------------------------------------------------------------
(* The merge *)

Left == {i \in Stacks : top[i] > 0}            \* ~allZero
Tip(i) == info[i][top[i]]
Largest == Max({Tip(i) : i \in Left})          \* the data of maxTop

VALUESDIFF(a, b) == IF a > b THEN a - b ELSE b - a

\* The test at the top of a stack.  An empty stack is not left out: data[-1] is
\* the field top in front of the array, which is 0, and below that there is memory
\* of which nothing is known.
Near_Strictly(i, near) ==
  /\ top[i] > 0 => near = (VALUESDIFF(Tip(i), Largest) < 0)
  /\ top[i] = 0 => near = (VALUESDIFF(0, Largest) < 0)
Near(i, near) ==
  /\ top[i] > 0 => near = (VALUESDIFF(Tip(i), Largest) < Width)
  /\ top[i] = 0 => near = (VALUESDIFF(0, Largest) < Width)

NearStacks == {N \in SUBSET Stacks : \A i \in Stacks : Near(i, i \in N)}

Candidate(N) ==
  [offset |-> Largest, t |-> [i \in Stacks |-> IF i \in N THEN count[i] ELSE 0]]

Popped_Largest(N) ==
  [i \in Stacks |-> IF i \in N /\ top[i] > 0 /\ Tip(i) = Largest THEN top[i] - 1 ELSE top[i]]
Popped(N) == [i \in Stacks |-> IF i \in N THEN top[i] - 1 ELSE top[i]]

\* One turn of the loop; a row that cannot be inserted is only reported.
Merge ==
  /\ pc = "merge" /\ Left # {}
  /\ \E N \in NearStacks :
       /\ top' = Popped(N)
       /\ count' = [i \in Stacks |-> IF i \in N THEN count[i] + 1 ELSE count[i]]
       /\ mfdc' = Append(mfdc, Candidate(N))
       /\ \/ /\ rows' = Append(rows, Candidate(N))
             /\ UNCHANGED <<torn, failures>>
          \/ /\ failures < MaxFailures
             /\ failures' = failures + 1 /\ torn' = torn + 1
             /\ UNCHANGED rows
  /\ UNCHANGED <<info, pc, hit, known, numbers, record, runs, kills, cleans>>

\* insertFeatureInfo: "insert or replace", but the key of the table is its id, so
\* that nothing is ever replaced.
insertFeatureInfo ==
  /\ pc = "merge" /\ Left = {}
  /\ pc' = "sample"
  /\ computed' = mfdc /\ finished' = finished + 1
  /\ \/ /\ numbers' = Append(numbers, Len(mfdc))
        /\ UNCHANGED <<torn, failures>>
     \/ /\ failures < MaxFailures
        /\ failures' = failures + 1 /\ torn' = torn + 1
        /\ UNCHANGED numbers
  /\ UNCHANGED <<info, work, rows, runs, kills, cleans>>

\* The features of the candidates are computed and the sample is written.
WriteSample ==
  /\ pc = "sample"
  /\ pc' = "idle"
  /\ UNCHANGED <<info, work, store, record, torn, bounds>>

--------------------------------------------------------------------------------
\* The program is stopped: what was inserted stays.
Kill ==
  /\ pc # "idle" /\ kills < MaxKills
  /\ kills' = kills + 1
  /\ pc' = "idle"
  /\ torn' = IF pc = "merge" THEN torn + 1 ELSE torn
  /\ UNCHANGED <<info, work, store, record, runs, failures, cleans>>

\* genEndSampleCtl: the rows are deleted, their number is not.
cleanFeature_First ==
  /\ pc = "idle" /\ cleans < MaxCleans
  /\ cleans' = cleans + 1
  /\ rows' = IF rows = <<>> THEN <<>> ELSE Tail(rows)
  /\ finished' = 0 /\ torn' = 0
  /\ UNCHANGED <<info, pc, work, numbers, computed, runs, kills, failures>>
cleanFeature ==
  /\ pc = "idle" /\ cleans < MaxCleans
  /\ cleans' = cleans + 1
  /\ rows' = <<>>
  /\ finished' = 0 /\ torn' = 0
  /\ UNCHANGED <<info, pc, work, numbers, computed, runs, kills, failures>>

Next == getFeature \/ Merge \/ insertFeatureInfo \/ WriteSample \/ Kill \/ cleanFeature

Spec == Init /\ [][Next]_vars

--------------------------------------------------------------------------------
TypeOK ==
  /\ info \in [Stacks -> Seq(Nat)]
  /\ pc \in {"idle", "merge", "sample"}
  /\ top \in [Stacks -> Int] /\ count \in [Stacks -> Nat]
  /\ hit \in BOOLEAN /\ known \in BOOLEAN
  /\ rows \in Seq([offset : Nat, t : [Stacks -> Nat]])
  /\ mfdc \in Seq([offset : Nat, t : [Stacks -> Nat]])
  /\ numbers \in Seq(Nat)
  /\ finished \in Nat /\ torn \in Nat

\* The candidate c is at the offset of rank r in stack i, or less than Width from it.
AtOffset(i, r, c) == r \in 1..Len(info[i]) /\ info[i][Len(info[i]) + 1 - r] = mfdc[c].offset
NearOffset(i, r, c) ==
  r \in 1..Len(info[i]) /\ VALUESDIFF(info[i][Len(info[i]) + 1 - r], mfdc[c].offset) < Width

\* What a merge makes of the stacks, for every text: the candidates come from the end of
\* the text to its beginning, each at an offset of one of its stacks, and each stack has
\* all its offsets in them, once and in order, less than Width from the candidate.  What
\* is read below the bottom of a stack only adds ranks the stack has no offset for, and
\* only to candidates less than Width from the beginning of the text.
EveryHeadingOnce ==
  pc = "sample" /\ ~hit =>
    /\ \A c \in 1..Len(mfdc) :
         /\ \E i \in Stacks : AtOffset(i, mfdc[c].t[i], c)
         /\ c > 1 => mfdc[c].offset < mfdc[c - 1].offset
    /\ \A i \in Stacks :
         LET ranked == {c \in 1..Len(mfdc) : mfdc[c].t[i] # 0} IN
         /\ 1..Len(info[i]) \subseteq {mfdc[c].t[i] : c \in ranked}
         /\ \A c \in ranked :
              /\ \A d \in ranked : d < c => mfdc[d].t[i] < mfdc[c].t[i]
              /\ \/ NearOffset(i, mfdc[c].t[i], c)
                 \/ mfdc[c].t[i] > Len(info[i]) /\ mfdc[c].offset < Width

\* No heading is among the first characters of the text, where an empty stack seems
\* to have one more offset.
NoneEarly == \A i \in Stacks : \A k \in 1..Len(info[i]) : info[i][k] >= Width

\* What is taken from the database is what a merge would give, if the number was read
\* at all and not more than one thing went wrong since the rows were deleted: two
\* merges that were killed can leave as many rows as one that was not.
ReadIsTruth ==
  pc = "sample" /\ hit /\ known /\ torn <= 1 /\ NoneEarly => mfdc = computed

\* If there was no number to read and the stack held one that fits, nothing is taken for
\* the candidates but no rows at all, unless something went wrong before.
UnreadIsEmpty == pc = "sample" /\ hit /\ ~known /\ torn = 0 => mfdc = <<>>

\* What a run that does not merge can have for its candidates.
HitIsTruth == ReadIsTruth /\ UnreadIsEmpty

\* Deleting the rows heals the database: after that, one run that nothing disturbs
\* leaves its rows and their number, and every later run takes them and adds none.
StoreSettles ==
  torn = 0 /\ finished > 0 =>
    /\ rows = computed
    /\ numbers # <<>> /\ numbers[Len(numbers)] = Len(rows)
    /\ pc # "merge"

\* The merge goes below the bottom of the stacks, and still ends: every candidate
\* uses up at least one of the offsets found, so that there are never more
\* of them.  Whether the container of 1024 has room for as many is not said.
Offsets(t) == UNION {{i} \X (1..t[i]) : i \in Stacks}
OneOffsetEach ==
  pc = "merge" =>
    Len(mfdc) + Cardinality(Offsets(top))
      <= Cardinality(Offsets([i \in Stacks |-> Len(info[i])]))
================================================================================
