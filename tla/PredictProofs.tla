------------------------------ MODULE PredictProofs ------------------------------
(****************************************************************************)
(* Proofs about the rings of queue.c and the predictor's loop over them.    *)
(*                                                                          *)
(* A ring of any size, with any elements, under every sequence of calls is  *)
(* a first-in first-out window (IsWindow), the two ways to look into it     *)
(* agree, and the slot deQueue returned is left alone.  The lemmas about    *)
(* its operations serve the predictor's proofs too.                         *)
(*                                                                          *)
(* For every text, ring size and quotation limit the rows are the words of  *)
(* the text (RowsAreTheWords), each is computed from the right neighbours   *)
(* (Neighbourhood), and what the scans make of these is true of the text    *)
(* (KeywordsOfTheSentence, BracketsInSight, CarriedOver).                   *)
(****************************************************************************)
EXTENDS Predict, CNSQueue, FiniteSetTheorems, WellFoundedInduction, TLAPS

--------------------------------------------------------------------------------
(* Arithmetic modulo the size of the ring.                                    *)

\* What % does to an index that runs at most one turn past the ring.
LEMMA Turn ==
  ASSUME NEW x \in 0..(2 * CNSQSIZE - 1)
  PROVE  x % CNSQSIZE = (IF x < CNSQSIZE THEN x ELSE x - CNSQSIZE)
<1>1. CNSQSIZE \in Nat /\ CNSQSIZE > 1
  BY CNSQAssumption
<1>2. CASE x < CNSQSIZE
  BY <1>1, <1>2
<1>3. CASE x >= CNSQSIZE
  BY <1>1, <1>3
<1> QED
  BY <1>1, <1>2, <1>3

\* The number of elements, without the turn of the ring.
LEMMA Size ==
  ASSUME NEW E, NEW R \in QueuesOf(E)
  PROVE  /\ sizeQueue(R) = (IF R.rear >= R.front THEN R.rear - R.front
                                                 ELSE R.rear - R.front + CNSQSIZE)
         /\ sizeQueue(R) \in 0..(CNSQSIZE - 1)
<1>1. CNSQSIZE \in Nat /\ CNSQSIZE > 1 /\ R.front \in Slot /\ R.rear \in Slot
  BY CNSQAssumption DEF QueuesOf
<1> DEFINE x == R.rear - R.front + CNSQSIZE
<1>2. x \in 0..(2 * CNSQSIZE - 1)
  BY <1>1 DEF Slot
<1>3. sizeQueue(R) = x % CNSQSIZE
  BY DEF sizeQueue
<1>4. x = R.rear - R.front + CNSQSIZE
  OBVIOUS
<1> HIDE DEF x
<1>5. x % CNSQSIZE = (IF x < CNSQSIZE THEN x ELSE x - CNSQSIZE)
  BY <1>2, Turn
<1> QED
  BY <1>1, <1>3, <1>4, <1>5 DEF Slot

\* The slot after a slot.
LEMMA NextSlot ==
  ASSUME NEW s \in Slot
  PROVE  /\ (s + 1) % CNSQSIZE = (IF s = CNSQSIZE - 1 THEN 0 ELSE s + 1)
         /\ (s + 1) % CNSQSIZE \in Slot
<1>1. CNSQSIZE \in Nat /\ CNSQSIZE > 1
  BY CNSQAssumption
<1>2. s + 1 \in 0..(2 * CNSQSIZE - 1)
  BY <1>1 DEF Slot
<1> QED
  BY <1>1, <1>2, Turn DEF Slot

\* The slot of the i-th element.
LEMMA SlotOf ==
  ASSUME NEW f \in Slot, NEW i \in 1..(CNSQSIZE - 1)
  PROVE  /\ (f + i) % CNSQSIZE = (IF f + i < CNSQSIZE THEN f + i ELSE f + i - CNSQSIZE)
         /\ (f + i) % CNSQSIZE \in Slot
<1>1. CNSQSIZE \in Nat /\ CNSQSIZE > 1
  BY CNSQAssumption
<1>2. f + i \in 0..(2 * CNSQSIZE - 1)
  BY <1>1 DEF Slot
<1> QED
  BY <1>1, <1>2, Turn DEF Slot

\* Full and empty are the extreme sizes.
LEMMA FullEmpty ==
  ASSUME NEW E, NEW R \in QueuesOf(E)
  PROVE  /\ isFullQueue(R) <=> sizeQueue(R) = CNSQSIZE - 1
         /\ isEmptyQueue(R) <=> sizeQueue(R) = 0
<1>1. CNSQSIZE \in Nat /\ CNSQSIZE > 1 /\ R.front \in Slot /\ R.rear \in Slot
  BY CNSQAssumption DEF QueuesOf
<1>2. (R.rear + 1) % CNSQSIZE = (IF R.rear = CNSQSIZE - 1 THEN 0 ELSE R.rear + 1)
  BY <1>1, NextSlot
<1> QED
  BY <1>1, <1>2, Size DEF Slot, isFullQueue, isEmptyQueue

--------------------------------------------------------------------------------
(* The calls, one by one, and what each does to the window.                   *)

WindowOf(R) == [i \in 1..sizeQueue(R) |-> R.data[(R.front + i) % CNSQSIZE]]

\* The window is a sequence of snapshots, as long as the ring's size.
LEMMA WindowSeq ==
  ASSUME NEW E, NEW R \in QueuesOf(E)
  PROVE  WindowOf(R) \in Seq(E) /\ Len(WindowOf(R)) = sizeQueue(R)
<1>1. sizeQueue(R) \in Nat /\ sizeQueue(R) <= CNSQSIZE - 1 /\ CNSQSIZE \in Nat
  BY Size, CNSQAssumption
<1>2. \A i \in 1..sizeQueue(R) : R.data[(R.front + i) % CNSQSIZE] \in E
  <2> TAKE i \in 1..sizeQueue(R)
  <2>1. i \in 1..(CNSQSIZE - 1) /\ R.front \in Slot
    BY <1>1 DEF QueuesOf
  <2> QED
    BY <2>1, SlotOf DEF QueuesOf
<1> QED
  BY <1>1, <1>2 DEF WindowOf

\* An enQueue that is not refused appends to the window, in a slot that held none
\* of its elements and is not the one deQueue took last.
LEMMA EnQueued ==
  ASSUME NEW E, NEW R \in QueuesOf(E), NEW e \in E, ~isFullQueue(R)
  PROVE  /\ enQueue(R, e) \in QueuesOf(E)
         /\ WindowOf(enQueue(R, e)) = Append(WindowOf(R), e)
         /\ enQueue(R, e).front = R.front
         /\ enQueue(R, e).data[R.front] = R.data[R.front]
<1> DEFINE r == (R.rear + 1) % CNSQSIZE
           T == [R EXCEPT !.rear = r, !.data[r] = e]
<1>1. CNSQSIZE \in Nat /\ CNSQSIZE > 1 /\ R.front \in Slot /\ R.rear \in Slot
  BY CNSQAssumption DEF QueuesOf
<1>2. enQueue(R, e) = T
  BY DEF enQueue
<1>3. r \in Slot /\ r = (IF R.rear = CNSQSIZE - 1 THEN 0 ELSE R.rear + 1)
  BY <1>1, NextSlot
<1>4. T \in QueuesOf(E) /\ T.front = R.front /\ T.rear = r /\ T.data = [R.data EXCEPT ![r] = e]
  BY <1>3 DEF QueuesOf
<1>5. r # R.front
  BY DEF isFullQueue
<1> HIDE DEF r, T
<1>6. sizeQueue(R) \in 0..(CNSQSIZE - 2)
  <2>1. sizeQueue(R) # CNSQSIZE - 1
    BY FullEmpty
  <2> QED
    BY <2>1, <1>1, Size
<1>7. sizeQueue(T) = sizeQueue(R) + 1
  BY <1>1, <1>3, <1>4, <1>5, <1>6, Size DEF Slot
<1>8. WindowOf(T) = Append(WindowOf(R), e)
  <2>1. WindowOf(R) \in Seq(E) /\ Len(WindowOf(R)) = sizeQueue(R)
    BY WindowSeq
  <2>2. WindowOf(T) \in Seq(E) /\ Len(WindowOf(T)) = sizeQueue(R) + 1
    BY <1>4, <1>7, WindowSeq
  <2>3. ASSUME NEW i \in 1..sizeQueue(R) PROVE WindowOf(T)[i] = WindowOf(R)[i]
    <3>1. i \in 1..(CNSQSIZE - 1) /\ i \in 1..sizeQueue(T)
      BY <1>1, <1>6, <1>7
    <3>2. (R.front + i) % CNSQSIZE = (IF R.front + i < CNSQSIZE THEN R.front + i
                                                     ELSE R.front + i - CNSQSIZE)
      BY <1>1, <3>1, SlotOf
    <3>3. (R.front + i) % CNSQSIZE \in Slot
      BY <1>1, <3>1, SlotOf
    <3>4. (R.front + i) % CNSQSIZE # r
      BY <1>1, <1>3, <1>6, <3>2, Size DEF Slot
    <3>5. T.data[(R.front + i) % CNSQSIZE] = R.data[(R.front + i) % CNSQSIZE]
      BY <1>4, <3>3, <3>4 DEF QueuesOf
    <3> QED
      BY <1>4, <3>1, <3>5 DEF WindowOf
  <2>4. WindowOf(T)[sizeQueue(R) + 1] = e
    <3>1. sizeQueue(R) + 1 \in 1..(CNSQSIZE - 1) /\ sizeQueue(R) + 1 \in 1..sizeQueue(T)
      BY <1>1, <1>6, <1>7
    <3>2. (R.front + (sizeQueue(R) + 1)) % CNSQSIZE = r
      <4>1. (R.front + (sizeQueue(R) + 1)) % CNSQSIZE
              = (IF R.front + (sizeQueue(R) + 1) < CNSQSIZE
                 THEN R.front + (sizeQueue(R) + 1)
                 ELSE R.front + (sizeQueue(R) + 1) - CNSQSIZE)
        BY <1>1, <3>1, SlotOf
      <4> QED
        BY <1>1, <1>3, <1>6, <4>1, Size DEF Slot
    <3>3. T.data[r] = e
      BY <1>3, <1>4 DEF QueuesOf
    <3> QED
      BY <1>4, <3>1, <3>2, <3>3 DEF WindowOf
  <2> QED
    BY <2>1, <2>2, <2>3, <2>4, <1>6
<1>9. T.data[R.front] = R.data[R.front]
  BY <1>1, <1>4, <1>5 DEF QueuesOf
<1> QED
  BY <1>2, <1>4, <1>8, <1>9

\* A deQueue that finds an element drops the oldest from the window.
LEMMA DeQueued ==
  ASSUME NEW E, NEW R \in QueuesOf(E), ~isEmptyQueue(R)
  PROVE  /\ deQueue(R) \in QueuesOf(E)
         /\ WindowOf(R) # <<>>
         /\ WindowOf(deQueue(R)) = Tail(WindowOf(R))
         /\ deQueued(R) = deQueue(R).front
         /\ ~isFullQueue(deQueue(R))
         /\ sizeQueue(R) > 0
<1> DEFINE f == (R.front + 1) % CNSQSIZE
           T == [R EXCEPT !.front = f]
<1>1. CNSQSIZE \in Nat /\ CNSQSIZE > 1 /\ R.front \in Slot /\ R.rear \in Slot
  BY CNSQAssumption DEF QueuesOf
<1>2. deQueue(R) = T /\ deQueued(R) = f
  BY DEF deQueue, deQueued, QueuesOf
<1>3. f \in Slot /\ f = (IF R.front = CNSQSIZE - 1 THEN 0 ELSE R.front + 1)
  BY <1>1, NextSlot
<1>4. T \in QueuesOf(E) /\ T.front = f /\ T.rear = R.rear /\ T.data = R.data
  BY <1>3 DEF QueuesOf
<1> HIDE DEF f, T
<1>5. sizeQueue(R) \in 1..(CNSQSIZE - 1)
  <2>1. sizeQueue(R) # 0
    BY FullEmpty
  <2> QED
    BY <2>1, <1>1, Size
<1>6. sizeQueue(T) = sizeQueue(R) - 1
  <2>1. sizeQueue(R) = (IF R.rear >= R.front THEN R.rear - R.front
                                             ELSE R.rear - R.front + CNSQSIZE)
    BY Size
  <2>2. sizeQueue(T) = (IF R.rear >= f THEN R.rear - f ELSE R.rear - f + CNSQSIZE)
    BY <1>4, Size
  <2> QED
    BY <1>1, <1>3, <1>5, <2>1, <2>2 DEF Slot
<1>7. ~isFullQueue(T)
  BY <1>1, <1>4, <1>5, <1>6, FullEmpty
<1>8. WindowOf(R) \in Seq(E) /\ Len(WindowOf(R)) = sizeQueue(R)
  BY WindowSeq
<1>9. WindowOf(R) # <<>>
  BY <1>5, <1>8
<1>10. WindowOf(T) = Tail(WindowOf(R))
  <2>1. WindowOf(T) \in Seq(E) /\ Len(WindowOf(T)) = sizeQueue(R) - 1
    BY <1>4, <1>6, WindowSeq
  <2>2. ASSUME NEW i \in 1..(sizeQueue(R) - 1) PROVE WindowOf(T)[i] = WindowOf(R)[i + 1]
    <3>1. i \in 1..(CNSQSIZE - 1) /\ i + 1 \in 1..(CNSQSIZE - 1)
          /\ i \in 1..sizeQueue(T) /\ i + 1 \in 1..sizeQueue(R)
      BY <1>1, <1>5, <1>6
    <3>2. (R.front + (i + 1)) % CNSQSIZE
            = (IF R.front + (i + 1) < CNSQSIZE THEN R.front + (i + 1)
                                               ELSE R.front + (i + 1) - CNSQSIZE)
      BY <1>1, <3>1, SlotOf
    <3>3. (f + i) % CNSQSIZE = (IF f + i < CNSQSIZE THEN f + i ELSE f + i - CNSQSIZE)
      BY <1>3, <3>1, SlotOf
    <3>4. (f + i) % CNSQSIZE = (R.front + (i + 1)) % CNSQSIZE
      BY <1>1, <1>3, <3>1, <3>2, <3>3 DEF Slot
    <3> QED
      BY <1>4, <3>1, <3>4 DEF WindowOf
  <2> QED
    BY <1>5, <1>8, <1>9, <2>1, <2>2
<1> QED
  BY <1>2, <1>4, <1>5, <1>7, <1>9, <1>10

\* What N-th oldest and N-th newest mean.
LEMMA Peek ==
  ASSUME NEW E, NEW R \in QueuesOf(E), NEW n \in 1..sizeQueue(R)
  PROVE  /\ nextNElem(R, n) = (R.front + n) % CNSQSIZE
         /\ pastNElem(R, n) = nextNElem(R, sizeQueue(R) + 1 - n)
<1>1. CNSQSIZE \in Nat /\ CNSQSIZE > 1 /\ R.front \in Slot /\ R.rear \in Slot
  BY CNSQAssumption DEF QueuesOf
<1>2. sizeQueue(R) \in 0..(CNSQSIZE - 1) /\ n \in 1..(CNSQSIZE - 1)
      /\ sizeQueue(R) + 1 - n \in 1..(CNSQSIZE - 1)
      /\ sizeQueue(R) + 1 - n \in 1..sizeQueue(R)
  BY <1>1, Size
<1> DEFINE m == sizeQueue(R) + 1 - n
<1>3. nextNElem(R, n) = (R.front + n) % CNSQSIZE
      /\ nextNElem(R, m) = (R.front + m) % CNSQSIZE
  BY <1>2 DEF nextNElem
<1>4. (R.front + m) % CNSQSIZE
        = (IF R.front + m < CNSQSIZE THEN R.front + m ELSE R.front + m - CNSQSIZE)
  BY <1>1, <1>2, SlotOf
<1> DEFINE x == R.rear + CNSQSIZE - n + 1
<1>5. pastNElem(R, n) = x % CNSQSIZE
  BY <1>2 DEF pastNElem
<1>6. x \in 0..(2 * CNSQSIZE - 1) /\ x = R.rear + CNSQSIZE - n + 1
  BY <1>1, <1>2 DEF Slot
<1> HIDE DEF x
<1>7. x % CNSQSIZE = (IF x < CNSQSIZE THEN x ELSE x - CNSQSIZE)
  BY <1>6, Turn
<1>8. sizeQueue(R) = (IF R.rear >= R.front THEN R.rear - R.front
                                           ELSE R.rear - R.front + CNSQSIZE)
  BY Size
<1>9. x % CNSQSIZE = (R.front + m) % CNSQSIZE
  BY <1>1, <1>2, <1>4, <1>6, <1>7, <1>8 DEF Slot
<1> QED
  BY <1>3, <1>5, <1>9

\* A cleared ring has no elements.
LEMMA Cleared ==
  ASSUME NEW E, NEW R \in QueuesOf(E)
  PROVE  clearQueue(R) \in QueuesOf(E) /\ WindowOf(clearQueue(R)) = <<>>
<1>1. 0 \in Slot
  BY CNSQAssumption DEF Slot
<1>2. clearQueue(R) \in QueuesOf(E) /\ clearQueue(R).front = 0 /\ clearQueue(R).rear = 0
  BY <1>1 DEF QueuesOf, clearQueue
<1>3. sizeQueue(clearQueue(R)) = 0
  BY <1>2, Size, CNSQAssumption
<1>4. WindowOf(clearQueue(R)) \in Seq(E) /\ Len(WindowOf(clearQueue(R))) = 0
  BY <1>2, <1>3, WindowSeq
<1> QED
  BY <1>2, <1>4

--------------------------------------------------------------------------------
(* The theorems.                                                              *)

\* The pointer that deQueue returned is the slot before the oldest element.
HeldIsFront == held # NULL => held = ring.front

Inv == RingTypeOK /\ HeldIsFront

LEMMA InitInv == RingInit => Inv /\ WindowOf(ring) = <<>>
<1> SUFFICES ASSUME RingInit PROVE Inv /\ WindowOf(ring) = <<>>
  OBVIOUS
<1>1. PICK data \in [Slot -> Elem], f \in Slot, r \in Slot :
        ring = clearQueue([front |-> f, rear |-> r, data |-> data])
  BY DEF RingInit
<1>2. [front |-> f, rear |-> r, data |-> data] \in QueuesOf(Elem)
  BY DEF QueuesOf
<1>3. ring \in QueuesOf(Elem) /\ WindowOf(ring) = <<>>
  BY <1>1, <1>2, Cleared
<1> QED
  BY <1>3 DEF RingInit, Inv, RingTypeOK, HeldIsFront
\* One step preserves the invariant, leaves the held slot alone and is a step of
\* TokenWindow.
LEMMA StepInv ==
  ASSUME Inv, [RingNext]_ringvars
  PROVE  /\ Inv'
         /\ held # NULL /\ held' = held => held = ring'.front /\ ring'.data[held] = ring.data[held]
         /\ [Promise!Next]_Window
<1> USE DEF HeldIsFront
<1>1. ring \in QueuesOf(Elem) /\ CNSQSIZE \in Nat /\ CNSQSIZE > 1 /\ ring.front \in Slot
      /\ held \in Slot \cup {NULL}
  BY CNSQAssumption DEF Inv, RingTypeOK, QueuesOf
<1>2. Window = WindowOf(ring) /\ Window' = WindowOf(ring')
  BY DEF Window, WindowOf
<1>3. Window \in Seq(Elem) /\ Len(Window) = sizeQueue(ring) /\ Len(Window) \in Nat
  BY <1>1, <1>2, WindowSeq
<1>4. isFullQueue(ring) <=> Len(Window) = CNSQSIZE - 1
  BY <1>1, <1>3, FullEmpty
<1>5. Len(Window) <= CNSQSIZE - 1
  BY <1>1, <1>3, Size
<1>6. CASE EnQueue
  <2>1. PICK e \in Elem : ring' = enQueue(ring, e) /\ held' = held
    BY <1>6 DEF EnQueue
  <2>2. CASE isFullQueue(ring)
    <3>1. ring' = ring
      BY <2>1, <2>2 DEF enQueue
    <3> QED
      BY <2>1, <3>1, <1>1, <1>2 DEF Inv, RingTypeOK
  <2>3. CASE ~isFullQueue(ring)
    <3>1. /\ ring' \in QueuesOf(Elem)
          /\ Window' = Append(Window, e)
          /\ ring'.front = ring.front
          /\ ring'.data[ring.front] = ring.data[ring.front]
      BY <2>1, <2>3, <1>1, <1>2, EnQueued
    <3>2. Len(Window) < CNSQSIZE - 1
      BY <2>3, <1>1, <1>3, <1>4, <1>5
    <3>3. Promise!Put
      BY <3>1, <3>2 DEF Promise!Put
    <3> QED
      BY <2>1, <3>1, <3>3, <1>1 DEF Inv, RingTypeOK, Promise!Next
  <2> QED
    BY <2>2, <2>3
<1>7. CASE EnQueueWithDrop
  <2>1. PICK e \in Elem : /\ ring' = enQueueWithDrop(ring, e)
                          /\ held' = IF isFullQueue(ring) THEN NULL ELSE held
    BY <1>7 DEF EnQueueWithDrop
  <2>2. CASE isFullQueue(ring)
    <3>1. ring' = enQueue(deQueue(ring), e) /\ held' = NULL
      BY <2>1, <2>2 DEF enQueueWithDrop
    <3>2. ~isEmptyQueue(ring)
      BY <2>2, <1>1, FullEmpty
    <3>3. /\ deQueue(ring) \in QueuesOf(Elem)
          /\ WindowOf(deQueue(ring)) = Tail(Window)
          /\ ~isFullQueue(deQueue(ring))
      BY <3>2, <1>1, <1>2, DeQueued
    <3>4. ring' \in QueuesOf(Elem) /\ Window' = Append(Tail(Window), e)
      BY <3>1, <3>3, <1>2, EnQueued
    <3>5. Promise!PutDropping
      BY <3>4, <2>2, <1>4 DEF Promise!PutDropping
    <3> QED
      BY <3>1, <3>4, <3>5 DEF Inv, RingTypeOK, Promise!Next
  <2>3. CASE ~isFullQueue(ring)
    <3>1. ring' = enQueue(ring, e) /\ held' = held
      BY <2>1, <2>3 DEF enQueueWithDrop
    <3>2. /\ ring' \in QueuesOf(Elem)
          /\ Window' = Append(Window, e)
          /\ ring'.front = ring.front
          /\ ring'.data[ring.front] = ring.data[ring.front]
      BY <3>1, <2>3, <1>1, <1>2, EnQueued
    <3>3. Promise!PutDropping
      BY <3>2, <2>3, <1>4 DEF Promise!PutDropping
    <3> QED
      BY <3>1, <3>2, <3>3, <1>1 DEF Inv, RingTypeOK, Promise!Next
  <2> QED
    BY <2>2, <2>3
<1>8. CASE DeQueue
  <2>1. ring' = deQueue(ring) /\ held' = deQueued(ring)
    BY <1>8 DEF DeQueue
  <2>2. CASE isEmptyQueue(ring)
    <3>1. ring' = ring /\ held' = NULL
      BY <2>1, <2>2 DEF deQueue, deQueued
    <3> QED
      BY <3>1, <1>1, <1>2 DEF Inv, RingTypeOK
  <2>3. CASE ~isEmptyQueue(ring)
    <3>1. /\ ring' \in QueuesOf(Elem)
          /\ Window # <<>>
          /\ Window' = Tail(Window)
          /\ held' = ring'.front
      BY <2>1, <2>3, <1>1, <1>2, DeQueued
    <3>2. Promise!Take
      BY <3>1 DEF Promise!Take
    <3>3. held' \in Slot
      BY <3>1 DEF QueuesOf
    <3>4. ring'.data[ring'.front] = ring.data[ring'.front]
      BY <2>1, <2>3, <1>1 DEF deQueue, QueuesOf
    <3> QED
      BY <3>1, <3>2, <3>3, <3>4 DEF Inv, RingTypeOK, Promise!Next
  <2> QED
    BY <2>2, <2>3
<1>9. CASE Clear
  <2>1. ring' \in QueuesOf(Elem) /\ Window' = <<>> /\ held' = NULL
    BY <1>9, <1>1, <1>2, Cleared DEF Clear
  <2> QED
    BY <2>1 DEF Inv, RingTypeOK, Promise!Next, Promise!Clear
<1>10. CASE UNCHANGED ringvars
  <2>1. ring' = ring /\ held' = held
    BY <1>10 DEF ringvars
  <2> QED
    BY <2>1, <1>1, <1>2 DEF Inv, RingTypeOK
<1> QED
  BY <1>6, <1>7, <1>8, <1>9, <1>10 DEF RingNext

\* Every reachable ring is well formed: its indices stay in the array for every
\* sequence of the calls of queue.c, and the pointer that deQueue returned last
\* is the slot before the oldest element.
THEOREM RingInv == RingSpec => []Inv
<1>1. RingInit => Inv
  BY InitInv
<1>2. Inv /\ [RingNext]_ringvars => Inv'
  BY StepInv
<1> QED
  BY <1>1, <1>2, PTL DEF RingSpec

\* The types, as the runs check them.
THEOREM RingTypeCorrect == RingSpec => []RingTypeOK
<1>1. Inv => RingTypeOK
  BY DEF Inv
<1> QED
  BY <1>1, RingInv, PTL

\* queue.c is a first-in first-out window of CNSQSIZE - 1 snapshots: initially
\* empty, and every call is a step of TokenWindow.
THEOREM RingIsWindow == RingSpec => IsWindow
<1>1. RingInit => Promise!Init
  <2>1. Window = WindowOf(ring)
    BY DEF Window, WindowOf
  <2> QED
    BY <2>1, InitInv DEF Promise!Init
<1>2. Inv /\ [RingNext]_ringvars => [Promise!Next]_Window
  BY StepInv
<1> QED
  BY <1>1, <1>2, RingInv, PTL DEF RingSpec, IsWindow, Promise!Spec

\* The slot that deQueue returned keeps its place and its content until the next
\* removal.
THEOREM HeldSlotIntact == RingSpec => HeldIntact
<1>1. Inv /\ [RingNext]_ringvars =>
        [held # NULL /\ held' = held
           => held = ring'.front /\ ring'.data[held] = ring.data[held]]_ringvars
  BY StepInv
<1> QED
  BY <1>1, RingInv, PTL DEF RingSpec, HeldIntact

\* nextNElem and pastNElem see the same window from its two ends, and NULL
\* outside it.
THEOREM RingPeeksAgree == RingSpec => []PeeksAgree
<1>1. Inv => PeeksAgree
  <2> SUFFICES ASSUME Inv, NEW n \in 0..CNSQSIZE
               PROVE  IF n \in 1..sizeQueue(ring)
                      THEN /\ pastNElem(ring, n) = nextNElem(ring, sizeQueue(ring) + 1 - n)
                           /\ ring.data[nextNElem(ring, n)] = Window[n]
                      ELSE pastNElem(ring, n) = NULL /\ nextNElem(ring, n) = NULL
    BY DEF PeeksAgree
  <2>1. ring \in QueuesOf(Elem)
    BY DEF Inv, RingTypeOK
  <2>2. CASE n \in 1..sizeQueue(ring)
    BY <2>1, <2>2, Peek DEF Window
  <2>3. CASE n \notin 1..sizeQueue(ring)
    <3>1. sizeQueue(ring) \in Nat /\ n \in Nat
      BY <2>1, Size, CNSQAssumption
    <3>2. n > sizeQueue(ring) \/ n < 1
      BY <2>3, <3>1
    <3> QED
      BY <2>3, <3>2 DEF pastNElem, nextNElem
  <2> QED
    BY <2>2, <2>3
<1> QED
  BY <1>1, RingInv, PTL

--------------------------------------------------------------------------------
(* The text.                                                                  *)

\* The words of a text, with ends that increase.
LEMMA TextType ==
  ASSUME doc \in Texts
  PROVE  /\ Len(doc) \in Nat /\ Len(doc) <= MaxWords /\ MaxWords \in Nat
         /\ \A i \in 1..Len(doc) : doc[i] \in Word /\ doc[i].end \in Nat /\ doc[i].end > 0
         /\ \A i, j \in 1..Len(doc) : i < j => doc[i].end < doc[j].end
<1>1. doc \in Seq(Word)
  BY PredictAssumption
<1>2. Len(doc) \in Nat /\ \A i \in 1..Len(doc) : doc[i] \in Word
  BY <1>1
<1>3. \A i \in 1..Len(doc) : doc[i].end \in Nat /\ doc[i].end > 0
  BY <1>2 DEF Word
<1> QED
  BY <1>2, <1>3, PredictAssumption

\* Words start one behind the other, each where the one before ends.
LEMMA Starts ==
  ASSUME doc \in Texts
  PROVE  /\ StartOf(doc, 1) = 0
         /\ \A i \in 1..(Len(doc) + 1) : StartOf(doc, i) \in Nat
         /\ \A i, j \in 1..(Len(doc) + 1) : i < j => StartOf(doc, i) < StartOf(doc, j)
         /\ \A i \in 1..Len(doc) :
              /\ LengthOf(doc, i) \in Nat /\ LengthOf(doc, i) > 0
              /\ StartOf(doc, i) + LengthOf(doc, i) = StartOf(doc, i + 1)
<1>1. Len(doc) \in Nat
  BY TextType
<1>2. \A i \in 1..Len(doc) : doc[i].end \in Nat /\ doc[i].end > 0
  BY TextType
<1>3. \A i, j \in 1..Len(doc) : i < j => doc[i].end < doc[j].end
  BY TextType
<1>4. \A i \in 2..(Len(doc) + 1) : i - 1 \in 1..Len(doc) /\ StartOf(doc, i) = doc[i - 1].end
  BY <1>1 DEF StartOf
<1>5. StartOf(doc, 1) = 0
  BY DEF StartOf
<1>6. \A i \in 1..(Len(doc) + 1) : i = 1 \/ i \in 2..(Len(doc) + 1)
  BY <1>1
<1>7. \A i \in 1..(Len(doc) + 1) : StartOf(doc, i) \in Nat
  BY <1>2, <1>4, <1>5, <1>6
<1>8. ASSUME NEW i \in 1..(Len(doc) + 1), NEW j \in 1..(Len(doc) + 1), i < j
      PROVE  StartOf(doc, i) < StartOf(doc, j)
  <2>1. j \in 2..(Len(doc) + 1)
    BY <1>1, <1>8
  <2>2. CASE i = 1
    BY <2>1, <2>2, <1>2, <1>4, <1>5
  <2>3. CASE i # 1
    <3>1. i \in 2..(Len(doc) + 1) /\ i - 1 < j - 1
      BY <2>3, <1>1, <1>8
    <3> QED
      BY <2>1, <3>1, <1>3, <1>4
  <2> QED
    BY <2>2, <2>3
<1>9. ASSUME NEW i \in 1..Len(doc)
      PROVE  /\ LengthOf(doc, i) \in Nat /\ LengthOf(doc, i) > 0
             /\ StartOf(doc, i) + LengthOf(doc, i) = StartOf(doc, i + 1)
  <2>1. i \in 1..(Len(doc) + 1) /\ i + 1 \in 2..(Len(doc) + 1) /\ i + 1 \in 1..(Len(doc) + 1)
        /\ i < i + 1 /\ (i + 1) - 1 = i
    BY <1>1
  <2>2. StartOf(doc, i + 1) = doc[i].end
    BY <2>1, <1>4
  <2>3. StartOf(doc, i) < StartOf(doc, i + 1)
    BY <2>1, <1>8
  <2>4. StartOf(doc, i) \in Nat /\ StartOf(doc, i + 1) \in Nat
    BY <2>1, <1>7
  <2>5. LengthOf(doc, i) = StartOf(doc, i + 1) - StartOf(doc, i)
    BY <2>2 DEF LengthOf
  <2> QED
    BY <2>3, <2>4, <2>5
<1> QED
  BY <1>5, <1>7, <1>8, <1>9

\* Where a word starts, splitting finds this word and no other.
LEMMA Splits ==
  ASSUME doc \in Texts, NEW i \in 1..(Len(doc) + 1)
  PROVE  WordAt(StartOf(doc, i)) = IF i <= Len(doc) THEN {i} ELSE {}
<1>1. Len(doc) \in Nat
  BY TextType
<1>2. \A j \in 1..Len(doc) : j \in 1..(Len(doc) + 1) /\ StartOf(doc, j) \in Nat
  BY <1>1, Starts
<1>3. StartOf(doc, i) \in Nat
  BY Starts
<1>4. \A j \in 1..Len(doc) : StartOf(doc, j) = StartOf(doc, i) => j = i
  <2> TAKE j \in 1..Len(doc)
  <2>1. j \in 1..(Len(doc) + 1) /\ StartOf(doc, j) \in Nat
    BY <1>2
  <2>2. j < i => StartOf(doc, j) < StartOf(doc, i)
    BY <2>1, Starts
  <2>3. i < j => StartOf(doc, i) < StartOf(doc, j)
    BY <2>1, Starts
  <2> QED
    BY <2>1, <2>2, <2>3, <1>1, <1>3
<1>5. \A j : j \in WordAt(StartOf(doc, i)) <=> j \in 1..Len(doc) /\ j = i
  BY <1>4 DEF WordAt
<1>6. CASE i <= Len(doc)
  <2>1. i \in 1..Len(doc)
    BY <1>1, <1>6
  <2> QED
    BY <1>5, <1>6, <2>1
<1>7. CASE ~(i <= Len(doc))
  <2>1. i \notin 1..Len(doc)
    BY <1>1, <1>7
  <2> QED
    BY <1>5, <1>7, <2>1
<1> QED
  BY <1>6, <1>7

\* The snapshot of a word of the text.
LEMMA SnapshotType ==
  ASSUME doc \in Texts, NEW i \in 1..Len(doc)
  PROVE  SnapshotOf(doc, i) \in Snapshot /\ SnapshotOf(doc, i).id = i
         /\ SnapshotOf(doc, i).offset = LengthOf(doc, i)
<1>1. Len(doc) \in Nat /\ Len(doc) <= MaxWords /\ MaxWords \in Nat
  BY TextType
<1>2. doc[i].kind \in {"plain", "ph", "in", "paren"}
  <2>1. doc[i] \in Word
    BY TextType
  <2> QED
    BY <2>1 DEF Word
<1>3. LengthOf(doc, i) \in Nat /\ i \in 0..MaxWords
  BY <1>1, Starts
<1> QED
  BY <1>2, <1>3 DEF SnapshotOf, Snapshot

\* Append, for a sequence of any kind of elements.
IsSequence(s) == Len(s) \in Nat /\ s = [k \in 1..Len(s) |-> s[k]]

LEMMA SequenceForm ==
  ASSUME NEW S, NEW s \in Seq(S)
  PROVE  IsSequence(s)
BY DEF IsSequence

LEMMA Appended ==
  ASSUME NEW s, IsSequence(s), NEW e
  PROVE  /\ IsSequence(Append(s, e))
         /\ Len(Append(s, e)) = Len(s) + 1
         /\ \A k \in 1..Len(s) : Append(s, e)[k] = s[k]
         /\ Append(s, e)[Len(s) + 1] = e
<1> DEFINE S == {s[k] : k \in 1..Len(s)} \cup {e}
<1>1. s \in Seq(S) /\ e \in S /\ Len(s) \in Nat
  BY DEF IsSequence
<1> HIDE DEF S
<1>2. Append(s, e) \in Seq(S) /\ Len(Append(s, e)) = Len(s) + 1
  BY <1>1
<1>3. \A k \in 1..Len(s) : Append(s, e)[k] = s[k]
  BY <1>1
<1>4. Append(s, e)[Len(s) + 1] = e
  BY <1>1
<1>5. IsSequence(Append(s, e))
  BY <1>2, SequenceForm
<1> QED
  BY <1>2, <1>3, <1>4, <1>5

--------------------------------------------------------------------------------
(* The rings.                                                                 *)

\* What the two ways to look into a ring find there.
LEMMA Looked ==
  ASSUME NEW R \in QueuesOf(Snapshot), NEW n \in 1..sizeQueue(R)
  PROVE  /\ nextNElem(R, n) \in Slot /\ pastNElem(R, n) \in Slot
         /\ At(R, nextNElem(R, n)) = WindowOf(R)[n].id
         /\ At(R, pastNElem(R, n)) = WindowOf(R)[sizeQueue(R) + 1 - n].id
<1>1. CNSQSIZE \in Nat /\ CNSQSIZE > 1 /\ R.front \in Slot
  BY CNSQAssumption DEF QueuesOf
<1>2. sizeQueue(R) \in 0..(CNSQSIZE - 1)
  BY Size
<1> DEFINE m == sizeQueue(R) + 1 - n
<1>3. m \in 1..sizeQueue(R) /\ n \in 1..(CNSQSIZE - 1) /\ m \in 1..(CNSQSIZE - 1)
  BY <1>1, <1>2
<1>4. nextNElem(R, n) = (R.front + n) % CNSQSIZE /\ nextNElem(R, m) = (R.front + m) % CNSQSIZE
      /\ pastNElem(R, n) = nextNElem(R, m)
  BY <1>3, Peek
<1>5. (R.front + n) % CNSQSIZE \in Slot /\ (R.front + m) % CNSQSIZE \in Slot
  BY <1>1, <1>3, SlotOf
<1>6. NULL \notin Slot
  BY CNSQAssumption DEF Slot
<1>7. WindowOf(R)[n] = R.data[(R.front + n) % CNSQSIZE]
      /\ WindowOf(R)[m] = R.data[(R.front + m) % CNSQSIZE]
  BY <1>3 DEF WindowOf
<1> QED
  BY <1>4, <1>5, <1>6, <1>7 DEF At

\* Outside of a ring's elements there is nothing to look at.
LEMMA LookedOutside ==
  ASSUME NEW R \in QueuesOf(Snapshot), sizeQueue(R) = 0
  PROVE  At(R, nextNElem(R, 1)) = 0 /\ At(R, pastNElem(R, 1)) = 0
<1>1. 1 > sizeQueue(R)
  BY Size
<1> QED
  BY <1>1 DEF At, nextNElem, pastNElem

\* Putting a snapshot behind those gone by: the oldest makes room in a full ring.
LEMMA Remembered ==
  ASSUME NEW R \in QueuesOf(Snapshot), NEW e \in Snapshot
  PROVE  LET T == enQueueWithDrop(R, e)
             n == sizeQueue(R)
         IN  /\ T \in QueuesOf(Snapshot)
             /\ n < CNSQSIZE - 1 => /\ sizeQueue(T) = n + 1
                                    /\ \A i \in 1..n : WindowOf(T)[i] = WindowOf(R)[i]
                                    /\ WindowOf(T)[n + 1] = e
             /\ n = CNSQSIZE - 1 => /\ sizeQueue(T) = n
                                    /\ \A i \in 1..(n - 1) : WindowOf(T)[i] = WindowOf(R)[i + 1]
                                    /\ WindowOf(T)[n] = e
<1> DEFINE T == enQueueWithDrop(R, e)
           n == sizeQueue(R)
<1>1. CNSQSIZE \in Nat /\ CNSQSIZE > 1
  BY CNSQAssumption
<1>2. n \in 0..(CNSQSIZE - 1) /\ (isFullQueue(R) <=> n = CNSQSIZE - 1)
      /\ (isEmptyQueue(R) <=> n = 0)
  BY Size, FullEmpty
<1>3. WindowOf(R) \in Seq(Snapshot) /\ Len(WindowOf(R)) = n
  BY WindowSeq
<1>4. CASE n < CNSQSIZE - 1
  <2>1. ~isFullQueue(R) /\ T = enQueue(R, e)
    BY <1>1, <1>2, <1>4 DEF enQueueWithDrop
  <2>2. T \in QueuesOf(Snapshot) /\ WindowOf(T) = Append(WindowOf(R), e)
    BY <2>1, EnQueued
  <2>3. Len(WindowOf(T)) = sizeQueue(T)
    BY <2>2, WindowSeq
  <2> HIDE DEF T, n
  <2>4. Len(WindowOf(T)) = n + 1
    BY <1>3, <2>2
  <2>5. \A i \in 1..n : WindowOf(T)[i] = WindowOf(R)[i]
    BY <1>3, <2>2
  <2>6. WindowOf(T)[n + 1] = e
    BY <1>3, <2>2
  <2>7. n # CNSQSIZE - 1
    BY <1>1, <1>2, <1>4
  <2> QED
    BY <2>2, <2>3, <2>4, <2>5, <2>6, <2>7 DEF T, n
<1>5. CASE n = CNSQSIZE - 1
  <2> DEFINE U == deQueue(R)
  <2>1. isFullQueue(R) /\ ~isEmptyQueue(R) /\ T = enQueue(U, e)
    BY <1>1, <1>2, <1>5 DEF enQueueWithDrop
  <2>2. /\ U \in QueuesOf(Snapshot) /\ WindowOf(U) = Tail(WindowOf(R)) /\ ~isFullQueue(U)
        /\ WindowOf(R) # <<>>
    BY <2>1, DeQueued
  <2> HIDE DEF U
  <2>3. T \in QueuesOf(Snapshot) /\ WindowOf(T) = Append(WindowOf(U), e)
    BY <2>1, <2>2, EnQueued
  <2>4. Len(WindowOf(T)) = sizeQueue(T)
    BY <2>3, WindowSeq
  <2> HIDE DEF T, n
  <2>5. WindowOf(U) \in Seq(Snapshot)
    BY <2>2, WindowSeq
  <2>6. n \in Nat /\ n > 0 /\ Len(WindowOf(R)) = n
    BY <1>1, <1>3, <1>5
  <2>7. Len(WindowOf(U)) = n - 1 /\ \A i \in 1..(n - 1) : WindowOf(U)[i] = WindowOf(R)[i + 1]
    BY <1>3, <2>2, <2>6
  <2>8. Len(WindowOf(T)) = n
    BY <2>3, <2>5, <2>6, <2>7
  <2>9. \A i \in 1..(n - 1) : WindowOf(T)[i] = WindowOf(R)[i + 1]
    <3>1. \A i \in 1..(n - 1) : WindowOf(T)[i] = WindowOf(U)[i]
      BY <2>3, <2>5, <2>7
    <3> QED
      BY <3>1, <2>7
  <2>10. WindowOf(T)[n] = e
    <3>1. WindowOf(T)[Len(WindowOf(U)) + 1] = e
      BY <2>3, <2>5
    <3> QED
      BY <3>1, <2>6, <2>7
  <2>11. ~(n < CNSQSIZE - 1)
    BY <1>1, <1>5
  <2> QED
    BY <2>3, <2>4, <2>8, <2>9, <2>10, <2>11 DEF T, n
<1> QED
  BY <1>1, <1>2, <1>4, <1>5

--------------------------------------------------------------------------------
(* The inductive invariant.                                                   *)

Kinds ==
  /\ doc \in Texts
  /\ pc \in {"create", "fill", "take", "features", "store", "refill", "parse", "end"}
  /\ preQ \in QueuesOf(Snapshot) /\ nextQ \in QueuesOf(Snapshot)
  /\ pCNS \in Slot \cup {NULL}
  /\ IsSequence(spans) /\ IsSequence(rows)
  /\ quotTime \in -QUOTTIME..QUOTTIME /\ isbnEffect \in BOOLEAN
  /\ outcome \in {"running", "parsed", "null", "crash"}

\* The words to come are those behind the ones taken, as far as the text is split, and
\* the spans are those of the words taken.
Progress ==
  /\ Len(spans) + sizeQueue(nextQ) <= Len(doc)
  /\ currentOffset = StartOf(doc, Len(spans) + sizeQueue(nextQ) + 1)
  /\ lastOffset = StartOf(doc, Len(spans) + 1)
  /\ \A i \in 1..sizeQueue(nextQ) : WindowOf(nextQ)[i] = SnapshotOf(doc, Len(spans) + i)
  /\ \A k \in 1..Len(spans) :
       spans[k] = [startOffset |-> StartOf(doc, k), endOffset |-> StartOf(doc, k + 1)]

\* The words gone by: the last of the first n ones.
GoneBy(t, R, n) ==
  /\ sizeQueue(R) = MinOf(n, CNSQSIZE - 1)
  /\ \A i \in 1..sizeQueue(R) : WindowOf(R)[i] = SnapshotOf(t, n - sizeQueue(R) + i)

\* As many words are to come as the text still has, or the ring holds.
Supplied(n) == sizeQueue(nextQ) = MinOf(Len(doc) - Len(spans), n)

AtWord == Len(spans) > 0 /\ pCNS = nextQ.front /\ nextQ.data[pCNS] = SnapshotOf(doc, Len(spans))

\* What holds at each place of the loop.
Places ==
  /\ pc \in {"create", "fill"} =>
       Len(spans) = 0 /\ Len(rows) = 0 /\ GoneBy(doc, preQ, 0)
  /\ pc = "create" => sizeQueue(nextQ) = 0
  /\ pc = "take" =>
       Len(rows) = Len(spans) /\ Supplied(CNSQSIZE - 1) /\ GoneBy(doc, preQ, Len(spans))
  /\ pc = "features" =>
       /\ Len(rows) = Len(spans) - 1 /\ Supplied(CNSQSIZE - 2)
       /\ AtWord /\ GoneBy(doc, preQ, Len(spans) - 1)
  /\ pc = "store" =>
       /\ Len(rows) = Len(spans) /\ Supplied(CNSQSIZE - 2)
       /\ AtWord /\ GoneBy(doc, preQ, Len(spans) - 1)
  /\ pc = "refill" =>
       Len(rows) = Len(spans) /\ Supplied(CNSQSIZE - 2) /\ GoneBy(doc, preQ, Len(spans))
  /\ pc = "parse" => Len(rows) = Len(spans) /\ Len(spans) = Len(doc)

\* The row of the k-th word of a text.
RowOf(t, r, k) ==
  /\ r.word = k
  /\ r.last = k - 1
  /\ r.next = IF k < Len(t) THEN k + 1 ELSE 0
  /\ r.ahead = [i \in 1..(MinOf(Len(t) - k, CNSQSIZE - 2) - 1) |-> k + i]
  /\ r.behind = [i \in 1..MinOf(k - 1, CNSQSIZE - 1) |-> k - i + 1]

Told == \A k \in 1..Len(rows) : RowOf(doc, rows[k], k)

IInv == Kinds /\ Progress /\ Places /\ Told

\* The invariant gives the properties the run checks.
LEMMA Gives == IInv => RowsAreTheWords /\ Neighbourhood
<1> SUFFICES ASSUME IInv PROVE RowsAreTheWords /\ Neighbourhood
  OBVIOUS
<1>1. Len(doc) \in Nat /\ MaxWords \in Nat /\ rest \in Nat /\ CNSQSIZE \in Nat
  BY TextType, PredictAssumption, CNSQAssumption DEF IInv, Kinds
<1>2. Len(spans) \in Nat /\ Len(rows) \in Nat /\ sizeQueue(nextQ) \in Nat
  BY <1>1, Size DEF IInv, Kinds, IsSequence
<1>3. DOMAIN rows = 1..Len(rows) /\ DOMAIN spans = 1..Len(spans)
  BY DEF IInv, Kinds, IsSequence
<1>4. TypeOK
  <2>1. currentOffset \in 0..refAreaEnd /\ lastOffset \in 0..currentOffset
    <3> DEFINE a == Len(spans) + 1
               b == Len(spans) + sizeQueue(nextQ) + 1
               c == Len(doc) + 1
    <3>1. a \in 1..c /\ b \in 1..c /\ c \in 1..c /\ a <= b /\ b <= c
      BY <1>1, <1>2 DEF IInv, Progress
    <3>2. lastOffset = StartOf(doc, a) /\ currentOffset = StartOf(doc, b)
          /\ refAreaEnd = StartOf(doc, c) + rest
      BY DEF IInv, Progress, refAreaEnd
    <3> HIDE DEF a, b, c
    <3>3. doc \in Texts /\ c = Len(doc) + 1
      BY DEF IInv, Kinds, c
    <3>4. StartOf(doc, a) \in Nat /\ StartOf(doc, b) \in Nat /\ StartOf(doc, c) \in Nat
      BY <3>1, <3>3, Starts
    <3>5. a < b => StartOf(doc, a) < StartOf(doc, b)
      BY <3>1, <3>3, Starts
    <3>6. b < c => StartOf(doc, b) < StartOf(doc, c)
      BY <3>1, <3>3, Starts
    <3>7. a \in Int /\ b \in Int /\ c \in Int
      BY <3>1, <3>3, <1>1
    <3>8. StartOf(doc, a) <= StartOf(doc, b)
      BY <3>1, <3>4, <3>5, <3>7
    <3>9. StartOf(doc, b) <= StartOf(doc, c)
      BY <3>1, <3>4, <3>6, <3>7
    <3> QED
      BY <3>2, <3>4, <3>8, <3>9, <1>1
  <2>2. \A Q \in {preQ, nextQ} :
          /\ Q.front \in Slot /\ Q.rear \in Slot
          /\ \A s \in Slot : Q.data[s] \in Snapshot
    BY DEF IInv, Kinds, QueuesOf
  <2>3. pc \in {"features", "store"} => pCNS # NULL
    <3>1. NULL \notin Slot
      BY CNSQAssumption DEF Slot
    <3> QED
      BY <2>2, <3>1 DEF IInv, Places, AtWord
  <2> QED
    BY <2>1, <2>2, <2>3 DEF TypeOK, IInv, Kinds
<1>5. EveryWordOnce
  BY <1>3 DEF EveryWordOnce, IInv, Told, RowOf, Places
<1>6. SpansTile
  BY <1>3 DEF SpansTile, IInv, Progress, Places
<1>7. Neighbourhood
  BY <1>3 DEF Neighbourhood, IInv, Told, RowOf
<1> QED
  BY <1>4, <1>5, <1>6, <1>7 DEF RowsAreTheWords

LEMMA InitIInv == Init => IInv
<1> SUFFICES ASSUME Init PROVE IInv
  OBVIOUS
<1> DEFINE R == [front |-> 0, rear |-> 0, data |-> [s \in Slot |-> Unwritten]]
<1>1. Len(doc) \in Nat /\ MaxWords \in Nat /\ CNSQSIZE \in Nat /\ CNSQSIZE > 1
      /\ QUOTTIME \in Nat
  BY TextType, PredictAssumption, CNSQAssumption DEF Init
<1>2. R \in QueuesOf(Snapshot)
  BY <1>1 DEF QueuesOf, Slot, Snapshot, Unwritten
<1>3. EmptyRing = clearQueue(R)
  BY DEF EmptyRing
<1> HIDE DEF R
<1>4. EmptyRing \in QueuesOf(Snapshot) /\ WindowOf(EmptyRing) = <<>>
  BY <1>2, <1>3, Cleared
<1>5. sizeQueue(EmptyRing) = 0
  BY <1>4, WindowSeq
<1>6. Kinds
  <2>1. IsSequence(spans) /\ IsSequence(rows)
    BY DEF Init, IsSequence
  <2>2. 0 \in -QUOTTIME..QUOTTIME
    BY <1>1
  <2> QED
    BY <2>1, <2>2, <1>4 DEF Init, Kinds
<1>7. Len(spans) = 0 /\ Len(rows) = 0 /\ sizeQueue(nextQ) = 0 /\ sizeQueue(preQ) = 0
  BY <1>5 DEF Init
<1>8. Progress
  <2>1. StartOf(doc, 1) = 0 /\ Len(spans) + sizeQueue(nextQ) + 1 = 1 /\ Len(spans) + 1 = 1
    BY <1>7 DEF StartOf
  <2> QED
    BY <2>1, <1>1, <1>7 DEF Init, Progress
<1>9. GoneBy(doc, preQ, 0)
  BY <1>1, <1>7 DEF GoneBy, MinOf
<1> QED
  BY <1>6, <1>7, <1>8, <1>9 DEF IInv, Places, Told, Init

--------------------------------------------------------------------------------
(* The steps, one by one.                                                     *)

\* The numbers the invariant is about.
LEMMA Numbers ==
  ASSUME IInv
  PROVE  /\ Len(doc) \in Nat /\ CNSQSIZE \in Nat /\ CNSQSIZE > 2
         /\ Len(spans) \in Nat /\ Len(rows) \in Nat
         /\ sizeQueue(nextQ) \in 0..(CNSQSIZE - 1) /\ sizeQueue(preQ) \in 0..(CNSQSIZE - 1)
BY TextType, PredictAssumption, CNSQAssumption, Size DEF IInv, Kinds, IsSequence

\* A call of predftEnQueue that finds a word puts the next one into the ring.
LEMMA Supply ==
  ASSUME IInv, predftReturns, predftEnQueue
  PROVE  LET n == sizeQueue(nextQ)
         IN  /\ n < CNSQSIZE - 1 /\ Len(spans) + n < Len(doc)
             /\ nextQ' \in QueuesOf(Snapshot)
             /\ sizeQueue(nextQ') = n + 1
             /\ currentOffset' = StartOf(doc, Len(spans) + (n + 1) + 1)
             /\ \A j \in 1..(n + 1) : WindowOf(nextQ')[j] = SnapshotOf(doc, Len(spans) + j)
<1> DEFINE n == sizeQueue(nextQ)
           i == Len(spans) + n + 1
<1>1. /\ Len(doc) \in Nat /\ CNSQSIZE \in Nat /\ CNSQSIZE > 2
      /\ Len(spans) \in Nat /\ n \in 0..(CNSQSIZE - 1)
  BY Numbers
<1>2. doc \in Texts /\ nextQ \in QueuesOf(Snapshot)
  BY DEF IInv, Kinds
<1>3. i \in 1..(Len(doc) + 1) /\ currentOffset = StartOf(doc, i)
  BY <1>1 DEF IInv, Progress
<1>4. WordAt(currentOffset) = IF i <= Len(doc) THEN {i} ELSE {}
  BY <1>2, <1>3, Splits
<1>5. i <= Len(doc) /\ WordAt(currentOffset) = {i}
  BY <1>4 DEF predftReturns
<1>6. ~isFullQueue(nextQ)
  BY DEF predftReturns
<1>7. n < CNSQSIZE - 1
  BY <1>1, <1>2, <1>6, FullEmpty
<1>8. /\ currentOffset' = currentOffset + LengthOf(doc, i)
      /\ nextQ' = enQueue(nextQ, SnapshotOf(doc, i))
  BY <1>5 DEF predftEnQueue
<1>9. i \in 1..Len(doc)
  BY <1>3, <1>5, <1>1
<1>10. SnapshotOf(doc, i) \in Snapshot
  BY <1>2, <1>9, SnapshotType
<1>11. currentOffset' = StartOf(doc, i + 1)
  BY <1>2, <1>3, <1>8, <1>9, Starts
<1>12. i + 1 = Len(spans) + (n + 1) + 1 /\ Len(spans) + n < Len(doc)
  BY <1>1, <1>5
<1>13. /\ nextQ' \in QueuesOf(Snapshot)
       /\ WindowOf(nextQ') = Append(WindowOf(nextQ), SnapshotOf(doc, i))
  BY <1>2, <1>6, <1>8, <1>10, EnQueued
<1>14. WindowOf(nextQ) \in Seq(Snapshot) /\ Len(WindowOf(nextQ)) = n
  BY <1>2, WindowSeq
<1>15. Len(WindowOf(nextQ')) = sizeQueue(nextQ')
  BY <1>13, WindowSeq
<1>16. \A j \in 1..n : WindowOf(nextQ)[j] = SnapshotOf(doc, Len(spans) + j)
  BY DEF IInv, Progress
<1> HIDE DEF n, i
<1>17. sizeQueue(nextQ') = n + 1
  BY <1>10, <1>13, <1>14, <1>15
<1>18. \A j \in 1..n : WindowOf(nextQ')[j] = WindowOf(nextQ)[j]
  BY <1>10, <1>13, <1>14
<1>19. WindowOf(nextQ')[n + 1] = SnapshotOf(doc, i)
  BY <1>10, <1>13, <1>14
<1>20. i = Len(spans) + (n + 1)
  BY <1>1 DEF i
<1>21. \A j \in 1..(n + 1) : WindowOf(nextQ')[j] = SnapshotOf(doc, Len(spans) + j)
  <2> TAKE j \in 1..(n + 1)
  <2>1. j \in 1..n \/ j = n + 1
    BY <1>1
  <2> QED
    BY <2>1, <1>16, <1>18, <1>19, <1>20
<1> QED
  BY <1>7, <1>11, <1>12, <1>13, <1>17, <1>21 DEF n

\* A call that finds none leaves a full ring, or a text that is split to its end.
LEMMA NoSupply ==
  ASSUME IInv, ~predftReturns
  PROVE  sizeQueue(nextQ) = CNSQSIZE - 1 \/ Len(spans) + sizeQueue(nextQ) = Len(doc)
<1> DEFINE n == sizeQueue(nextQ)
           i == Len(spans) + n + 1
<1>1. /\ Len(doc) \in Nat /\ CNSQSIZE \in Nat /\ CNSQSIZE > 2
      /\ Len(spans) \in Nat /\ n \in 0..(CNSQSIZE - 1)
  BY Numbers
<1>2. doc \in Texts /\ nextQ \in QueuesOf(Snapshot)
  BY DEF IInv, Kinds
<1>3. i \in 1..(Len(doc) + 1) /\ currentOffset = StartOf(doc, i)
  BY <1>1 DEF IInv, Progress
<1>4. WordAt(currentOffset) = IF i <= Len(doc) THEN {i} ELSE {}
  BY <1>2, <1>3, Splits
<1>5. CASE isFullQueue(nextQ)
  BY <1>2, <1>5, FullEmpty
<1>6. CASE WordAt(currentOffset) = {}
  <2>1. ~(i <= Len(doc))
    BY <1>4, <1>6
  <2> QED
    BY <2>1, <1>1, <1>3
<1> QED
  BY <1>5, <1>6 DEF predftReturns

\* The smaller of two numbers.
LEMMA Smaller ==
  ASSUME NEW a \in Nat, NEW b \in Nat
  PROVE  MinOf(a, b) \in Nat /\ MinOf(a, b) = (IF a < b THEN a ELSE b)
BY DEF MinOf

LEMMA FillStep ==
  ASSUME IInv, Fill
  PROVE  IInv'
<1>1. /\ pc = "fill" /\ doc' = doc /\ preQ' = preQ /\ pCNS' = pCNS /\ spans' = spans
      /\ rows' = rows /\ lastOffset' = lastOffset /\ quotTime' = quotTime
      /\ isbnEffect' = isbnEffect /\ outcome' = outcome
  BY DEF Fill, input, result, flags
<1>2. /\ Len(doc) \in Nat /\ CNSQSIZE \in Nat /\ CNSQSIZE > 2 /\ Len(spans) = 0 /\ Len(rows) = 0
      /\ sizeQueue(nextQ) \in 0..(CNSQSIZE - 1) /\ GoneBy(doc, preQ, 0)
  BY <1>1, Numbers DEF IInv, Places
<1>3. Told'
  BY <1>1 DEF IInv, Told
<1>4. CASE predftReturns
  <2>1. predftEnQueue /\ pc' = "fill"
    BY <1>1, <1>4 DEF Fill
  <2>2. /\ Len(spans) + sizeQueue(nextQ) < Len(doc)
        /\ nextQ' \in QueuesOf(Snapshot)
        /\ sizeQueue(nextQ') = sizeQueue(nextQ) + 1
        /\ currentOffset' = StartOf(doc, Len(spans) + (sizeQueue(nextQ) + 1) + 1)
        /\ \A j \in 1..(sizeQueue(nextQ) + 1) :
             WindowOf(nextQ')[j] = SnapshotOf(doc, Len(spans) + j)
    BY <2>1, <1>4, Supply
  <2>3. Kinds'
    BY <2>1, <2>2, <1>1 DEF IInv, Kinds
  <2>4. Len(spans) + (sizeQueue(nextQ) + 1) <= Len(doc)
    BY <2>2, <1>2
  <2>5. Progress'
    BY <2>2, <2>4, <1>1 DEF IInv, Progress
  <2>6. Places'
    BY <2>1, <1>1, <1>2 DEF Places
  <2> QED
    BY <2>3, <2>5, <2>6, <1>3 DEF IInv
<1>5. CASE ~predftReturns
  <2>1. pc' = "take" /\ currentOffset' = currentOffset /\ nextQ' = nextQ
    BY <1>1, <1>5 DEF Fill
  <2>2. Kinds' /\ Progress'
    BY <2>1, <1>1 DEF IInv, Kinds, Progress
  <2>3. sizeQueue(nextQ) = MinOf(Len(doc) - Len(spans), CNSQSIZE - 1)
    <3>1. sizeQueue(nextQ) = CNSQSIZE - 1 \/ Len(spans) + sizeQueue(nextQ) = Len(doc)
      BY <1>5, NoSupply
    <3>2. Len(spans) + sizeQueue(nextQ) <= Len(doc)
      BY DEF IInv, Progress
    <3> QED
      BY <3>1, <3>2, <1>2 DEF MinOf
  <2>4. Places'
    BY <2>1, <2>3, <1>1, <1>2 DEF Places, Supplied
  <2> QED
    BY <2>2, <2>4, <1>3 DEF IInv
<1> QED
  BY <1>4, <1>5

LEMMA TakeStep ==
  ASSUME IInv, Take
  PROVE  IInv'
<1>1. /\ pc = "take" /\ doc' = doc /\ preQ' = preQ /\ rows' = rows
      /\ currentOffset' = currentOffset /\ quotTime' = quotTime
      /\ isbnEffect' = isbnEffect /\ outcome' = outcome
      /\ nextQ' = deQueue(nextQ) /\ pCNS' = deQueued(nextQ)
  BY DEF Take, input, flags
<1> DEFINE n == sizeQueue(nextQ)
           d == Len(spans)
<1>2. /\ Len(doc) \in Nat /\ CNSQSIZE \in Nat /\ CNSQSIZE > 2 /\ d \in Nat
      /\ Len(rows) = d /\ n \in 0..(CNSQSIZE - 1) /\ n = MinOf(Len(doc) - d, CNSQSIZE - 1)
      /\ GoneBy(doc, preQ, d) /\ d + n <= Len(doc)
  BY <1>1, Numbers DEF IInv, Places, Supplied, Progress
<1>3. doc \in Texts /\ nextQ \in QueuesOf(Snapshot) /\ IsSequence(spans)
  BY DEF IInv, Kinds
<1>4. Told'
  BY <1>1 DEF IInv, Told
<1>5. CASE isEmptyQueue(nextQ)
  <2>1. nextQ' = nextQ /\ pCNS' = NULL
    BY <1>1, <1>5 DEF deQueue, deQueued
  <2>2. pc' = "parse" /\ spans' = spans /\ lastOffset' = lastOffset
    BY <2>1 DEF Take
  <2>3. n = 0
    BY <1>3, <1>5, FullEmpty
  <2>4. d = Len(doc)
    BY <2>3, <1>2 DEF MinOf
  <2>5. Kinds' /\ Progress'
    BY <2>1, <2>2, <1>1 DEF IInv, Kinds, Progress
  <2>6. Places'
    BY <2>2, <2>4, <1>1, <1>2 DEF Places
  <2> QED
    BY <2>5, <2>6, <1>4 DEF IInv
<1>6. CASE ~isEmptyQueue(nextQ)
  <2>1. /\ nextQ' \in QueuesOf(Snapshot)
        /\ WindowOf(nextQ') = Tail(WindowOf(nextQ))
        /\ pCNS' = nextQ'.front
        /\ n > 0
    BY <1>1, <1>3, <1>6, DeQueued
  <2>2. pCNS' \in Slot /\ pCNS' # NULL
    BY <2>1, CNSQAssumption DEF QueuesOf, Slot
  <2>3. nextQ'.data = nextQ.data /\ pCNS' = (nextQ.front + 1) % CNSQSIZE
    BY <1>1, <1>3, <1>6 DEF deQueue, deQueued, QueuesOf
  <2>4. WindowOf(nextQ)[1] = nextQ'.data[pCNS']
    BY <2>1, <2>3, <1>2 DEF WindowOf
  <2>5. \A j \in 1..n : WindowOf(nextQ)[j] = SnapshotOf(doc, d + j)
    BY DEF IInv, Progress
  <2>6. nextQ'.data[pCNS'] = SnapshotOf(doc, d + 1)
    BY <2>1, <2>4, <2>5, <1>2
  <2>7. WindowOf(nextQ) \in Seq(Snapshot) /\ Len(WindowOf(nextQ)) = n
    BY <1>3, WindowSeq
  <2>8. Len(WindowOf(nextQ')) = sizeQueue(nextQ')
    BY <2>1, WindowSeq
  <2> HIDE DEF n, d
  <2>9. sizeQueue(nextQ') = n - 1
    BY <2>1, <2>7, <2>8, <1>2
  <2>10. \A j \in 1..(n - 1) : WindowOf(nextQ')[j] = SnapshotOf(doc, (d + 1) + j)
    <3> TAKE j \in 1..(n - 1)
    <3>1. WindowOf(nextQ')[j] = WindowOf(nextQ)[j + 1]
      BY <2>1, <2>7, <1>2
    <3>2. j + 1 \in 1..n /\ d + (j + 1) = (d + 1) + j
      BY <1>2
    <3> QED
      BY <3>1, <3>2, <2>5
  <2>11. d + 1 \in 1..Len(doc) /\ (d + 1) + (n - 1) = d + n
    BY <2>1, <1>2
  <2>12. nextQ'.data[pCNS'].offset = LengthOf(doc, d + 1) /\ LengthOf(doc, d + 1) > 0
         /\ LengthOf(doc, d + 1) \in Nat
         /\ StartOf(doc, d + 1) + LengthOf(doc, d + 1) = StartOf(doc, (d + 1) + 1)
    BY <2>6, <2>11, <1>3, SnapshotType, Starts
  <2>13. lastOffset = StartOf(doc, d + 1)
    BY DEF IInv, Progress, d
  <2>14. lastOffset' = lastOffset + LengthOf(doc, d + 1)
    BY <2>2, <2>12 DEF Take
  <2> DEFINE span == [startOffset |-> lastOffset, endOffset |-> lastOffset']
  <2>15. pc' = "features" /\ spans' = Append(spans, span)
    BY <2>2 DEF Take
  <2>16. lastOffset' = StartOf(doc, (d + 1) + 1)
    BY <2>12, <2>13, <2>14
  <2>17. span = [startOffset |-> StartOf(doc, d + 1), endOffset |-> StartOf(doc, (d + 1) + 1)]
    BY <2>13, <2>16
  <2> HIDE DEF span
  <2>18. IsSequence(spans') /\ Len(spans') = d + 1
         /\ (\A k \in 1..d : spans'[k] = spans[k]) /\ spans'[d + 1] = span
    BY <2>15, <1>3, Appended DEF d
  <2>19. Kinds'
    BY <2>1, <2>2, <2>15, <2>18, <1>1 DEF IInv, Kinds
  <2>20. Progress'
    <3>1. Len(spans') + sizeQueue(nextQ') <= Len(doc)
      BY <2>9, <2>11, <2>18, <1>2
    <3>2. currentOffset = StartOf(doc, d + n + 1)
      BY DEF IInv, Progress, d, n
    <3>3. currentOffset' = StartOf(doc, Len(spans') + sizeQueue(nextQ') + 1)
      BY <3>2, <2>9, <2>11, <2>18, <1>1
    <3>4. \A k \in 1..d :
            spans[k] = [startOffset |-> StartOf(doc, k), endOffset |-> StartOf(doc, k + 1)]
      BY DEF IInv, Progress, d
    <3>5. \A k \in 1..(d + 1) :
            spans'[k] = [startOffset |-> StartOf(doc, k), endOffset |-> StartOf(doc, k + 1)]
      <4> TAKE k \in 1..(d + 1)
      <4>1. k \in 1..d \/ k = d + 1
        BY <1>2
      <4> QED
        BY <4>1, <3>4, <2>17, <2>18
    <3> QED
      BY <3>1, <3>3, <3>5, <2>9, <2>10, <2>16, <2>18, <1>1 DEF Progress
  <2>21. Places'
    <3>1. n - 1 = MinOf(Len(doc) - (d + 1), CNSQSIZE - 2)
      BY <2>1, <1>2 DEF MinOf
    <3>2. Supplied(CNSQSIZE - 2)'
      BY <3>1, <2>9, <2>18, <1>1 DEF Supplied
    <3>3. AtWord'
      BY <2>1, <2>6, <2>18, <1>1, <1>2 DEF AtWord
    <3>4. (d + 1) - 1 = d
      BY <1>2
    <3>5. Len(rows') = Len(spans') - 1 /\ GoneBy(doc', preQ', Len(spans') - 1)
      BY <3>4, <2>18, <1>1, <1>2
    <3> QED
      BY <3>2, <3>3, <3>5, <2>15 DEF Places
  <2> QED
    BY <2>19, <2>20, <2>21, <1>4 DEF IInv
<1> QED
  BY <1>5, <1>6

\* The countdown of a quotation stays in its bounds.
LEMMA QuotTimeType ==
  ASSUME NEW w, NEW t \in -QUOTTIME..QUOTTIME
  PROVE  quotTimeAfter(w, t) \in -QUOTTIME..QUOTTIME
<1>1. QUOTTIME \in Nat
  BY PredictAssumption
<1>2. Ticked(t) \in 0..QUOTTIME
  BY <1>1 DEF Ticked, Larger
<1>3. quotTimeAfter(w, t) \in {QUOTTIME, -QUOTTIME, 0, Ticked(t)}
  BY DEF quotTimeAfter
<1> QED
  BY <1>1, <1>2, <1>3

\* The row that Features adds is computed from the neighbours of its word.
LEMMA RowIsTold ==
  ASSUME IInv, pc = "features",
         NEW r, r.word = At(nextQ, pCNS), r.last = At(preQ, lpCNS), r.next = At(nextQ, npCNS),
         r.ahead = Ahead, r.behind = Behind
  PROVE  RowOf(doc, r, Len(spans))
<1> DEFINE d == Len(spans)
           n == sizeQueue(nextQ)
           m == sizeQueue(preQ)
<1>1. /\ Len(doc) \in Nat /\ CNSQSIZE \in Nat /\ CNSQSIZE > 2 /\ d \in Nat /\ d > 0
      /\ n \in 0..(CNSQSIZE - 1) /\ m \in 0..(CNSQSIZE - 1)
      /\ n = MinOf(Len(doc) - d, CNSQSIZE - 2) /\ m = MinOf(d - 1, CNSQSIZE - 1)
      /\ d + n <= Len(doc)
  BY Numbers DEF IInv, Places, Supplied, AtWord, GoneBy, Progress
<1>2. doc \in Texts /\ nextQ \in QueuesOf(Snapshot) /\ preQ \in QueuesOf(Snapshot)
  BY DEF IInv, Kinds
<1>3. \A i \in 1..n : WindowOf(nextQ)[i] = SnapshotOf(doc, d + i)
  BY DEF IInv, Progress
<1>4. \A i \in 1..m : WindowOf(preQ)[i] = SnapshotOf(doc, d - 1 - m + i)
  BY DEF IInv, Places, GoneBy
<1>5. pCNS \in Slot /\ nextQ.data[pCNS] = SnapshotOf(doc, d) /\ NULL \notin Slot
  BY <1>2, CNSQAssumption DEF IInv, Places, AtWord, QueuesOf, Slot
<1> HIDE DEF d, n, m
<1>6. At(nextQ, pCNS) = d
  BY <1>5 DEF At, SnapshotOf
<1>7. \A i \in 1..n : At(nextQ, nextNElem(nextQ, i)) = d + i
  <2> TAKE i \in 1..n
  <2>1. At(nextQ, nextNElem(nextQ, i)) = WindowOf(nextQ)[i].id
    BY <1>2, Looked DEF n
  <2>2. WindowOf(nextQ)[i] = SnapshotOf(doc, d + i)
    BY <1>3
  <2> QED
    BY <2>1, <2>2 DEF SnapshotOf
<1>8. \A i \in 1..m : At(preQ, pastNElem(preQ, i)) = d - i
  <2> TAKE i \in 1..m
  <2>1. At(preQ, pastNElem(preQ, i)) = WindowOf(preQ)[m + 1 - i].id
    BY <1>2, Looked DEF m
  <2>2. m + 1 - i \in 1..m /\ d - 1 - m + (m + 1 - i) = d - i
    <3>1. m \in Int /\ d \in Int
      BY <1>1
    <3> QED
      BY <3>1
  <2>3. WindowOf(preQ)[m + 1 - i] = SnapshotOf(doc, d - i)
    BY <2>2, <1>4
  <2> QED
    BY <2>1, <2>3 DEF SnapshotOf
<1>9. r.last = d - 1
  <2>1. CASE m = 0
    <3>1. d = 1
      BY <2>1, <1>1 DEF MinOf
    <3>2. r.last = 0
      BY <2>1, <1>2, LookedOutside DEF lpCNS, m
    <3> QED
      BY <3>1, <3>2
  <2>2. CASE m # 0
    <3>1. 1 \in 1..m
      BY <2>2, <1>1
    <3> QED
      BY <3>1, <1>8 DEF lpCNS
  <2> QED
    BY <2>1, <2>2
<1>10. r.next = IF d < Len(doc) THEN d + 1 ELSE 0
  <2>1. CASE n = 0
    <3>1. ~(d < Len(doc))
      BY <2>1, <1>1 DEF MinOf
    <3>2. r.next = 0
      BY <2>1, <1>2, LookedOutside DEF npCNS, n
    <3> QED
      BY <3>1, <3>2
  <2>2. CASE n # 0
    <3>1. 1 \in 1..n /\ d < Len(doc)
      BY <2>2, <1>1
    <3> QED
      BY <3>1, <1>7 DEF npCNS
  <2> QED
    BY <2>1, <2>2
<1>11. r.ahead = [i \in 1..(MinOf(Len(doc) - d, CNSQSIZE - 2) - 1) |-> d + i]
  <2>1. r.ahead = [i \in 1..(n - 1) |-> At(nextQ, nextNElem(nextQ, i))]
    <3>1. 1..Larger(n - 1, 0) = 1..(n - 1)
      BY <1>1 DEF Larger
    <3> QED
      BY <3>1 DEF Ahead, n
  <2>2. \A i \in 1..(n - 1) : At(nextQ, nextNElem(nextQ, i)) = d + i
    BY <1>1, <1>7
  <2>3. r.ahead = [i \in 1..(n - 1) |-> d + i]
    BY <2>1, <2>2
  <2> QED
    BY <2>3, <1>1
<1>12. r.behind = [i \in 1..MinOf(d - 1, CNSQSIZE - 1) |-> d - i + 1]
  <2>1. r.behind = [i \in 1..m |-> IF i = 1 THEN At(nextQ, pCNS)
                                            ELSE At(preQ, pastNElem(preQ, i - 1))]
    BY DEF Behind, m
  <2>2. ASSUME NEW i \in 1..m
        PROVE  (IF i = 1 THEN At(nextQ, pCNS) ELSE At(preQ, pastNElem(preQ, i - 1))) = d - i + 1
    <3>1. CASE i = 1
      BY <3>1, <1>1, <1>6
    <3>2. CASE i # 1
      <4>1. i - 1 \in 1..m /\ d - (i - 1) = d - i + 1
        BY <3>2, <1>1
      <4> QED
        BY <3>2, <4>1, <1>8
    <3> QED
      BY <3>1, <3>2
  <2>3. r.behind = [i \in 1..m |-> d - i + 1]
    BY <2>1, <2>2
  <2> QED
    BY <2>3, <1>1
<1> QED
  BY <1>6, <1>9, <1>10, <1>11, <1>12 DEF RowOf, d

LEMMA FeaturesStep ==
  ASSUME IInv, Features
  PROVE  IInv'
<1>1. /\ pc = "features" /\ doc' = doc /\ preQ' = preQ /\ nextQ' = nextQ /\ pCNS' = pCNS
      /\ currentOffset' = currentOffset /\ lastOffset' = lastOffset /\ spans' = spans
      /\ isbnEffect' = isbnAfter
      /\ quotTime' = quotTimeAfter(doc[At(nextQ, pCNS)], quotTime)
  BY DEF Features, input, rings
<1>2. isbnEffect' \in BOOLEAN /\ quotTime' \in -QUOTTIME..QUOTTIME
  BY <1>1, QuotTimeType DEF isbnAfter, IsbnBehind, IInv, Kinds
<1>3. Progress'
  BY <1>1 DEF IInv, Progress
<1>4. CASE NextMissing \/ BeforeParenMissing
  <2>1. rows' = rows /\ pc' = "end" /\ outcome' = "crash"
    BY <1>4 DEF Features, End
  <2>2. Kinds' /\ Told'
    BY <2>1, <1>1, <1>2 DEF IInv, Kinds, Told
  <2>3. Places'
    BY <2>1 DEF Places
  <2> QED
    BY <2>2, <2>3, <1>3 DEF IInv
<1>5. CASE ~(NextMissing \/ BeforeParenMissing)
  <2> DEFINE r == [word |-> At(nextQ, pCNS), last |-> At(preQ, lpCNS),
                   next |-> At(nextQ, npCNS), ahead |-> Ahead, behind |-> Behind,
                   press |-> pressFlag(TheWords(Ahead), TheWords(Behind)),
                   pare |-> inBrackets(TheWords(Behind)),
                   quot |-> inQuotes(doc[At(nextQ, pCNS)], quotTime),
                   isbn |-> isbnEffect']
  <2>1. rows' = Append(rows, r) /\ pc' = "store" /\ outcome' = outcome
    BY <1>5 DEF Features
  <2>2. /\ r.word = At(nextQ, pCNS) /\ r.last = At(preQ, lpCNS) /\ r.next = At(nextQ, npCNS)
        /\ r.ahead = Ahead /\ r.behind = Behind
    OBVIOUS
  <2> HIDE DEF r
  <2>3. RowOf(doc, r, Len(spans))
    BY <2>2, <1>1, RowIsTold
  <2>4. Len(rows) = Len(spans) - 1 /\ Len(spans) \in Nat /\ Len(rows) \in Nat
    BY <1>1, Numbers DEF IInv, Places
  <2>5. IsSequence(rows)
    BY DEF IInv, Kinds
  <2>6. /\ IsSequence(rows') /\ Len(rows') = Len(rows) + 1
        /\ \A k \in 1..Len(rows) : rows'[k] = rows[k]
        /\ rows'[Len(rows) + 1] = r
    BY <2>1, <2>5, Appended
  <2>7. Len(rows') = Len(spans)
    BY <2>4, <2>6
  <2>8. Kinds'
    BY <2>1, <2>6, <1>1, <1>2 DEF IInv, Kinds
  <2>9. Told'
    <3> SUFFICES ASSUME NEW k \in 1..Len(rows') PROVE RowOf(doc', rows'[k], k)
      BY DEF Told
    <3>1. k \in 1..Len(rows) \/ (k = Len(rows) + 1 /\ k = Len(spans))
      BY <2>4, <2>7
    <3>2. CASE k \in 1..Len(rows)
      BY <3>2, <2>6, <1>1 DEF IInv, Told
    <3>3. CASE k = Len(rows) + 1 /\ k = Len(spans)
      BY <3>3, <2>3, <2>6, <1>1
    <3> QED
      BY <3>1, <3>2, <3>3
  <2>10. Places'
    BY <2>1, <2>7, <1>1 DEF IInv, Places, Supplied, AtWord
  <2> QED
    BY <2>8, <2>9, <2>10, <1>3 DEF IInv
<1> QED
  BY <1>4, <1>5

LEMMA StoreStep ==
  ASSUME IInv, Store
  PROVE  IInv'
<1>1. /\ pc = "store" /\ pc' = "refill" /\ doc' = doc /\ nextQ' = nextQ /\ pCNS' = pCNS
      /\ currentOffset' = currentOffset /\ lastOffset' = lastOffset /\ spans' = spans
      /\ rows' = rows /\ quotTime' = quotTime /\ isbnEffect' = isbnEffect /\ outcome' = outcome
      /\ preQ' = enQueueWithDrop(preQ, nextQ.data[pCNS])
  BY DEF Store, input, result, flags
<1> DEFINE d == Len(spans)
           m == sizeQueue(preQ)
           e == nextQ.data[pCNS]
<1>2. /\ CNSQSIZE \in Nat /\ CNSQSIZE > 2 /\ d \in Nat /\ d > 0
      /\ m \in 0..(CNSQSIZE - 1) /\ m = MinOf(d - 1, CNSQSIZE - 1)
      /\ e = SnapshotOf(doc, d)
  BY <1>1, Numbers DEF IInv, Places, AtWord, GoneBy
<1>3. \A i \in 1..m : WindowOf(preQ)[i] = SnapshotOf(doc, d - 1 - m + i)
  BY <1>1 DEF IInv, Places, GoneBy
<1>4. preQ \in QueuesOf(Snapshot)
  BY DEF IInv, Kinds
<1>5. e \in Snapshot
  BY <1>1 DEF IInv, Kinds, Places, AtWord, QueuesOf
<1>6. /\ preQ' \in QueuesOf(Snapshot)
      /\ m < CNSQSIZE - 1 => /\ sizeQueue(preQ') = m + 1
                             /\ \A i \in 1..m : WindowOf(preQ')[i] = WindowOf(preQ)[i]
                             /\ WindowOf(preQ')[m + 1] = e
      /\ m = CNSQSIZE - 1 => /\ sizeQueue(preQ') = m
                             /\ \A i \in 1..(m - 1) : WindowOf(preQ')[i] = WindowOf(preQ)[i + 1]
                             /\ WindowOf(preQ')[m] = e
  BY <1>1, <1>4, <1>5, Remembered
<1> HIDE DEF d, m, e
<1>7. GoneBy(doc, preQ', d)
  <2>1. CASE m < CNSQSIZE - 1
    <3>1. m = d - 1 /\ m + 1 = d /\ sizeQueue(preQ') = d /\ d = MinOf(d, CNSQSIZE - 1)
      BY <2>1, <1>2, <1>6 DEF MinOf
    <3>2. ASSUME NEW i \in 1..d PROVE WindowOf(preQ')[i] = SnapshotOf(doc, d - d + i)
      <4>1. d - d + i = i /\ d - 1 - m + i = i
        BY <3>1, <1>2
      <4>2. CASE i \in 1..m
        BY <4>1, <4>2, <2>1, <1>3, <1>6
      <4>3. CASE i = d
        BY <4>1, <4>3, <3>1, <2>1, <1>2, <1>6
      <4>4. i \in 1..m \/ i = d
        BY <3>1, <1>2
      <4> QED
        BY <4>2, <4>3, <4>4
    <3> QED
      BY <3>1, <3>2 DEF GoneBy
  <2>2. CASE m = CNSQSIZE - 1
    <3>1. m = MinOf(d, CNSQSIZE - 1) /\ sizeQueue(preQ') = m
      BY <2>2, <1>2, <1>6 DEF MinOf
    <3>2. ASSUME NEW i \in 1..m PROVE WindowOf(preQ')[i] = SnapshotOf(doc, d - m + i)
      <4>1. CASE i \in 1..(m - 1)
        <5>1. i + 1 \in 1..m /\ d - 1 - m + (i + 1) = d - m + i
          BY <4>1, <1>2
        <5> QED
          BY <4>1, <5>1, <2>2, <1>3, <1>6
      <4>2. CASE i = m
        <5>1. d - m + i = d
          BY <4>2, <1>2
        <5> QED
          BY <4>2, <5>1, <2>2, <1>2, <1>6
      <4>3. i \in 1..(m - 1) \/ i = m
        BY <1>2
      <4> QED
        BY <4>1, <4>2, <4>3
    <3> QED
      BY <3>1, <3>2 DEF GoneBy
  <2> QED
    BY <2>1, <2>2, <1>2
<1>8. Kinds' /\ Progress' /\ Told'
  BY <1>1, <1>6 DEF IInv, Kinds, Progress, Told
<1>9. Places'
  BY <1>1, <1>7 DEF IInv, Places, Supplied, d
<1> QED
  BY <1>8, <1>9 DEF IInv

LEMMA RefillStep ==
  ASSUME IInv, Refill
  PROVE  IInv'
<1>1. /\ pc = "refill" /\ pc' = "take" /\ doc' = doc /\ preQ' = preQ /\ pCNS' = pCNS
      /\ spans' = spans /\ rows' = rows /\ lastOffset' = lastOffset /\ quotTime' = quotTime
      /\ isbnEffect' = isbnEffect /\ outcome' = outcome
  BY DEF Refill, input, result, flags
<1> DEFINE d == Len(spans)
           n == sizeQueue(nextQ)
<1>2. /\ Len(doc) \in Nat /\ CNSQSIZE \in Nat /\ CNSQSIZE > 2 /\ d \in Nat
      /\ n \in 0..(CNSQSIZE - 1) /\ n = MinOf(Len(doc) - d, CNSQSIZE - 2)
      /\ d + n <= Len(doc)
  BY <1>1, Numbers DEF IInv, Places, Supplied, Progress
<1>3. Told'
  BY <1>1 DEF IInv, Told
<1>4. CASE predftReturns
  <2>1. predftEnQueue
    BY <1>4 DEF Refill
  <2>2. /\ d + n < Len(doc)
        /\ nextQ' \in QueuesOf(Snapshot)
        /\ sizeQueue(nextQ') = n + 1
        /\ currentOffset' = StartOf(doc, d + (n + 1) + 1)
        /\ \A j \in 1..(n + 1) : WindowOf(nextQ')[j] = SnapshotOf(doc, d + j)
    BY <2>1, <1>4, Supply
  <2>3. Kinds'
    BY <2>2, <1>1 DEF IInv, Kinds
  <2>4. d + (n + 1) <= Len(doc) /\ n + 1 = MinOf(Len(doc) - d, CNSQSIZE - 1)
    BY <2>2, <1>2 DEF MinOf
  <2>5. Progress'
    BY <2>2, <2>4, <1>1 DEF IInv, Progress
  <2>6. Places'
    BY <2>2, <2>4, <1>1 DEF IInv, Places, Supplied
  <2> QED
    BY <2>3, <2>5, <2>6, <1>3 DEF IInv
<1>5. CASE ~predftReturns
  <2>1. currentOffset' = currentOffset /\ nextQ' = nextQ
    BY <1>5 DEF Refill
  <2>2. Kinds' /\ Progress'
    BY <2>1, <1>1 DEF IInv, Kinds, Progress
  <2>3. n = CNSQSIZE - 1 \/ d + n = Len(doc)
    BY <1>5, NoSupply
  <2>4. n = MinOf(Len(doc) - d, CNSQSIZE - 1)
    BY <2>3, <1>2 DEF MinOf
  <2>5. Places'
    BY <2>1, <2>4, <1>1 DEF IInv, Places, Supplied
  <2> QED
    BY <2>2, <2>5, <1>3 DEF IInv
<1> QED
  BY <1>4, <1>5

LEMMA StepIInv == IInv /\ [Next]_vars => IInv'
<1> SUFFICES ASSUME IInv, [Next]_vars PROVE IInv'
  OBVIOUS
<1>1. CASE CreateTagger
  <2>1. /\ pc = "create" /\ doc' = doc /\ preQ' = preQ /\ nextQ' = nextQ /\ pCNS' = pCNS
        /\ currentOffset' = currentOffset /\ lastOffset' = lastOffset /\ spans' = spans
        /\ rows' = rows /\ quotTime' = quotTime /\ isbnEffect' = isbnEffect
        /\ pc' \in {"fill", "end"} /\ outcome' \in {outcome, "crash"}
    BY <1>1 DEF CreateTagger, input, rings, result, flags, End
  <2> QED
    BY <2>1 DEF IInv, Kinds, Progress, Places, Told
<1>2. CASE Parse
  <2>1. /\ pc = "parse" /\ doc' = doc /\ preQ' = preQ /\ nextQ' = nextQ /\ pCNS' = pCNS
        /\ currentOffset' = currentOffset /\ lastOffset' = lastOffset /\ spans' = spans
        /\ rows' = rows /\ quotTime' = quotTime /\ isbnEffect' = isbnEffect
        /\ pc' = "end" /\ outcome' \in {"null", "parsed", "crash"}
    BY <1>2 DEF Parse, input, rings, result, flags, End
  <2> QED
    BY <2>1 DEF IInv, Kinds, Progress, Places, Told
<1>3. CASE UNCHANGED vars
  BY <1>3 DEF vars, input, rings, result, flags, IInv, Kinds, Progress, Places, Told, Supplied, AtWord
<1> QED
  BY <1>1, <1>2, <1>3, FillStep, TakeStep, FeaturesStep, StoreStep, RefillStep DEF Next

--------------------------------------------------------------------------------
(* The theorems.                                                              *)

LEMMA Invariant == Spec => []IInv
<1>1. Init => IInv
  BY InitIInv
<1>2. IInv /\ [Next]_vars => IInv'
  BY StepIInv
<1> QED
  BY <1>1, <1>2, PTL DEF Spec

\* For every text and ring size the rows that the tagger gets are the words of the text,
\* in order, each once and with its own bytes, and no index leaves its ring.
THEOREM RowsRight == Spec => []RowsAreTheWords
<1>1. IInv => RowsAreTheWords
  BY Gives
<1> QED
  BY <1>1, Invariant, PTL

\* For every text and ring size the features of a word are computed from the words next
\* to it, and the two scans visit the words around it in order, all but the farthest
\* that each ring holds.
THEOREM NeighboursRight == Spec => []Neighbourhood
<1>1. IInv => Neighbourhood
  BY Gives
<1> QED
  BY <1>1, Invariant, PTL

--------------------------------------------------------------------------------
(* Crashes.                                                                   *)

\* While the loop runs the model is there, and a last word that looks ahead has no row.
Edges ==
  /\ pc \notin {"create", "end"} => model
  /\ pc # "end" => outcome = "running"
  /\ \A k \in 1..Len(rows) : k = Len(doc) => doc[k].kind \notin {"ph", "in"}
  /\ CrashesOnlyAtEdges

\* In the words gone by there is always one before the one that looks back.
LEMMA NoParenMissing ==
  ASSUME IInv
  PROVE  ~BeforeParenMissing
<1> SUFFICES ASSUME NEW i \in 1..(sizeQueue(preQ) - 1), pastNElem(preQ, i + 1) = NULL
             PROVE  FALSE
  BY DEF BeforeParenMissing
<1>1. preQ \in QueuesOf(Snapshot) /\ sizeQueue(preQ) \in Nat
  BY Numbers DEF IInv, Kinds
<1>2. i + 1 \in 1..sizeQueue(preQ)
  BY <1>1
<1>3. pastNElem(preQ, i + 1) \in Slot
  BY <1>1, <1>2, Looked
<1> QED
  BY <1>3, CNSQAssumption DEF Slot

\* Only at the last word of the text there is no next one.
LEMMA NextMissingAtEnd ==
  ASSUME IInv, pc = "features"
  PROVE  LET d == Len(spans)
         IN  /\ d \in 1..Len(doc)
             /\ nextQ.data[pCNS].kind = doc[d].kind
             /\ npCNS = NULL <=> d = Len(doc)
<1> DEFINE d == Len(spans)
           n == sizeQueue(nextQ)
<1>1. /\ Len(doc) \in Nat /\ CNSQSIZE \in Nat /\ CNSQSIZE > 2 /\ d \in Nat /\ d > 0
      /\ n \in 0..(CNSQSIZE - 1) /\ n = MinOf(Len(doc) - d, CNSQSIZE - 2) /\ d + n <= Len(doc)
      /\ nextQ.data[pCNS] = SnapshotOf(doc, d)
  BY Numbers DEF IInv, Places, Supplied, AtWord, Progress
<1>2. nextQ \in QueuesOf(Snapshot) /\ NULL \notin Slot
  BY CNSQAssumption DEF IInv, Kinds, Slot
<1>3. nextQ.data[pCNS].kind = doc[d].kind
  BY <1>1 DEF SnapshotOf
<1>4. CASE n = 0
  <2>1. d = Len(doc)
    BY <1>1, <1>4 DEF MinOf
  <2>2. npCNS = NULL
    BY <1>1, <1>4 DEF npCNS, nextNElem
  <2> QED
    BY <1>1, <1>3, <2>1, <2>2
<1>5. CASE n # 0
  <2>1. 1 \in 1..n /\ d < Len(doc)
    BY <1>1, <1>5
  <2>2. npCNS \in Slot
    BY <2>1, <1>2, Looked DEF npCNS
  <2> QED
    BY <1>1, <1>2, <1>3, <2>1, <2>2
<1> QED
  BY <1>4, <1>5

LEMMA EdgesStep ==
  ASSUME IInv, IInv', Edges, [Next]_vars
  PROVE  Edges'
<1> USE DEF CrashesOnlyAtEdges, AtTheEdge
<1>1. CASE CreateTagger
  <2>1. pc = "create" /\ doc' = doc /\ model' = model /\ rows' = rows
    BY <1>1 DEF CreateTagger, input, result
  <2>2. CASE model
    <3>1. pc' = "fill" /\ outcome' = outcome
      BY <1>1, <2>2 DEF CreateTagger
    <3> QED
      BY <2>1, <2>2, <3>1 DEF Edges
  <2>3. CASE ~model
    <3>1. pc' = "end" /\ outcome' = "crash"
      BY <1>1, <2>3 DEF CreateTagger, End
    <3> QED
      BY <2>1, <2>3, <3>1 DEF Edges
  <2> QED
    BY <2>2, <2>3
<1>2. CASE Fill \/ Take \/ Store \/ Refill
  <2>1. /\ pc \notin {"create", "end"} /\ pc' # "end"
        /\ doc' = doc /\ model' = model /\ rows' = rows /\ outcome' = outcome
    BY <1>2 DEF Fill, Take, Store, Refill, input, result
  <2> QED
    BY <2>1 DEF Edges
<1>3. CASE Features
  <2>1. pc = "features" /\ doc' = doc /\ model' = model /\ model /\ outcome = "running"
    BY <1>3 DEF Features, input, Edges
  <2>2. /\ Len(spans) \in 1..Len(doc)
        /\ nextQ.data[pCNS].kind = doc[Len(spans)].kind
        /\ npCNS = NULL <=> Len(spans) = Len(doc)
    BY <2>1, NextMissingAtEnd
  <2>3. CASE NextMissing
    <3>1. pc' = "end" /\ outcome' = "crash" /\ rows' = rows
      BY <1>3, <2>3 DEF Features, End
    <3>2. doc[Len(doc)].kind \in {"ph", "in"}
      BY <2>2, <2>3 DEF NextMissing
    <3> QED
      BY <2>1, <3>1, <3>2 DEF Edges
  <2>4. CASE ~NextMissing
    <3>1. ~BeforeParenMissing
      BY NoParenMissing
    <3>2. pc' = "store" /\ outcome' = outcome /\ doc' = doc /\ Len(spans') = Len(spans)
      BY <1>3, <2>4, <3>1 DEF Features, input
    <3>3. Len(rows') = Len(spans)
      BY <3>2 DEF IInv, Places
    <3>4. Len(rows) = Len(spans) - 1 /\ Len(spans) \in Nat
      BY <2>1, Numbers DEF IInv, Places
    <3>5. ASSUME NEW k \in 1..Len(rows'), k = Len(doc)
          PROVE  doc[k].kind \notin {"ph", "in"}
      <4>1. k = Len(spans)
        BY <2>2, <3>3, <3>4, <3>5
      <4> QED
        BY <4>1, <3>5, <2>2, <2>4 DEF NextMissing
    <3> QED
      BY <2>1, <3>2, <3>5 DEF Edges
  <2> QED
    BY <2>3, <2>4
<1>4. CASE Parse
  <2>1. /\ pc = "parse" /\ pc' = "end" /\ doc' = doc /\ model' = model /\ rows' = rows
        /\ Len(rows) = Len(doc) /\ Len(doc) \in Nat
    BY <1>4, Numbers DEF Parse, End, input, result, IInv, Places
  <2>2. \/ outcome' = "null"
        \/ rows # <<>> /\ outcome' = "parsed"
        \/ rows = <<>> /\ outcome' = "crash"
    BY <1>4 DEF Parse, End
  <2>3. rows = <<>> => doc = <<>>
    <3>1. doc \in Seq(Word)
      BY PredictAssumption DEF IInv, Kinds
    <3> QED
      BY <3>1, <2>1
  <2>4. doc = <<>> => rows = <<>>
    <3>1. rows = [k \in 1..Len(rows) |-> rows[k]]
      BY DEF IInv, Kinds, IsSequence
    <3>2. doc = <<>> => Len(doc) = 0
      OBVIOUS
    <3>3. Len(rows) = 0 => rows = <<>>
      <4> SUFFICES ASSUME Len(rows) = 0 PROVE rows = <<>>
        OBVIOUS
      <4>1. rows \in Seq({rows[k] : k \in 1..Len(rows)})
        BY <3>1, <2>1
      <4> QED
        BY <4>1
    <3> QED
      BY <3>2, <3>3, <2>1
  <2>5. doc # <<>> => doc[Len(doc)].kind \notin {"ph", "in"}
    <3>1. doc # <<>> => Len(doc) \in 1..Len(rows)
      BY <2>1, <2>3 DEF IInv, Kinds, IsSequence
    <3> QED
      BY <3>1 DEF Edges
  <2> QED
    BY <2>1, <2>2, <2>3, <2>4, <2>5 DEF Edges
<1>5. CASE UNCHANGED vars
  BY <1>5 DEF vars, input, result, Edges
<1> QED
  BY <1>1, <1>2, <1>3, <1>4, <1>5 DEF Next

\* For every text the process dies, once its model is there, only at a last word that looks
\* at the next one, or at a text without words: looking back never fails, nor looking
\* ahead from any other word.
THEOREM CrashesAtEdges == Spec => []CrashesOnlyAtEdges
<1>1. Init => Edges
  BY DEF Init, Edges, CrashesOnlyAtEdges
<1>2. IInv /\ IInv' /\ Edges /\ [Next]_vars => Edges'
  BY EdgesStep
<1>3. Edges => CrashesOnlyAtEdges
  BY DEF Edges
<1> QED
  BY <1>1, <1>2, <1>3, Invariant, PTL DEF Spec

--------------------------------------------------------------------------------
(* What outlives a word.                                                      *)

\* The words of the properties, for a text t.
IsbnUpTo(t, k) == \E j \in 2..k : t[j].isbn /\ t[j].digits
QuotedIn(t, k) == Cardinality({j \in 1..k : t[j].quot = 1}) % 2 = 1
ShortUpTo(t, k) ==
  \A l, j \in 1..k :
    /\ l < j /\ t[l].quot = 1 /\ QuotedIn(t, l)
    /\ \A n \in (l + 1)..(j - 1) : t[n].quot # 1
    => j - l < QUOTTIME /\ t[j].quot # 2

\* Where the countdown q stands after the k-th word: as many words from its end as the
\* last mark is away, or not running.
Counting(t, k, q) ==
  IF QuotedIn(t, k)
  THEN \E l \in 1..k : /\ t[l].quot = 1 /\ QuotedIn(t, l)
                       /\ \A n \in (l + 1)..k : t[n].quot # 1
                       /\ q = QUOTTIME - (k - l)
  ELSE q <= 0

\* What the k-th row says of them.
RowCarries(t, r, k) ==
  /\ r.isbn <=> IsbnUpTo(t, k)
  /\ ShortUpTo(t, k) => (r.quot <=> QuotedIn(t, k))

Carried ==
  /\ pc # "end" => /\ isbnEffect <=> IsbnUpTo(doc, Len(rows))
                   /\ ShortUpTo(doc, Len(rows)) => Counting(doc, Len(rows), quotTime)
  /\ \A k \in 1..Len(rows) : RowCarries(doc, rows[k], k)

\* A word with one mark opens or closes a quotation, any other leaves it as it is.
LEMMA QuotedNext ==
  ASSUME NEW t, NEW k \in Nat
  PROVE  /\ QuotedIn(t, k + 1) <=> IF t[k + 1].quot = 1 THEN ~QuotedIn(t, k) ELSE QuotedIn(t, k)
         /\ ~QuotedIn(t, 0)
<1> DEFINE M(n) == {j \in 1..n : t[j].quot = 1}
<1>1. IsFiniteSet(M(k)) /\ Cardinality(M(k)) \in Nat
  <2>1. IsFiniteSet(1..k) /\ M(k) \in SUBSET (1..k)
    BY FS_Interval
  <2> HIDE DEF M
  <2> QED
    BY <2>1, FS_Subset, FS_CardinalityType
<1>2. ASSUME t[k + 1].quot = 1 PROVE QuotedIn(t, k + 1) <=> ~QuotedIn(t, k)
  <2>1. M(k + 1) = M(k) \cup {k + 1} /\ k + 1 \notin M(k)
    BY <1>2
  <2> HIDE DEF M
  <2>2. Cardinality(M(k + 1)) = Cardinality(M(k)) + 1
    BY <1>1, <2>1, FS_AddElement
  <2>3. Cardinality(M(k + 1)) % 2 = 1 <=> ~(Cardinality(M(k)) % 2 = 1)
    BY <1>1, <2>2
  <2> QED
    BY <1>2, <2>3 DEF QuotedIn, M
<1>3. ASSUME t[k + 1].quot # 1 PROVE QuotedIn(t, k + 1) <=> QuotedIn(t, k)
  <2>1. M(k + 1) = M(k)
    BY <1>3
  <2> QED
    BY <1>3, <2>1 DEF QuotedIn
<1>4. ~QuotedIn(t, 0)
  <2>1. M(0) = {}
    OBVIOUS
  <2>2. Cardinality(M(0)) = 0
    BY <2>1, FS_EmptySet
  <2> HIDE DEF M
  <2>3. ~(Cardinality(M(0)) % 2 = 1)
    BY <2>2
  <2> QED
    BY <2>3 DEF QuotedIn, M
<1> QED
  BY <1>2, <1>3, <1>4

\* The countdown at the next word, and what it makes of it.
LEMMA CountsOn ==
  ASSUME doc \in Texts, NEW k \in Nat, k + 1 <= Len(doc),
         NEW q \in -QUOTTIME..QUOTTIME,
         ShortUpTo(doc, k) => Counting(doc, k, q), ShortUpTo(doc, k + 1)
  PROVE  /\ inQuotes(doc[k + 1], q) <=> QuotedIn(doc, k + 1)
         /\ Counting(doc, k + 1, quotTimeAfter(doc[k + 1], q))
<1> DEFINE w == doc[k + 1]
           p == quotTimeAfter(w, q)
<1>1. Len(doc) \in Nat /\ w.quot \in 0..2
  <2>1. Len(doc) \in Nat /\ k + 1 \in 1..Len(doc)
    BY TextType
  <2>2. w \in Word
    BY <2>1, TextType
  <2> QED
    BY <2>1, <2>2 DEF Word
<1>2. QUOTTIME \in Nat /\ QUOTTIME > 1
  BY PredictAssumption
<1>3. Counting(doc, k, q)
  <2>1. \A l, j \in 1..k : l \in 1..(k + 1) /\ j \in 1..(k + 1)
    OBVIOUS
  <2> QED
    BY <2>1 DEF ShortUpTo
<1>4. QuotedIn(doc, k + 1) <=> IF w.quot = 1 THEN ~QuotedIn(doc, k) ELSE QuotedIn(doc, k)
  BY QuotedNext
<1> HIDE DEF w, p
<1>6. CASE QuotedIn(doc, k)
  <2>1. PICK l \in 1..k : /\ doc[l].quot = 1 /\ QuotedIn(doc, l)
                          /\ \A n \in (l + 1)..k : doc[n].quot # 1
                          /\ q = QUOTTIME - (k - l)
    BY <1>3, <1>6 DEF Counting
  <2>2. k + 1 - l < QUOTTIME /\ w.quot # 2
    <3>1. l \in 1..(k + 1) /\ k + 1 \in 1..(k + 1) /\ l < k + 1 /\ (k + 1) - 1 = k
      OBVIOUS
    <3> QED
      BY <2>1, <3>1 DEF ShortUpTo, w
  <2>3. Ticked(q) = QUOTTIME - (k + 1 - l) /\ Ticked(q) > 0
    <3>1. q = QUOTTIME - (k - l) /\ k \in Int /\ l \in Int /\ QUOTTIME \in Int
      BY <1>2, <2>1
    <3>2. q - 1 = QUOTTIME - (k + 1 - l) /\ q - 1 > 0
      BY <2>2, <3>1
    <3> QED
      BY <3>2 DEF Ticked, Larger
  <2>4. CASE w.quot = 1
    <3>1. ~inQuotes(w, q) /\ p = -QUOTTIME
      BY <1>2, <2>3, <2>4 DEF inQuotes, quotTimeAfter, p
    <3>2. p <= 0
      BY <1>2, <3>1
    <3> QED
      BY <1>4, <1>6, <2>4, <3>1, <3>2 DEF Counting, w, p
  <2>5. CASE w.quot = 0
    <3>1. inQuotes(w, q) /\ p = QUOTTIME - (k + 1 - l)
      BY <2>3, <2>5 DEF inQuotes, quotTimeAfter, p
    <3>2. l \in 1..(k + 1) /\ \A n \in (l + 1)..(k + 1) : doc[n].quot # 1
      BY <2>1, <2>5 DEF w
    <3>3. Counting(doc, k + 1, p)
      BY <1>4, <1>6, <2>1, <2>5, <3>1, <3>2 DEF Counting
    <3> QED
      BY <1>4, <1>6, <2>5, <3>1, <3>3 DEF w, p
  <2> QED
    BY <1>1, <2>2, <2>4, <2>5
<1>7. CASE ~QuotedIn(doc, k)
  <2>1. q <= 0 /\ Ticked(q) = 0
    BY <1>3, <1>7 DEF Counting, Ticked, Larger
  <2>2. CASE w.quot = 1
    <3>1. inQuotes(w, q) /\ p = QUOTTIME
      BY <2>1, <2>2 DEF inQuotes, quotTimeAfter, p
    <3>2. k + 1 \in 1..(k + 1) /\ (k + 2)..(k + 1) = {} /\ (k + 1) + 1 = k + 2
          /\ QUOTTIME - ((k + 1) - (k + 1)) = QUOTTIME
      BY <1>2
    <3>3. Counting(doc, k + 1, p)
      BY <1>4, <1>7, <2>2, <3>1, <3>2 DEF Counting, w
    <3> QED
      BY <1>4, <1>7, <2>2, <3>1, <3>3 DEF w, p
  <2>3. CASE w.quot = 0 \/ w.quot = 2
    <3>1. ~inQuotes(w, q) /\ p = 0
      BY <2>1, <2>3 DEF inQuotes, quotTimeAfter, p
    <3> QED
      BY <1>4, <1>7, <2>3, <3>1 DEF Counting, w, p
  <2> QED
    BY <1>1, <2>2, <2>3
<1> QED
  BY <1>6, <1>7 DEF w, p

\* The words behind the word are looked at for an ISBN, the word itself among them.
LEMMA IsbnNext ==
  ASSUME IInv, pc = "features", isbnEffect <=> IsbnUpTo(doc, Len(spans) - 1)
  PROVE  isbnAfter <=> IsbnUpTo(doc, Len(spans))
<1> DEFINE d == Len(spans)
           m == MinOf(d - 1, CNSQSIZE - 1)
<1>1. /\ Len(doc) \in Nat /\ CNSQSIZE \in Nat /\ CNSQSIZE > 2 /\ d \in Nat /\ d > 0
      /\ m \in Nat /\ m <= d - 1 /\ (d > 1 => m > 0)
  BY Numbers DEF IInv, Places, AtWord, MinOf
<1>2. Behind = [i \in 1..m |-> d - i + 1]
  <2> DEFINE r == [word |-> At(nextQ, pCNS), last |-> At(preQ, lpCNS), next |-> At(nextQ, npCNS),
                   ahead |-> Ahead, behind |-> Behind]
  <2>1. RowOf(doc, r, Len(spans))
    BY RowIsTold
  <2> QED
    BY <2>1 DEF RowOf
<1> HIDE DEF d, m
<1>3. IsbnBehind <=> \E i \in 1..m : doc[d - i + 1].isbn
                                     /\ \A j \in 1..i : doc[d - j + 1].digits
  <2>1. \A i \in 1..m : Behind[i] = d - i + 1 /\ \A j \in 1..i : j \in 1..m
    BY <1>1, <1>2
  <2>2. DOMAIN Behind = 1..m
    BY <1>2
  <2>3. \A i \in 1..m : \A j \in 1..i : Behind[j] = d - j + 1
    BY <2>1
  <2> QED
    BY <2>1, <2>2, <2>3 DEF IsbnBehind
<1>4. ASSUME IsbnBehind PROVE IsbnUpTo(doc, d)
  <2>1. PICK i \in 1..m : doc[d - i + 1].isbn /\ doc[d - i + 1].digits
    BY <1>3, <1>4
  <2>2. d - i + 1 \in 2..d
    BY <1>1
  <2> QED
    BY <2>1, <2>2 DEF IsbnUpTo
<1>5. ASSUME IsbnUpTo(doc, d - 1) PROVE IsbnUpTo(doc, d)
  BY <1>1, <1>5 DEF IsbnUpTo
<1>6. ASSUME IsbnUpTo(doc, d), ~IsbnUpTo(doc, d - 1) PROVE IsbnBehind
  <2>1. d \in 2..d /\ doc[d].isbn /\ doc[d].digits
    BY <1>1, <1>6 DEF IsbnUpTo
  <2>2. 1 \in 1..m /\ d - 1 + 1 = d /\ \A j \in 1..1 : d - j + 1 = d
    BY <1>1, <2>1
  <2> QED
    BY <1>3, <2>1, <2>2
<1> QED
  BY <1>4, <1>5, <1>6 DEF isbnAfter, d

LEMMA CarriedStep ==
  ASSUME IInv, IInv', Carried, [Next]_vars
  PROVE  Carried'
<1>1. CASE Features
  <2>1. /\ pc = "features" /\ doc' = doc /\ isbnEffect' = isbnAfter
        /\ quotTime' = quotTimeAfter(doc[At(nextQ, pCNS)], quotTime)
    BY <1>1 DEF Features, input
  <2>2. PICK d \in 1..Len(doc) : d = Len(spans)
    BY <2>1, NextMissingAtEnd
  <2>3. /\ Len(rows) = d - 1 /\ Len(rows) \in Nat /\ Len(doc) \in Nat
        /\ (d - 1) + 1 = d /\ d - 1 \in Nat /\ At(nextQ, pCNS) = d
        /\ doc \in Texts /\ quotTime \in -QUOTTIME..QUOTTIME /\ IsSequence(rows)
    <3>1. Len(rows) = d - 1 /\ AtWord /\ Len(rows) \in Nat /\ Len(doc) \in Nat
      BY <2>1, <2>2, Numbers DEF IInv, Places
    <3>2. pCNS # NULL
      BY <3>1, CNSQAssumption DEF AtWord, IInv, Kinds, QueuesOf, Slot
    <3>3. At(nextQ, pCNS) = d
      BY <2>2, <3>1, <3>2 DEF At, AtWord, SnapshotOf
    <3> QED
      BY <3>1, <3>3 DEF IInv, Kinds
  <2>4. isbnEffect' <=> IsbnUpTo(doc, d)
    BY <2>1, <2>2, <2>3, IsbnNext DEF Carried
  <2>5. ShortUpTo(doc, d) => /\ inQuotes(doc[d], quotTime) <=> QuotedIn(doc, d)
                             /\ Counting(doc, d, quotTime')
    <3>1. ShortUpTo(doc, d - 1) => Counting(doc, d - 1, quotTime)
      BY <2>1, <2>3 DEF Carried
    <3>2. d - 1 \in Nat /\ (d - 1) + 1 <= Len(doc)
      BY <2>3
    <3>3. ShortUpTo(doc, (d - 1) + 1) =>
            /\ inQuotes(doc[(d - 1) + 1], quotTime) <=> QuotedIn(doc, (d - 1) + 1)
            /\ Counting(doc, (d - 1) + 1, quotTimeAfter(doc[(d - 1) + 1], quotTime))
      BY <2>3, <3>1, <3>2, CountsOn
    <3> QED
      BY <2>1, <2>3, <3>3
  <2>6. CASE NextMissing \/ BeforeParenMissing
    <3>1. rows' = rows /\ pc' = "end"
      BY <1>1, <2>6 DEF Features, End
    <3> QED
      BY <2>1, <3>1 DEF Carried
  <2>7. CASE ~(NextMissing \/ BeforeParenMissing)
    <3>1. PICK r : rows' = Append(rows, r) /\ r.isbn = isbnEffect'
                   /\ r.quot = inQuotes(doc[d], quotTime)
      BY <1>1, <2>3, <2>7 DEF Features
    <3>2. /\ Len(rows') = d
          /\ \A k \in 1..Len(rows) : rows'[k] = rows[k]
          /\ rows'[d] = r
      BY <2>3, <3>1, Appended
    <3>3. RowCarries(doc, r, d)
      BY <2>4, <2>5, <3>1 DEF RowCarries
    <3>4. ASSUME NEW k \in 1..Len(rows') PROVE RowCarries(doc, rows'[k], k)
      <4>1. CASE k \in 1..Len(rows)
        BY <3>2, <4>1 DEF Carried
      <4>2. CASE k = d
        BY <3>2, <3>3, <4>2
      <4> QED
        BY <2>3, <3>2, <4>1, <4>2
    <3> QED
      BY <2>1, <2>4, <2>5, <3>2, <3>4 DEF Carried
  <2> QED
    BY <2>6, <2>7
<1>2. CASE ~Features
  <2>1. /\ doc' = doc /\ rows' = rows /\ quotTime' = quotTime /\ isbnEffect' = isbnEffect
        /\ pc' # "end" => pc # "end"
    BY <1>2 DEF Next, CreateTagger, Fill, Take, Store, Refill, Parse, End, vars, input, rings,
       result, flags
  <2> QED
    BY <2>1 DEF Carried
<1> QED
  BY <1>1, <1>2

\* For every text and quotation limit an ISBN marks the words after it and no others, and
\* as long as every quotation is short a word counts as quoted exactly if it is.
THEOREM CarriedRight == Spec => []CarriedOver
<1>1. Init => Carried
  <2> SUFFICES ASSUME Init PROVE Carried
    OBVIOUS
  <2>1. Len(rows) = 0 /\ 1..Len(rows) = {} /\ 2..Len(rows) = {} /\ quotTime <= 0
        /\ isbnEffect = FALSE
    BY DEF Init
  <2>2. ~QuotedIn(doc, Len(rows))
    BY <2>1, QuotedNext
  <2> QED
    BY <2>1, <2>2 DEF Carried, IsbnUpTo, Counting
<1>2. IInv /\ IInv' /\ Carried /\ [Next]_vars => Carried'
  BY CarriedStep
<1>3. IInv /\ Carried => CarriedOver
  <2> SUFFICES ASSUME IInv, Carried PROVE CarriedOver
    OBVIOUS
  <2>1. DOMAIN rows = 1..Len(rows)
    BY DEF IInv, Kinds, IsSequence
  <2>2. \A k : Quoted(k) <=> QuotedIn(doc, k)
    BY DEF Quoted, QuotedIn
  <2>3. QuotesFollowed
    BY <2>1, <2>2 DEF Carried, RowCarries, QuotesFollowed, ShortUpTo, Short
  <2>4. IsbnSticks
    BY <2>1 DEF Carried, RowCarries, IsbnSticks, IsbnUpTo
  <2> QED
    BY <2>3, <2>4 DEF CarriedOver
<1> QED
  BY <1>1, <1>2, <1>3, Invariant, PTL DEF Spec

--------------------------------------------------------------------------------
(* The scans.                                                                 *)

\* A set of numbers with 0 and with the successor of each has all of them.
LEMMA Induction ==
  ASSUME NEW S, 0 \in S, \A n \in Nat : n \in S => n + 1 \in S
  PROVE  Nat \subseteq S
<1> DEFINE T == Nat \ S
           R == OpToRel(<, Nat)
<1> SUFFICES ASSUME T # {} PROVE FALSE
  OBVIOUS
<1>1. PICK m \in T : \A y \in T : ~(<<y, m>> \in R)
  <2>1. IsWellFoundedOn(R, Nat)
    BY NatLessThanWellFounded
  <2>2. T \subseteq Nat
    OBVIOUS
  <2> HIDE DEF T, R
  <2>3. QED
    BY <2>1, <2>2, WFMin
<1>2. \A y, z \in Nat : y < z => <<y, z>> \in R
  BY DEF OpToRel
<1> HIDE DEF R
<1>3. m \in Nat /\ m # 0 /\ m \notin S
  OBVIOUS
<1>4. m - 1 \in Nat /\ m - 1 < m
  BY <1>3
<1>5. m - 1 \in S
  BY <1>1, <1>2, <1>3, <1>4
<1>6. QED
  BY <1>3, <1>4, <1>5

\* A scan of N words: G gives the state after the n-th one from the one before.
Stays(N, S, G) == \A n \in 1..N : \A s \in S : G[<<n, s>>] \in S
Scans(f, N, S, b, G) ==
  f \in [0..N -> S] /\ f[0] = b /\ \A n \in 1..N : f[n] = G[<<n, f[n - 1]>>]

\* A scan that goes from state to state among those of S has all its states.
LEMMA Scan ==
  ASSUME NEW N \in Nat, NEW S, NEW b \in S, NEW G, Stays(N, S, G)
  PROVE  \E f : Scans(f, N, S, b, G)
<1> USE DEF Stays
<1> DEFINE Reaches(k, f) == f[0] = b /\ \A n \in 1..k : f[n] = G[<<n, f[n - 1]>>]
           K == {k \in Nat : k <= N => \E f \in [0..k -> S] : Reaches(k, f)}
<1>1. 0 \in K
  <2>1. [n \in 0..0 |-> b] \in [0..0 -> S] /\ Reaches(0, [n \in 0..0 |-> b])
    OBVIOUS
  <2> QED
    BY <2>1
<1>2. ASSUME NEW k \in Nat, k \in K PROVE k + 1 \in K
  <2> SUFFICES ASSUME k + 1 <= N PROVE \E f \in [0..(k + 1) -> S] : Reaches(k + 1, f)
    OBVIOUS
  <2>1. k <= N /\ k + 1 \in 1..N
    OBVIOUS
  <2>2. PICK f \in [0..k -> S] : Reaches(k, f)
    BY <1>2, <2>1
  <2> DEFINE g == [n \in 0..(k + 1) |-> IF n = k + 1 THEN G[<<k + 1, f[k]>>] ELSE f[n]]
  <2>3. f[k] \in S /\ G[<<k + 1, f[k]>>] \in S
    BY <2>1
  <2>4. g \in [0..(k + 1) -> S]
    <3>1. \A n \in 0..(k + 1) : n # k + 1 => n \in 0..k
      OBVIOUS
    <3> QED
      BY <2>3, <3>1
  <2>5. \A n \in 0..k : g[n] = f[n]
    OBVIOUS
  <2>6. g[k + 1] = G[<<k + 1, f[k]>>]
    OBVIOUS
  <2> HIDE DEF g
  <2>7. Reaches(k + 1, g)
    <3>1. g[0] = b
      BY <2>2, <2>5
    <3>2. ASSUME NEW n \in 1..(k + 1) PROVE g[n] = G[<<n, g[n - 1]>>]
      <4>1. CASE n = k + 1
        <5>1. n - 1 = k /\ k \in 0..k
          BY <4>1
        <5> QED
          BY <2>5, <2>6, <4>1, <5>1
      <4>2. CASE n # k + 1
        <5>1. n \in 1..k /\ n \in 0..k /\ n - 1 \in 0..k
          BY <4>2
        <5> QED
          BY <2>2, <2>5, <5>1
      <4> QED
        BY <4>1, <4>2
    <3> QED
      BY <3>1, <3>2
  <2> QED
    BY <2>4, <2>7
<1> HIDE DEF K
<1>3. N \in K
  BY <1>1, <1>2, Induction
<1> QED
  BY <1>3 DEF K, Scans

\* The signs of a word.
Signed(w) == w.press \in BOOLEAN /\ w.stop \in 0..2 /\ w.open \in BOOLEAN /\ w.close \in BOOLEAN

KeywordStates == [flag : 0..4, effect : 0..2]
BracketStates == [flag : Int, cache : Int]

LEMMA ScanAheadUnfolds ==
  ASSUME NEW w, Len(w) \in Nat, \A n \in 1..Len(w) : Signed(w[n])
  PROVE  /\ ScanAhead(w)[0] = [flag |-> 0, effect |-> 0]
         /\ \A n \in 1..Len(w) : ScanAhead(w)[n] = Ahead1(ScanAhead(w)[n - 1], w[n])
<1> DEFINE b == [flag |-> 0, effect |-> 0]
           G == [p \in (1..Len(w)) \X KeywordStates |-> Ahead1(p[2], w[p[1]])]
           Unfolds(f) == f = [n \in 0..Len(w) |-> IF n = 0 THEN b ELSE Ahead1(f[n - 1], w[n])]
<1>1. b \in KeywordStates
  BY DEF KeywordStates
<1>2. \A n \in 1..Len(w) : \A s \in KeywordStates : G[<<n, s>>] = Ahead1(s, w[n])
  OBVIOUS
<1>3. ASSUME NEW n \in 1..Len(w), NEW s \in KeywordStates PROVE Ahead1(s, w[n]) \in KeywordStates
  <2>1. s.flag \in 0..4 /\ s.effect \in 0..2 /\ Signed(w[n])
    BY DEF KeywordStates
  <2>2. Weighed(w[n], s, 1) \in 0..4 /\ Larger(s.effect, w[n].stop) \in 0..2
    BY <2>1 DEF Weighed, Larger, Signed
  <2> QED
    BY <2>2 DEF Ahead1, KeywordStates
<1> HIDE DEF G, b
<1>4. PICK f : Scans(f, Len(w), KeywordStates, b, G)
  <2>1. Stays(Len(w), KeywordStates, G)
    BY <1>2, <1>3 DEF Stays
  <2> QED
    BY <1>1, <2>1, Scan
<1>5. \A n \in 1..Len(w) : n \in 0..Len(w) /\ n # 0 /\ n - 1 \in 0..Len(w)
  OBVIOUS
<1>6. Unfolds(f)
  <2>1. f \in [0..Len(w) -> KeywordStates] /\ f[0] = b
    BY <1>4 DEF Scans
  <2>2. \A n \in 1..Len(w) : f[n] = Ahead1(f[n - 1], w[n])
    BY <1>2, <1>4, <1>5, <2>1 DEF Scans
  <2>3. \A n \in 0..Len(w) : n = 0 \/ n \in 1..Len(w)
    OBVIOUS
  <2>4. \A n \in 0..Len(w) : f[n] = IF n = 0 THEN b ELSE Ahead1(f[n - 1], w[n])
    BY <2>1, <2>2, <2>3
  <2> QED
    BY <2>1, <2>4
<1>7. ScanAhead(w) = CHOOSE g : Unfolds(g)
  BY DEF ScanAhead, b
<1>8. Unfolds(ScanAhead(w))
  <2> HIDE DEF Unfolds
  <2> QED
    BY <1>6, <1>7
<1>9. 0 \in 0..Len(w)
  OBVIOUS
<1> DEFINE g == ScanAhead(w)
<1>10. g = [n \in 0..Len(w) |-> IF n = 0 THEN b ELSE Ahead1(g[n - 1], w[n])]
  BY <1>8
<1> HIDE DEF g
<1>11. g[0] = b /\ \A n \in 1..Len(w) : g[n] = Ahead1(g[n - 1], w[n])
  BY <1>5, <1>9, <1>10
<1> QED
  BY <1>11 DEF g, b

\* A word looked at behind: its own sign is noted before it is weighed.
LEMMA BehindShape ==
  ASSUME NEW s \in KeywordStates, NEW e, Signed(e)
  PROVE  LET t == [flag |-> s.flag, effect |-> Larger(s.effect, e.stop)]
         IN  /\ Behind1(s, e) = [flag |-> Weighed(e, t, 3), effect |-> t.effect]
             /\ Behind1(s, e) \in KeywordStates
<1> DEFINE t == [s EXCEPT !.effect = Larger(s.effect, e.stop)]
<1>1. s.flag \in 0..4 /\ s.effect \in 0..2 /\ s = [flag |-> s.flag, effect |-> s.effect]
  BY DEF KeywordStates
<1>2. Larger(s.effect, e.stop) \in 0..2
  BY <1>1 DEF Larger, Signed
<1>3. t = [flag |-> s.flag, effect |-> Larger(s.effect, e.stop)]
  BY <1>1
<1>4. Behind1(s, e) = [t EXCEPT !.flag = Weighed(e, t, 3)]
  BY DEF Behind1
<1> HIDE DEF t
<1>5. Weighed(e, t, 3) \in 0..4
  BY <1>1, <1>2, <1>3 DEF Weighed
<1>6. Behind1(s, e) = [flag |-> Weighed(e, t, 3), effect |-> t.effect]
  BY <1>3, <1>4
<1>7. Behind1(s, e) \in KeywordStates
  BY <1>2, <1>3, <1>5, <1>6 DEF KeywordStates
<1> QED
  BY <1>3, <1>6, <1>7

LEMMA ScanBehindUnfolds ==
  ASSUME NEW found \in 0..4, NEW w, Len(w) \in Nat, \A n \in 1..Len(w) : Signed(w[n])
  PROVE  LET s == ScanBehind(found, w)
         IN  /\ s[0] = [flag |-> found, effect |-> 0]
             /\ Len(w) > 0 => s[1] = [flag |-> Weighed(w[1], s[0], 3), effect |-> 0]
             /\ \A n \in 2..Len(w) : s[n] = Behind1(s[n - 1], w[n])
<1> DEFINE b == [flag |-> found, effect |-> 0]
           Step(n, s) == IF n = 1 THEN [b EXCEPT !.flag = Weighed(w[1], b, 3)] ELSE Behind1(s, w[n])
           G == [p \in (1..Len(w)) \X KeywordStates |-> Step(p[1], p[2])]
           Unfolds(f) == f = [n \in 0..Len(w) |->
                                IF n = 0 THEN b
                                ELSE IF n = 1 THEN [b EXCEPT !.flag = Weighed(w[1], b, 3)]
                                ELSE Behind1(f[n - 1], w[n])]
<1>1. b \in KeywordStates
  BY DEF KeywordStates
<1>2. \A n \in 1..Len(w) : \A s \in KeywordStates : G[<<n, s>>] = Step(n, s)
  OBVIOUS
<1>3. ASSUME NEW n \in 1..Len(w), NEW s \in KeywordStates PROVE Step(n, s) \in KeywordStates
  <2>1. s.flag \in 0..4 /\ s.effect \in 0..2 /\ Signed(w[n])
        /\ s = [flag |-> s.flag, effect |-> s.effect]
    BY DEF KeywordStates
  <2>2. CASE n = 1
    <3>1. Weighed(w[1], b, 3) \in 0..4
      BY DEF Weighed
    <3>2. [b EXCEPT !.flag = Weighed(w[1], b, 3)] = [flag |-> Weighed(w[1], b, 3), effect |-> 0]
      OBVIOUS
    <3> HIDE DEF b
    <3> QED
      BY <2>2, <3>1, <3>2 DEF KeywordStates
  <2>3. CASE n # 1
    BY <2>1, <2>3, BehindShape
  <2> QED
    BY <2>2, <2>3
<1>4. PICK f : Scans(f, Len(w), KeywordStates, b, G)
  <2> HIDE DEF G, Step, b
  <2>1. Stays(Len(w), KeywordStates, G)
    BY <1>2, <1>3 DEF Stays
  <2> QED
    BY <1>1, <2>1, Scan
<1>5. \A n \in 1..Len(w) : n \in 0..Len(w) /\ n # 0 /\ n - 1 \in 0..Len(w)
  OBVIOUS
<1>6. Unfolds(f)
  <2>1. f \in [0..Len(w) -> KeywordStates] /\ f[0] = b
    BY <1>4 DEF Scans
  <2>2. \A n \in 1..Len(w) : f[n] = Step(n, f[n - 1])
    <3> HIDE DEF Step, G, b
    <3> QED
      BY <1>2, <1>4, <1>5, <2>1 DEF Scans
  <2>3. \A n \in 0..Len(w) : n = 0 \/ n \in 1..Len(w)
    OBVIOUS
  <2>4. \A n \in 0..Len(w) : f[n] = IF n = 0 THEN b ELSE Step(n, f[n - 1])
    <3> HIDE DEF Step, b
    <3> QED
      BY <2>1, <2>2, <2>3
  <2> QED
    BY <2>1, <2>4
<1>7. ScanBehind(found, w) = CHOOSE g : Unfolds(g)
  BY DEF ScanBehind
<1>8. Unfolds(ScanBehind(found, w))
  <2> HIDE DEF Unfolds
  <2> QED
    BY <1>6, <1>7
<1> DEFINE g == ScanBehind(found, w)
<1>9. g = [n \in 0..Len(w) |-> IF n = 0 THEN b ELSE Step(n, g[n - 1])]
  BY <1>8
<1> HIDE DEF g, b, Step
<1>10. 0 \in 0..Len(w)
  OBVIOUS
<1>11. g[0] = b /\ \A n \in 1..Len(w) : g[n] = Step(n, g[n - 1])
  BY <1>5, <1>9, <1>10
<1>12. Len(w) > 0 => g[1] = [flag |-> Weighed(w[1], g[0], 3), effect |-> 0]
  <2>1. [b EXCEPT !.flag = Weighed(w[1], b, 3)] = [flag |-> Weighed(w[1], b, 3), effect |-> 0]
    BY DEF b
  <2>2. Len(w) > 0 => g[1] = Step(1, g[1 - 1])
    BY <1>11
  <2> QED
    BY <1>11, <2>1, <2>2 DEF Step
<1>13. \A n \in 2..Len(w) : g[n] = Behind1(g[n - 1], w[n])
  BY <1>11 DEF Step
<1> QED
  BY <1>11, <1>12, <1>13 DEF g, b

LEMMA ScanBracketsUnfolds ==
  ASSUME NEW w, Len(w) \in Nat, \A n \in 1..Len(w) : Signed(w[n])
  PROVE  /\ ScanBrackets(w)[0] = [flag |-> 0, cache |-> 0]
         /\ \A n \in 1..Len(w) : ScanBrackets(w)[n] = Couple(ScanBrackets(w)[n - 1], w[n])
<1> DEFINE b == [flag |-> 0, cache |-> 0]
           G == [p \in (1..Len(w)) \X BracketStates |-> Couple(p[2], w[p[1]])]
           Unfolds(f) == f = [n \in 0..Len(w) |-> IF n = 0 THEN b ELSE Couple(f[n - 1], w[n])]
<1>1. b \in BracketStates
  BY DEF BracketStates
<1>2. \A n \in 1..Len(w) : \A s \in BracketStates : G[<<n, s>>] = Couple(s, w[n])
  OBVIOUS
<1>3. ASSUME NEW n \in 1..Len(w), NEW s \in BracketStates PROVE Couple(s, w[n]) \in BracketStates
  <2> DEFINE cache == IF w[n].close THEN s.cache + 1 ELSE s.cache
  <2>1. s \in [flag : Int, cache : Int] /\ s.flag \in Int /\ s.cache \in Int
    BY DEF BracketStates
  <2>2. cache \in Int /\ s.flag + 1 - cache \in Int
    BY <2>1
  <2> HIDE DEF cache
  <2>3. [flag |-> s.flag + 1 - cache, cache |-> 0] \in [flag : Int, cache : Int]
    BY <2>2
  <2>4. [s EXCEPT !.cache = cache] \in [flag : Int, cache : Int]
    BY <2>1, <2>2
  <2>5. Couple(s, w[n]) = IF w[n].open THEN [flag |-> s.flag + 1 - cache, cache |-> 0]
                                       ELSE [s EXCEPT !.cache = cache]
    BY DEF Couple, cache
  <2> QED
    BY <2>3, <2>4, <2>5 DEF BracketStates
<1> HIDE DEF G, b
<1>4. PICK f : Scans(f, Len(w), BracketStates, b, G)
  <2>1. Stays(Len(w), BracketStates, G)
    BY <1>2, <1>3 DEF Stays
  <2> QED
    BY <1>1, <2>1, Scan
<1>5. \A n \in 1..Len(w) : n \in 0..Len(w) /\ n # 0 /\ n - 1 \in 0..Len(w)
  OBVIOUS
<1>6. Unfolds(f)
  <2>1. f \in [0..Len(w) -> BracketStates] /\ f[0] = b
    BY <1>4 DEF Scans
  <2>2. \A n \in 1..Len(w) : f[n] = Couple(f[n - 1], w[n])
    BY <1>2, <1>4, <1>5, <2>1 DEF Scans
  <2>3. \A n \in 0..Len(w) : n = 0 \/ n \in 1..Len(w)
    OBVIOUS
  <2>4. \A n \in 0..Len(w) : f[n] = IF n = 0 THEN b ELSE Couple(f[n - 1], w[n])
    BY <2>1, <2>2, <2>3
  <2> QED
    BY <2>1, <2>4
<1>7. ScanBrackets(w) = CHOOSE g : Unfolds(g)
  BY DEF ScanBrackets, b
<1>8. Unfolds(ScanBrackets(w))
  <2> HIDE DEF Unfolds
  <2> QED
    BY <1>6, <1>7
<1>9. 0 \in 0..Len(w)
  OBVIOUS
<1> DEFINE g == ScanBrackets(w)
<1>10. g = [n \in 0..Len(w) |-> IF n = 0 THEN b ELSE Couple(g[n - 1], w[n])]
  BY <1>8
<1> HIDE DEF g
<1>11. g[0] = b /\ \A n \in 1..Len(w) : g[n] = Couple(g[n - 1], w[n])
  BY <1>5, <1>9, <1>10
<1> QED
  BY <1>11 DEF g, b

--------------------------------------------------------------------------------
(* What the scan for the keyword finds.                                       *)

Flag(b) == IF b THEN 1 ELSE 0
HasSign(w, a, n, x) == \E i \in a..n : w[i].stop = x

\* The i-th word counts: it is the keyword, and no sentence ends before it.
CountsAhead(w, i) == w[i].press /\ ~HasSign(w, 1, i - 1, 2)

\* After n words s has the strongest sign among them, and the farthest keyword that
\* counts.
AheadSays(w, n, s) ==
  /\ s.effect = IF HasSign(w, 1, n, 2) THEN 2 ELSE Flag(HasSign(w, 1, n, 1))
  /\ \/ s.flag = 0 /\ \A i \in 1..n : ~CountsAhead(w, i)
     \/ \E l \in 1..n :
          /\ CountsAhead(w, l) /\ \A i \in (l + 1)..n : ~CountsAhead(w, i)
          /\ s.flag = 1 + Flag(HasSign(w, 1, l - 1, 1))

LEMMA AheadOne ==
  ASSUME NEW w, NEW n \in Nat, Signed(w[n + 1]), NEW s, AheadSays(w, n, s)
  PROVE  AheadSays(w, n + 1, Ahead1(s, w[n + 1]))
<1> DEFINE e == w[n + 1]
           t == Ahead1(s, e)
<1>1. t.flag = Weighed(e, s, 1) /\ t.effect = Larger(s.effect, e.stop)
  BY DEF Ahead1
<1>2. \A x : HasSign(w, 1, n + 1, x) <=> HasSign(w, 1, n, x) \/ e.stop = x
  <2>1. \A i : i \in 1..(n + 1) <=> i \in 1..n \/ i = n + 1
    OBVIOUS
  <2> QED
    BY <2>1 DEF HasSign
<1>3. e.stop \in {0, 1, 2} /\ e.press \in BOOLEAN
  BY DEF Signed
<1>4. s.effect = IF HasSign(w, 1, n, 2) THEN 2 ELSE Flag(HasSign(w, 1, n, 1))
  BY DEF AheadSays
<1>5. CountsAhead(w, n + 1) <=> e.press /\ s.effect < 2
  <2>1. (n + 1) - 1 = n
    OBVIOUS
  <2> QED
    BY <1>4, <2>1 DEF CountsAhead, Flag
<1> HIDE DEF t, e
<1>6. t.effect = IF HasSign(w, 1, n + 1, 2) THEN 2 ELSE Flag(HasSign(w, 1, n + 1, 1))
  BY <1>1, <1>2, <1>3, <1>4 DEF Larger, Flag
<1>7. \A i \in 1..(n + 1) : i \in 1..n \/ i = n + 1
  OBVIOUS
<1>8. CASE CountsAhead(w, n + 1)
  <2>1. t.flag = 1 + Flag(HasSign(w, 1, (n + 1) - 1, 1))
    <3>1. (n + 1) - 1 = n
      OBVIOUS
    <3> QED
      BY <1>1, <1>4, <1>5, <1>8, <3>1 DEF Weighed, Flag
  <2>2. n + 1 \in 1..(n + 1) /\ ((n + 1) + 1)..(n + 1) = {}
    OBVIOUS
  <2>3. AheadSays(w, n + 1, t)
    BY <1>6, <1>8, <2>1, <2>2 DEF AheadSays
  <2> QED
    BY <2>3 DEF t, e
<1>9. CASE ~CountsAhead(w, n + 1)
  <2>1. t.flag = s.flag
    BY <1>1, <1>5, <1>9 DEF Weighed
  <2>2. CASE s.flag = 0 /\ \A i \in 1..n : ~CountsAhead(w, i)
    <3>1. AheadSays(w, n + 1, t)
      BY <1>6, <1>7, <1>9, <2>1, <2>2 DEF AheadSays
    <3> QED
      BY <3>1 DEF t, e
  <2>3. CASE \E l \in 1..n :
               /\ CountsAhead(w, l) /\ \A i \in (l + 1)..n : ~CountsAhead(w, i)
               /\ s.flag = 1 + Flag(HasSign(w, 1, l - 1, 1))
    <3>1. PICK l \in 1..n :
               /\ CountsAhead(w, l) /\ \A i \in (l + 1)..n : ~CountsAhead(w, i)
               /\ s.flag = 1 + Flag(HasSign(w, 1, l - 1, 1))
      BY <2>3
    <3>2. l \in 1..(n + 1) /\ \A i \in (l + 1)..(n + 1) : ~CountsAhead(w, i)
      <4>1. \A i \in (l + 1)..(n + 1) : i \in (l + 1)..n \/ i = n + 1
        OBVIOUS
      <4> QED
        BY <1>9, <3>1, <4>1
    <3>3. AheadSays(w, n + 1, t)
      BY <1>6, <2>1, <3>1, <3>2 DEF AheadSays
    <3> QED
      BY <3>3 DEF t, e
  <2> QED
    BY <2>2, <2>3 DEF AheadSays
<1> QED
  BY <1>8, <1>9

LEMMA AheadFinds ==
  ASSUME NEW w, Len(w) \in Nat, \A n \in 1..Len(w) : Signed(w[n])
  PROVE  AheadSays(w, Len(w), ScanAhead(w)[Len(w)])
<1> DEFINE K == {n \in Nat : n <= Len(w) => AheadSays(w, n, ScanAhead(w)[n])}
<1>1. 0 \in K
  BY ScanAheadUnfolds DEF AheadSays, HasSign, Flag
<1>2. ASSUME NEW n \in Nat, n \in K PROVE n + 1 \in K
  <2> SUFFICES ASSUME n + 1 <= Len(w) PROVE AheadSays(w, n + 1, ScanAhead(w)[n + 1])
    OBVIOUS
  <2>1. n + 1 \in 1..Len(w) /\ (n + 1) - 1 = n
    OBVIOUS
  <2>2. ScanAhead(w)[n + 1] = Ahead1(ScanAhead(w)[(n + 1) - 1], w[n + 1])
    BY <2>1, ScanAheadUnfolds
  <2> QED
    BY <1>2, <2>1, <2>2, AheadOne
<1> HIDE DEF K
<1>3. Len(w) \in K
  BY <1>1, <1>2, Induction
<1> QED
  BY <1>3 DEF K

\* The same among the words gone by, of which the first is the current word: the sign
\* after it is not looked at.
CountsBehind(w, i) == w[i].press /\ ~HasSign(w, 2, i, 2)

BehindSays(w, n, s, found) ==
  /\ s.effect = IF HasSign(w, 2, n, 2) THEN 2 ELSE Flag(HasSign(w, 2, n, 1))
  /\ \/ s.flag = found /\ \A i \in 1..n : ~CountsBehind(w, i)
     \/ \E l \in 1..n :
          /\ CountsBehind(w, l) /\ \A i \in (l + 1)..n : ~CountsBehind(w, i)
          /\ s.flag = 3 + Flag(HasSign(w, 2, l, 1))

LEMMA BehindOne ==
  ASSUME NEW w, NEW n \in Nat, n > 0, Signed(w[n + 1]), NEW found,
         NEW s \in KeywordStates, BehindSays(w, n, s, found)
  PROVE  BehindSays(w, n + 1, Behind1(s, w[n + 1]), found)
<1> DEFINE e == w[n + 1]
           t == Behind1(s, e)
           top == Larger(s.effect, e.stop)
<1>1. t.flag = Weighed(e, [flag |-> s.flag, effect |-> top], 3) /\ t.effect = top
  BY BehindShape
<1>2. \A x : HasSign(w, 2, n + 1, x) <=> HasSign(w, 2, n, x) \/ e.stop = x
  <2>1. \A i : i \in 2..(n + 1) <=> i \in 2..n \/ i = n + 1
    OBVIOUS
  <2> QED
    BY <2>1 DEF HasSign
<1>3. e.stop \in {0, 1, 2} /\ e.press \in BOOLEAN
  BY DEF Signed
<1>4. s.effect = IF HasSign(w, 2, n, 2) THEN 2 ELSE Flag(HasSign(w, 2, n, 1))
  BY DEF BehindSays
<1>5. CountsBehind(w, n + 1) <=> e.press /\ ~HasSign(w, 2, n + 1, 2)
  BY DEF CountsBehind
<1> HIDE DEF t, e, top
<1>6. top = IF HasSign(w, 2, n + 1, 2) THEN 2 ELSE Flag(HasSign(w, 2, n + 1, 1))
  BY <1>2, <1>3, <1>4 DEF Larger, Flag, top
<1>7. top < 2 <=> ~HasSign(w, 2, n + 1, 2)
  BY <1>6 DEF Flag
<1>8. \A i \in 1..(n + 1) : i \in 1..n \/ i = n + 1
  OBVIOUS
<1>9. CASE CountsBehind(w, n + 1)
  <2>1. t.flag = 3 + Flag(HasSign(w, 2, n + 1, 1))
    BY <1>1, <1>5, <1>6, <1>7, <1>9 DEF Weighed
  <2>2. n + 1 \in 1..(n + 1) /\ ((n + 1) + 1)..(n + 1) = {}
    OBVIOUS
  <2>3. BehindSays(w, n + 1, t, found)
    BY <1>1, <1>6, <1>9, <2>1, <2>2 DEF BehindSays
  <2> QED
    BY <2>3 DEF t, e
<1>10. CASE ~CountsBehind(w, n + 1)
  <2>1. t.flag = s.flag
    BY <1>1, <1>5, <1>7, <1>10 DEF Weighed
  <2>2. CASE s.flag = found /\ \A i \in 1..n : ~CountsBehind(w, i)
    <3>1. BehindSays(w, n + 1, t, found)
      BY <1>1, <1>6, <1>8, <1>10, <2>1, <2>2 DEF BehindSays
    <3> QED
      BY <3>1 DEF t, e
  <2>3. CASE \E l \in 1..n :
               /\ CountsBehind(w, l) /\ \A i \in (l + 1)..n : ~CountsBehind(w, i)
               /\ s.flag = 3 + Flag(HasSign(w, 2, l, 1))
    <3>1. PICK l \in 1..n :
               /\ CountsBehind(w, l) /\ \A i \in (l + 1)..n : ~CountsBehind(w, i)
               /\ s.flag = 3 + Flag(HasSign(w, 2, l, 1))
      BY <2>3
    <3>2. l \in 1..(n + 1) /\ \A i \in (l + 1)..(n + 1) : ~CountsBehind(w, i)
      <4>1. \A i \in (l + 1)..(n + 1) : i \in (l + 1)..n \/ i = n + 1
        OBVIOUS
      <4> QED
        BY <1>10, <3>1, <4>1
    <3>3. BehindSays(w, n + 1, t, found)
      BY <1>1, <1>6, <2>1, <3>1, <3>2 DEF BehindSays
    <3> QED
      BY <3>3 DEF t, e
  <2> QED
    BY <2>2, <2>3 DEF BehindSays
<1> QED
  BY <1>9, <1>10

LEMMA BehindFinds ==
  ASSUME NEW found \in 0..4, NEW w, Len(w) \in Nat, \A n \in 1..Len(w) : Signed(w[n])
  PROVE  BehindSays(w, Len(w), ScanBehind(found, w)[Len(w)], found)
<1> DEFINE s == ScanBehind(found, w)
           K == {n \in Nat : n <= Len(w) => s[n] \in KeywordStates /\ BehindSays(w, n, s[n], found)}
<1>1. /\ s[0] = [flag |-> found, effect |-> 0]
      /\ Len(w) > 0 => s[1] = [flag |-> Weighed(w[1], s[0], 3), effect |-> 0]
      /\ \A n \in 2..Len(w) : s[n] = Behind1(s[n - 1], w[n])
  BY ScanBehindUnfolds
<1> HIDE DEF s
<1>2. 0 \in K
  BY <1>1 DEF BehindSays, HasSign, Flag, KeywordStates
<1>3. ASSUME NEW n \in Nat, n \in K PROVE n + 1 \in K
  <2> SUFFICES ASSUME n + 1 <= Len(w)
               PROVE  s[n + 1] \in KeywordStates /\ BehindSays(w, n + 1, s[n + 1], found)
    OBVIOUS
  <2>1. CASE n = 0
    <3>1. s[1].effect = 0 /\ s[1].flag = (IF w[1].press THEN 3 ELSE found) /\ s[1] \in KeywordStates
      BY <1>1, <2>1 DEF Weighed, KeywordStates
    <3>2. \A x : ~HasSign(w, 2, 1, x)
      BY DEF HasSign
    <3>3. w[1].press \in BOOLEAN
      BY <2>1 DEF Signed
    <3>4. CountsBehind(w, 1) <=> w[1].press
      BY <3>2 DEF CountsBehind
    <3>5. 1..1 = {1} /\ (1 + 1)..1 = {}
      OBVIOUS
    <3>6. CASE w[1].press
      BY <2>1, <3>1, <3>2, <3>4, <3>5, <3>6 DEF BehindSays, Flag
    <3>7. CASE ~w[1].press
      BY <2>1, <3>1, <3>2, <3>4, <3>5, <3>7 DEF BehindSays, Flag
    <3> QED
      BY <3>3, <3>6, <3>7
  <2>2. CASE n # 0
    <3>1. n + 1 \in 2..Len(w) /\ (n + 1) - 1 = n /\ n > 0 /\ n + 1 \in 1..Len(w)
      BY <2>2
    <3>2. s[n + 1] = Behind1(s[n], w[n + 1])
      <4>1. s[n + 1] = Behind1(s[(n + 1) - 1], w[n + 1])
        BY <1>1, <3>1
      <4> QED
        BY <3>1, <4>1
    <3>3. s[n] \in KeywordStates /\ BehindSays(w, n, s[n], found) /\ Signed(w[n + 1])
      BY <1>3, <3>1
    <3> QED
      BY <3>1, <3>2, <3>3, BehindShape, BehindOne
  <2> QED
    BY <2>1, <2>2
<1> HIDE DEF K
<1>4. Len(w) \in K
  BY <1>2, <1>3, Induction
<1> QED
  BY <1>4 DEF K, s

--------------------------------------------------------------------------------
(* The rows say what the scans found.                                         *)

\* The words in sight of the k-th one of a text t, the nearest first.
AheadOf(t, k) == [i \in 1..(MinOf(Len(t) - k, CNSQSIZE - 2) - 1) |-> t[k + i]]
BehindOf(t, k) == [i \in 1..MinOf(k - 1, CNSQSIZE - 1) |-> t[k - i + 1]]

RowScans(t, r, k) ==
  /\ r.press = pressFlag(AheadOf(t, k), BehindOf(t, k))
  /\ r.pare <=> inBrackets(BehindOf(t, k))

Scanned == Len(rows) <= Len(doc) /\ \A k \in 1..Len(rows) : RowScans(doc, rows[k], k)

\* The words that the scans visit are the words in sight.
LEMMA VisitedAre ==
  ASSUME IInv, pc = "features"
  PROVE  /\ TheWords(Ahead) = AheadOf(doc, Len(spans))
         /\ TheWords(Behind) = BehindOf(doc, Len(spans))
<1> DEFINE d == Len(spans)
           n == MinOf(Len(doc) - d, CNSQSIZE - 2) - 1
           m == MinOf(d - 1, CNSQSIZE - 1)
           r == [word |-> At(nextQ, pCNS), last |-> At(preQ, lpCNS), next |-> At(nextQ, npCNS),
                 ahead |-> Ahead, behind |-> Behind]
<1>1. RowOf(doc, r, Len(spans))
  BY RowIsTold
<1>2. Ahead = [i \in 1..n |-> d + i] /\ Behind = [i \in 1..m |-> d - i + 1]
  BY <1>1 DEF RowOf
<1> HIDE DEF r
<1>3. TheWords(Ahead) = [i \in 1..n |-> doc[d + i]]
  <2> HIDE DEF n, d
  <2> QED
    BY <1>2 DEF TheWords
<1>4. TheWords(Behind) = [i \in 1..m |-> doc[d - i + 1]]
  <2> HIDE DEF m, d
  <2> QED
    BY <1>2 DEF TheWords
<1> QED
  BY <1>3, <1>4 DEF AheadOf, BehindOf

LEMMA ScannedStep ==
  ASSUME IInv, Scanned, [Next]_vars
  PROVE  Scanned'
<1>1. CASE Features
  <2>1. pc = "features" /\ doc' = doc
    BY <1>1 DEF Features, input
  <2>2. PICK d \in 1..Len(doc) : d = Len(spans)
    BY <2>1, NextMissingAtEnd
  <2>3. Len(rows) = d - 1 /\ Len(rows) \in Nat /\ Len(doc) \in Nat /\ IsSequence(rows)
    BY <2>1, <2>2, Numbers DEF IInv, Places, Kinds
  <2>4. CASE NextMissing \/ BeforeParenMissing
    <3>1. rows' = rows
      BY <1>1, <2>4 DEF Features, End
    <3> QED
      BY <2>1, <3>1 DEF Scanned
  <2>5. CASE ~(NextMissing \/ BeforeParenMissing)
    <3>1. PICK r : rows' = Append(rows, r)
                   /\ r.press = pressFlag(TheWords(Ahead), TheWords(Behind))
                   /\ r.pare = inBrackets(TheWords(Behind))
      BY <1>1, <2>5 DEF Features
    <3>2. RowScans(doc, r, d)
      BY <2>1, <2>2, <3>1, VisitedAre DEF RowScans
    <3>3. /\ Len(rows') = d
          /\ \A k \in 1..Len(rows) : rows'[k] = rows[k]
          /\ rows'[d] = r
      BY <2>3, <3>1, Appended
    <3>4. ASSUME NEW k \in 1..Len(rows') PROVE RowScans(doc, rows'[k], k)
      <4>1. CASE k \in 1..Len(rows)
        BY <3>3, <4>1 DEF Scanned
      <4>2. CASE k = d
        BY <3>2, <3>3, <4>2
      <4> QED
        BY <2>3, <3>3, <4>1, <4>2
    <3> QED
      BY <2>1, <2>3, <3>3, <3>4 DEF Scanned
  <2> QED
    BY <2>4, <2>5
<1>2. CASE ~Features
  <2>1. doc' = doc /\ rows' = rows
    BY <1>2 DEF Next, CreateTagger, Fill, Take, Store, Refill, Parse, vars, input, result
  <2> QED
    BY <2>1 DEF Scanned
<1> QED
  BY <1>1, <1>2

LEMMA ScannedAlways == Spec => []Scanned
<1>1. Init => Scanned
  <2> SUFFICES ASSUME Init PROVE Scanned
    OBVIOUS
  <2>1. Len(rows) = 0 /\ Len(doc) \in Nat /\ 1..Len(rows) = {}
    BY TextType DEF Init
  <2> QED
    BY <2>1 DEF Scanned
<1>2. IInv /\ Scanned /\ [Next]_vars => Scanned'
  BY ScannedStep
<1> QED
  BY <1>1, <1>2, Invariant, PTL DEF Spec

\* The words in sight by their places in the text.
LEMMA InSight ==
  ASSUME doc \in Texts, NEW k \in 1..Len(doc)
  PROVE  LET N == Len(AheadOf(doc, k))
             M == Len(BehindOf(doc, k))
         IN  /\ N \in Nat /\ M \in Nat
             /\ \A i \in 1..N : AheadOf(doc, k)[i] = doc[k + i] /\ k + i \in Coming(k)
             /\ \A i \in 1..M : BehindOf(doc, k)[i] = doc[k - i + 1] /\ k - i + 1 \in Past(k)
             /\ \A j \in Coming(k) : j - k \in 1..N /\ j \in Nat
             /\ \A j \in Past(k) : k - j + 1 \in 1..M /\ j \in Nat
             /\ \A i \in 1..N : Signed(AheadOf(doc, k)[i])
             /\ \A i \in 1..M : Signed(BehindOf(doc, k)[i])
<1> DEFINE x == MinOf(Len(doc) - k, CNSQSIZE - 2) - 1
           N == IF x < 0 THEN 0 ELSE x
           M == MinOf(k - 1, CNSQSIZE - 1)
<1>1. Len(doc) \in Nat /\ CNSQSIZE \in Nat /\ CNSQSIZE > 2 /\ k \in Nat
      /\ \A j \in 1..Len(doc) : doc[j] \in Word
  BY TextType, PredictAssumption, CNSQAssumption
<1>2. N \in Nat /\ 1..x = 1..N /\ M \in Nat
  BY <1>1 DEF MinOf
<1>3. \A i : i \in 1..N <=> /\ i \in Int /\ i >= 1 /\ i <= Len(doc) - k - 1 /\ i <= CNSQSIZE - 3
  BY <1>1 DEF MinOf
<1>4. \A i : i \in 1..M <=> /\ i \in Int /\ i >= 1 /\ i <= k - 1 /\ i <= CNSQSIZE - 1
  BY <1>1 DEF MinOf
<1>5. AheadOf(doc, k) = [i \in 1..N |-> doc[k + i]]
  BY <1>2 DEF AheadOf
<1>6. BehindOf(doc, k) = [i \in 1..M |-> doc[k - i + 1]]
  BY DEF BehindOf
<1> HIDE DEF x, N, M
<1>7. Len(AheadOf(doc, k)) = N /\ Len(BehindOf(doc, k)) = M
  BY <1>2, <1>5, <1>6
<1>8. \A i \in 1..N : AheadOf(doc, k)[i] = doc[k + i]
  BY <1>5
<1>9. \A i \in 1..M : BehindOf(doc, k)[i] = doc[k - i + 1]
  BY <1>6
<1>10. \A i \in 1..N : k + i \in Coming(k) /\ k + i \in 1..Len(doc)
  BY <1>1, <1>3 DEF Coming
<1>11. \A i \in 1..M : k - i + 1 \in Past(k) /\ k - i + 1 \in 1..Len(doc)
  BY <1>1, <1>4 DEF Past
<1>12. \A j \in Coming(k) : j - k \in 1..N /\ j \in Nat
  BY <1>1, <1>3 DEF Coming
<1>13. ASSUME NEW j \in Past(k) PROVE k - j + 1 \in 1..M /\ j \in Nat
  <2>1. j \in 2..k /\ j > k - CNSQSIZE + 1
    BY DEF Past
  <2>2. k - j + 1 \in Int /\ k - j + 1 >= 1 /\ k - j + 1 <= k - 1 /\ k - j + 1 <= CNSQSIZE - 1
    BY <1>1, <2>1
  <2> QED
    BY <1>1, <1>4, <2>1, <2>2
<1>14. \A j \in 1..Len(doc) : Signed(doc[j])
  BY <1>1 DEF Word, Signed
<1> QED
  BY <1>2, <1>7, <1>8, <1>9, <1>10, <1>11, <1>12, <1>13, <1>14

LEMMA LargestIs ==
  ASSUME NEW S, S \subseteq Int, NEW j \in S, \A l \in S : l <= j
  PROVE  LargestOf(S) = j
<1>1. LargestOf(S) \in S /\ \A l \in S : l <= LargestOf(S)
  BY DEF LargestOf
<1> HIDE DEF LargestOf
<1>2. LargestOf(S) \in Int /\ j \in Int
  BY <1>1
<1>3. LargestOf(S) <= j /\ j <= LargestOf(S)
  BY <1>1
<1> QED
  BY <1>2, <1>3

LEMMA SmallestIs ==
  ASSUME NEW S, S \subseteq Int, NEW j \in S, \A l \in S : l >= j
  PROVE  SmallestOf(S) = j
<1>1. SmallestOf(S) \in S /\ \A l \in S : l >= SmallestOf(S)
  BY DEF SmallestOf
<1> HIDE DEF SmallestOf
<1>2. SmallestOf(S) \in Int /\ j \in Int
  BY <1>1
<1>3. SmallestOf(S) >= j /\ j >= SmallestOf(S)
  BY <1>1
<1> QED
  BY <1>2, <1>3

\* The keywords ahead: those in sight that count are those of the sentence to come.
LEMMA KeywordsAhead ==
  ASSUME doc \in Texts, NEW k \in 1..Len(doc)
  PROVE  LET A == AheadOf(doc, k)
             ahead == {j \in Coming(k) : doc[j].press /\ OneSentence(k + 1, j)}
         IN  ScanAhead(A)[Len(A)].flag =
               IF ahead # {} THEN 1 + Comma(k + 1, LargestOf(ahead)) ELSE 0
<1> DEFINE A == AheadOf(doc, k)
           N == Len(A)
           s == ScanAhead(A)[N]
           ahead == {j \in Coming(k) : doc[j].press /\ OneSentence(k + 1, j)}
<1>1. /\ N \in Nat /\ k \in Nat
      /\ \A i \in 1..N : A[i] = doc[k + i] /\ k + i \in Coming(k)
      /\ \A j \in Coming(k) : j - k \in 1..N /\ j \in Nat
      /\ \A i \in 1..N : Signed(A[i])
  <2>1. k \in Nat
    BY TextType
  <2>2. /\ N \in Nat
        /\ \A i \in 1..N : A[i] = doc[k + i] /\ k + i \in Coming(k)
        /\ \A j \in Coming(k) : j - k \in 1..N /\ j \in Nat
        /\ \A i \in 1..N : Signed(A[i])
    BY InSight
  <2> QED
    BY <2>1, <2>2
<1> HIDE DEF A
<1>2. AheadSays(A, N, s)
  BY <1>1, AheadFinds
<1> HIDE DEF s
<1>3. ASSUME NEW i \in 1..N, NEW x
      PROVE  HasSign(A, 1, i - 1, x) <=> \E n \in (k + 1)..((k + i) - 1) : doc[n].stop = x
  <2>1. \A a \in 1..(i - 1) : a \in 1..N /\ k + a \in (k + 1)..((k + i) - 1)
    BY <1>1
  <2>2. \A n \in (k + 1)..((k + i) - 1) : n - k \in 1..(i - 1) /\ k + (n - k) = n
    BY <1>1
  <2>3. ASSUME HasSign(A, 1, i - 1, x)
        PROVE  \E n \in (k + 1)..((k + i) - 1) : doc[n].stop = x
    <3>1. PICK a \in 1..(i - 1) : A[a].stop = x
      BY <2>3 DEF HasSign
    <3> QED
      BY <1>1, <2>1, <3>1
  <2>4. ASSUME NEW n \in (k + 1)..((k + i) - 1), doc[n].stop = x
        PROVE  HasSign(A, 1, i - 1, x)
    <3>1. n - k \in 1..(i - 1) /\ A[n - k] = doc[n]
      BY <1>1, <2>1, <2>2
    <3> QED
      BY <2>4, <3>1 DEF HasSign
  <2> QED
    BY <2>3, <2>4
<1>4. \A i \in 1..N : CountsAhead(A, i) <=> k + i \in ahead
  BY <1>1, <1>3 DEF CountsAhead, OneSentence
<1>5. \A j \in ahead : j - k \in 1..N /\ CountsAhead(A, j - k) /\ j \in Nat
  <2> TAKE j \in ahead
  <2>1. j \in Coming(k)
    OBVIOUS
  <2>2. j - k \in 1..N /\ k + (j - k) = j /\ j \in Nat
    BY <1>1, <2>1
  <2> QED
    BY <1>4, <2>2
<1>6. CASE s.flag = 0 /\ \A i \in 1..N : ~CountsAhead(A, i)
  <2>1. ahead = {}
    BY <1>5, <1>6
  <2> QED
    BY <1>6, <2>1 DEF s, A
<1>7. CASE \E l \in 1..N :
              /\ CountsAhead(A, l) /\ \A i \in (l + 1)..N : ~CountsAhead(A, i)
              /\ s.flag = 1 + Flag(HasSign(A, 1, l - 1, 1))
  <2>1. PICK l \in 1..N :
              /\ CountsAhead(A, l) /\ \A i \in (l + 1)..N : ~CountsAhead(A, i)
              /\ s.flag = 1 + Flag(HasSign(A, 1, l - 1, 1))
    BY <1>7
  <2>2. k + l \in ahead
    BY <1>4, <2>1
  <2> HIDE DEF ahead
  <2>3. \A j \in ahead : j <= k + l
    <3> SUFFICES ASSUME NEW j \in ahead, j > k + l PROVE FALSE
      BY <1>1, <1>5
    <3>1. j - k \in (l + 1)..N
      BY <1>1, <1>5
    <3> QED
      BY <1>5, <2>1, <3>1
  <2>4. LargestOf(ahead) = k + l
    <3>1. ahead \subseteq Int
      BY <1>5
    <3> QED
      BY <2>2, <2>3, <3>1, LargestIs
  <2>5. Comma(k + 1, k + l) = Flag(HasSign(A, 1, l - 1, 1))
    BY <1>3 DEF Comma, Flag
  <2> QED
    BY <2>1, <2>2, <2>4, <2>5 DEF s, A, ahead
<1> QED
  BY <1>2, <1>6, <1>7 DEF AheadSays

\* And the keywords behind, those of the sentence gone by.
LEMMA KeywordsBehind ==
  ASSUME doc \in Texts, NEW k \in 1..Len(doc), NEW found \in 0..4
  PROVE  LET B == BehindOf(doc, k)
             behind == {j \in Past(k) : doc[j].press /\ OneSentence(j, k)}
         IN  ScanBehind(found, B)[Len(B)].flag =
               IF behind # {} THEN 3 + Comma(SmallestOf(behind), k) ELSE found
<1> DEFINE B == BehindOf(doc, k)
           M == Len(B)
           s == ScanBehind(found, B)[M]
           behind == {j \in Past(k) : doc[j].press /\ OneSentence(j, k)}
<1>1. /\ M \in Nat /\ k \in Nat
      /\ \A i \in 1..M : B[i] = doc[k - i + 1] /\ k - i + 1 \in Past(k)
      /\ \A j \in Past(k) : k - j + 1 \in 1..M /\ j \in Nat
      /\ \A i \in 1..M : Signed(B[i])
  <2>1. k \in Nat
    BY TextType
  <2>2. /\ M \in Nat
        /\ \A i \in 1..M : B[i] = doc[k - i + 1] /\ k - i + 1 \in Past(k)
        /\ \A j \in Past(k) : k - j + 1 \in 1..M /\ j \in Nat
        /\ \A i \in 1..M : Signed(B[i])
    BY InSight
  <2> QED
    BY <2>1, <2>2
<1> HIDE DEF B
<1>2. BehindSays(B, M, s, found)
  BY <1>1, BehindFinds
<1> HIDE DEF s
<1>3. ASSUME NEW i \in 1..M, NEW x
      PROVE  HasSign(B, 2, i, x) <=> \E n \in (k - i + 1)..(k - 1) : doc[n].stop = x
  <2>1. \A a \in 2..i : a \in 1..M /\ k - a + 1 \in (k - i + 1)..(k - 1)
    BY <1>1
  <2>2. \A n \in (k - i + 1)..(k - 1) : k - n + 1 \in 2..i /\ k - (k - n + 1) + 1 = n
    BY <1>1
  <2>3. ASSUME HasSign(B, 2, i, x)
        PROVE  \E n \in (k - i + 1)..(k - 1) : doc[n].stop = x
    <3>1. PICK a \in 2..i : B[a].stop = x
      BY <2>3 DEF HasSign
    <3> QED
      BY <1>1, <2>1, <3>1
  <2>4. ASSUME NEW n \in (k - i + 1)..(k - 1), doc[n].stop = x
        PROVE  HasSign(B, 2, i, x)
    <3>1. k - n + 1 \in 2..i /\ B[k - n + 1] = doc[n]
      BY <1>1, <2>1, <2>2
    <3> QED
      BY <2>4, <3>1 DEF HasSign
  <2> QED
    BY <2>3, <2>4
<1>4. \A i \in 1..M : CountsBehind(B, i) <=> k - i + 1 \in behind
  BY <1>1, <1>3 DEF CountsBehind, OneSentence
<1>5. \A j \in behind : k - j + 1 \in 1..M /\ CountsBehind(B, k - j + 1) /\ j \in Nat
  <2> TAKE j \in behind
  <2>1. j \in Past(k)
    OBVIOUS
  <2>2. k - j + 1 \in 1..M /\ k - (k - j + 1) + 1 = j /\ j \in Nat
    BY <1>1, <2>1
  <2> QED
    BY <1>4, <2>2
<1>6. CASE s.flag = found /\ \A i \in 1..M : ~CountsBehind(B, i)
  <2>1. behind = {}
    BY <1>5, <1>6
  <2> QED
    BY <1>6, <2>1 DEF s, B
<1>7. CASE \E l \in 1..M :
              /\ CountsBehind(B, l) /\ \A i \in (l + 1)..M : ~CountsBehind(B, i)
              /\ s.flag = 3 + Flag(HasSign(B, 2, l, 1))
  <2>1. PICK l \in 1..M :
              /\ CountsBehind(B, l) /\ \A i \in (l + 1)..M : ~CountsBehind(B, i)
              /\ s.flag = 3 + Flag(HasSign(B, 2, l, 1))
    BY <1>7
  <2>2. k - l + 1 \in behind
    BY <1>4, <2>1
  <2> HIDE DEF behind
  <2>3. \A j \in behind : j >= k - l + 1
    <3> SUFFICES ASSUME NEW j \in behind, j < k - l + 1 PROVE FALSE
      BY <1>1, <1>5
    <3>1. k - j + 1 \in (l + 1)..M
      BY <1>1, <1>5
    <3> QED
      BY <1>5, <2>1, <3>1
  <2>4. SmallestOf(behind) = k - l + 1
    <3>1. behind \subseteq Int
      BY <1>5
    <3> QED
      BY <2>2, <2>3, <3>1, SmallestIs
  <2>5. Comma(k - l + 1, k) = Flag(HasSign(B, 2, l, 1))
    BY <1>3 DEF Comma, Flag
  <2> QED
    BY <2>1, <2>2, <2>4, <2>5 DEF s, B, behind
<1> QED
  BY <1>2, <1>6, <1>7 DEF BehindSays

\* For every text and ring size the keyword that a row tells of is the farthest one in
\* sight of the word's sentence, those gone by before those to come.
THEOREM KeywordsRight == Spec => []KeywordsOfTheSentence
<1>1. IInv /\ Scanned => KeywordsOfTheSentence
  <2> SUFFICES ASSUME IInv, Scanned, NEW k \in DOMAIN rows
               PROVE  LET behind == {j \in Past(k) : doc[j].press /\ OneSentence(j, k)}
                          ahead == {j \in Coming(k) : doc[j].press /\ OneSentence(k + 1, j)}
                      IN  rows[k].press =
                            IF behind # {} THEN 3 + Comma(SmallestOf(behind), k)
                            ELSE IF ahead # {} THEN 1 + Comma(k + 1, LargestOf(ahead))
                            ELSE 0
    BY DEF KeywordsOfTheSentence
  <2> DEFINE A == AheadOf(doc, k)
             B == BehindOf(doc, k)
             found == ScanAhead(A)[Len(A)].flag
             ahead == {j \in Coming(k) : doc[j].press /\ OneSentence(k + 1, j)}
             behind == {j \in Past(k) : doc[j].press /\ OneSentence(j, k)}
  <2>1. doc \in Texts /\ k \in 1..Len(rows) /\ k \in 1..Len(doc)
    BY Numbers DEF IInv, Kinds, IsSequence, Scanned
  <2>2. rows[k].press = ScanBehind(found, B)[Len(B)].flag
    BY <2>1 DEF Scanned, RowScans, pressFlag
  <2>3. found = IF ahead # {} THEN 1 + Comma(k + 1, LargestOf(ahead)) ELSE 0
    BY <2>1, KeywordsAhead
  <2>4. found \in 0..4
    BY <2>3 DEF Comma
  <2>5. ScanBehind(found, B)[Len(B)].flag =
          IF behind # {} THEN 3 + Comma(SmallestOf(behind), k) ELSE found
    <3> HIDE DEF found
    <3> QED
      BY <2>1, <2>4, KeywordsBehind
  <2> HIDE DEF found, ahead, behind
  <2>6. rows[k].press = IF behind # {} THEN 3 + Comma(SmallestOf(behind), k)
                        ELSE IF ahead # {} THEN 1 + Comma(k + 1, LargestOf(ahead))
                        ELSE 0
    BY <2>2, <2>3, <2>5
  <2> QED
    BY <2>6 DEF ahead, behind
<1> QED
  BY <1>1, Invariant, ScannedAlways, PTL

--------------------------------------------------------------------------------
(* What the scan for brackets finds.                                          *)

LEMMA Grown ==
  ASSUME NEW S, IsFiniteSet(S), NEW x, x \notin S, NEW b \in BOOLEAN,
         NEW T, T = IF b THEN S \cup {x} ELSE S
  PROVE  Cardinality(T) = Cardinality(S) + Flag(b)
<1>1. Cardinality(S) \in Nat
  BY FS_CardinalityType
<1>2. Cardinality(S \cup {x}) = Cardinality(S) + 1
  BY FS_AddElement
<1>3. CASE b
  BY <1>2, <1>3 DEF Flag
<1>4. CASE ~b
  BY <1>1, <1>4 DEF Flag
<1> QED
  BY <1>3, <1>4

\* A word adds its opening bracket to those open and takes its closing one off.
LEMMA DepthNext ==
  ASSUME doc \in Texts
  PROVE  /\ Depth(0) = 0
         /\ \A n \in 0..Len(doc) : Depth(n) \in Int
         /\ \A n \in 1..Len(doc) :
              Depth(n) = Depth(n - 1) + Flag(doc[n].open) - Flag(doc[n].close)
<1> DEFINE O(n) == {j \in 1..n : doc[j].open}
           C(n) == {j \in 1..n : doc[j].close}
           o(n) == Cardinality(O(n))
           c(n) == Cardinality(C(n))
<1>1. Len(doc) \in Nat /\ \A n \in 1..Len(doc) : Signed(doc[n])
  <2>1. Len(doc) \in Nat /\ \A n \in 1..Len(doc) : doc[n] \in Word
    BY TextType
  <2> QED
    BY <2>1 DEF Word, Signed
<1>2. ASSUME NEW n \in 0..Len(doc)
      PROVE  IsFiniteSet(O(n)) /\ IsFiniteSet(C(n)) /\ o(n) \in Nat /\ c(n) \in Nat
  <2>1. n \in Int /\ 0 \in Int /\ 1 \in Int
    BY <1>1
  <2>2. IsFiniteSet(1..n)
    BY <2>1, FS_Interval
  <2>3. O(n) \in SUBSET (1..n) /\ C(n) \in SUBSET (1..n)
    OBVIOUS
  <2> HIDE DEF O, C
  <2> QED
    BY <2>2, <2>3, FS_Subset, FS_CardinalityType
<1>3. \A n \in 0..Len(doc) : Depth(n) = o(n) - c(n)
  BY DEF Depth
<1>4. Depth(0) = 0
  <2>1. O(0) = {} /\ C(0) = {} /\ 0 \in 0..Len(doc)
    BY <1>1
  <2> HIDE DEF O, C
  <2>2. o(0) = 0 /\ c(0) = 0
    BY <2>1, FS_EmptySet
  <2> QED
    BY <1>3, <2>1, <2>2
<1>5. ASSUME NEW n \in 1..Len(doc)
      PROVE  o(n) = o(n - 1) + Flag(doc[n].open) /\ c(n) = c(n - 1) + Flag(doc[n].close)
  <2>1. n - 1 \in 0..Len(doc) /\ doc[n].open \in BOOLEAN /\ doc[n].close \in BOOLEAN
    BY <1>1 DEF Signed
  <2>2. O(n) = IF doc[n].open THEN O(n - 1) \cup {n} ELSE O(n - 1)
    BY <2>1
  <2>3. C(n) = IF doc[n].close THEN C(n - 1) \cup {n} ELSE C(n - 1)
    BY <2>1
  <2>4. n \notin O(n - 1) /\ n \notin C(n - 1)
    OBVIOUS
  <2> HIDE DEF O, C
  <2>5. IsFiniteSet(O(n - 1)) /\ IsFiniteSet(C(n - 1))
    BY <1>2, <2>1
  <2>6. o(n) = o(n - 1) + Flag(doc[n].open)
    BY <2>1, <2>2, <2>4, <2>5, Grown
  <2>7. c(n) = c(n - 1) + Flag(doc[n].close)
    BY <2>1, <2>3, <2>4, <2>5, Grown
  <2> QED
    BY <2>6, <2>7
<1> HIDE DEF O, C, o, c
<1>6. \A n \in 0..Len(doc) : Depth(n) \in Int
  BY <1>2, <1>3
<1>7. ASSUME NEW n \in 1..Len(doc)
      PROVE  Depth(n) = Depth(n - 1) + Flag(doc[n].open) - Flag(doc[n].close)
  <2>1. n \in 0..Len(doc) /\ n - 1 \in 0..Len(doc)
    BY <1>1
  <2>2. Flag(doc[n].open) \in Int /\ Flag(doc[n].close) \in Int
    BY DEF Flag
  <2>3. o(n - 1) \in Nat /\ c(n - 1) \in Nat
    BY <1>2, <2>1
  <2>4. Depth(n) = o(n) - c(n) /\ Depth(n - 1) = o(n - 1) - c(n - 1)
    BY <1>3, <2>1
  <2> QED
    BY <1>5, <2>2, <2>3, <2>4
<1> QED
  BY <1>4, <1>6, <1>7

\* After n words the flag is the number of brackets opened since before the farthest
\* opening one, and the cache how many were closed since and before that word.
BracketsSay(w, k, n, c) ==
  /\ c \in BracketStates /\ c.cache >= 0
  /\ c.flag - c.cache = Depth(k) - Depth(k - n)
  /\ \/ c.flag = 0 /\ \A i \in 1..n : ~w[i].open
     \/ \E l \in 1..n : /\ w[l].open /\ \A i \in (l + 1)..n : ~w[i].open
                        /\ c.flag = Depth(k) - Depth(k - l)

LEMMA BracketOne ==
  ASSUME doc \in Texts, NEW k \in 1..Len(doc), NEW n \in Nat, n < k,
         NEW w, w[n + 1] = doc[k - n], NEW c, BracketsSay(w, k, n, c)
  PROVE  BracketsSay(w, k, n + 1, Couple(c, w[n + 1]))
<1> DEFINE e == w[n + 1]
           d == Couple(c, e)
           cache == c.cache + Flag(e.close)
<1>1. /\ Len(doc) \in Nat /\ k \in Nat /\ k - n \in 1..Len(doc) /\ k - (n + 1) = (k - n) - 1
      /\ k - n \in 0..Len(doc) /\ k - (n + 1) \in 0..Len(doc) /\ k \in 0..Len(doc)
  BY TextType
<1>2. /\ Depth(k - n) \in Int /\ Depth(k - (n + 1)) \in Int /\ Depth(k) \in Int
      /\ Depth(k - n) = Depth(k - (n + 1)) + Flag(e.open) - Flag(e.close)
  BY <1>1, DepthNext
<1>3. c.cache \in Int /\ c.flag \in Int /\ c.flag - c.cache = Depth(k) - Depth(k - n)
      /\ c = [flag |-> c.flag, cache |-> c.cache] /\ c.cache >= 0
  BY DEF BracketsSay, BracketStates
<1>4. cache \in Int /\ cache >= 0
  BY <1>3 DEF Flag
<1>5. \A i \in 1..(n + 1) : i \in 1..n \/ i = n + 1
  OBVIOUS
<1>6. d = IF e.open THEN [flag |-> c.flag + 1 - cache, cache |-> 0]
                    ELSE [flag |-> c.flag, cache |-> cache]
  <2>1. cache = IF e.close THEN c.cache + 1 ELSE c.cache
    BY <1>3 DEF Flag
  <2>2. d = IF e.open THEN [flag |-> c.flag + 1 - cache, cache |-> 0]
                      ELSE [c EXCEPT !.cache = cache]
    BY <2>1 DEF Couple
  <2> HIDE DEF d, e, cache
  <2>3. [c EXCEPT !.cache = cache] = [flag |-> c.flag, cache |-> cache]
    BY <1>3
  <2> QED
    BY <2>2, <2>3
<1>7. Flag(e.open) = (IF e.open THEN 1 ELSE 0) /\ Flag(e.close) \in Int
  BY DEF Flag
<1>8. cache = c.cache + Flag(e.close)
  OBVIOUS
<1> HIDE DEF d, cache, e
<1>9. c.flag + Flag(e.open) - cache = Depth(k) - Depth(k - (n + 1))
  <2> DEFINE p == Flag(e.open)
             q == Flag(e.close)
  <2>1. p \in Int /\ q \in Int
    BY DEF Flag
  <2> HIDE DEF p, q
  <2>2. c.flag + p - (c.cache + q) = Depth(k) - Depth(k - (n + 1))
    <3>1. Depth(k - n) = Depth(k - (n + 1)) + p - q
      BY <1>2 DEF p, q
    <3>2. c.flag \in Int /\ c.cache \in Int /\ Depth(k) \in Int /\ Depth(k - n) \in Int
          /\ Depth(k - (n + 1)) \in Int /\ c.flag - c.cache = Depth(k) - Depth(k - n)
      BY <1>2, <1>3
    <3>3. PICK f \in Int, g \in Int, x \in Int, y \in Int, z \in Int :
            /\ f = c.flag /\ g = c.cache /\ x = Depth(k) /\ y = Depth(k - n)
            /\ z = Depth(k - (n + 1))
      BY <3>2
    <3>4. f - g = x - y /\ y = z + p - q
      BY <3>1, <3>2, <3>3
    <3>5. f + p - (g + q) = x - z
      BY <2>1, <3>4
    <3> QED
      BY <3>3, <3>5
  <2> QED
    BY <1>8, <2>2 DEF p, q
<1>10. d.flag - d.cache = Depth(k) - Depth(k - (n + 1)) /\ d.flag \in Int /\ d.cache \in Int
      /\ d.cache >= 0 /\ d \in BracketStates
  <2>1. CASE e.open
    <3>1. d = [flag |-> c.flag + 1 - cache, cache |-> 0]
      BY <1>6, <2>1
    <3>2. c.flag + 1 - cache \in Int /\ c.flag + 1 - cache = Depth(k) - Depth(k - (n + 1))
      BY <1>3, <1>4, <1>7, <1>9, <2>1
    <3> QED
      BY <1>3, <1>4, <3>1, <3>2 DEF BracketStates
  <2>2. CASE ~e.open
    <3>1. d = [flag |-> c.flag, cache |-> cache]
      BY <1>6, <2>2
    <3>2. c.flag - cache = Depth(k) - Depth(k - (n + 1))
      BY <1>3, <1>4, <1>7, <1>9, <2>2
    <3> QED
      BY <1>3, <1>4, <3>1, <3>2 DEF BracketStates
  <2> QED
    BY <2>1, <2>2
<1>11. CASE e.open
  <2>1. d.cache = 0
    BY <1>6, <1>11
  <2>2. n + 1 \in 1..(n + 1) /\ ((n + 1) + 1)..(n + 1) = {}
    OBVIOUS
  <2>3. d.flag = Depth(k) - Depth(k - (n + 1))
    BY <1>10, <2>1
  <2>4. BracketsSay(w, k, n + 1, d)
    BY <1>10, <1>11, <2>2, <2>3 DEF BracketsSay, e
  <2> QED
    BY <2>4 DEF d, e
<1>12. CASE ~e.open
  <2>1. d.flag = c.flag
    BY <1>6, <1>12
  <2>2. CASE c.flag = 0 /\ \A i \in 1..n : ~w[i].open
    <3>1. BracketsSay(w, k, n + 1, d)
      BY <1>5, <1>10, <1>12, <2>1, <2>2 DEF BracketsSay, e
    <3> QED
      BY <3>1 DEF d, e
  <2>3. CASE \E l \in 1..n : /\ w[l].open /\ \A i \in (l + 1)..n : ~w[i].open
                             /\ c.flag = Depth(k) - Depth(k - l)
    <3>1. PICK l \in 1..n : /\ w[l].open /\ \A i \in (l + 1)..n : ~w[i].open
                            /\ c.flag = Depth(k) - Depth(k - l)
      BY <2>3
    <3>2. l \in 1..(n + 1) /\ \A i \in (l + 1)..(n + 1) : ~w[i].open
      <4>1. \A i \in (l + 1)..(n + 1) : i \in (l + 1)..n \/ i = n + 1
        OBVIOUS
      <4> QED
        BY <1>12, <3>1, <4>1 DEF e
    <3>3. BracketsSay(w, k, n + 1, d)
      BY <1>10, <2>1, <3>1, <3>2 DEF BracketsSay, e
    <3> QED
      BY <3>3 DEF d, e
  <2> QED
    BY <2>2, <2>3 DEF BracketsSay, e
<1> QED
  BY <1>11, <1>12

LEMMA BracketsFound ==
  ASSUME doc \in Texts, NEW k \in 1..Len(doc)
  PROVE  LET B == BehindOf(doc, k)
         IN  BracketsSay(B, k, Len(B), ScanBrackets(B)[Len(B)])
<1> DEFINE B == BehindOf(doc, k)
           M == Len(B)
           s == ScanBrackets(B)
           K == {n \in Nat : n <= M => BracketsSay(B, k, n, s[n])}
<1>1. /\ M \in Nat /\ k \in Nat
      /\ \A i \in 1..M : B[i] = doc[k - i + 1] /\ k - i + 1 \in Past(k)
      /\ \A i \in 1..M : Signed(B[i])
  <2>1. k \in Nat
    BY TextType
  <2>2. /\ M \in Nat
        /\ \A i \in 1..M : B[i] = doc[k - i + 1] /\ k - i + 1 \in Past(k)
        /\ \A i \in 1..M : Signed(B[i])
    BY InSight
  <2> QED
    BY <2>1, <2>2
<1> HIDE DEF B
<1>2. s[0] = [flag |-> 0, cache |-> 0] /\ \A n \in 1..M : s[n] = Couple(s[n - 1], B[n])
  BY <1>1, ScanBracketsUnfolds
<1>3. Depth(k) \in Int
  BY <1>1, DepthNext
<1> HIDE DEF s
<1>4. 0 \in K
  <2>1. k - 0 = k /\ 1..0 = {}
    BY <1>1
  <2>2. s[0].flag - s[0].cache = Depth(k) - Depth(k - 0)
    BY <1>2, <1>3, <2>1
  <2>3. s[0] \in BracketStates /\ s[0].cache >= 0 /\ s[0].flag = 0
    BY <1>2 DEF BracketStates
  <2>4. BracketsSay(B, k, 0, s[0])
    BY <2>1, <2>2, <2>3 DEF BracketsSay
  <2> QED
    BY <2>4
<1>5. ASSUME NEW n \in Nat, n \in K PROVE n + 1 \in K
  <2> SUFFICES ASSUME n + 1 <= M PROVE BracketsSay(B, k, n + 1, s[n + 1])
    OBVIOUS
  <2>1. n + 1 \in 1..M /\ (n + 1) - 1 = n /\ k - (n + 1) + 1 = k - n
    BY <1>1
  <2>2. s[n + 1] = Couple(s[n], B[n + 1])
    <3>1. s[n + 1] = Couple(s[(n + 1) - 1], B[n + 1])
      BY <1>2, <2>1
    <3> QED
      BY <2>1, <3>1
  <2>3. B[n + 1] = doc[k - n]
    BY <1>1, <2>1
  <2>4. n < k
    <3>1. k - (n + 1) + 1 \in Past(k)
      BY <1>1, <2>1
    <3> QED
      BY <1>1, <3>1 DEF Past
  <2>5. BracketsSay(B, k, n, s[n])
    BY <1>1, <1>5
  <2> QED
    BY <2>2, <2>3, <2>4, <2>5, BracketOne
<1> HIDE DEF K
<1>6. M \in K
  BY <1>1, <1>4, <1>5, Induction
<1> QED
  BY <1>1, <1>6 DEF K, s, B

\* Brackets open after the k-th word, if none was before the j-th, were opened by a word
\* in between that nothing closed.
LEMMA OpenedSince ==
  ASSUME doc \in Texts, NEW k \in 1..Len(doc), NEW j \in 1..k, Depth(j - 1) = 0, Depth(k) > 0
  PROVE  \E l \in j..k : doc[l].open /\ \A n \in l..k : Depth(n) > 0
<1> DEFINE Since(x) == \E l \in j..x : doc[l].open /\ \A n \in l..x : Depth(n) > 0
           K == {x \in Nat : j - 1 <= x /\ x <= k => Depth(x) <= 0 \/ Since(x)}
<1>1. /\ Len(doc) \in Nat /\ k \in Nat /\ j \in Nat /\ j > 0
      /\ \A n \in 0..k : Depth(n) \in Int
      /\ \A n \in 1..k : Depth(n) = Depth(n - 1) + Flag(doc[n].open) - Flag(doc[n].close)
  BY TextType, DepthNext
<1>2. 0 \in K
  <2>1. j - 1 <= 0 => j - 1 = 0
    BY <1>1
  <2>2. j - 1 <= 0 => Depth(0) <= 0
    BY <2>1
  <2> QED
    BY <2>2
<1>3. ASSUME NEW x \in Nat, x \in K PROVE x + 1 \in K
  <2> SUFFICES ASSUME j - 1 <= x + 1, x + 1 <= k PROVE Depth(x + 1) <= 0 \/ Since(x + 1)
    OBVIOUS
  <2>1. CASE j - 1 = x + 1
    BY <2>1
  <2>2. CASE j - 1 # x + 1
    <3>1. j - 1 <= x /\ x <= k /\ x + 1 \in j..k /\ x + 1 \in 1..k /\ x \in 0..k
          /\ x + 1 \in 0..k /\ (x + 1) - 1 = x
      <4>1. j \in Nat /\ k \in Nat /\ j > 0
        BY <1>1
      <4> QED
        BY <2>2, <4>1
    <3>2. Depth(x) <= 0 \/ Since(x)
      BY <1>3, <3>1
    <3>3. Depth(x) \in Int /\ Depth(x + 1) \in Int
          /\ Depth(x + 1) = Depth(x) + Flag(doc[x + 1].open) - Flag(doc[x + 1].close)
      <4>1. Depth(x + 1) = Depth((x + 1) - 1) + Flag(doc[x + 1].open) - Flag(doc[x + 1].close)
        BY <1>1, <3>1
      <4> QED
        BY <1>1, <3>1, <4>1
    <3> SUFFICES ASSUME Depth(x + 1) > 0 PROVE Since(x + 1)
      BY <3>3
    <3>4. CASE Depth(x) <= 0
      <4>1. doc[x + 1].open
        BY <3>3, <3>4 DEF Flag
      <4>2. \A n \in (x + 1)..(x + 1) : n = x + 1
        OBVIOUS
      <4> QED
        BY <3>1, <4>1, <4>2
    <3>5. CASE Since(x)
      <4>1. PICK l \in j..x : doc[l].open /\ \A n \in l..x : Depth(n) > 0
        BY <3>5
      <4>2. l \in j..(x + 1) /\ \A n \in l..(x + 1) : n \in l..x \/ n = x + 1
        BY <1>1
      <4> QED
        BY <4>1, <4>2
    <3> QED
      BY <3>2, <3>4, <3>5
  <2> QED
    BY <2>1, <2>2
<1> HIDE DEF K, Since
<1>4. k \in K
  BY <1>1, <1>2, <1>3, Induction
<1>5. Depth(k) <= 0 \/ Since(k)
  BY <1>1, <1>4 DEF K
<1>6. Depth(k) \in Int
  BY <1>1
<1> QED
  BY <1>5, <1>6 DEF Since

\* Nothing is open before the farthest opening bracket in sight.
LEMMA NothingBefore ==
  ASSUME doc \in Texts, NEW k \in 1..Len(doc), Balanced(k), Unnested(k) \/ OpenedBehind(k) = 0,
         NEW l \in 1..Len(BehindOf(doc, k)), doc[k - l + 1].open,
         LET B == BehindOf(doc, k)
         IN  /\ BracketsSay(B, k, Len(B), ScanBrackets(B)[Len(B)])
             /\ ScanBrackets(B)[Len(B)].flag = Depth(k) - Depth(k - l)
  PROVE  Depth(k - l) = 0
<1> DEFINE B == BehindOf(doc, k)
           M == Len(B)
           c == ScanBrackets(B)[M]
           j == k - l + 1
<1>1. /\ M \in Nat /\ k \in Nat /\ Len(doc) \in Nat
      /\ \A i \in 1..M : k - i + 1 \in Past(k)
      /\ \A i \in Past(k) : k - i + 1 \in 1..M /\ i \in Nat
  <2>1. k \in Nat /\ Len(doc) \in Nat
    BY TextType
  <2>2. /\ M \in Nat
        /\ \A i \in 1..M : k - i + 1 \in Past(k)
        /\ \A i \in Past(k) : k - i + 1 \in 1..M /\ i \in Nat
    BY InSight
  <2> QED
    BY <2>1, <2>2
<1> HIDE DEF B
<1>2. /\ j \in Past(k) /\ j \in 2..k /\ k - M + 1 \in Past(k) /\ k - M + 1 \in 2..k
      /\ M \in 1..M /\ l \in 1..M
  <2>1. M \in 1..M /\ l \in 1..M
    BY <1>1 DEF B
  <2>2. j \in Past(k) /\ k - M + 1 \in Past(k)
    BY <1>1, <2>1
  <2>3. \A i \in Past(k) : i \in 2..k
    BY DEF Past
  <2> QED
    BY <2>1, <2>2, <2>3
<1>3. /\ k - l \in 1..k /\ k - M \in 1..k /\ j - 1 = k - l /\ (k - M + 1) - 1 = k - M
      /\ k - l \in 0..Len(doc) /\ k - M \in 0..Len(doc) /\ j \in 1..k /\ j \in 1..Len(doc)
      /\ k \in 0..Len(doc)
  <2>1. l \in Int /\ M \in Int /\ k - l + 1 >= 2 /\ k - M + 1 >= 2 /\ l >= 1 /\ M >= 1
    BY <1>1, <1>2
  <2>2. k >= 1 /\ k <= Len(doc)
    BY <1>1
  <2> HIDE DEF M
  <2>3. k - l \in 1..k /\ k - l \in 0..Len(doc) /\ (k - l + 1) - 1 = k - l
    BY <1>1, <2>1, <2>2
  <2>4. k - M \in 1..k /\ k - M \in 0..Len(doc) /\ (k - M + 1) - 1 = k - M
    BY <1>1, <2>1, <2>2
  <2>5. k - l + 1 \in 1..k /\ k - l + 1 \in 1..Len(doc) /\ k \in 0..Len(doc)
    BY <1>1, <2>1, <2>2
  <2> QED
    BY <2>3, <2>4, <2>5
<1>4. Depth(k - l) \in Int /\ Depth(k - M) \in Int /\ Depth(k) \in Int
  BY <1>3, DepthNext
<1>5. Depth(k - l) >= 0 /\ Depth(k - M) >= 0
  BY <1>3 DEF Balanced
<1>6. CASE Unnested(k)
  <2>1. Depth(j) <= 1 /\ ~doc[j].close
    BY <1>3, <1>6 DEF Unnested
  <2>2. Depth(j) = Depth(k - l) + 1
    <3>1. Depth(j) = Depth(j - 1) + Flag(doc[j].open) - Flag(doc[j].close)
      BY <1>3, DepthNext
    <3>2. Flag(doc[j].open) = 1 /\ Flag(doc[j].close) = 0
      BY <2>1 DEF Flag
    <3> HIDE DEF j
    <3> QED
      BY <1>3, <1>4, <3>1, <3>2
  <2> QED
    BY <1>4, <1>5, <2>1, <2>2
<1>7. CASE OpenedBehind(k) = 0
  <2>1. SmallestOf(Past(k)) = k - M + 1
    <3>1. Past(k) \subseteq Int
      BY <1>1
    <3>2. ASSUME NEW i \in Past(k) PROVE i >= k - M + 1
      <4>1. k - i + 1 \in 1..M /\ i \in Nat
        BY <1>1
      <4> QED
        BY <1>1, <4>1
    <3> QED
      BY <1>2, <3>1, <3>2, SmallestIs
  <2>2. Depth(k - M) = 0
    BY <1>2, <1>3, <1>7, <2>1 DEF OpenedBehind
  <2>3. /\ c.flag \in Int /\ c.cache \in Int /\ c.cache >= 0
        /\ c.flag - c.cache = Depth(k) - Depth(k - M)
        /\ c.flag = Depth(k) - Depth(k - l)
    BY DEF BracketsSay, BracketStates, B
  <2> HIDE DEF c
  <2>4. Depth(k - l) <= 0
    <3>1. PICK u, v, w, d \in Int :
            u = Depth(k - l) /\ v = c.flag /\ w = c.cache /\ d = Depth(k)
      BY <1>4, <2>3
    <3>2. w >= 0 /\ v - w = d - 0
      BY <2>2, <2>3, <3>1
    <3>3. v = d - u
      BY <2>3, <3>1
    <3>4. u <= 0
      BY <3>2, <3>3
    <3> QED
      BY <3>1, <3>4
  <2> QED
    BY <1>4, <1>5, <2>4
<1> QED
  BY <1>6, <1>7

\* For every text and ring size: a row counts its word as one in brackets exactly if an
\* opening bracket in sight is not yet closed, for brackets as the property has them.
THEOREM BracketsRight == Spec => []BracketsInSight
<1>1. IInv /\ Scanned => BracketsInSight
  <2> SUFFICES ASSUME IInv, Scanned, NEW k \in DOMAIN rows, Balanced(k),
                      Unnested(k) \/ OpenedBehind(k) = 0
               PROVE  rows[k].pare <=> OpenInSight(k)
    BY DEF BracketsInSight
  <2> DEFINE B == BehindOf(doc, k)
             M == Len(B)
             c == ScanBrackets(B)[M]
  <2>1. doc \in Texts /\ k \in 1..Len(rows) /\ k \in 1..Len(doc)
    BY Numbers DEF IInv, Kinds, IsSequence, Scanned
  <2>2. /\ M \in Nat /\ k \in Nat
        /\ \A i \in 1..M : B[i] = doc[k - i + 1] /\ k - i + 1 \in Past(k)
        /\ \A j \in Past(k) : k - j + 1 \in 1..M /\ j \in Nat
    <3>1. k \in Nat
      BY <2>1, TextType
    <3> HIDE DEF B
    <3> QED
      BY <2>1, <3>1, InSight DEF B
  <2>3. rows[k].pare <=> c.flag > 0
    BY <2>1 DEF Scanned, RowScans, inBrackets
  <2>4. BracketsSay(B, k, M, c)
    BY <2>1, BracketsFound
  <2>5. \A j \in Past(k) : doc[j].open => /\ k - j + 1 \in 1..M /\ B[k - j + 1] = doc[j]
                                          /\ j \in 2..k
    <3> TAKE j \in Past(k)
    <3>1. k - j + 1 \in 1..M /\ k - (k - j + 1) + 1 = j
      BY <2>2
    <3>2. j \in 2..k
      BY DEF Past
    <3> QED
      BY <2>2, <3>1, <3>2
  <2>6. CASE c.flag = 0 /\ \A i \in 1..M : ~B[i].open
    <3>1. ~OpenInSight(k)
      BY <2>5, <2>6 DEF OpenInSight
    <3> QED
      BY <2>3, <2>6, <3>1
  <2>7. CASE \E l \in 1..M : /\ B[l].open /\ \A i \in (l + 1)..M : ~B[i].open
                             /\ c.flag = Depth(k) - Depth(k - l)
    <3>1. PICK l \in 1..M : /\ B[l].open /\ \A i \in (l + 1)..M : ~B[i].open
                            /\ c.flag = Depth(k) - Depth(k - l)
      BY <2>7
    <3> DEFINE j == k - l + 1
    <3>2. doc[j].open /\ j \in Past(k) /\ j \in 1..k /\ j - 1 = k - l
      BY <2>2, <2>5, <3>1
    <3>3. Depth(j - 1) = 0
      <4>1. Depth(k - l) = 0
        BY <2>1, <2>4, <3>1, <3>2, NothingBefore
      <4> QED
        BY <3>2, <4>1
    <3> HIDE DEF c, B
    <3>4. Depth(k) \in Int
      BY <2>1, TextType, DepthNext
    <3>5. c.flag > 0 <=> Depth(k) > 0
      BY <3>1, <3>2, <3>3, <3>4
    <3>6. ASSUME OpenInSight(k) PROVE Depth(k) > 0
      <4>1. PICK i \in Past(k) : doc[i].open /\ \A n \in i..k : Depth(n) > 0
        BY <3>6 DEF OpenInSight
      <4>2. i \in 2..k
        BY <2>5, <4>1
      <4>3. k \in i..k
        BY <2>2, <4>2
      <4> QED
        BY <4>1, <4>3
    <3>7. ASSUME Depth(k) > 0 PROVE OpenInSight(k)
      <4>1. PICK i \in j..k : doc[i].open /\ \A n \in i..k : Depth(n) > 0
        BY <2>1, <3>2, <3>3, <3>7, OpenedSince
      <4>2. i \in Past(k)
        <5>1. k # 1 /\ j \in 2..k /\ j > k - CNSQSIZE + 1
          BY <3>2 DEF Past
        <5>2. CNSQSIZE \in Nat
          BY Numbers
        <5> HIDE DEF j
        <5>3. i \in 2..k /\ i > k - CNSQSIZE + 1
          <6>1. i \in Int /\ j \in Int /\ k \in Int /\ i >= j /\ i <= k /\ j >= 2
            BY <2>2, <5>1
          <6> QED
            BY <5>1, <5>2, <6>1
        <5> QED
          BY <5>1, <5>3 DEF Past
      <4> QED
        BY <4>1, <4>2 DEF OpenInSight
    <3> QED
      BY <2>3, <3>5, <3>6, <3>7
  <2> QED
    BY <2>4, <2>6, <2>7 DEF BracketsSay
<1> QED
  BY <1>1, Invariant, ScannedAlways, PTL
================================================================================
