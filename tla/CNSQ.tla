---------------------------------- MODULE CNSQ ----------------------------------
(****************************************************************************)
(* The ring of token snapshots of src/lib/cite_parser/queue.c, as operators *)
(* on a record.  A slot is left free to tell full from empty: front is the  *)
(* slot before the oldest element, rear the slot of the newest.  deQueue,   *)
(* nextNElem and pastNElem return pointers into the ring, here the slot's   *)
(* number or NULL; what a pointer points to is the slot's content when it   *)
(* is used.                                                                 *)
(****************************************************************************)
EXTENDS Integers

CONSTANTS
  CNSQSIZE,       \* slots of the ring; it holds one element less
  NULL            \* the null pointer

ASSUME CNSQAssumption ==
  /\ CNSQSIZE \in Nat \ {0, 1}
  /\ NULL \notin 0..(CNSQSIZE - 1)

Slot == 0..(CNSQSIZE - 1)

\* The rings whose slots hold snapshots of a set, unwritten slots included.
QueuesOf(Elem) == [front : Slot, rear : Slot, data : [Slot -> Elem]]

clearQueue(Q) == [Q EXCEPT !.front = 0, !.rear = 0]

isEmptyQueue(Q) == Q.front = Q.rear

isFullQueue(Q) == (Q.rear + 1) % CNSQSIZE = Q.front

sizeQueue(Q) == (Q.rear - Q.front + CNSQSIZE) % CNSQSIZE

\* What enQueue leaves; it returns 0 and changes nothing when the ring is full.
enQueue(Q, e) ==
  LET r == (Q.rear + 1) % CNSQSIZE
  IN  IF isFullQueue(Q) THEN Q ELSE [Q EXCEPT !.rear = r, !.data[r] = e]

\* What deQueue leaves, and the pointer it returns.
deQueue(Q) == IF isEmptyQueue(Q) THEN Q ELSE [Q EXCEPT !.front = (@ + 1) % CNSQSIZE]
deQueued(Q) == IF isEmptyQueue(Q) THEN NULL ELSE (Q.front + 1) % CNSQSIZE

\* Mutant: the oldest element goes although there is room.
enQueueWithDrop_Always(Q, e) == enQueue(deQueue(Q), e)

enQueueWithDrop(Q, e) == enQueue(IF isFullQueue(Q) THEN deQueue(Q) ELSE Q, e)

\* The N-th oldest element, and the N-th newest.
nextNElem(Q, N) ==
  IF N > sizeQueue(Q) \/ N < 1 THEN NULL ELSE (Q.front + N) % CNSQSIZE

pastNElem(Q, N) ==
  IF N > sizeQueue(Q) \/ N < 1 THEN NULL ELSE (Q.rear + CNSQSIZE - N + 1) % CNSQSIZE
================================================================================
