-------------------------------- MODULE CNSQueue --------------------------------
(****************************************************************************)
(* One ring under every sequence of the calls of queue.c, from the          *)
(* clearQueue that CitationInfoPredict starts with: the slots hold whatever *)
(* the stack held.                                                          *)
(****************************************************************************)
EXTENDS CNSQ, Sequences

CONSTANT Elem         \* the snapshots, and what an unwritten slot holds

VARIABLES
  ring,           \* the ring
  held            \* the pointer the last deQueue returned, NULL when there is none

ringvars == <<ring, held>>

RingInit ==
  /\ \E data \in [Slot -> Elem], f, r \in Slot :
       ring = clearQueue([front |-> f, rear |-> r, data |-> data])
  /\ held = NULL

\* Mutant: enQueue without the test for a full ring.
EnQueue_Unchecked ==
  \E e \in Elem :
    LET r == (ring.rear + 1) % CNSQSIZE
    IN  ring' = [ring EXCEPT !.rear = r, !.data[r] = e] /\ UNCHANGED held

EnQueue == \E e \in Elem : ring' = enQueue(ring, e) /\ UNCHANGED held

\* With the ring full, what goes in takes the slot of what was removed last.
EnQueueWithDrop ==
  \E e \in Elem :
    /\ ring' = enQueueWithDrop(ring, e)
    /\ held' = IF isFullQueue(ring) THEN NULL ELSE held

DeQueue == ring' = deQueue(ring) /\ held' = deQueued(ring)

Clear == ring' = clearQueue(ring) /\ held' = NULL

RingNext == EnQueue \/ EnQueueWithDrop \/ DeQueue \/ Clear

RingSpec == RingInit /\ [][RingNext]_ringvars

--------------------------------------------------------------------------------
(* Properties.                                                                *)

\* Every index is a slot of the ring and every slot holds a snapshot.
RingTypeOK == ring \in QueuesOf(Elem) /\ held \in Slot \cup {NULL}

\* The elements from the oldest to the newest.
Window == [i \in 1..sizeQueue(ring) |-> ring.data[(ring.front + i) % CNSQSIZE]]

Promise == INSTANCE TokenWindow WITH Capacity <- CNSQSIZE - 1, window <- Window

\* The ring is a first-in first-out window of CNSQSIZE - 1 elements: enQueue
\* refuses the one too many, enQueueWithDrop drops the oldest, deQueue takes it,
\* and no turn of the indices loses, repeats or reorders an element.
IsWindow == Promise!Spec

\* pastNElem counts from the newest element and nextNElem from the oldest, both
\* over exactly the elements in the ring: they return NULL at 0 and one past the
\* size, and they agree: what is N-th from one end is the (size - N + 1)-th from
\* the other.
PeeksAgree ==
  \A n \in 0..CNSQSIZE :
    IF n \in 1..sizeQueue(ring)
    THEN /\ pastNElem(ring, n) = nextNElem(ring, sizeQueue(ring) + 1 - n)
         /\ ring.data[nextNElem(ring, n)] = Window[n]
    ELSE pastNElem(ring, n) = NULL /\ nextNElem(ring, n) = NULL

\* The snapshot that deQueue returned a pointer to keeps its place and its
\* content until the next removal, whatever is put in the ring meanwhile:
\* CitationInfoPredict works on that pointer and refills the ring behind it.
HeldIntact ==
  [][held # NULL /\ held' = held => held = ring'.front /\ ring'.data[held] = ring.data[held]]_ringvars
================================================================================
