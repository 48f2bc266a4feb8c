------------------------------- MODULE TokenWindow -------------------------------
(****************************************************************************)
(* What a ring of token snapshots is to its users: a window of at most      *)
(* Capacity elements, the oldest first, with no slots and no indices.       *)
(* CNSQueue implements it.                                                  *)
(****************************************************************************)
EXTENDS Naturals, Sequences

CONSTANTS
  Capacity,       \* the most elements a window holds
  Elem            \* the elements

VARIABLE window

Init == window = <<>>

\* An element for which there is no room is refused.
Put == \E e \in Elem : Len(window) < Capacity /\ window' = Append(window, e)

\* The oldest element makes room.
PutDropping ==
  \E e \in Elem :
    window' = Append(IF Len(window) = Capacity THEN Tail(window) ELSE window, e)

Take == window # <<>> /\ window' = Tail(window)

Clear == window' = <<>>

Next == Put \/ PutDropping \/ Take \/ Clear

Spec == Init /\ [][Next]_window
================================================================================
