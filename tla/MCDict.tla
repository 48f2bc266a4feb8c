---------------------------------- MODULE MCDict ----------------------------------
(* Small instances of Dict for TLC. *)
EXTENDS Dict

MCprimes == <<0, 3, 11, 23, 53, 97, 193, 389, 769, 1543>>

\* Words of one letter but for the last one: each begins the longer ones.
Run(n) == [i \in 1..n |-> 1]
MCNames == {Run(3), Run(4), Run(6), Append(Run(4), 2)}
MCWords == MCNames \cup {Run(5), Run(7), Append(Run(4), 2) \o <<1>>}

\* Hash values that fall on one cell of 3 and of 11, on one of 3 only, and apart.
MCHashes ==
  {[k \in MCWords |-> 33], [k \in MCWords |-> 3 * Len(k)], [k \in MCWords |-> 7 * Len(k) + k[Len(k)]]}
================================================================================
