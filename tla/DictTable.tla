-------------------------------- MODULE DictTable --------------------------------
(****************************************************************************)
(* What loading a table of names leaves of it (dict.c), without the hash    *)
(* table: a name read once is there with the value of its row, a name read  *)
(* again is taken away.  Dict implements it.                                *)
(****************************************************************************)
EXTENDS Naturals

CONSTANTS
  Names,          \* the names in the table, in lower case
  Vals,           \* the values of rows
  Absent          \* no entry

VARIABLES
  entry,          \* the value of each name, or Absent
  times,          \* how often each name has been read
  last            \* the value of its last row, Absent before that

tvars == <<entry, times, last>>

TInit ==
  /\ entry = [k \in Names |-> Absent]
  /\ times = [k \in Names |-> 0]
  /\ last  = [k \in Names |-> Absent]

Row(k, v) ==
  /\ times' = [times EXCEPT ![k] = @ + 1]
  /\ last'  = [last EXCEPT ![k] = v]
  /\ entry' = [entry EXCEPT ![k] = IF @ = Absent THEN v ELSE Absent]

TNext == \E k \in Names, v \in Vals : Row(k, v)

TSpec == TInit /\ [][TNext]_tvars

TTypeOK ==
  /\ entry \in [Names -> Vals \cup {Absent}]
  /\ times \in [Names -> Nat]
  /\ last \in [Names -> Vals \cup {Absent}]

\* A name is in the dictionary exactly if the table has it an odd number of times,
\* with the value of the last of these rows.
OddOnly == \A k \in Names :
  entry[k] = IF times[k] % 2 = 1 THEN last[k] ELSE Absent
================================================================================
