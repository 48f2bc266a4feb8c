----------------------------------- MODULE Dict -----------------------------------
(****************************************************************************)
(* A dictionary of dict.c: the rows of a table of db/dict.db are loaded     *)
(* into a hash table, one callback of sqlite3_exec each, and words are      *)
(* looked up in it by themselves and by their beginnings.  Names and words  *)
(* are in lower case here: strCaseTransfer is applied to both, so that two  *)
(* rows that differ in case are two rows with one name.                     *)
(****************************************************************************)
EXTENDS KHash

CONSTANTS
  Chars,          \* what names and words are made of
  Names,          \* the names of the table
  Words,          \* the words looked up
  Hashes,         \* the hash functions of keys to consider
  Absent,         \* no entry
  MaxRows         \* bound: rows of the table

VARIABLES
  map,            \* the hash table, map[mid] of the code
  hash,           \* the hash function, fixed
  rows,           \* how many rows were read
  times, last     \* history: how often each name was read, and its last value

mapvars == <<map, hash, rows, times, last>>

\* The beginnings of a word that are tried after the word itself.
Beginnings_FromThree(str) == {SubSeq(str, 1, n) : n \in 3..(Len(str) - 1)}
Beginnings(str) == {SubSeq(str, 1, n) : n \in 4..(Len(str) - 1)}

\* The hash table must not outgrow the list of primes.
ASSUME DictAssumption ==
  /\ Keys \subseteq Seq(Chars) /\ Names \subseteq Keys /\ Names # {}
  /\ Words \subseteq Keys \ {<<>>} /\ \A w \in Words : Beginnings(w) \subseteq Keys
  /\ Hashes \subseteq [Keys -> Nat]
  /\ Vals # {} /\ Absent \notin Vals
  /\ MaxRows \in Nat /\ 2 * MaxRows <= primes[Len(primes)]

MapInit ==
  /\ map = kh_init
  /\ hash \in Hashes
  /\ rows = 0
  /\ times = [k \in Names |-> 0]
  /\ last = [k \in Names |-> Absent]

\* kh_put, kh_del of a key that was there, and the value to the cell in either case.
Loaded_KeepsKey(h, name, v) ==
  LET p == kh_put(h, hash, name) IN [p.table EXCEPT !.vals[p.at] = v]
Loaded(h, name, v) ==
  LET p == kh_put(h, hash, name)
      g == IF p.ret = 0 THEN kh_del(p.table, p.at) ELSE p.table
  IN  [g EXCEPT !.vals[p.at] = v]

dbHandleHashDictLoad ==
  \E name \in Names, v \in Vals :
    /\ rows < MaxRows
    /\ map' = Loaded(map, name, v)
    /\ rows' = rows + 1
    /\ times' = [times EXCEPT ![name] = @ + 1]
    /\ last' = [last EXCEPT ![name] = v]
    /\ UNCHANGED hash

MapNext == dbHandleHashDictLoad

MapSpec == MapInit /\ [][MapNext]_mapvars

--------------------------------------------------------------------------------
\* The value of a key, Absent if it is not there.
Found(key) ==
  LET k == kh_get(map, hash, key)
  IN  IF k = map.n_buckets THEN Absent ELSE kh_value(map, k)

\* The word itself, else its longest beginning of more than three characters, else 0.
hmDictGet(str) ==
  LET hits == {s \in {str} \cup Beginnings(str) : Found(s) # Absent}
  IN  IF hits = {} THEN 0 ELSE Found(CHOOSE s \in hits : \A t \in hits : Len(t) <= Len(s))

--------------------------------------------------------------------------------
\* The dictionary that the table amounts to.
Entry == [k \in Names |-> Found(k)]

T == INSTANCE DictTable WITH entry <- Entry

\* Through collisions, deletions and growth of the hash table a row does to the
\* dictionary what DictTable says: a new name comes, a name met again goes, and every
\* other name stays what it was.
LoadsTable == T!TSpec

\* What a lookup returns, from the rows alone: the last value of the longest
\* beginning that was read an odd number of times, if that is the word itself or has
\* more than three characters.  An entry whose value is 0 hides the shorter ones.
Read(k) == k \in Names /\ times[k] % 2 = 1
LongestBeginning == \A w \in Words :
  \/ \E n \in 1..Len(w) :
       LET b == SubSeq(w, 1, n) IN
       /\ Read(b) /\ (n > 3 \/ n = Len(w))
       /\ \A m \in (n + 1)..Len(w) : ~Read(SubSeq(w, 1, m))
       /\ hmDictGet(w) = last[b]
  \/ /\ \A n \in 1..Len(w) : Read(SubSeq(w, 1, n)) => n <= 3 /\ n < Len(w)
     /\ hmDictGet(w) = 0

\* Probing ends: the counters are those of the cells, a key is in one cell, and there
\* always is an empty cell.  kh_get and kh_put go on until they meet one, or are back where they
\* began; the inner loop of kh_resize has no such stop.
ProbesEnd ==
  LET cells == 0..(map.n_buckets - 1) IN
  /\ map.size = Cardinality({i \in cells : map.flags[i] = "live"})
  /\ map.n_occupied = Cardinality({i \in cells : map.flags[i] # "empty"})
  /\ map.n_buckets > 0 => \E i \in cells : map.flags[i] = "empty"
  /\ \A i, j \in cells :
       map.flags[i] = "live" /\ map.flags[j] = "live" /\ i # j => map.keys[i] # map.keys[j]
================================================================================
