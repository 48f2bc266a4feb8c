---------------------------------- MODULE KHash ----------------------------------
(****************************************************************************)
(* The open hash table of include/khash.h as the dictionaries use it:       *)
(* double hashing over a prime number of cells, a deleted cell stays in the *)
(* way of the probing until the table is hashed anew in its own memory.     *)
(* A cell that holds nothing still has the key and the value that were last *)
(* written to it; nothing reads them.                                       *)
(****************************************************************************)
EXTENDS Integers, Sequences, FiniteSetsExt

CONSTANTS
  Keys,           \* the keys
  Vals,           \* the values
  primes          \* __ac_prime_list, from its start

IsPrime(p) == p > 1 /\ \A a \in 2..(p - 1) : p % a # 0

ASSUME PrimesAssumption ==
  /\ primes \in Seq(Nat) /\ Len(primes) > 1 /\ primes[1] = 0
  /\ \A t \in 2..Len(primes) : primes[t] > 2 /\ IsPrime(primes[t]) /\ primes[t - 1] < primes[t]

\* (khint_t)(n * __ac_HASH_UPPER + 0.5)
UpperBound(n) == (n * 77 + 50) \div 100

\* The prime that resize rounds n up to: one above n even if n is one of them.
NextPrime(n) == primes[1 + (CHOOSE t \in 1..(Len(primes) - 1) : primes[t] <= n /\ n < primes[t + 1])]

\* kh_init: no cells yet.
kh_init == [n_buckets |-> 0, size |-> 0, n_occupied |-> 0, upper_bound |-> 0,
            flags |-> <<>>, keys |-> <<>>, vals |-> <<>>]

\* The m-th cell that is probed for a hash value k among n.
Probe(k, m, n) == (k + m * (1 + (k % (n - 1)))) % n

\* Probing for a key stops at an empty cell or at the key.
Stops(h, hash, key, m) ==
  LET i == Probe(hash[key], m, h.n_buckets)
  IN  h.flags[i] = "empty" \/ (h.flags[i] = "live" /\ h.keys[i] = key)

\* After how many cells it stops, n_buckets if it comes back to the first one.
Past(h, hash, key) ==
  LET stops == {m \in 0..(h.n_buckets - 1) : Stops(h, hash, key, m)}
  IN  IF stops = {} THEN h.n_buckets ELSE Min(stops)

--------------------------------------------------------------------------------
\* The cell of a key, or n_buckets.
kh_get(h, hash, key) ==
  LET n    == h.n_buckets
      past == Past(h, hash, key)
      i    == Probe(hash[key], past, n)
  IN  IF n > 0 /\ past < n /\ h.flags[i] = "live" THEN i ELSE n

\* Where kh_put puts a key: at the key, else at the last deleted cell passed on the
\* way, else at the empty cell found.
Site(h, hash, key) ==
  LET n    == h.n_buckets
      past == Past(h, hash, key)
      i    == Probe(hash[key], past, n)
      dels == {m \in 0..(past - 1) : h.flags[Probe(hash[key], m, n)] = "del"}
  IN  IF dels # {} /\ (past = n \/ h.flags[i] = "empty") THEN Probe(hash[key], Max(dels), n) ELSE i

--------------------------------------------------------------------------------
(* kh_resize, in the arrays of the table itself.  In a state of it old is the   *)
(* flags array, new the new one, and busy says that there is an entry in hand.  *)

\* The entry in hand, else that of the next cell.
Taken(s, n) ==
  LET j == Min({i \in 0..(n - 1) : s.old[i] = "live"})
  IN  IF s.busy THEN s
      ELSE [s EXCEPT !.old[j] = "del", !.busy = TRUE, !.key = s.keys[j], !.val = s.vals[j]]

\* It goes to the first cell on its way that is free in the new flags; an entry that
\* waits there to be moved comes to hand.
Place_Overwrites(s, hash, n, new_n) ==
  LET free == {m \in 0..(new_n - 1) : s.new[Probe(hash[s.key], m, new_n)] = "empty"}
      i    == Probe(hash[s.key], Min(free), new_n)
  IN  [s EXCEPT !.new[i] = "live", !.keys[i] = s.key, !.vals[i] = s.val, !.busy = FALSE]
Place(s, hash, n, new_n) ==
  LET free == {m \in 0..(new_n - 1) : s.new[Probe(hash[s.key], m, new_n)] = "empty"}
      i    == Probe(hash[s.key], Min(free), new_n)
      busy == i < n /\ s.old[i] = "live"
  IN  [old  |-> IF busy THEN [s.old EXCEPT ![i] = "del"] ELSE s.old,
       new  |-> [s.new EXCEPT ![i] = "live"],
       keys |-> [s.keys EXCEPT ![i] = s.key], vals |-> [s.vals EXCEPT ![i] = s.val],
       busy |-> busy, key |-> s.keys[i], val |-> s.vals[i]]

\* An array after realloc: what is in its new end is whatever was there.
Grown(f, n, new_n, any) == [i \in 0..(new_n - 1) |-> IF i < n THEN f[i] ELSE any]

Unmoved(h, new_n) ==
  LET k == CHOOSE k \in Keys : TRUE
      v == CHOOSE v \in Vals : TRUE
  IN  [old |-> h.flags, new |-> [i \in 0..(new_n - 1) |-> "empty"],
       keys |-> Grown(h.keys, h.n_buckets, new_n, k), vals |-> Grown(h.vals, h.n_buckets, new_n, v),
       busy |-> FALSE, key |-> k, val |-> v]

\* The states of the moving, one entry after the other.
Moved(h, hash, new_n) ==
  LET s[c \in 0..h.size] ==
        IF c = 0 THEN Unmoved(h, new_n) ELSE Place(Taken(s[c - 1], h.n_buckets), hash, h.n_buckets, new_n)
  IN  s

kh_resize(h, hash, new_n_buckets) ==
  LET new_n == NextPrime(new_n_buckets)
      s     == Moved(h, hash, new_n)[h.size]
  IN  IF h.size >= UpperBound(new_n) THEN h
      ELSE [n_buckets |-> new_n, size |-> h.size, n_occupied |-> h.size,
            upper_bound |-> UpperBound(new_n), flags |-> s.new, keys |-> s.keys, vals |-> s.vals]

--------------------------------------------------------------------------------
\* kh_put: the table, the cell of the key and ret, 0 if the key was there.
Resized(h, hash) ==
  IF h.n_occupied < h.upper_bound THEN h
  ELSE kh_resize(h, hash, IF h.n_buckets > 2 * h.size THEN h.n_buckets - 1 ELSE h.n_buckets + 1)

kh_put(h, hash, key) ==
  LET g   == Resized(h, hash)
      x   == Site(g, hash, key)
      put == [g EXCEPT !.keys[x] = key, !.flags[x] = "live", !.size = @ + 1]
  IN  IF g.flags[x] = "empty"
        THEN [table |-> [put EXCEPT !.n_occupied = @ + 1], at |-> x, ret |-> 1]
      ELSE IF g.flags[x] = "del"
        THEN [table |-> put, at |-> x, ret |-> 2]
      ELSE [table |-> g, at |-> x, ret |-> 0]

kh_del(h, x) ==
  IF x # h.n_buckets /\ h.flags[x] = "live"
    THEN [h EXCEPT !.flags[x] = "del", !.size = @ - 1]
    ELSE h

kh_value(h, x) == h.vals[x]
================================================================================
