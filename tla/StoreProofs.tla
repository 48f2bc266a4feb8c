------------------------------- MODULE StoreProofs -------------------------------
(****************************************************************************)
(* Proofs about what the program keeps of its inputs.  The text holder      *)
(* (VirtualContent), for any number of blocks, callers and refused texts:   *)
(* it frees and hands out blocks of its own (NamesOwnBlocks) and has no     *)
(* others between two calls but those of refused texts (OnlyRefusalsLeak).  *)
(* The dictionaries (Dict), for every set of names and words, every hash    *)
(* function and list of primes, and any number of rows the last prime has   *)
(* room for: probing ends (ProbesEnd), the hash table is the table of names *)
(* (LoadsTable), and a lookup finds the longest beginning                   *)
(* (LongestBeginning).                                                      *)
(****************************************************************************)
EXTENDS VirtualContent, Dict, FiniteSetTheorems, SequenceTheorems, WellFoundedInduction, TLAPS

--------------------------------------------------------------------------------
(* The blocks of the text holder.                                             *)

OwnedIn(ow) == {b \in Blocks : ow[b] = "text"}

\* What the four pointers are while a text is loaded: four blocks, or one under two
\* names.
Pointers(type, np, a, b, c, d) ==
  /\ type \in {1, 2} /\ a \in Blocks /\ b \in Blocks
  /\ IF type = 2 /\ ~np
       THEN c \in Blocks /\ d \in Blocks /\ a # b /\ a # c /\ a # d /\ b # c /\ b # d /\ c # d
       ELSE b = a /\ c = NULL /\ d = NULL

Current(at, a, b, c, d) == IF at \in {"use", "clean"} THEN {a, b, c, d} \ {NULL} ELSE {}

Types ==
  /\ \A x \in {content, pcontent, offset, tags} : x \in Blocks \cup {NULL}
  /\ contentType \in 0..2 /\ noparse \in BOOLEAN /\ DEBUGFLAG \in BOOLEAN
  /\ owner \in [Blocks -> {"text", "other", "nobody"}]
  /\ caller \in Callers
  /\ pc \in {"idle", "init", "mode", "load", "use", "clean"}
  /\ misuse \in BOOLEAN /\ refusals \in 0..MaxRefusals

\* Where the pointers are clear, and what a loaded text has.
Pointed ==
  /\ pc \in {"mode", "load"} =>
       contentType = 0 /\ content = NULL /\ pcontent = NULL /\ offset = NULL /\ tags = NULL
  /\ pc = "load" \/ (pc \in {"use", "clean"} /\ contentType = 2) =>
       noparse = (caller # "trainer" /\ ~DEBUGFLAG)
  /\ pc \in {"use", "clean"} =>
       /\ Pointers(contentType, noparse, content, pcontent, offset, tags)
       /\ Current(pc, content, pcontent, offset, tags) \subseteq OwnedIn(owner)
       /\ contentType = 2 => caller # "PredictString"

\* The blocks that no pointer names any more.
Leaked ==
  ~misuse => Cardinality(OwnedIn(owner) \ Current(pc, content, pcontent, offset, tags)) = 4 * refusals

Misused == misuse => pc = "idle" /\ ~DEBUGFLAG /\ caller = "PredictFile"

IInv == Types /\ Pointed /\ NoStaleText /\ Misused /\ Leaked

\* Taking blocks without freeing any.
LEMMA Takes ==
  ASSUME NEW new, FreeAndTake(<<>>, new), misuse \in BOOLEAN
  PROVE  /\ misuse' = misuse
         /\ owner' = [b \in Blocks |-> IF b \in new THEN "text" ELSE owner[b]]
BY DEF FreeAndTake

\* The invariant holds initially, and every step keeps it.
LEMMA InvInit == Init => IInv
<1> SUFFICES ASSUME Init PROVE IInv
  OBVIOUS
<1>1. Types
  <2>1. owner \in [Blocks -> {"text", "other", "nobody"}]
    BY DEF Init
  <2>2. 0 \in 0..MaxRefusals
    BY VirtualContentAssumption
  <2>3. misuse \in BOOLEAN /\ noparse \in BOOLEAN /\ DEBUGFLAG \in BOOLEAN
    BY DEF Init
  <2> QED
    BY <2>1, <2>2, <2>3 DEF Init, Types
<1>2. Pointed /\ NoStaleText /\ Misused
  BY DEF Init, Pointed, NoStaleText, Misused, getPcontent
<1>3. Leaked
  <2>1. OwnedIn(owner) \ Current(pc, content, pcontent, offset, tags) = {} /\ refusals = 0
    BY DEF Init, OwnedIn
  <2> QED
    BY <2>1, FS_EmptySet DEF Leaked
<1> QED
  BY <1>1, <1>2, <1>3 DEF IInv

\* One more element makes a set larger by one at most.
LEMMA OneMore ==
  ASSUME NEW S, IsFiniteSet(S), NEW n \in Nat, Cardinality(S) <= n, NEW u
  PROVE  IsFiniteSet(S \cup {u}) /\ Cardinality(S \cup {u}) <= n + 1
<1>1. IsFiniteSet({u}) /\ Cardinality({u}) = 1
  BY FS_Singleton
<1>2. IsFiniteSet(S \cap {u}) /\ IsFiniteSet(S \cup {u})
  BY <1>1, FS_Intersection, FS_Union
<1>3. PICK e, f, g \in Nat : e = Cardinality(S \cap {u}) /\ f = Cardinality(S) /\ g = Cardinality(S \cup {u})
  BY <1>2, FS_CardinalityType
<1>4. g = f + 1 - e
  BY <1>1, <1>3, FS_Union
<1> QED
  BY <1>2, <1>3, <1>4

\* The text holder reads a file: its new blocks are one or four, and what it had stays.
LEMMA Reading ==
  ASSUME IInv, pc = "load", ~misuse, ReadsFile
  PROVE  /\ misuse' = misuse
         /\ owner' \in [Blocks -> {"text", "other", "nobody"}]
         /\ Pointers(2, noparse, content', pcontent', offset', tags')
         /\ ~noparse => Cardinality({content', pcontent', offset', tags'}) = 4
         /\ {content', pcontent', offset', tags'} \ {NULL} \subseteq Blocks
         /\ OwnedIn(owner') = OwnedIn(owner) \cup ({content', pcontent', offset', tags'} \ {NULL})
         /\ OwnedIn(owner) \cap ({content', pcontent', offset', tags'} \ {NULL}) = {}
<1>1. /\ contentType = 0 /\ content = NULL /\ pcontent = NULL /\ offset = NULL /\ tags = NULL
      /\ misuse \in BOOLEAN /\ owner \in [Blocks -> {"text", "other", "nobody"}]
      /\ noparse \in BOOLEAN /\ NULL \notin Blocks
  BY VirtualContentAssumption DEF IInv, Types, Pointed
<1>2. Earlier = <<>>
  BY <1>1 DEF Earlier
<1>3. ASSUME ~noparse,
             NEW a \in Free, NEW b \in Free, NEW c \in Free, NEW d \in Free,
             Cardinality({a, b, c, d}) = 4,
             content' = a, pcontent' = b, offset' = c, tags' = d,
             FreeAndTake(Earlier, {a, b, c, d})
      PROVE  /\ misuse' = misuse
             /\ owner' = [x \in Blocks |-> IF x \in {a, b, c, d} THEN "text" ELSE owner[x]]
             /\ a # b /\ a # c /\ a # d /\ b # c /\ b # d /\ c # d
  <2>1. /\ misuse' = misuse
        /\ owner' = [x \in Blocks |-> IF x \in {a, b, c, d} THEN "text" ELSE owner[x]]
    BY <1>1, <1>2, <1>3, Takes
  <2>2. \A x, y, z : Cardinality({x, y, z}) # 4
    <3> SUFFICES ASSUME NEW x, NEW y, NEW z PROVE Cardinality({x, y, z}) # 4
      OBVIOUS
    <3>1. /\ IsFiniteSet({x}) /\ IsFiniteSet({y}) /\ IsFiniteSet({z})
          /\ Cardinality({x}) = 1 /\ Cardinality({y}) = 1 /\ Cardinality({z}) = 1
      BY FS_Singleton
    <3>2. IsFiniteSet({x} \cup {y}) /\ Cardinality({x} \cup {y}) <= 1 + 1
      BY <3>1, OneMore
    <3>3. Cardinality(({x} \cup {y}) \cup {z}) <= 2 + 1
      <4>1. Cardinality({x} \cup {y}) <= 2 /\ 2 \in Nat
        BY <3>2
      <4> QED
        BY <3>2, <4>1, OneMore
    <3>4. Cardinality(({x} \cup {y}) \cup {z}) # 4
      <4>1. IsFiniteSet(({x} \cup {y}) \cup {z})
        BY <3>1, <3>2, FS_Union
      <4>2. PICK e \in Nat : e = Cardinality(({x} \cup {y}) \cup {z})
        BY <4>1, FS_CardinalityType
      <4> QED
        BY <3>3, <4>2
    <3>5. ({x} \cup {y}) \cup {z} = {x, y, z}
      OBVIOUS
    <3> QED
      BY <3>4, <3>5
  <2>3. a = b => {a, b, c, d} = {a, c, d}
    OBVIOUS
  <2>4. a = c => {a, b, c, d} = {a, b, d}
    OBVIOUS
  <2>5. a = d => {a, b, c, d} = {a, b, c}
    OBVIOUS
  <2>6. b = c => {a, b, c, d} = {a, b, d}
    OBVIOUS
  <2>7. b = d => {a, b, c, d} = {a, b, c}
    OBVIOUS
  <2>8. c = d => {a, b, c, d} = {a, b, c}
    OBVIOUS
  <2> QED
    BY <1>3, <2>1, <2>2, <2>3, <2>4, <2>5, <2>6, <2>7, <2>8
<1>4. CASE ~noparse
  <2>1. PICK a, b, c, d \in Free :
          /\ Cardinality({a, b, c, d}) = 4
          /\ content' = a /\ pcontent' = b /\ offset' = c /\ tags' = d
          /\ FreeAndTake(Earlier, {a, b, c, d})
    BY <1>4 DEF ReadsFile
  <2>2. /\ misuse' = misuse
        /\ owner' = [x \in Blocks |-> IF x \in {a, b, c, d} THEN "text" ELSE owner[x]]
        /\ a # b /\ a # c /\ a # d /\ b # c /\ b # d /\ c # d
    BY <1>3, <1>4, <2>1
  <2>3. \A x \in {a, b, c, d} : x \in Blocks /\ owner[x] = "nobody" /\ x # NULL
    BY <1>1 DEF Free
  <2>4. Pointers(2, noparse, content', pcontent', offset', tags')
    BY <1>4, <2>1, <2>2, <2>3 DEF Pointers
  <2>5. {content', pcontent', offset', tags'} = {a, b, c, d} /\ {a, b, c, d} \ {NULL} = {a, b, c, d}
    BY <2>1, <2>3
  <2>6. owner' \in [Blocks -> {"text", "other", "nobody"}]
    BY <1>1, <2>2
  <2>7. OwnedIn(owner') = OwnedIn(owner) \cup {a, b, c, d}
    BY <2>2, <2>3 DEF OwnedIn
  <2>8. OwnedIn(owner) \cap {a, b, c, d} = {}
    BY <2>3 DEF OwnedIn
  <2> QED
    BY <2>1, <2>2, <2>3, <2>4, <2>5, <2>6, <2>7, <2>8
<1>5. CASE noparse
  <2>1. PICK a \in Free : content' = a /\ pcontent' = a /\ FreeAndTake(Earlier, {a})
    BY <1>5 DEF ReadsFile
  <2>2. offset' = NULL /\ tags' = NULL
    BY <1>1, <1>5 DEF ReadsFile
  <2>3. /\ misuse' = misuse
        /\ owner' = [x \in Blocks |-> IF x \in {a} THEN "text" ELSE owner[x]]
    BY <1>1, <1>2, <2>1, Takes
  <2>4. a \in Blocks /\ owner[a] = "nobody" /\ a # NULL
    BY <1>1 DEF Free
  <2>5. Pointers(2, noparse, content', pcontent', offset', tags')
    BY <1>5, <2>1, <2>2, <2>4 DEF Pointers
  <2>6. {content', pcontent', offset', tags'} \ {NULL} = {a}
    BY <2>1, <2>2, <2>4
  <2>7. owner' \in [Blocks -> {"text", "other", "nobody"}]
    BY <1>1, <2>3
  <2>8. OwnedIn(owner') = OwnedIn(owner) \cup {a}
    BY <2>3, <2>4 DEF OwnedIn
  <2>9. OwnedIn(owner) \cap {a} = {}
    BY <2>4 DEF OwnedIn
  <2> QED
    BY <1>5, <2>3, <2>4, <2>5, <2>6, <2>7, <2>8, <2>9
<1> QED
  BY <1>1, <1>4, <1>5

\* cleanContent frees the text that is loaded, and nothing else; only the one block
\* with two names is freed twice.
LEMMA Cleaning ==
  ASSUME IInv, pc = "clean", ~misuse, Cleaned
  PROVE  /\ misuse' \in BOOLEAN
         /\ owner' \in [Blocks -> {"text", "other", "nobody"}]
         /\ \A x \in {content', pcontent', offset', tags'} : x \in Blocks \cup {NULL}
         /\ OwnedIn(owner') = OwnedIn(owner) \ Current(pc, content, pcontent, offset, tags)
         /\ misuse' => ~DEBUGFLAG /\ caller = "PredictFile"
<1>1. /\ misuse = FALSE /\ owner \in [Blocks -> {"text", "other", "nobody"}] /\ NULL \notin Blocks
      /\ Pointers(contentType, noparse, content, pcontent, offset, tags)
      /\ Current(pc, content, pcontent, offset, tags) \subseteq OwnedIn(owner)
      /\ contentType = 2 => noparse = (caller # "trainer" /\ ~DEBUGFLAG) /\ caller # "PredictString"
      /\ caller \in {"PredictFile", "PredictString", "trainer"}
      /\ noparse \in BOOLEAN
      /\ \A x \in {content, pcontent, offset, tags} : x \in Blocks \cup {NULL}
  BY VirtualContentAssumption DEF IInv, Types, Pointed
<1> DEFINE Named == {content, pcontent, offset, tags} \ {NULL}
<1>2. Current(pc, content, pcontent, offset, tags) = Named
  BY DEF Current
<1>3. \A x \in Named : x \in Blocks /\ owner[x] = "text"
  BY <1>1, <1>2 DEF OwnedIn
<1>4. ASSUME NEW p, {p[n] : n \in {n \in DOMAIN p : p[n] # NULL}} = Named, FreeAndTake(p, {})
      PROVE  /\ misuse' \in BOOLEAN
             /\ owner' \in [Blocks -> {"text", "other", "nobody"}]
             /\ OwnedIn(owner') = OwnedIn(owner) \ Named
             /\ misuse' => \E n, m \in DOMAIN p : m # n /\ p[n] # NULL /\ p[m] = p[n]
  <2>1. owner' = [b \in Blocks |-> IF b \in Named THEN "nobody" ELSE owner[b]]
    BY <1>4 DEF FreeAndTake
  <2>2. /\ owner' \in [Blocks -> {"text", "other", "nobody"}]
        /\ OwnedIn(owner') = OwnedIn(owner) \ Named
    BY <1>1, <2>1 DEF OwnedIn
  <2>3. misuse' = \E n \in {n \in DOMAIN p : p[n] # NULL} :
                    \/ owner[p[n]] # "text"
                    \/ \E m \in {m \in DOMAIN p : p[m] # NULL} : m # n /\ p[m] = p[n]
    BY <1>1, <1>4 DEF FreeAndTake
  <2>4. \A n \in DOMAIN p : p[n] # NULL => p[n] \in Named
    BY <1>4
  <2>5. \A n \in DOMAIN p : p[n] # NULL => owner[p[n]] = "text"
    BY <1>3, <2>4
  <2> QED
    BY <2>2, <2>3, <2>5
<1>5. CASE SecondName
  <2> DEFINE p == <<content, pcontent, offset, tags>>
  <2>1. FreeAndTake(p, {}) /\ content' = NULL /\ pcontent' = NULL /\ offset' = NULL /\ tags' = NULL
    BY <1>5 DEF Cleaned, pointers
  <2>2. DOMAIN p = 1..4 /\ p[1] = content /\ p[2] = pcontent /\ p[3] = offset /\ p[4] = tags
    OBVIOUS
  <2> HIDE DEF p
  <2>3. {p[n] : n \in {n \in DOMAIN p : p[n] # NULL}} = Named
    <3>1. \A n \in DOMAIN p : n = 1 \/ n = 2 \/ n = 3 \/ n = 4
      BY <2>2
    <3>2. 1 \in DOMAIN p /\ 2 \in DOMAIN p /\ 3 \in DOMAIN p /\ 4 \in DOMAIN p
      BY <2>2
    <3>3. ASSUME NEW x \in Named PROVE x \in {p[n] : n \in {n \in DOMAIN p : p[n] # NULL}}
      BY <2>2, <3>2
    <3>4. ASSUME NEW n \in {n \in DOMAIN p : p[n] # NULL} PROVE p[n] \in Named
      BY <2>2, <3>1
    <3> QED
      BY <3>3, <3>4
  <2>4. /\ misuse' \in BOOLEAN
        /\ owner' \in [Blocks -> {"text", "other", "nobody"}]
        /\ OwnedIn(owner') = OwnedIn(owner) \ Named
        /\ misuse' => \E n, m \in DOMAIN p : m # n /\ p[n] # NULL /\ p[m] = p[n]
    BY <1>4, <2>1, <2>3
  <2>5. ASSUME misuse' PROVE ~DEBUGFLAG /\ caller = "PredictFile"
    <3>1. contentType = 2
      BY <1>5 DEF SecondName
    <3>2. noparse
      <4> SUFFICES ASSUME ~noparse PROVE FALSE
        BY <1>1
      <4>1. /\ content # pcontent /\ content # offset /\ content # tags
            /\ pcontent # offset /\ pcontent # tags /\ offset # tags
        BY <1>1, <3>1 DEF Pointers
      <4>2. PICK n, m \in DOMAIN p : m # n /\ p[n] # NULL /\ p[m] = p[n]
        BY <2>4, <2>5
      <4>3. n \in 1..4 /\ m \in 1..4
        BY <2>2, <4>2
      <4> QED
        BY <2>2, <4>1, <4>2, <4>3
    <3> QED
      BY <1>1, <3>1, <3>2
  <2> QED
    BY <1>2, <2>1, <2>4, <2>5
<1>6. CASE ~SecondName
  <2> DEFINE p == <<content>>
  <2>1. FreeAndTake(p, {}) /\ content' = NULL /\ UNCHANGED <<pcontent, offset, tags>>
    BY <1>6 DEF Cleaned
  <2>2. DOMAIN p = {1} /\ p[1] = content
    OBVIOUS
  <2>3. Named = {content} /\ content # NULL
    BY <1>1, <1>6 DEF Pointers, SecondName
  <2> HIDE DEF p
  <2>4. {p[n] : n \in {n \in DOMAIN p : p[n] # NULL}} = Named
    BY <2>2, <2>3
  <2>5. /\ misuse' \in BOOLEAN
        /\ owner' \in [Blocks -> {"text", "other", "nobody"}]
        /\ OwnedIn(owner') = OwnedIn(owner) \ Named
        /\ misuse' => \E n, m \in DOMAIN p : m # n /\ p[n] # NULL /\ p[m] = p[n]
    BY <1>4, <2>1, <2>4
  <2>6. ~misuse'
    BY <2>2, <2>5
  <2> QED
    BY <1>1, <1>2, <2>1, <2>5, <2>6
<1> QED
  BY <1>5, <1>6

LEMMA InvNext == IInv /\ [Next]_vars => IInv'
<1> SUFFICES ASSUME IInv, [Next]_vars PROVE IInv'
  OBVIOUS
<1>1. Types /\ Pointed /\ NoStaleText /\ Misused /\ Leaked /\ NULL \notin Blocks
      /\ Callers \subseteq {"PredictFile", "PredictString", "trainer"} /\ MaxRefusals \in Nat
  BY VirtualContentAssumption DEF IInv
<1>2. CASE Call
  BY <1>1, <1>2 DEF Call, Step, pointers, IInv, Types, Pointed, NoStaleText, getPcontent, Misused, Leaked, Current
<1>3. CASE initContent
  <2>1. /\ pc = "init" /\ pc' = "mode" /\ ~misuse /\ DEBUGFLAG' = DEBUGFLAG
        /\ content' = NULL /\ pcontent' = NULL /\ offset' = NULL /\ tags' = NULL
        /\ noparse' = FALSE /\ contentType' = 0 /\ UNCHANGED <<owner, caller, misuse, refusals>>
    BY <1>3 DEF initContent, Step
  <2>2. Current(pc, content, pcontent, offset, tags) = {} /\ Current(pc', content', pcontent', offset', tags') = {}
    BY <2>1 DEF Current
  <2>3. Types' /\ Pointed' /\ NoStaleText' /\ Misused'
    <3>1. noparse' \in BOOLEAN
      BY <2>1
    <3>2. Types'
      BY <1>1, <2>1, <3>1 DEF Types
    <3> QED
      BY <1>1, <2>1, <3>2 DEF Pointed, NoStaleText, getPcontent, Misused
  <2>4. Leaked'
    BY <1>1, <2>1, <2>2 DEF Leaked
  <2> QED
    BY <2>3, <2>4 DEF IInv
<1>4. CASE setNoParse
  <2>1. /\ pc = "mode" /\ pc' = "load" /\ ~misuse /\ DEBUGFLAG' = DEBUGFLAG
        /\ noparse' = (caller # "trainer" /\ ~DEBUGFLAG)
        /\ UNCHANGED <<content, pcontent, offset, tags, contentType, owner, caller, misuse, refusals>>
    BY <1>4 DEF setNoParse, Step, pointers
  <2>2. Current(pc, content, pcontent, offset, tags) = {} /\ Current(pc', content', pcontent', offset', tags') = {}
    BY <2>1 DEF Current
  <2>3. Types' /\ Pointed' /\ NoStaleText' /\ Misused'
    <3>1. noparse' \in BOOLEAN
      BY <2>1
    <3>2. Types'
      BY <1>1, <2>1, <3>1 DEF Types
    <3>3. Pointed'
      BY <1>1, <2>1 DEF Pointed
    <3>4. NoStaleText' /\ Misused'
      BY <1>1, <2>1 DEF NoStaleText, getPcontent, Misused
    <3> QED
      BY <3>2, <3>3, <3>4
  <2>4. Leaked'
    BY <1>1, <2>1, <2>2 DEF Leaked
  <2> QED
    BY <2>3, <2>4 DEF IInv
<1>5. CASE setFileContent
  <2>1. /\ caller = "PredictString" /\ pc = "load" /\ pc' = "use" /\ ~misuse /\ DEBUGFLAG' = DEBUGFLAG
        /\ contentType' = 1 /\ UNCHANGED <<offset, tags, noparse, caller, refusals>>
    BY <1>5 DEF setFileContent, Step
  <2>2. PICK b \in Free : content' = b /\ pcontent' = b /\ FreeAndTake(Earlier, {b})
    BY <1>5 DEF setFileContent
  <2>3. contentType = 0 /\ offset = NULL /\ tags = NULL /\ Earlier = <<>>
    BY <1>1, <2>1 DEF Pointed, Earlier
  <2>4. misuse' = misuse /\ owner' = [x \in Blocks |-> IF x \in {b} THEN "text" ELSE owner[x]]
    BY <1>1, <2>2, <2>3, Takes DEF Types
  <2>5. b \in Blocks /\ owner[b] = "nobody" /\ b # NULL
    BY <1>1 DEF Free
  <2>6. OwnedIn(owner') = OwnedIn(owner) \cup {b} /\ b \notin OwnedIn(owner)
    BY <2>4, <2>5 DEF OwnedIn
  <2>7. Current(pc', content', pcontent', offset', tags') = {b} /\ Current(pc, content, pcontent, offset, tags) = {}
    BY <2>1, <2>2, <2>3, <2>5 DEF Current
  <2>8. Types'
    BY <1>1, <2>1, <2>2, <2>4, <2>5 DEF Types
  <2>9. Pointers(contentType', noparse', content', pcontent', offset', tags')
    BY <2>1, <2>2, <2>3, <2>5 DEF Pointers
  <2>10. Pointed'
    BY <2>1, <2>6, <2>7, <2>9 DEF Pointed
  <2>11. NoStaleText' /\ Misused'
    BY <1>1, <2>1, <2>2, <2>4, <2>5 DEF NoStaleText, getPcontent, Misused
  <2>12. OwnedIn(owner') \ {b} = OwnedIn(owner) \ {}
    BY <2>6
  <2>13. Leaked'
    BY <1>1, <2>1, <2>4, <2>7, <2>12 DEF Leaked
  <2> QED
    BY <2>8, <2>10, <2>11, <2>13 DEF IInv
<1>6. CASE OpenFails
  <2>1. /\ pc = "load" /\ pc' = "idle" /\ ~misuse /\ DEBUGFLAG' = DEBUGFLAG
        /\ FreeAndTake(Earlier, {})
        /\ UNCHANGED <<offset, tags, contentType, noparse, caller, refusals>>
    BY <1>6 DEF OpenFails, Step
  <2>2. contentType = 0 /\ Earlier = <<>>
    BY <1>1, <2>1 DEF Pointed, Earlier
  <2>3. UNCHANGED <<content, pcontent>>
    BY <1>6, <2>2 DEF OpenFails
  <2>4. misuse' = misuse /\ owner' = [x \in Blocks |-> IF x \in {} THEN "text" ELSE owner[x]]
    BY <1>1, <2>1, <2>2, Takes DEF Types
  <2>5. owner' = owner
    BY <1>1, <2>4 DEF Types
  <2>6. Current(pc, content, pcontent, offset, tags) = {} /\ Current(pc', content', pcontent', offset', tags') = {}
    BY <2>1 DEF Current
  <2>7. Types' /\ Pointed' /\ NoStaleText' /\ Misused'
    BY <1>1, <2>1, <2>2, <2>3, <2>4, <2>5 DEF Types, Pointed, NoStaleText, getPcontent, Misused
  <2>8. Leaked'
    BY <1>1, <2>1, <2>4, <2>5, <2>6 DEF Leaked
  <2> QED
    BY <2>7, <2>8 DEF IInv
<1>7. CASE parseFile
  <2>1. /\ caller # "PredictString" /\ pc = "load" /\ pc' = "use" /\ ~misuse /\ DEBUGFLAG' = DEBUGFLAG
        /\ ReadsFile /\ contentType' = 2 /\ UNCHANGED <<noparse, caller, refusals>>
    BY <1>7 DEF parseFile, Step
  <2> DEFINE new == {content', pcontent', offset', tags'} \ {NULL}
  <2>2. /\ misuse' = misuse
        /\ owner' \in [Blocks -> {"text", "other", "nobody"}]
        /\ Pointers(2, noparse, content', pcontent', offset', tags')
        /\ new \subseteq Blocks
        /\ OwnedIn(owner') = OwnedIn(owner) \cup new
        /\ OwnedIn(owner) \cap new = {}
    BY <2>1, Reading
  <2>3. Current(pc', content', pcontent', offset', tags') = new /\ Current(pc, content, pcontent, offset, tags) = {}
    BY <2>1 DEF Current
  <2>4. pcontent' \in new /\ pcontent' # NULL
    BY <1>1, <2>2 DEF Pointers
  <2>5. Types'
    BY <1>1, <2>1, <2>2 DEF Types
  <2>6. noparse = (caller # "trainer" /\ ~DEBUGFLAG)
    BY <1>1, <2>1 DEF Pointed
  <2>7. Pointed'
    BY <2>1, <2>2, <2>3, <2>6 DEF Pointed
  <2>8. NoStaleText' /\ Misused'
    BY <1>1, <2>1, <2>2, <2>4 DEF NoStaleText, getPcontent, Misused, OwnedIn
  <2>9. OwnedIn(owner') \ new = OwnedIn(owner) \ {}
    BY <2>2
  <2>10. Leaked'
    BY <1>1, <2>1, <2>2, <2>3, <2>9 DEF Leaked
  <2> QED
    BY <2>5, <2>7, <2>8, <2>10 DEF IInv
<1>8. CASE parseFileRefuses
  <2>1. /\ pc = "load" /\ pc' = "idle" /\ ~misuse /\ DEBUGFLAG' = DEBUGFLAG
        /\ ~noparse /\ refusals < MaxRefusals /\ refusals' = refusals + 1
        /\ ReadsFile /\ contentType' = 2 /\ UNCHANGED <<noparse, caller>>
    BY <1>8 DEF parseFileRefuses, Step
  <2> DEFINE four == {content', pcontent', offset', tags'}
             new == four \ {NULL}
  <2>2. /\ misuse' = misuse
        /\ owner' \in [Blocks -> {"text", "other", "nobody"}]
        /\ Pointers(2, noparse, content', pcontent', offset', tags')
        /\ Cardinality(four) = 4
        /\ new \subseteq Blocks
        /\ OwnedIn(owner') = OwnedIn(owner) \cup new
        /\ OwnedIn(owner) \cap new = {}
    BY <2>1, Reading
  <2>3. new = four /\ pcontent' \in new
    BY <1>1, <2>1, <2>2 DEF Pointers
  <2>4. Current(pc', content', pcontent', offset', tags') = {} /\ Current(pc, content, pcontent, offset, tags) = {}
    BY <2>1 DEF Current
  <2>5. Types'
    BY <1>1, <2>1, <2>2, <2>3 DEF Types
  <2>6. Pointed' /\ NoStaleText' /\ Misused'
    BY <1>1, <2>1, <2>2, <2>3 DEF Pointed, NoStaleText, getPcontent, Misused, OwnedIn
  <2>7. IsFiniteSet(OwnedIn(owner)) /\ IsFiniteSet(four)
    <3>1. OwnedIn(owner) \in SUBSET Blocks /\ four \in SUBSET Blocks
      BY <2>2, <2>3 DEF OwnedIn
    <3> QED
      BY <3>1, FS_Subset, VirtualContentAssumption
  <2> HIDE DEF four
  <2>8. Cardinality(OwnedIn(owner) \cup four) = Cardinality(OwnedIn(owner)) + 4
    <3>1. /\ Cardinality(OwnedIn(owner) \cup four) =
                Cardinality(OwnedIn(owner)) + Cardinality(four) - Cardinality(OwnedIn(owner) \cap four)
          /\ Cardinality(OwnedIn(owner)) \in Nat
      BY <2>7, FS_Union, FS_CardinalityType
    <3>2. Cardinality(OwnedIn(owner) \cap four) = 0
      BY <2>2, <2>3, FS_EmptySet
    <3> QED
      BY <2>2, <3>1, <3>2
  <2>9. Cardinality(OwnedIn(owner)) = 4 * refusals
    <3>1. OwnedIn(owner) \ {} = OwnedIn(owner)
      OBVIOUS
    <3> QED
      BY <1>1, <2>1, <2>4, <3>1 DEF Leaked
  <2>10. Leaked'
    <3>1. OwnedIn(owner') \ {} = OwnedIn(owner) \cup four
      BY <2>2, <2>3
    <3>2. refusals \in Nat
      BY <1>1 DEF Types
    <3>3. Cardinality(OwnedIn(owner') \ {}) = 4 * refusals'
      <4>1. PICK r \in Nat : r = refusals
        BY <3>2
      <4>2. Cardinality(OwnedIn(owner') \ {}) = 4 * r + 4 /\ refusals' = r + 1
        BY <2>1, <2>8, <2>9, <3>1, <4>1
      <4> QED
        BY <4>1, <4>2
    <3> QED
      BY <2>4, <3>3 DEF Leaked
  <2> QED
    BY <2>5, <2>6, <2>10 DEF IInv
<1>9. CASE OtherTakes
  <2>1. /\ pc = "use" /\ pc' = "use" /\ ~misuse /\ DEBUGFLAG' = DEBUGFLAG
        /\ UNCHANGED <<content, pcontent, offset, tags, contentType, noparse, caller, misuse, refusals>>
    BY <1>9 DEF OtherTakes, Step, pointers
  <2>2. PICK b \in Free : owner' = [owner EXCEPT ![b] = "other"]
    BY <1>9 DEF OtherTakes
  <2>3. b \in Blocks /\ owner[b] = "nobody" /\ owner \in [Blocks -> {"text", "other", "nobody"}]
    BY <1>1 DEF Free, Types
  <2>4. owner' \in [Blocks -> {"text", "other", "nobody"}] /\ OwnedIn(owner') = OwnedIn(owner)
        /\ \A x \in Blocks : owner[x] = "text" => owner'[x] = "text"
    BY <2>2, <2>3 DEF OwnedIn
  <2>5. pcontent \in Blocks \cup {NULL}
    BY <1>1 DEF Types
  <2>6. Types' /\ Pointed' /\ NoStaleText' /\ Misused'
    BY <1>1, <2>1, <2>4, <2>5 DEF Types, Pointed, NoStaleText, getPcontent, Misused
  <2>7. Leaked'
    BY <1>1, <2>1, <2>4 DEF Leaked
  <2> QED
    BY <2>6, <2>7 DEF IInv
<1>10. CASE OtherFrees
  <2>1. /\ pc = "idle" /\ pc' = "idle" /\ ~misuse /\ DEBUGFLAG' = DEBUGFLAG
        /\ UNCHANGED <<content, pcontent, offset, tags, contentType, noparse, caller, misuse, refusals>>
    BY <1>10 DEF OtherFrees, Step, pointers
  <2>2. PICK b \in Blocks : owner[b] = "other" /\ owner' = [owner EXCEPT ![b] = "nobody"]
    BY <1>10 DEF OtherFrees
  <2>3. owner \in [Blocks -> {"text", "other", "nobody"}]
    BY <1>1 DEF Types
  <2>4. owner' \in [Blocks -> {"text", "other", "nobody"}] /\ OwnedIn(owner') = OwnedIn(owner)
        /\ \A x \in Blocks : owner[x] = "text" => owner'[x] = "text"
    BY <2>2, <2>3 DEF OwnedIn
  <2>5. pcontent \in Blocks \cup {NULL}
    BY <1>1 DEF Types
  <2>6. Types' /\ Pointed' /\ NoStaleText' /\ Misused'
    BY <1>1, <2>1, <2>4, <2>5 DEF Types, Pointed, NoStaleText, getPcontent, Misused
  <2>7. Leaked'
    BY <1>1, <2>1, <2>4 DEF Leaked
  <2> QED
    BY <2>6, <2>7 DEF IInv
<1>11. CASE Used
  <2>1. /\ pc = "use" /\ pc' = "clean" /\ ~misuse /\ DEBUGFLAG' = DEBUGFLAG
        /\ UNCHANGED <<content, pcontent, offset, tags, contentType, noparse, owner, caller, misuse, refusals>>
    BY <1>11 DEF Used, Step, pointers
  <2>2. Current(pc', content', pcontent', offset', tags') = Current(pc, content, pcontent, offset, tags)
    BY <2>1 DEF Current
  <2>3. Types' /\ Pointed' /\ NoStaleText' /\ Misused'
    BY <1>1, <2>1, <2>2 DEF Types, Pointed, NoStaleText, getPcontent, Misused
  <2>4. Leaked'
    BY <1>1, <2>1, <2>2 DEF Leaked
  <2> QED
    BY <2>3, <2>4 DEF IInv
<1>12. CASE cleanContent
  <2>1. /\ pc = "clean" /\ pc' = "idle" /\ ~misuse /\ DEBUGFLAG' = DEBUGFLAG
        /\ Cleaned /\ contentType' = 0 /\ noparse' = FALSE /\ UNCHANGED <<caller, refusals>>
    BY <1>12 DEF cleanContent, Cleaned, Step
  <2>2. /\ misuse' \in BOOLEAN
        /\ owner' \in [Blocks -> {"text", "other", "nobody"}]
        /\ \A x \in {content', pcontent', offset', tags'} : x \in Blocks \cup {NULL}
        /\ OwnedIn(owner') = OwnedIn(owner) \ Current(pc, content, pcontent, offset, tags)
        /\ misuse' => ~DEBUGFLAG /\ caller = "PredictFile"
    BY <2>1, Cleaning
  <2>3. Current(pc', content', pcontent', offset', tags') = {}
    BY <2>1 DEF Current
  <2>4. Types' /\ Pointed' /\ NoStaleText' /\ Misused'
    <3>1. Types'
      <4>1. noparse' \in BOOLEAN
        BY <2>1
      <4> QED
        BY <1>1, <2>1, <2>2, <4>1 DEF Types
    <3>2. Pointed'
      BY <2>1 DEF Pointed
    <3>3. NoStaleText'
      BY <2>1 DEF NoStaleText, getPcontent
    <3>4. Misused'
      BY <2>1, <2>2 DEF Misused
    <3> QED
      BY <3>1, <3>2, <3>3, <3>4
  <2>5. OwnedIn(owner') \ {} = OwnedIn(owner) \ Current(pc, content, pcontent, offset, tags)
    BY <2>2
  <2>6. Leaked'
    BY <1>1, <2>1, <2>3, <2>5 DEF Leaked
  <2> QED
    BY <2>4, <2>6 DEF IInv
<1>13. CASE UNCHANGED vars
  BY <1>1, <1>13 DEF vars, pointers, IInv, Types, Pointed, NoStaleText, getPcontent, Misused, Leaked
<1> QED
  BY <1>2, <1>3, <1>4, <1>5, <1>6, <1>7, <1>8, <1>9, <1>10, <1>11, <1>12, <1>13 DEF Next

LEMMA Invariance == Spec => []IInv
BY InvInit, InvNext, PTL DEF Spec

\* No block is freed twice or by another than its owner, and no text is handed out that
\* was freed, for any number of blocks and calls, but for the one block of a release
\* build that has two names (virtualcontent.c, 58-61 and 301-317).
THEOREM OwnBlocks == Spec => []NamesOwnBlocks
<1>1. IInv => NamesOwnBlocks
  <2> SUFFICES ASSUME IInv PROVE NamesOwnBlocks
    OBVIOUS
  <2>1. Types /\ Pointed /\ NoStaleText /\ Misused /\ NULL \notin Blocks
    BY VirtualContentAssumption DEF IInv
  <2>2. \A n \in 1..4 : pointers[n] \in Blocks \cup {NULL}
    <3>1. ASSUME NEW n \in 1..4 PROVE n = 1 \/ n = 2 \/ n = 3 \/ n = 4
      OBVIOUS
    <3> QED
      BY <2>1, <3>1 DEF Types, pointers
  <2>3. pc = "use" => (offset # NULL <=> contentType = 2 /\ ~noparse)
    BY <2>1 DEF Pointed, Pointers
  <2>4. TypeOK
    BY <2>1, <2>2, <2>3 DEF TypeOK, Types
  <2> QED
    BY <2>1, <2>4 DEF NamesOwnBlocks, FreedOnceElse, Misused
<1> QED
  BY <1>1, Invariance, PTL

\* Between two calls the text holder has the blocks of the refused texts, four for each,
\* and no others, after any number of calls.
THEOREM RefusalsLeak == Spec => []OnlyRefusalsLeak
<1>1. IInv => OnlyRefusalsLeak
  <2> SUFFICES ASSUME IInv, pc = "idle", ~misuse PROVE Cardinality(Owned) = 4 * refusals
    BY DEF OnlyRefusalsLeak
  <2>1. OwnedIn(owner) \ Current(pc, content, pcontent, offset, tags) = Owned
    BY DEF Current, OwnedIn, Owned
  <2> QED
    BY <2>1 DEF IInv, Leaked
<1> QED
  BY <1>1, Invariance, PTL

--------------------------------------------------------------------------------
(* Numbers: least and greatest elements, and what a prime number of cells does *)
(* for double hashing.                                                         *)

\* A set of natural numbers has a least element.
LEMMA Least ==
  ASSUME NEW S \in SUBSET Nat, S # {}
  PROVE  Min(S) \in S /\ \A x \in S : Min(S) <= x
<1> DEFINE R == OpToRel(<, Nat)
<1>1. PICK m \in S : \A y \in S : ~(<<y, m>> \in R)
  <2>1. IsWellFoundedOn(R, Nat)
    BY NatLessThanWellFounded, Zenon
  <2> HIDE DEF R
  <2> QED
    BY <2>1, WFMin
<1>2. \A y \in S : ~(y < m)
  BY <1>1 DEF OpToRel
<1>3. \A y \in S : m <= y
  BY <1>2
<1> QED
  BY <1>3 DEF Min

\* A set of numbers up to n has a greatest element.
LEMMA Greatest ==
  ASSUME NEW n \in Nat, NEW S \in SUBSET (0..n), S # {}
  PROVE  Max(S) \in S /\ \A x \in S : x <= Max(S)
<1> DEFINE D == {n - x : x \in S}
<1>1. D \in SUBSET Nat /\ D # {}
  <2>1. \A x \in S : x \in 0..n /\ n - x \in Nat
    OBVIOUS
  <2> QED
    BY <2>1
<1> HIDE DEF D
<1>2. Min(D) \in D /\ \A x \in D : Min(D) <= x
  BY <1>1, Least
<1>3. PICK m \in S : Min(D) = n - m
  BY <1>2 DEF D
<1>4. \A y \in S : y <= m
  <2> SUFFICES ASSUME NEW y \in S PROVE y <= m
    OBVIOUS
  <2>1. n - m <= n - y
    BY <1>2, <1>3 DEF D
  <2> QED
    BY <2>1
<1> QED
  BY <1>4 DEF Max

\* Nothing is left of a multiple.
LEMMA Divides ==
  ASSUME NEW p \in Nat, p > 0, NEW c \in Int
  PROVE  (p * c) % p = 0
OBVIOUS

\* Division with a rest.
LEMMA DivMod ==
  ASSUME NEW p \in Nat, p > 0, NEW x \in Int
  PROVE  /\ x % p \in 0..(p - 1) /\ x \div p \in Int
         /\ x = p * (x \div p) + (x % p)
<1>1. x % p \in 0..(p - 1)
  OBVIOUS
<1>2. x \div p \in Int
  OBVIOUS
<1>3. x = p * (x \div p) + (x % p)
  OBVIOUS
<1> QED
  BY <1>1, <1>2, <1>3

\* What is left of a multiple and a number below the divisor is this number.
LEMMA ModBelow ==
  ASSUME NEW p \in Nat, p > 0, NEW c \in Int, NEW r \in 0..(p - 1)
  PROVE  (p * c + r) % p = r
OBVIOUS

\* A prime divides no product of smaller numbers.
LEMMA Prime ==
  ASSUME NEW p \in Nat, IsPrime(p), NEW a \in 1..(p - 1), NEW b \in 1..(p - 1)
  PROVE  (a * b) % p # 0
<1> SUFFICES ASSUME (a * b) % p = 0 PROVE FALSE
  OBVIOUS
<1> DEFINE D == {x \in 1..(p - 1) : (x * b) % p = 0}
           d == Min(D)
           q == p \div d
           r == p % d
<1>1. d \in D /\ \A x \in D : d <= x
  <2>1. D \in SUBSET Nat
    OBVIOUS
  <2>2. a \in D
    OBVIOUS
  <2> HIDE DEF D
  <2> QED
    BY <2>1, <2>2, Least
<1>2. d \in 1..(p - 1) /\ (d * b) % p = 0
  BY <1>1
<1>3. \A x \in 1..(p - 1) : (x * b) % p = 0 => d <= x
  BY <1>1
<1> HIDE DEF D, d
<1>4. p > 1 /\ d > 1
  <2>1. p > 1
    BY DEF IsPrime
  <2>2. CASE d = 1
    <3>1. d * b = b
      BY <2>2
    <3>2. b % p = b
      <4>1. b \in 0..(p - 1) /\ p * 0 + b = b
        OBVIOUS
      <4> QED
        BY <2>1, <4>1, ModBelow
    <3> QED
      BY <1>2, <3>1, <3>2
  <2> QED
    BY <1>2, <2>1, <2>2
<1>5. r \in 0..(d - 1) /\ q \in Int /\ p = d * q + r
  BY <1>2, <1>4, DivMod
<1>6. r # 0
  <2>1. d \in 2..(p - 1)
    BY <1>2, <1>4
  <2>2. p % d # 0
    BY <2>1 DEF IsPrime
  <2> QED
    BY <2>2
<1> DEFINE c == (d * b) \div p
<1>7. c \in Int /\ d * b = p * c
  <2> DEFINE e == d * b
  <2>1. e \in Int
    BY <1>2
  <2>4. c = e \div p
    OBVIOUS
  <2> HIDE DEF c, e
  <2>5. e \div p \in Int /\ e = p * (e \div p) + (e % p)
    BY <1>4, <2>1, DivMod
  <2>2. c \in Int /\ d * b = p * c + ((d * b) % p)
    BY <2>4, <2>5 DEF e
  <2>3. p * c \in Int
    BY <2>2
  <2> QED
    BY <1>2, <2>2, <2>3
<1> HIDE DEF q, r, c
<1>8. r * b = p * (b - q * c)
  <2>1. r = p - d * q
    BY <1>2, <1>5
  <2>2. r * b = p * b - (d * q) * b
    BY <1>2, <1>5, <2>1
  <2>3. (d * q) * b = (d * b) * q
    BY <1>2, <1>5
  <2>4. (d * b) * q = p * (q * c)
    BY <1>5, <1>7
  <2>5. p * b - p * (q * c) = p * (b - q * c)
    BY <1>5, <1>7
  <2> QED
    BY <2>2, <2>3, <2>4, <2>5
<1>9. (r * b) % p = 0
  <2>1. b - q * c \in Int
    BY <1>5, <1>7
  <2> QED
    BY <1>4, <1>8, <2>1, Divides
<1> QED
  BY <1>2, <1>3, <1>5, <1>6, <1>9

\* No two probes of one round come to the same cell.
LEMMA ProbesApart ==
  ASSUME NEW n \in Nat, IsPrime(n), n > 2, NEW k \in Nat,
         NEW a \in 0..(n - 1), NEW b \in 0..(n - 1), a < b
  PROVE  Probe(k, a, n) # Probe(k, b, n)
<1> DEFINE inc == 1 + (k % (n - 1))
<1>1. inc \in 1..(n - 1)
  <2>1. n - 1 \in Nat /\ n - 1 > 0
    OBVIOUS
  <2>2. k % (n - 1) \in 0..((n - 1) - 1)
    BY <2>1, DivMod
  <2> QED
    BY <2>2
<1> SUFFICES ASSUME (k + a * inc) % n = (k + b * inc) % n PROVE FALSE
  BY DEF Probe
<1> HIDE DEF inc
<1> DEFINE x == k + a * inc
           y == k + b * inc
           c == x \div n
           d == y \div n
<1>2. x \in Int /\ y \in Int
  BY <1>1
<1>3. c \in Int /\ d \in Int /\ x = n * c + (x % n) /\ y = n * d + (y % n) /\ x % n \in Int
  <2> HIDE DEF x, y
  <2> QED
    BY <1>2, DivMod
<1>4. x % n = y % n
  OBVIOUS
<1>5. y - x = (b - a) * inc
  BY <1>1
<1> HIDE DEF x, y, c, d
<1>6. y - x = n * (d - c)
  <2>1. y - x = n * d - n * c
    BY <1>3, <1>4
  <2>2. n * d - n * c = n * (d - c)
    BY <1>3
  <2> QED
    BY <2>1, <2>2
<1>7. ((b - a) * inc) % n = 0
  <2>1. d - c \in Int /\ (b - a) * inc = n * (d - c)
    BY <1>3, <1>5, <1>6
  <2> QED
    BY <2>1, Divides
<1>8. b - a \in 1..(n - 1)
  OBVIOUS
<1> QED
  BY <1>1, <1>7, <1>8, Prime

\* The probes for a key come to every cell.
LEMMA ProbesReach ==
  ASSUME NEW n \in Nat, IsPrime(n), n > 2, NEW k \in Nat, NEW i \in 0..(n - 1)
  PROVE  \E m \in 0..(n - 1) : Probe(k, m, n) = i
<1> DEFINE S == 0..(n - 1)
           f == [m \in S |-> Probe(k, m, n)]
<1>1. f \in [S -> S]
  <2> SUFFICES ASSUME NEW m \in S PROVE Probe(k, m, n) \in S
    OBVIOUS
  <2>1. n - 1 \in Nat /\ n - 1 > 0
    OBVIOUS
  <2>2. k % (n - 1) \in 0..((n - 1) - 1)
    BY <2>1, DivMod
  <2>3. k + m * (1 + (k % (n - 1))) \in Int
    BY <2>2
  <2> HIDE DEF S
  <2> QED
    BY <2>3, DivMod DEF Probe, S
<1>2. f \in Injection(S, S)
  <2> SUFFICES ASSUME NEW a \in S, NEW b \in S, a # b PROVE f[a] # f[b]
    BY <1>1 DEF Injection, IsInjective
  <2>1. a < b \/ b < a
    OBVIOUS
  <2> QED
    BY <2>1, ProbesApart
<1>3. IsFiniteSet(S)
  BY FS_Interval
<1> HIDE DEF f, S
<1>4. f \in Surjection(S, S)
  BY <1>2, <1>3, FS_Injection
<1>5. PICK m \in S : f[m] = i
  BY <1>4 DEF Surjection, S
<1> QED
  BY <1>5 DEF f, S

--------------------------------------------------------------------------------
(* The cells of a table: f are the flags, ks the keys of n cells, hf the hash     *)
(* function.                                                                      *)

Sizes == {primes[t] : t \in 2..Len(primes)}

LiveIn(f, n) == {i \in 0..(n - 1) : f[i] = "live"}
UsedIn(f, n) == {i \in 0..(n - 1) : f[i] # "empty"}

Passed(f, c, m, n) == \A q \in 0..(m - 1) : f[Probe(c, q, n)] # "empty"

\* A key is in one cell, and probing for it comes there before an empty one.
Reached(f, ks, hf, n, i) ==
  \E m \in 0..(n - 1) : Probe(hf[ks[i]], m, n) = i /\ Passed(f, hf[ks[i]], m, n)
Sound(f, ks, hf, n) ==
  /\ \A i \in 0..(n - 1) : f[i] = "live" => Reached(f, ks, hf, n, i)
  /\ \A i, j \in 0..(n - 1) : f[i] = "live" /\ f[j] = "live" /\ ks[i] = ks[j] => i = j

\* What is in the table.
Has(f, ks, vs, n, k, v) == \E i \in 0..(n - 1) : f[i] = "live" /\ ks[i] = k /\ vs[i] = v

Flags == {"empty", "del", "live"}

TableOK(h, hf) ==
  /\ h = [n_buckets |-> h.n_buckets, size |-> h.size, n_occupied |-> h.n_occupied,
          upper_bound |-> h.upper_bound, flags |-> h.flags, keys |-> h.keys, vals |-> h.vals]
  /\ h.n_buckets \in Sizes \cup {0}
  /\ h.n_buckets = 0 => h.upper_bound = 0
  /\ h.n_buckets > 0 =>
       /\ h.flags \in [0..(h.n_buckets - 1) -> Flags]
       /\ h.keys \in [0..(h.n_buckets - 1) -> Keys]
       /\ h.vals \in [0..(h.n_buckets - 1) -> Vals]
       /\ h.upper_bound = UpperBound(h.n_buckets)
  /\ h.size = Cardinality(LiveIn(h.flags, h.n_buckets))
  /\ h.n_occupied = Cardinality(UsedIn(h.flags, h.n_buckets)) /\ h.n_occupied <= h.upper_bound
  /\ Sound(h.flags, h.keys, hf, h.n_buckets)

\* The sizes a table may have are primes above 2.
LEMMA SizesAre ==
  ASSUME NEW n \in Sizes
  PROVE  n \in Nat /\ n > 2 /\ IsPrime(n)
<1>1. PICK t \in 2..Len(primes) : n = primes[t]
  BY DEF Sizes
<1>2. t \in 1..Len(primes) /\ primes \in Seq(Nat)
  BY PrimesAssumption
<1> QED
  BY <1>1, <1>2, PrimesAssumption

\* A probe is a cell.
LEMMA ProbeIn ==
  ASSUME NEW n \in Sizes, NEW k \in Nat, NEW m \in Nat
  PROVE  Probe(k, m, n) \in 0..(n - 1)
<1>1. n \in Nat /\ n > 0 /\ n - 1 \in Nat /\ n - 1 > 0
  BY SizesAre
<1> DEFINE x == 1 + (k % (n - 1))
<1>2. x \in Nat
  <2>1. k % (n - 1) \in 0..((n - 1) - 1)
    BY <1>1, DivMod
  <2> QED
    BY <1>1, <2>1
<1> HIDE DEF x
<1>3. k + m * x \in Int
  BY <1>2
<1>4. (k + m * x) % n \in 0..(n - 1)
  BY <1>1, <1>3, DivMod
<1> QED
  BY <1>4 DEF Probe, x

\* The upper bound of a table is below its size, and above its half.
LEMMA BelowUpper ==
  ASSUME NEW n \in Sizes
  PROVE  UpperBound(n) \in Nat /\ UpperBound(n) < n /\ 2 * UpperBound(n) > n /\ UpperBound(n) >= 2
<1>1. n \in Nat /\ n > 2
  BY SizesAre
<1> QED
  BY <1>1 DEF UpperBound

\* A set of fewer than n cells leaves one out.
LEMMA SomeLeft ==
  ASSUME NEW n \in Nat, NEW S \in SUBSET (0..(n - 1)), Cardinality(S) < n
  PROVE  \E i \in 0..(n - 1) : i \notin S
<1>1. IsFiniteSet(0..(n - 1)) /\ Cardinality(0..(n - 1)) = n
  <2>1. 0 \in Int /\ n - 1 \in Int /\ (n - 1) - 0 + 1 = n /\ (0 > n - 1 <=> n = 0)
    OBVIOUS
  <2> QED
    BY <2>1, FS_Interval
<1>2. S # 0..(n - 1)
  BY <1>1
<1> QED
  BY <1>2

\* Probing for a key stops.
LEMMA Stopping ==
  ASSUME NEW h, NEW hf, NEW key, hf[key] \in Nat, h.n_buckets \in Sizes,
         \E i \in 0..(h.n_buckets - 1) : h.flags[i] = "empty",
         NEW past, past = Past(h, hf, key)
  PROVE  /\ past \in 0..(h.n_buckets - 1) /\ Stops(h, hf, key, past)
         /\ \A m \in 0..(past - 1) : ~Stops(h, hf, key, m)
<1> DEFINE n == h.n_buckets
           stops == {m \in 0..(n - 1) : Stops(h, hf, key, m)}
<1>1. PICK i \in 0..(n - 1) : h.flags[i] = "empty"
  OBVIOUS
<1>2. n \in Nat /\ n > 2 /\ IsPrime(n)
  BY SizesAre
<1>3. PICK m \in 0..(n - 1) : Probe(hf[key], m, n) = i
  BY <1>2, ProbesReach
<1>4. m \in stops
  BY <1>1, <1>3 DEF Stops
<1>5. stops \in SUBSET Nat /\ stops # {}
  BY <1>2, <1>4
<1>6. past = Min(stops)
  BY <1>4 DEF Past
<1>7. past \in stops /\ \A x \in stops : past <= x
  <2> HIDE DEF stops
  <2>1. Min(stops) \in stops /\ \A x \in stops : Min(stops) <= x
    BY <1>5, Least
  <2> QED
    BY <1>6, <2>1
<1>8. past \in 0..(n - 1) /\ Stops(h, hf, key, past)
  BY <1>7
<1>9. ASSUME NEW x \in 0..(past - 1) PROVE ~Stops(h, hf, key, x)
  <2>1. x \in 0..(n - 1) /\ ~(past <= x)
    BY <1>2, <1>8
  <2> QED
    BY <1>7, <2>1
<1> QED
  BY <1>8, <1>9

\* The cell x is free and on the way of the key, which is in no cell.
MayEnter(f, ks, hf, n, key, x) ==
  /\ Sound(f, ks, hf, n) /\ f[x] # "live"
  /\ \E m \in 0..(n - 1) : Probe(hf[key], m, n) = x /\ Passed(f, hf[key], m, n)
  /\ \A i \in 0..(n - 1) : f[i] = "live" => ks[i] # key
  /\ hf[key] \in Nat /\ \A i \in 0..(n - 1) : hf[ks[i]] \in Nat

\* g is f with v at x.
Changed(f, g, n, x, v) == g[x] = v /\ \A i \in 0..(n - 1) : i # x => g[i] = f[i]

\* A free cell takes a key that is in no other one, if probing for it comes there.
LEMMA Enter ==
  ASSUME NEW n \in Sizes, NEW f, NEW ks, NEW hf, NEW key, NEW x \in 0..(n - 1), MayEnter(f, ks, hf, n, key, x),
         NEW g, Changed(f, g, n, x, "live"), NEW ls, Changed(ks, ls, n, x, key)
  PROVE  Sound(g, ls, hf, n)
<1> USE DEF MayEnter, Changed
<1>0. PICK m \in 0..(n - 1) : Probe(hf[key], m, n) = x /\ Passed(f, hf[key], m, n)
  OBVIOUS
<1>1. ASSUME NEW c \in Nat, NEW q \in 0..(n - 1), Passed(f, c, q, n) PROVE Passed(g, c, q, n)
  <2> SUFFICES ASSUME NEW r \in 0..(q - 1) PROVE g[Probe(c, r, n)] # "empty"
    BY DEF Passed
  <2>1. Probe(c, r, n) \in 0..(n - 1)
    <3>1. n \in Nat /\ r \in Nat
      BY SizesAre
    <3> QED
      BY <3>1, ProbeIn
  <2>2. f[Probe(c, r, n)] # "empty"
    BY <1>1 DEF Passed
  <2> QED
    BY <2>1, <2>2
<1>2. ASSUME NEW i \in 0..(n - 1), g[i] = "live" PROVE Reached(g, ls, hf, n, i)
  <2>1. CASE i = x
    BY <1>1, <2>1 DEF Reached
  <2>2. CASE i # x
    <3>1. f[i] = "live" /\ ls[i] = ks[i] /\ hf[ks[i]] \in Nat
      BY <1>2, <2>2
    <3>2. Reached(f, ks, hf, n, i)
      BY <3>1 DEF Sound
    <3> QED
      BY <1>1, <3>1, <3>2 DEF Reached
  <2> QED
    BY <2>1, <2>2
<1>3. ASSUME NEW i \in 0..(n - 1), NEW j \in 0..(n - 1), g[i] = "live", g[j] = "live", ls[i] = ls[j]
      PROVE  i = j
  <2>1. CASE i # x /\ j # x
    BY <1>3, <2>1 DEF Sound
  <2>2. CASE i = x \/ j = x
    BY <1>3, <2>2
  <2> QED
    BY <2>1, <2>2
<1> QED
  BY <1>2, <1>3 DEF Sound

\* How many cells are live or in use, when one of them changes.
LEMMA Counts ==
  ASSUME NEW n \in Nat, NEW S \in SUBSET (0..(n - 1)), NEW x
  PROVE  /\ Cardinality(S) \in Nat /\ Cardinality(S) <= n
         /\ x \notin S => Cardinality(S \cup {x}) = Cardinality(S) + 1
         /\ x \in S => Cardinality(S \ {x}) = Cardinality(S) - 1
         /\ Cardinality(S) = 0 <=> S = {}
<1>1. IsFiniteSet(0..(n - 1)) /\ Cardinality(0..(n - 1)) = n
  <2>1. 0 \in Int /\ n - 1 \in Int /\ (n - 1) - 0 + 1 = n /\ (0 > n - 1 <=> n = 0)
    OBVIOUS
  <2> QED
    BY <2>1, FS_Interval
<1>2. IsFiniteSet(S) /\ Cardinality(S) <= n
  BY <1>1, FS_Subset
<1> QED
  BY <1>2, FS_CardinalityType, FS_AddElement, FS_RemoveElement, FS_EmptySet

\* A table with cells has an empty one.
LEMMA TableSizes ==
  ASSUME NEW h, NEW hf, TableOK(h, hf), h.n_buckets # 0
  PROVE  /\ h.n_buckets \in Sizes /\ h.n_buckets \in Nat /\ h.n_buckets > 2
         /\ \E i \in 0..(h.n_buckets - 1) : h.flags[i] = "empty"
         /\ h.flags \in [0..(h.n_buckets - 1) -> Flags] /\ h.keys \in [0..(h.n_buckets - 1) -> Keys]
         /\ h.vals \in [0..(h.n_buckets - 1) -> Vals] /\ h.upper_bound = UpperBound(h.n_buckets)
         /\ h.upper_bound \in Nat /\ h.upper_bound < h.n_buckets
<1> DEFINE n == h.n_buckets
<1>1. n \in Sizes
  BY DEF TableOK
<1>2. n \in Nat /\ n > 2
  BY <1>1, SizesAre
<1>3. UpperBound(n) \in Nat /\ UpperBound(n) < n
  BY <1>1, BelowUpper
<1>4. UsedIn(h.flags, n) \in SUBSET (0..(n - 1))
  BY DEF UsedIn
<1>5. Cardinality(UsedIn(h.flags, n)) < n
  <2>1. Cardinality(UsedIn(h.flags, n)) \in Nat
    BY <1>2, <1>4, Counts
  <2> QED
    BY <1>2, <1>3, <2>1 DEF TableOK
<1>6. PICK i \in 0..(n - 1) : i \notin UsedIn(h.flags, n)
  BY <1>2, <1>4, <1>5, SomeLeft
<1>7. h.flags[i] = "empty"
  BY <1>6 DEF UsedIn
<1> QED
  BY <1>1, <1>2, <1>3, <1>7 DEF TableOK

\* kh_get comes to the cell of a key that is there, else to none.
LEMMA GetSays ==
  ASSUME NEW h, NEW hf, TableOK(h, hf), hf \in [Keys -> Nat], NEW key \in Keys,
         NEW x, x = kh_get(h, hf, key)
  PROVE  \/ x \in 0..(h.n_buckets - 1) /\ h.flags[x] = "live" /\ h.keys[x] = key
         \/ x = h.n_buckets /\ \A i \in 0..(h.n_buckets - 1) : h.flags[i] = "live" => h.keys[i] # key
<1> DEFINE n == h.n_buckets
           past == Past(h, hf, key)
           c == hf[key]
<1>1. CASE n = 0
  BY <1>1 DEF kh_get
<1>2. CASE n # 0
  <2>1. n \in Sizes /\ n \in Nat /\ n > 2 /\ c \in Nat
    BY <1>2, TableSizes
  <2>2. /\ past \in 0..(n - 1) /\ Stops(h, hf, key, past)
        /\ \A m \in 0..(past - 1) : ~Stops(h, hf, key, m)
    BY <1>2, <2>1, TableSizes, Stopping
  <2> HIDE DEF past
  <2> DEFINE i == Probe(c, past, n)
  <2>7. past \in Nat
    BY <2>1, <2>2
  <2> HIDE DEF n, c
  <2>3. i \in 0..(n - 1)
    BY <2>1, <2>7, ProbeIn
  <2> USE DEF n, c
  <2>4. x = IF h.flags[i] = "live" THEN i ELSE n
    BY <2>1, <2>2 DEF kh_get, past
  <2>5. CASE h.flags[i] = "live"
    BY <2>2, <2>3, <2>4, <2>5 DEF Stops
  <2>6. CASE h.flags[i] # "live"
    <3>1. h.flags[i] = "empty"
      BY <2>2, <2>6 DEF Stops
    <3>2. ASSUME NEW j \in 0..(n - 1), h.flags[j] = "live", h.keys[j] = key PROVE FALSE
      <4>1. PICK m \in 0..(n - 1) : Probe(c, m, n) = j /\ Passed(h.flags, c, m, n)
        BY <3>2 DEF TableOK, Sound, Reached
      <4>2. Stops(h, hf, key, m)
        BY <3>2, <4>1 DEF Stops
      <4>3. past < m \/ past = m
        BY <2>1, <2>2, <4>2
      <4>4. CASE past < m
        <5>1. past \in 0..(m - 1)
          BY <2>2, <4>4
        <5> QED
          BY <3>1, <4>1, <5>1 DEF Passed
      <4>5. CASE past = m
        BY <3>1, <3>2, <4>1, <4>5
      <4> QED
        BY <4>3, <4>4, <4>5
    <3> QED
      BY <2>4, <2>6, <3>2
  <2> QED
    BY <2>5, <2>6
<1> QED
  BY <1>1, <1>2

\* kh_put goes to the cell of the key, or to a free one on the way of the key, which
\* then is in no cell.
LEMMA SiteSays ==
  ASSUME NEW h, NEW hf, TableOK(h, hf), hf \in [Keys -> Nat], NEW key \in Keys, h.n_buckets # 0,
         NEW x, x = Site(h, hf, key)
  PROVE  /\ x \in 0..(h.n_buckets - 1)
         /\ h.flags[x] = "live" => h.keys[x] = key
         /\ h.flags[x] # "live" =>
              /\ \A i \in 0..(h.n_buckets - 1) : h.flags[i] = "live" => h.keys[i] # key
              /\ \E m \in 0..(h.n_buckets - 1) :
                   Probe(hf[key], m, h.n_buckets) = x /\ Passed(h.flags, hf[key], m, h.n_buckets)
<1> DEFINE n == h.n_buckets
           past == Past(h, hf, key)
           c == hf[key]
           i == Probe(c, past, n)
           dels == {m \in 0..(past - 1) : h.flags[Probe(hf[key], m, n)] = "del"}
<1>1. n \in Sizes /\ n \in Nat /\ n > 2 /\ c \in Nat
  BY TableSizes
<1>2. /\ past \in 0..(n - 1) /\ Stops(h, hf, key, past)
      /\ \A m \in 0..(past - 1) : ~Stops(h, hf, key, m)
  BY <1>1, TableSizes, Stopping
<1>3. i \in 0..(n - 1)
  <2>1. past \in Nat
    BY <1>1, <1>2
  <2> HIDE DEF n, c, past
  <2> QED
    BY <1>1, <2>1, ProbeIn
<1>4. x = IF dels # {} /\ (past = n \/ h.flags[i] = "empty") THEN Probe(c, Max(dels), n) ELSE i
  BY DEF Site
<1>5. h.flags[i] \in {"live", "empty"} /\ (h.flags[i] = "live" => h.keys[i] = key)
  BY <1>2 DEF Stops
<1>6. kh_get(h, hf, key) = IF h.flags[i] = "live" THEN i ELSE n
  BY <1>1, <1>2 DEF kh_get
<1>7. ASSUME NEW m \in 0..past PROVE Passed(h.flags, c, m, n)
  <2> SUFFICES ASSUME NEW q \in 0..(m - 1) PROVE h.flags[Probe(c, q, n)] # "empty"
    BY DEF Passed
  <2>1. q \in 0..(past - 1)
    BY <1>1, <1>2
  <2>2. ~Stops(h, hf, key, q)
    BY <1>2, <2>1
  <2> QED
    BY <2>2 DEF Stops
<1>8. CASE h.flags[i] = "live"
  <2>1. x = i
    BY <1>1, <1>2, <1>4, <1>8
  <2> QED
    BY <1>3, <1>5, <1>8, <2>1
<1>9. CASE h.flags[i] = "empty"
  <2>1. \A j \in 0..(n - 1) : h.flags[j] = "live" => h.keys[j] # key
    <3>1. kh_get(h, hf, key) = n
      BY <1>6, <1>9
    <3>2. ~(n \in 0..(n - 1))
      BY <1>1
    <3> QED
      BY <3>1, <3>2, GetSays
  <2>2. CASE dels = {}
    <3>1. x = i
      BY <1>4, <2>2
    <3>2. past \in 0..past
      BY <1>1, <1>2
    <3>3. Passed(h.flags, c, past, n)
      BY <1>7, <3>2
    <3> QED
      BY <1>2, <1>3, <1>9, <2>1, <3>1, <3>3
  <2>3. CASE dels # {}
    <3> DEFINE m == Max(dels)
    <3>1. m \in dels
      <4>1. dels \in SUBSET (0..n) /\ n \in Nat
        BY <1>1, <1>2
      <4> HIDE DEF dels
      <4> QED
        BY <2>3, <4>1, Greatest
    <3>2. x = Probe(c, m, n)
      BY <1>4, <1>9, <2>3
    <3>3. m \in 0..(n - 1) /\ m \in 0..past /\ m \in Nat
      BY <1>1, <1>2, <3>1
    <3>4. h.flags[x] = "del"
      BY <3>1, <3>2
    <3>5. x \in 0..(n - 1)
      BY <1>1, <3>2, <3>3, ProbeIn
    <3>6. Passed(h.flags, c, m, n)
      BY <1>7, <3>3
    <3> HIDE DEF m
    <3> QED
      BY <2>1, <3>2, <3>3, <3>4, <3>5, <3>6
  <2> QED
    BY <2>2, <2>3
<1> QED
  BY <1>5, <1>8, <1>9

--------------------------------------------------------------------------------
(* kh_resize.                                                                 *)

\* Rounding up to a prime, where the list has one.
LEMMA NextPrimeSays ==
  ASSUME NEW x \in Nat, NEW u \in 2..Len(primes), x < primes[u]
  PROVE  NextPrime(x) \in Sizes /\ x < NextPrime(x)
<1> DEFINE L == Len(primes)
           U == {t \in 2..L : x < primes[t]}
           Fits(t) == primes[t] <= x /\ x < primes[t + 1]
<1>1. L \in Nat /\ L > 1 /\ primes[1] = 0 /\ \A t \in 1..L : primes[t] \in Nat
  BY PrimesAssumption
<1>2. Min(U) \in U /\ \A t \in U : Min(U) <= t
  <2>1. U \in SUBSET Nat /\ u \in U
    BY <1>1
  <2> HIDE DEF U
  <2> QED
    BY <2>1, Least
<1>3. \E t \in 1..(L - 1) : Fits(t)
  <2> DEFINE t == Min(U) - 1
  <2>1. Min(U) \in 2..L /\ x < primes[Min(U)]
    BY <1>2
  <2>2. t \in 1..(L - 1) /\ t + 1 = Min(U)
    BY <1>1, <2>1
  <2>3. primes[t] <= x
    <3>1. CASE t = 1
      BY <1>1, <3>1
    <3>2. CASE t # 1
      <4>1. t \in 2..L /\ ~(Min(U) <= t) /\ t \in 1..L
        BY <1>1, <2>1, <2>2, <3>2
      <4>2. ~(x < primes[t])
        BY <1>2, <4>1
      <4> QED
        BY <1>1, <4>1, <4>2
    <3> QED
      BY <3>1, <3>2
  <2> HIDE DEF t
  <2> QED
    BY <2>1, <2>2, <2>3
<1> DEFINE t == CHOOSE t \in 1..(L - 1) : Fits(t)
<1>4. t \in 1..(L - 1) /\ Fits(t)
  BY <1>3
<1>5. NextPrime(x) = primes[1 + t]
  BY DEF NextPrime
<1> HIDE DEF t
<1>6. 1 + t = t + 1 /\ t + 1 \in 2..L
  BY <1>1, <1>4
<1> QED
  BY <1>4, <1>5, <1>6 DEF Sizes

\* kh_put resizes to a size that is not smaller, and has room.
LEMMA RoomLeft ==
  ASSUME NEW h, NEW hf, TableOK(h, hf), 2 * h.size < primes[Len(primes)],
         h.n_occupied >= h.upper_bound,
         NEW x, x = IF h.n_buckets > 2 * h.size THEN h.n_buckets - 1 ELSE h.n_buckets + 1
  PROVE  /\ NextPrime(x) \in Sizes /\ h.n_buckets <= NextPrime(x)
         /\ h.size < UpperBound(NextPrime(x)) /\ h.size \in Nat /\ h.n_buckets \in Nat
<1> DEFINE n == h.n_buckets
           L == Len(primes)
<1>1. L \in Nat /\ L > 1 /\ \A t \in 2..L : primes[t] \in Nat /\ primes[t] > 2 /\ IsPrime(primes[t])
  BY PrimesAssumption
<1>2. n = 0 \/ \E t \in 2..L : n = primes[t]
  BY DEF TableOK, Sizes
<1>3. n \in Nat
  BY <1>1, <1>2
<1>4. h.size \in Nat /\ h.size <= h.n_occupied /\ h.n_occupied = h.upper_bound
  <2>1. LiveIn(h.flags, n) \in SUBSET (0..(n - 1)) /\ UsedIn(h.flags, n) \in SUBSET (0..(n - 1))
    BY DEF LiveIn, UsedIn
  <2>2. h.size \in Nat /\ h.n_occupied \in Nat
    <3>1. Cardinality(LiveIn(h.flags, n)) \in Nat /\ Cardinality(UsedIn(h.flags, n)) \in Nat
      BY <1>3, <2>1, Counts
    <3> QED
      BY <3>1 DEF TableOK
  <2>3. LiveIn(h.flags, n) \in SUBSET UsedIn(h.flags, n)
    BY DEF LiveIn, UsedIn
  <2>4. IsFiniteSet(UsedIn(h.flags, n))
    <3>1. IsFiniteSet(0..(n - 1))
      BY <1>3, FS_Interval, SMTT(30)
    <3> QED
      BY <2>1, <3>1, FS_Subset
  <2>5. h.size <= h.n_occupied
    BY <2>3, <2>4, FS_Subset DEF TableOK
  <2>6. h.upper_bound \in Nat
    BY <1>3, TableSizes DEF TableOK
  <2> QED
    BY <2>2, <2>5, <2>6 DEF TableOK
<1>5. CASE n > 2 * h.size
  <2>1. x = n - 1 /\ x \in Nat
    BY <1>3, <1>4, <1>5
  <2>2. PICK t \in 2..L : n = primes[t]
    BY <1>2, <1>4, <1>5
  <2>3. NextPrime(x) \in Sizes /\ x < NextPrime(x)
    BY <1>3, <2>1, <2>2, NextPrimeSays
  <2>4. NextPrime(x) \in Nat /\ n <= NextPrime(x)
    BY <1>3, <2>1, <2>3, SizesAre
  <2>5. 2 * UpperBound(NextPrime(x)) > NextPrime(x) /\ UpperBound(NextPrime(x)) \in Nat
    BY <2>3, BelowUpper
  <2> QED
    BY <1>3, <1>4, <1>5, <2>3, <2>4, <2>5
<1>6. CASE ~(n > 2 * h.size)
  <2>1. x = n + 1 /\ x \in Nat /\ n < primes[L] /\ L \in 2..L
    BY <1>1, <1>3, <1>4, <1>6
  <2>2. x < primes[L]
    <3> DEFINE p == primes[L]
    <3>1. p \in Nat /\ p > 2 /\ IsPrime(p)
      BY <1>1, <2>1
    <3> SUFFICES ASSUME p = n + 1 PROVE FALSE
      BY <1>3, <2>1, <3>1
    <3>2. n > 2 /\ IsPrime(n)
      BY <1>1, <1>2, <3>1
    <3> HIDE DEF p
    <3>3. 2 \in 2..(n - 1) /\ 2 \in 2..(p - 1)
      BY <1>3, <3>2
    <3>4. n % 2 # 0 /\ (n + 1) % 2 # 0
      BY <3>1, <3>2, <3>3 DEF IsPrime
    <3> QED
      BY <1>3, <3>4
  <2>3. NextPrime(x) \in Sizes /\ x < NextPrime(x)
    BY <2>1, <2>2, NextPrimeSays
  <2>4. NextPrime(x) \in Nat /\ n + 2 <= NextPrime(x)
    BY <1>3, <2>1, <2>3, SizesAre
  <2>5. h.size < UpperBound(NextPrime(x))
    <3>1. CASE n = 0
      <4>1. h.size = 0
        BY <1>3, <1>4, <3>1 DEF TableOK
      <4> QED
        BY <2>3, <4>1, BelowUpper
    <3>2. CASE n # 0
      <4>1. h.size <= UpperBound(n)
        BY <1>3, <1>4, <3>2 DEF TableOK
      <4>2. UpperBound(n) < UpperBound(NextPrime(x))
        BY <1>3, <2>4, SMTT(30) DEF UpperBound
      <4>3. UpperBound(n) \in Int /\ UpperBound(NextPrime(x)) \in Int
        BY <1>3, <2>4, SMTT(30) DEF UpperBound
      <4> QED
        BY <1>4, <4>1, <4>2, <4>3
    <3> QED
      BY <3>1, <3>2
  <2> QED
    BY <1>3, <1>4, <2>3, <2>4, <2>5
<1> QED
  BY <1>5, <1>6

\* The cells that hold an entry while the table h moves into n2 cells, c entries of it
\* being moved.
Full(s, n, n2) == {i \in 0..(n2 - 1) : (i < n /\ s.old[i] = "live") \/ s.new[i] = "live"}

HasMoving(s, n, n2, k, v) ==
  \/ s.busy /\ s.key = k /\ s.val = v
  \/ \E i \in Full(s, n, n2) : s.keys[i] = k /\ s.vals[i] = v

MovingTypes(s, n, n2) ==
  /\ s = [old |-> s.old, new |-> s.new, keys |-> s.keys, vals |-> s.vals,
          busy |-> s.busy, key |-> s.key, val |-> s.val]
  /\ n > 0 => s.old \in [0..(n - 1) -> Flags]
  /\ s.new \in [0..(n2 - 1) -> {"empty", "live"}]
  /\ s.keys \in [0..(n2 - 1) -> Keys] /\ s.vals \in [0..(n2 - 1) -> Vals]
  /\ s.busy \in BOOLEAN /\ s.key \in Keys /\ s.val \in Vals

Moving(h, hf, n2, c, s) ==
  LET n == h.n_buckets IN
  /\ MovingTypes(s, n, n2)
  /\ Cardinality(LiveIn(s.new, n2)) = c
  /\ Cardinality(LiveIn(s.old, n)) + (IF s.busy THEN 1 ELSE 0) + c = h.size
  /\ \A i \in 0..(n - 1) : s.old[i] = "live" => s.new[i] # "live"
  /\ Sound(s.new, s.keys, hf, n2)
  /\ \A i, j \in Full(s, n, n2) : s.keys[i] = s.keys[j] => i = j
  /\ s.busy => \A i \in Full(s, n, n2) : s.keys[i] # s.key
  /\ \A k, v : HasMoving(s, n, n2, k, v) <=> Has(h.flags, h.keys, h.vals, n, k, v)

\* What a lemma about the moving knows.
Resizing(h, hf, n2) ==
  /\ TableOK(h, hf) /\ hf \in [Keys -> Nat] /\ n2 \in Sizes
  /\ h.n_buckets \in Nat /\ h.n_buckets <= n2 /\ h.size \in Nat /\ h.size < UpperBound(n2)

\* Before the first entry is moved nothing is.
LEMMA MovingBegins ==
  ASSUME NEW h, NEW hf, NEW n2, Resizing(h, hf, n2)
  PROVE  Moving(h, hf, n2, 0, Unmoved(h, n2))
<1> DEFINE n == h.n_buckets
           k0 == CHOOSE k \in Keys : TRUE
           v0 == CHOOSE v \in Vals : TRUE
           s == Unmoved(h, n2)
<1>1. k0 \in Keys /\ v0 \in Vals
  BY DictAssumption
<1> HIDE DEF k0, v0
<1>2. s = [old |-> h.flags, new |-> [i \in 0..(n2 - 1) |-> "empty"],
           keys |-> Grown(h.keys, n, n2, k0), vals |-> Grown(h.vals, n, n2, v0),
           busy |-> FALSE, key |-> k0, val |-> v0]
  BY DEF Unmoved, k0, v0
<1> HIDE DEF s
<1>3. n \in Nat /\ n2 \in Nat /\ n <= n2
  BY SizesAre DEF Resizing
<1>4. n > 0 => /\ h.flags \in [0..(n - 1) -> Flags] /\ h.keys \in [0..(n - 1) -> Keys]
               /\ h.vals \in [0..(n - 1) -> Vals]
  BY DEF Resizing, TableOK
<1>5. /\ s.keys \in [0..(n2 - 1) -> Keys] /\ s.vals \in [0..(n2 - 1) -> Vals]
      /\ \A i \in 0..(n - 1) : s.keys[i] = h.keys[i] /\ s.vals[i] = h.vals[i]
  <2>1. ASSUME NEW i \in 0..(n2 - 1), i < n PROVE h.keys[i] \in Keys /\ h.vals[i] \in Vals
    <3>1. i \in 0..(n - 1) /\ n > 0
      BY <1>3, <2>1
    <3> QED
      BY <1>4, <3>1
  <2>2. Grown(h.keys, n, n2, k0) \in [0..(n2 - 1) -> Keys]
    BY <1>1, <2>1 DEF Grown
  <2>3. Grown(h.vals, n, n2, v0) \in [0..(n2 - 1) -> Vals]
    BY <1>1, <2>1 DEF Grown
  <2>4. ASSUME NEW i \in 0..(n - 1)
        PROVE  Grown(h.keys, n, n2, k0)[i] = h.keys[i] /\ Grown(h.vals, n, n2, v0)[i] = h.vals[i]
    <3>1. i \in 0..(n2 - 1) /\ i < n
      BY <1>3
    <3> QED
      BY <3>1 DEF Grown
  <2> QED
    BY <1>2, <2>2, <2>3, <2>4
<1>6. s.old = h.flags /\ s.new = [i \in 0..(n2 - 1) |-> "empty"] /\ s.busy = FALSE
      /\ s.key = k0 /\ s.val = v0
  BY <1>2
<1>7. MovingTypes(s, n, n2)
  BY <1>1, <1>2, <1>4, <1>5, <1>6 DEF MovingTypes
<1>8. \A i \in 0..(n2 - 1) : s.new[i] = "empty"
  BY <1>6
<1>9. LiveIn(s.new, n2) = {}
  BY <1>8 DEF LiveIn
<1>10. Full(s, n, n2) = LiveIn(h.flags, n)
  BY <1>3, <1>6, <1>8 DEF Full, LiveIn
<1>11. Cardinality(LiveIn(s.new, n2)) = 0
  BY <1>9, FS_EmptySet
<1>12. Cardinality(LiveIn(s.old, n)) = h.size
  BY <1>6 DEF Resizing, TableOK
<1>13. Sound(s.new, s.keys, hf, n2)
  BY <1>8 DEF Sound
<1>14. \A i \in 0..(n - 1) : s.old[i] = "live" => s.new[i] # "live"
  BY <1>3, <1>8
<1>15. \A i, j \in Full(s, n, n2) : s.keys[i] = s.keys[j] => i = j
  BY <1>5, <1>10 DEF LiveIn, Resizing, TableOK, Sound
<1>16. \A k, v : HasMoving(s, n, n2, k, v) <=> Has(h.flags, h.keys, h.vals, n, k, v)
  BY <1>5, <1>6, <1>10 DEF HasMoving, Has, LiveIn
<1>17. Cardinality(LiveIn(s.old, n)) + (IF s.busy THEN 1 ELSE 0) + 0 = h.size
  <2>1. h.size \in Nat
    BY DEF Resizing
  <2> QED
    BY <1>6, <1>12, <2>1
<1>18. Moving(h, hf, n2, 0, s)
  BY <1>6, <1>7, <1>11, <1>13, <1>14, <1>15, <1>16, <1>17 DEF Moving
<1> QED
  BY <1>18 DEF s

\* Before the last entry is moved there is one in hand, or one to take.
LEMMA TakesEntry ==
  ASSUME NEW h, NEW hf, NEW n2, Resizing(h, hf, n2), NEW c \in 0..(h.size - 1),
         NEW s, Moving(h, hf, n2, c, s), NEW t, t = Taken(s, h.n_buckets)
  PROVE  t.busy /\ Moving(h, hf, n2, c, t)
<1> DEFINE n == h.n_buckets
           S == LiveIn(s.old, n)
           j == Min(S)
<1>1. CASE s.busy
  BY <1>1 DEF Taken, Moving
<1>2. CASE ~s.busy
  <2>1. n \in Nat /\ n2 \in Nat /\ n <= n2 /\ h.size \in Nat
    BY SizesAre DEF Resizing
  <2>2. S \in SUBSET (0..(n - 1)) /\ S \in SUBSET Nat
    BY <2>1 DEF LiveIn
  <2>3. Cardinality(S) \in Nat /\ Cardinality(S) + 0 + c = h.size /\ MovingTypes(s, n, n2)
    <3>1. Cardinality(S) \in Nat
      BY <2>1, <2>2, Counts
    <3> QED
      BY <1>2, <3>1 DEF Moving
  <2>4. S # {}
    <3>1. Cardinality(S) # 0
      BY <2>1, <2>3
    <3> QED
      BY <3>1, FS_EmptySet
  <2>5. j \in S
    <3> HIDE DEF S
    <3> QED
      BY <2>2, <2>4, Least
  <2>6. t = [s EXCEPT !.old[j] = "del", !.busy = TRUE, !.key = s.keys[j], !.val = s.vals[j]]
    BY <1>2 DEF Taken, LiveIn
  <2> HIDE DEF j
  <2>7. j \in 0..(n - 1) /\ j \in 0..(n2 - 1) /\ n > 0 /\ s.old[j] = "live" /\ j < n
    BY <2>1, <2>5 DEF LiveIn
  <2>8. /\ t = [old |-> t.old, new |-> s.new, keys |-> s.keys, vals |-> s.vals,
                busy |-> TRUE, key |-> s.keys[j], val |-> s.vals[j]]
        /\ t.old = [s.old EXCEPT ![j] = "del"]
    <3>1. s = [old |-> s.old, new |-> s.new, keys |-> s.keys, vals |-> s.vals,
               busy |-> s.busy, key |-> s.key, val |-> s.val]
      BY <2>3 DEF MovingTypes
    <3> QED
      BY <2>6, <3>1
  <2>9. /\ t.new = s.new /\ t.keys = s.keys /\ t.vals = s.vals /\ t.busy = TRUE
        /\ t.key = s.keys[j] /\ t.val = s.vals[j]
    BY <2>8
  <2>10. s.old \in [0..(n - 1) -> Flags]
    BY <2>3, <2>7 DEF MovingTypes
  <2>11. t.old \in [0..(n - 1) -> Flags] /\ t.old[j] = "del" /\ \A i \in 0..(n - 1) : i # j => t.old[i] = s.old[i]
    BY <2>7, <2>8, <2>10 DEF Flags
  <2>12. MovingTypes(t, n, n2)
    <3>1. /\ s.new \in [0..(n2 - 1) -> {"empty", "live"}]
          /\ s.keys \in [0..(n2 - 1) -> Keys] /\ s.vals \in [0..(n2 - 1) -> Vals]
      BY <2>3 DEF MovingTypes
    <3>2. s.keys[j] \in Keys /\ s.vals[j] \in Vals
      BY <2>7, <3>1
    <3>3. t = [old |-> t.old, new |-> t.new, keys |-> t.keys, vals |-> t.vals,
               busy |-> t.busy, key |-> t.key, val |-> t.val]
      BY <2>8, <2>9
    <3> QED
      BY <2>9, <2>11, <3>1, <3>2, <3>3 DEF MovingTypes
  <2>13. LiveIn(t.old, n) = S \ {j}
    BY <2>11 DEF LiveIn
  <2>14. Cardinality(LiveIn(t.old, n)) + (IF t.busy THEN 1 ELSE 0) + c = h.size
    <3>1. Cardinality(S \ {j}) = Cardinality(S) - 1
      BY <2>1, <2>2, <2>5, Counts
    <3> QED
      BY <2>1, <2>3, <2>9, <2>13, <3>1
  <2>15. s.new[j] # "live"
    BY <2>7 DEF Moving
  <2>16. Full(t, n, n2) = Full(s, n, n2) \ {j} /\ j \in Full(s, n, n2)
    <3>1. j \in Full(s, n, n2)
      BY <2>7 DEF Full
    <3>2. ASSUME NEW i \in 0..(n2 - 1)
          PROVE  i \in Full(t, n, n2) <=> i \in Full(s, n, n2) /\ i # j
      <4>1. CASE i = j
        BY <2>9, <2>11, <2>15, <4>1 DEF Full
      <4>2. CASE i # j /\ i < n
        <5>1. i \in 0..(n - 1)
          BY <2>1, <4>2
        <5> QED
          BY <2>9, <2>11, <4>2, <5>1 DEF Full
      <4>3. CASE i # j /\ ~(i < n)
        BY <2>9, <4>3 DEF Full
      <4> QED
        BY <4>1, <4>2, <4>3
    <3> QED
      BY <3>1, <3>2 DEF Full
  <2>17. \A i, m \in Full(t, n, n2) : t.keys[i] = t.keys[m] => i = m
    BY <2>9, <2>16 DEF Moving
  <2>18. \A i \in Full(t, n, n2) : t.keys[i] # t.key
    BY <2>9, <2>16 DEF Moving
  <2>19. \A k, v : HasMoving(t, n, n2, k, v) <=> HasMoving(s, n, n2, k, v)
    BY <1>2, <2>9, <2>16 DEF HasMoving
  <2>20. \A i \in 0..(n - 1) : t.old[i] = "live" => t.new[i] # "live"
    BY <2>9, <2>11 DEF Moving
  <2>21. Sound(t.new, t.keys, hf, n2) /\ Cardinality(LiveIn(t.new, n2)) = c
    BY <2>9 DEF Moving
  <2>22. \A k, v : HasMoving(t, n, n2, k, v) <=> Has(h.flags, h.keys, h.vals, n, k, v)
    BY <2>19 DEF Moving
  <2> QED
    BY <2>9, <2>12, <2>14, <2>17, <2>18, <2>20, <2>21, <2>22 DEF Moving
<1>3. s.busy \in BOOLEAN
  BY DEF Moving, MovingTypes
<1> QED
  BY <1>1, <1>2, <1>3

\* The entry in hand goes to a free cell on its way.
LEMMA FreeCell ==
  ASSUME NEW n2 \in Sizes, NEW f, NEW c \in Nat, Cardinality(LiveIn(f, n2)) < n2,
         f \in [0..(n2 - 1) -> {"empty", "live"}],
         NEW m, m = Min({q \in 0..(n2 - 1) : f[Probe(c, q, n2)] = "empty"})
  PROVE  /\ m \in 0..(n2 - 1) /\ Probe(c, m, n2) \in 0..(n2 - 1)
         /\ f[Probe(c, m, n2)] = "empty" /\ Passed(f, c, m, n2)
<1> DEFINE free == {q \in 0..(n2 - 1) : f[Probe(c, q, n2)] = "empty"}
<1>1. n2 \in Nat /\ n2 > 2 /\ IsPrime(n2)
  BY SizesAre
<1>2. LiveIn(f, n2) \in SUBSET (0..(n2 - 1))
  BY DEF LiveIn
<1>3. PICK i \in 0..(n2 - 1) : i \notin LiveIn(f, n2)
  BY <1>1, <1>2, SomeLeft
<1>4. f[i] = "empty"
  BY <1>3 DEF LiveIn
<1>5. PICK u \in 0..(n2 - 1) : Probe(c, u, n2) = i
  BY <1>1, ProbesReach
<1>6. free \in SUBSET Nat /\ free # {}
  BY <1>1, <1>4, <1>5
<1>7. m \in free /\ \A x \in free : m <= x
  <2>1. m = Min(free)
    OBVIOUS
  <2> HIDE DEF free
  <2>2. Min(free) \in free /\ \A x \in free : Min(free) <= x
    BY <1>6, Least
  <2> QED
    BY <2>1, <2>2
<1>8. m \in 0..(n2 - 1) /\ m \in Nat /\ f[Probe(c, m, n2)] = "empty"
  BY <1>7
<1>9. Passed(f, c, m, n2)
  <2> SUFFICES ASSUME NEW q \in 0..(m - 1) PROVE f[Probe(c, q, n2)] # "empty"
    BY DEF Passed
  <2>1. q \in 0..(n2 - 1) /\ ~(m <= q)
    BY <1>1, <1>8
  <2> QED
    BY <1>7, <2>1
<1> QED
  BY <1>8, <1>9, ProbeIn

\* One entry more is in its cell, and another one, or none, in hand.
LEMMA Places ==
  ASSUME NEW h, NEW hf, NEW n2, Resizing(h, hf, n2), NEW c \in 0..(h.size - 1),
         NEW s, Moving(h, hf, n2, c, s), s.busy, NEW t, t = Place(s, hf, h.n_buckets, n2)
  PROVE  Moving(h, hf, n2, c + 1, t)
<1> DEFINE n == h.n_buckets
           m == Min({q \in 0..(n2 - 1) : s.new[Probe(hf[s.key], q, n2)] = "empty"})
           i == Probe(hf[s.key], m, n2)
           busy == i < n /\ s.old[i] = "live"
<1>1. n \in Nat /\ n2 \in Nat /\ n <= n2 /\ h.size \in Nat /\ n2 \in Sizes /\ n2 > 2
  BY SizesAre DEF Resizing
<1>2. MovingTypes(s, n, n2)
  BY DEF Moving
<1>3. hf[s.key] \in Nat
  BY <1>2 DEF MovingTypes, Resizing
<1>4. Cardinality(LiveIn(s.new, n2)) = c /\ c < n2
  <2>1. UpperBound(n2) \in Nat /\ UpperBound(n2) < n2
    BY <1>1, BelowUpper
  <2> QED
    BY <1>1, <2>1 DEF Moving, Resizing
<1>5. /\ m \in 0..(n2 - 1) /\ i \in 0..(n2 - 1) /\ s.new[i] = "empty"
      /\ Passed(s.new, hf[s.key], m, n2)
  <2>1. s.new \in [0..(n2 - 1) -> {"empty", "live"}]
    BY <1>2 DEF MovingTypes
  <2>2. Cardinality(LiveIn(s.new, n2)) < n2
    BY <1>4
  <2> DEFINE f == s.new
             k == hf[s.key]
  <2>3. m = Min({q \in 0..(n2 - 1) : f[Probe(k, q, n2)] = "empty"})
    OBVIOUS
  <2>4. k \in Nat /\ f \in [0..(n2 - 1) -> {"empty", "live"}] /\ Cardinality(LiveIn(f, n2)) < n2
    BY <1>3, <2>1, <2>2
  <2> HIDE DEF f, k, m
  <2>5. /\ m \in 0..(n2 - 1) /\ Probe(k, m, n2) \in 0..(n2 - 1)
        /\ f[Probe(k, m, n2)] = "empty" /\ Passed(f, k, m, n2)
    BY <1>1, <2>3, <2>4, FreeCell
  <2> QED
    BY <2>5 DEF f, k
<1>6. t = [old  |-> IF busy THEN [s.old EXCEPT ![i] = "del"] ELSE s.old,
           new  |-> [s.new EXCEPT ![i] = "live"],
           keys |-> [s.keys EXCEPT ![i] = s.key], vals |-> [s.vals EXCEPT ![i] = s.val],
           busy |-> busy, key |-> s.keys[i], val |-> s.vals[i]]
  BY DEF Place
<1>7. Probe(hf[s.key], m, n2) = i
  OBVIOUS
<1>8. busy \in BOOLEAN /\ (busy <=> i < n /\ s.old[i] = "live")
  BY <1>1, <1>5
<1> HIDE DEF m, i, busy
<1>9. /\ t.old = IF busy THEN [s.old EXCEPT ![i] = "del"] ELSE s.old
      /\ t.new = [s.new EXCEPT ![i] = "live"]
      /\ t.keys = [s.keys EXCEPT ![i] = s.key] /\ t.vals = [s.vals EXCEPT ![i] = s.val]
      /\ t.busy = busy /\ t.key = s.keys[i] /\ t.val = s.vals[i]
      /\ t = [old |-> t.old, new |-> t.new, keys |-> t.keys, vals |-> t.vals,
              busy |-> t.busy, key |-> t.key, val |-> t.val]
  BY <1>6
<1>10. /\ n > 0 => s.old \in [0..(n - 1) -> Flags]
       /\ s.new \in [0..(n2 - 1) -> {"empty", "live"}]
       /\ s.keys \in [0..(n2 - 1) -> Keys] /\ s.vals \in [0..(n2 - 1) -> Vals]
       /\ s.busy = TRUE /\ s.key \in Keys /\ s.val \in Vals
  BY <1>2 DEF MovingTypes
<1>11. /\ t.new \in [0..(n2 - 1) -> {"empty", "live"}]
       /\ t.new[i] = "live" /\ \A x \in 0..(n2 - 1) : x # i => t.new[x] = s.new[x]
  <2>1. t.new = [s.new EXCEPT ![i] = "live"] /\ s.new \in [0..(n2 - 1) -> {"empty", "live"}]
    BY <1>9, <1>10
  <2> QED
    BY <1>5, <2>1
<1>12. /\ t.keys \in [0..(n2 - 1) -> Keys] /\ t.vals \in [0..(n2 - 1) -> Vals]
       /\ t.keys[i] = s.key /\ t.vals[i] = s.val
       /\ \A x \in 0..(n2 - 1) : x # i => t.keys[x] = s.keys[x] /\ t.vals[x] = s.vals[x]
       /\ s.keys[i] \in Keys /\ s.vals[i] \in Vals
  <2>1. t.keys = [s.keys EXCEPT ![i] = s.key] /\ s.keys \in [0..(n2 - 1) -> Keys] /\ s.key \in Keys
    BY <1>9, <1>10
  <2>2. t.vals = [s.vals EXCEPT ![i] = s.val] /\ s.vals \in [0..(n2 - 1) -> Vals] /\ s.val \in Vals
    BY <1>9, <1>10
  <2>3. i \in 0..(n2 - 1)
    BY <1>5
  <2>4. /\ t.keys \in [0..(n2 - 1) -> Keys] /\ t.keys[i] = s.key
        /\ \A x \in 0..(n2 - 1) : x # i => t.keys[x] = s.keys[x]
    BY <2>1, <2>3
  <2>5. /\ t.vals \in [0..(n2 - 1) -> Vals] /\ t.vals[i] = s.val
        /\ \A x \in 0..(n2 - 1) : x # i => t.vals[x] = s.vals[x]
    BY <2>2, <2>3
  <2>6. s.keys[i] \in Keys /\ s.vals[i] \in Vals
    BY <2>1, <2>2, <2>3
  <2> QED
    BY <2>4, <2>5, <2>6
<1>13. /\ n > 0 => t.old \in [0..(n - 1) -> Flags]
       /\ \A x \in 0..(n - 1) : x # i => t.old[x] = s.old[x]
       /\ i < n => t.old[i] # "live"
  <2>1. CASE busy
    <3>1. i \in 0..(n - 1) /\ n > 0
      BY <1>1, <1>5, <1>8, <2>1
    <3>2. t.old = [s.old EXCEPT ![i] = "del"] /\ s.old \in [0..(n - 1) -> Flags] /\ "del" \in Flags
      BY <1>9, <1>10, <2>1, <3>1 DEF Flags
    <3>3. t.old \in [0..(n - 1) -> Flags] /\ t.old[i] = "del" /\ \A x \in 0..(n - 1) : x # i => t.old[x] = s.old[x]
      BY <3>1, <3>2
    <3> QED
      BY <3>3
  <2>2. CASE ~busy
    BY <1>8, <1>9, <1>10, <2>2
  <2> QED
    BY <2>1, <2>2
<1>14. MovingTypes(t, n, n2)
  BY <1>8, <1>9, <1>11, <1>12, <1>13 DEF MovingTypes
<1>15. Cardinality(LiveIn(t.new, n2)) = c + 1
  <2>1. LiveIn(t.new, n2) = LiveIn(s.new, n2) \cup {i} /\ i \notin LiveIn(s.new, n2)
    BY <1>5, <1>11 DEF LiveIn
  <2>2. LiveIn(s.new, n2) \in SUBSET (0..(n2 - 1))
    BY DEF LiveIn
  <2> QED
    BY <1>1, <1>4, <2>1, <2>2, Counts
<1>16. Cardinality(LiveIn(t.old, n)) + (IF t.busy THEN 1 ELSE 0) + (c + 1) = h.size
  <2> DEFINE S == LiveIn(s.old, n)
  <2>1. S \in SUBSET (0..(n - 1))
    BY DEF LiveIn
  <2>2. Cardinality(S) \in Nat /\ Cardinality(S) + 1 + c = h.size
    <3>1. Cardinality(S) \in Nat
      BY <1>1, <2>1, Counts
    <3> QED
      BY <1>10, <3>1 DEF Moving
  <2>3. CASE busy
    <3>1. i \in S /\ LiveIn(t.old, n) = S \ {i}
      BY <1>1, <1>5, <1>8, <1>13, <2>3, SMTT(30) DEF LiveIn
    <3>2. Cardinality(LiveIn(t.old, n)) = Cardinality(S) - 1
      BY <1>1, <2>1, <3>1, Counts
    <3> HIDE DEF S
    <3> QED
      BY <1>1, <1>9, <2>2, <2>3, <3>2
  <2>4. CASE ~busy
    <3>1. LiveIn(t.old, n) = S
      BY <1>9, <2>4
    <3> HIDE DEF S
    <3> QED
      BY <1>1, <1>8, <1>9, <2>2, <2>4, <3>1
  <2> QED
    BY <2>3, <2>4
<1>17. \A x \in 0..(n - 1) : t.old[x] = "live" => t.new[x] # "live"
  <2> SUFFICES ASSUME NEW x \in 0..(n - 1), t.old[x] = "live" PROVE t.new[x] # "live"
    OBVIOUS
  <2>1. x # i /\ x \in 0..(n2 - 1)
    BY <1>1, <1>13
  <2> QED
    BY <1>11, <1>13, <2>1 DEF Moving
<1>18. \A x \in 0..(n2 - 1) : s.new[x] = "live" => x \in Full(s, n, n2)
  BY DEF Full
<1>19. \A x \in Full(s, n, n2) : s.keys[x] # s.key
  BY <1>10 DEF Moving
<1>20. Sound(t.new, t.keys, hf, n2)
  <2>1. Sound(s.new, s.keys, hf, n2)
    BY DEF Moving
  <2>2. hf[s.key] \in Nat /\ \A x \in 0..(n2 - 1) : hf[s.keys[x]] \in Nat
    BY <1>3, <1>10 DEF Resizing
  <2>3. \A x \in 0..(n2 - 1) : s.new[x] = "live" => s.keys[x] # s.key
    BY <1>18, <1>19
  <2>4. s.new[i] # "live" /\ i \in 0..(n2 - 1) /\ m \in 0..(n2 - 1) /\ Passed(s.new, hf[s.key], m, n2)
    BY <1>5
  <2>5. t.new[i] = "live" /\ \A x \in 0..(n2 - 1) : x # i => t.new[x] = s.new[x]
    BY <1>11
  <2>6. t.keys[i] = s.key /\ \A x \in 0..(n2 - 1) : x # i => t.keys[x] = s.keys[x]
    BY <1>12
  <2> DEFINE f == s.new
             ks == s.keys
             key == s.key
             g == t.new
             ls == t.keys
  <2>7. MayEnter(f, ks, hf, n2, key, i) /\ Changed(f, g, n2, i, "live") /\ Changed(ks, ls, n2, i, key)
    BY <1>7, <2>1, <2>2, <2>3, <2>4, <2>5, <2>6 DEF MayEnter, Changed
  <2>8. i \in 0..(n2 - 1) /\ m \in 0..(n2 - 1) /\ n2 \in Sizes
    BY <1>1, <2>4
  <2> HIDE DEF f, ks, key, g, ls
  <2>9. Sound(g, ls, hf, n2)
    BY <2>7, <2>8, Enter
  <2> QED
    BY <2>9 DEF g, ls
<1>21. Full(t, n, n2) = Full(s, n, n2) \cup {i} /\ (busy <=> i \in Full(s, n, n2))
  <2>1. ASSUME NEW x \in 0..(n2 - 1), x # i PROVE x \in Full(t, n, n2) <=> x \in Full(s, n, n2)
    <3>1. CASE x < n
      <4>1. x \in 0..(n - 1)
        BY <1>1, <3>1
      <4> QED
        BY <1>11, <1>13, <2>1, <4>1 DEF Full
    <3>2. CASE ~(x < n)
      BY <1>11, <2>1, <3>2 DEF Full
    <3> QED
      BY <3>1, <3>2
  <2>2. i \in Full(t, n, n2)
    BY <1>5, <1>11 DEF Full
  <2>3. busy <=> i \in Full(s, n, n2)
    BY <1>5, <1>8 DEF Full
  <2>4. Full(t, n, n2) \subseteq 0..(n2 - 1) /\ Full(s, n, n2) \subseteq 0..(n2 - 1)
    BY DEF Full
  <2> QED
    BY <1>5, <2>1, <2>2, <2>3, <2>4
<1>22. \A x \in Full(s, n, n2) : x \in 0..(n2 - 1)
  BY DEF Full
<1>23. \A x, y \in Full(s, n, n2) : s.keys[x] = s.keys[y] => x = y
  BY DEF Moving
<1>24. \A x, y \in Full(t, n, n2) : t.keys[x] = t.keys[y] => x = y
  <2> SUFFICES ASSUME NEW x \in Full(t, n, n2), NEW y \in Full(t, n, n2), t.keys[x] = t.keys[y], x # y
               PROVE  FALSE
    OBVIOUS
  <2>1. CASE x = i
    BY <1>12, <1>19, <1>21, <1>22, <2>1
  <2>2. CASE y = i
    BY <1>12, <1>19, <1>21, <1>22, <2>2
  <2>3. CASE x # i /\ y # i
    BY <1>12, <1>21, <1>22, <1>23, <2>3
  <2> QED
    BY <2>1, <2>2, <2>3
<1>25. ASSUME t.busy, NEW x \in Full(t, n, n2) PROVE t.keys[x] # t.key
  <2>1. i \in Full(s, n, n2) /\ x \in Full(s, n, n2) /\ t.key = s.keys[i]
    BY <1>9, <1>21, <1>25
  <2>2. CASE x = i
    BY <1>12, <1>19, <2>1, <2>2
  <2>3. CASE x # i
    BY <1>12, <1>22, <1>23, <2>1, <2>3
  <2> QED
    BY <2>2, <2>3
<1>26. ASSUME NEW k, NEW v
       PROVE  HasMoving(t, n, n2, k, v) <=> HasMoving(s, n, n2, k, v)
  <2> DEFINE At(u, x) == u.keys[x] = k /\ u.vals[x] = v
  <2>1. At(t, i) <=> s.key = k /\ s.val = v
    BY <1>12
  <2>2. \A x \in Full(s, n, n2) : x # i => (At(t, x) <=> At(s, x))
    BY <1>12, <1>22
  <2>3. t.busy /\ t.key = k /\ t.val = v <=> i \in Full(s, n, n2) /\ At(s, i)
    BY <1>8, <1>9, <1>21
  <2>4. HasMoving(t, n, n2, k, v) <=>
          (t.busy /\ t.key = k /\ t.val = v) \/ \E x \in Full(t, n, n2) : At(t, x)
    BY DEF HasMoving
  <2>5. HasMoving(s, n, n2, k, v) <=>
          (s.key = k /\ s.val = v) \/ \E x \in Full(s, n, n2) : At(s, x)
    BY <1>10 DEF HasMoving
  <2> HIDE DEF At
  <2> QED
    BY <1>21, <2>1, <2>2, <2>3, <2>4, <2>5
<1>27. \A k, v : HasMoving(t, n, n2, k, v) <=> Has(h.flags, h.keys, h.vals, n, k, v)
  BY <1>26 DEF Moving
<1> QED
  BY <1>14, <1>15, <1>16, <1>17, <1>20, <1>24, <1>25, <1>27 DEF Moving

\* Each state of the moving is the one before with one entry more in its cell.
LEMMA MovedUnfolds ==
  ASSUME NEW h, NEW hf, NEW n2, h.size \in Nat, NEW f, f = Moved(h, hf, n2)
  PROVE  /\ f[0] = Unmoved(h, n2)
         /\ \A c \in 1..h.size : f[c] = Place(Taken(f[c - 1], h.n_buckets), hf, h.n_buckets, n2)
<1> DEFINE N == h.size
           b == Unmoved(h, n2)
           One(s) == Place(Taken(s, h.n_buckets), hf, h.n_buckets, n2)
           To(k, g) == /\ g = [c \in 0..k |-> g[c]]
                       /\ g[0] = b /\ \A c \in 1..k : g[c] = One(g[c - 1])
           Unfolds(g) == g = [c \in 0..N |-> IF c = 0 THEN b ELSE One(g[c - 1])]
<1>1. f = CHOOSE g : Unfolds(g)
  BY DEF Moved
<1> HIDE DEF b, One
<1>2. \A k \in Nat : \E g : To(k, g)
  <2> DEFINE X == {k \in Nat : ~\E g : To(k, g)}
  <2> SUFFICES ASSUME X # {} PROVE FALSE
    OBVIOUS
  <2>1. Min(X) \in X /\ \A x \in X : Min(X) <= x
    <3>1. X \in SUBSET Nat
      OBVIOUS
    <3> HIDE DEF X
    <3> QED
      BY <3>1, Least
  <2> DEFINE k == Min(X)
  <2>2. k \in Nat /\ (~\E g : To(k, g)) /\ \A x \in Nat : x < k => \E g : To(x, g)
    <3>1. \A x \in Nat : (~\E g : To(x, g)) => k <= x
      BY <2>1
    <3>2. k \in Nat /\ ~\E g : To(k, g)
      BY <2>1
    <3> HIDE DEF k, To
    <3> QED
      BY <3>1, <3>2
  <2> HIDE DEF k, X
  <2>3. CASE k = 0
    <3> DEFINE g == [c \in 0..0 |-> b]
    <3>1. To(0, g)
      OBVIOUS
    <3> QED
      BY <2>2, <2>3, <3>1
  <2>4. CASE k # 0
    <3>1. k - 1 \in Nat /\ k - 1 < k
      BY <2>2, <2>4
    <3>2. PICK e : To(k - 1, e)
      BY <2>2, <3>1
    <3> DEFINE g == [c \in 0..k |-> IF c = k THEN One(e[k - 1]) ELSE e[c]]
    <3>3. \A c \in 0..(k - 1) : g[c] = e[c]
      BY <2>2
    <3>4. g[k] = One(e[k - 1]) /\ g = [c \in 0..k |-> g[c]]
      BY <2>2
    <3> HIDE DEF g
    <3>5. g[0] = b
      BY <2>2, <3>1, <3>2, <3>3
    <3>6. ASSUME NEW c \in 1..k PROVE g[c] = One(g[c - 1])
      <4>1. CASE c = k
        <5>1. k - 1 \in 0..(k - 1)
          BY <3>1
        <5> QED
          BY <3>3, <3>4, <4>1, <5>1
      <4>2. CASE c # k
        <5>1. c \in 1..(k - 1) /\ c \in 0..(k - 1) /\ c - 1 \in 0..(k - 1)
          BY <2>2, <4>2
        <5> QED
          BY <3>2, <3>3, <5>1
      <4> QED
        BY <4>1, <4>2
    <3>7. To(k, g)
      BY <3>4, <3>5, <3>6
    <3> HIDE DEF To
    <3> QED
      BY <2>2, <3>7
  <2> QED
    BY <2>3, <2>4
<1>3. PICK e : To(N, e)
  BY <1>2
<1>4. Unfolds(e)
  <2>1. ASSUME NEW c \in 0..N PROVE e[c] = IF c = 0 THEN b ELSE One(e[c - 1])
    <3>1. CASE c = 0
      BY <1>3, <3>1
    <3>2. CASE c # 0
      <4>1. c \in 1..N
        BY <3>2
      <4> QED
        BY <1>3, <3>2, <4>1
    <3> QED
      BY <3>1, <3>2
  <2>2. [c \in 0..N |-> e[c]] = [c \in 0..N |-> IF c = 0 THEN b ELSE One(e[c - 1])]
    BY <2>1
  <2> QED
    BY <1>3, <2>2
<1>5. Unfolds(f)
  <2> HIDE DEF Unfolds
  <2> QED
    BY <1>1, <1>4
<1>6. f[0] = b
  <2>1. 0 \in 0..N
    OBVIOUS
  <2> QED
    BY <1>5, <2>1
<1>7. ASSUME NEW c \in 1..N PROVE f[c] = One(f[c - 1])
  <2>1. c \in 0..N /\ c # 0
    OBVIOUS
  <2> QED
    BY <1>5, <2>1
<1> QED
  BY <1>6, <1>7 DEF b, One

\* After as many steps as there are entries all are moved.
LEMMA Moves ==
  ASSUME NEW h, NEW hf, NEW n2, Resizing(h, hf, n2), NEW f, f = Moved(h, hf, n2)
  PROVE  Moving(h, hf, n2, h.size, f[h.size])
<1> DEFINE N == h.size
           X == {c \in 0..N : ~Moving(h, hf, n2, c, f[c])}
<1>1. N \in Nat
  BY DEF Resizing
<1>2. f[0] = Unmoved(h, n2) /\ \A c \in 1..N : f[c] = Place(Taken(f[c - 1], h.n_buckets), hf, h.n_buckets, n2)
  BY <1>1, MovedUnfolds
<1>3. X = {}
  <2> SUFFICES ASSUME X # {} PROVE FALSE
    OBVIOUS
  <2>1. Min(X) \in X /\ \A x \in X : Min(X) <= x
    <3>1. X \in SUBSET Nat
      BY <1>1
    <3> HIDE DEF X
    <3> QED
      BY <3>1, Least
  <2> DEFINE k == Min(X)
  <2>2. k \in 0..N /\ ~Moving(h, hf, n2, k, f[k])
    BY <2>1
  <2>3. \A c \in 0..N : ~Moving(h, hf, n2, c, f[c]) => k <= c
    BY <2>1
  <2> HIDE DEF k, X
  <2>4. k # 0
    BY <1>2, <2>2, MovingBegins
  <2>5. k - 1 \in 0..N /\ k - 1 \in 0..(N - 1) /\ k \in 1..N /\ ~(k <= k - 1) /\ (k - 1) + 1 = k
    BY <1>1, <2>2, <2>4
  <2>6. Moving(h, hf, n2, k - 1, f[k - 1])
    BY <2>3, <2>5
  <2> DEFINE s == f[k - 1]
             t == Taken(s, h.n_buckets)
  <2>7. t.busy /\ Moving(h, hf, n2, k - 1, t)
    BY <2>5, <2>6, TakesEntry
  <2>8. f[k] = Place(t, hf, h.n_buckets, n2)
    BY <1>2, <2>5
  <2> HIDE DEF t
  <2>9. Moving(h, hf, n2, k, f[k])
    BY <2>5, <2>7, <2>8, Places
  <2> QED
    BY <2>2, <2>9
<1> QED
  BY <1>1, <1>3

\* Hashing a table anew keeps what is in it, and leaves room.
LEMMA ResizeSays ==
  ASSUME NEW h, NEW hf, TableOK(h, hf), hf \in [Keys -> Nat], 2 * h.size < primes[Len(primes)],
         h.n_occupied >= h.upper_bound,
         NEW x, x = IF h.n_buckets > 2 * h.size THEN h.n_buckets - 1 ELSE h.n_buckets + 1,
         NEW g, g = kh_resize(h, hf, x)
  PROVE  /\ TableOK(g, hf) /\ g.n_buckets # 0 /\ g.n_occupied < g.upper_bound /\ g.size = h.size
         /\ \A k, v : Has(g.flags, g.keys, g.vals, g.n_buckets, k, v)
                      <=> Has(h.flags, h.keys, h.vals, h.n_buckets, k, v)
<1> DEFINE n == h.n_buckets
           n2 == NextPrime(x)
           f == Moved(h, hf, n2)
           s == f[h.size]
<1>1. n2 \in Sizes /\ n <= n2 /\ h.size < UpperBound(n2) /\ h.size \in Nat /\ n \in Nat
  BY RoomLeft
<1>2. Resizing(h, hf, n2)
  BY <1>1 DEF Resizing
<1>3. n2 \in Nat /\ n2 > 2 /\ UpperBound(n2) \in Nat
  BY <1>1, SizesAre, BelowUpper
<1>4. g = [n_buckets |-> n2, size |-> h.size, n_occupied |-> h.size,
           upper_bound |-> UpperBound(n2), flags |-> s.new, keys |-> s.keys, vals |-> s.vals]
  BY <1>1, <1>3 DEF kh_resize
<1>5. Moving(h, hf, n2, h.size, s)
  <2> HIDE DEF n2
  <2> QED
    BY <1>2, Moves
<1> HIDE DEF s, f, n2
<1>6. /\ g.n_buckets = n2 /\ g.size = h.size /\ g.n_occupied = h.size /\ g.upper_bound = UpperBound(n2)
      /\ g.flags = s.new /\ g.keys = s.keys /\ g.vals = s.vals
      /\ g = [n_buckets |-> g.n_buckets, size |-> g.size, n_occupied |-> g.n_occupied,
              upper_bound |-> g.upper_bound, flags |-> g.flags, keys |-> g.keys, vals |-> g.vals]
  BY <1>4
<1>7. LiveIn(s.old, n) = {} /\ s.busy = FALSE
  <2> DEFINE S == LiveIn(s.old, n)
  <2>1. S \in SUBSET (0..(n - 1))
    BY DEF LiveIn
  <2>2. Cardinality(S) \in Nat
    BY <1>1, <2>1, Counts
  <2>3. Cardinality(S) + (IF s.busy THEN 1 ELSE 0) + h.size = h.size /\ s.busy \in BOOLEAN
    BY <1>5 DEF Moving, MovingTypes
  <2> HIDE DEF S
  <2>4. Cardinality(S) = 0 /\ s.busy = FALSE
    BY <1>1, <2>2, <2>3
  <2>5. S = {}
    BY <1>1, <2>1, <2>4, Counts
  <2> QED
    BY <2>4, <2>5 DEF S
<1>8. Full(s, n, n2) = LiveIn(s.new, n2)
  <2>1. \A i \in 0..(n2 - 1) : ~(i < n /\ s.old[i] = "live")
    <3> SUFFICES ASSUME NEW i \in 0..(n2 - 1), i < n, s.old[i] = "live" PROVE FALSE
      OBVIOUS
    <3>1. i \in LiveIn(s.old, n)
      BY <1>1, <1>3 DEF LiveIn
    <3> QED
      BY <1>7, <3>1
  <2> QED
    BY <2>1 DEF Full, LiveIn
<1>9. /\ s.new \in [0..(n2 - 1) -> {"empty", "live"}]
      /\ s.keys \in [0..(n2 - 1) -> Keys] /\ s.vals \in [0..(n2 - 1) -> Vals]
  BY <1>5 DEF Moving, MovingTypes
<1>10. s.new \in [0..(n2 - 1) -> Flags] /\ UsedIn(s.new, n2) = LiveIn(s.new, n2)
  BY <1>9 DEF Flags, UsedIn, LiveIn
<1>11. Cardinality(LiveIn(s.new, n2)) = h.size /\ Sound(s.new, s.keys, hf, n2)
  BY <1>5 DEF Moving
<1>12. TableOK(g, hf)
  <2>1. g.n_buckets \in Sizes \cup {0} /\ g.n_buckets # 0
    BY <1>1, <1>3, <1>6
  <2>2. /\ g.flags \in [0..(g.n_buckets - 1) -> Flags] /\ g.keys \in [0..(g.n_buckets - 1) -> Keys]
        /\ g.vals \in [0..(g.n_buckets - 1) -> Vals] /\ g.upper_bound = UpperBound(g.n_buckets)
    BY <1>6, <1>9, <1>10
  <2>3. /\ g.size = Cardinality(LiveIn(g.flags, g.n_buckets))
        /\ g.n_occupied = Cardinality(UsedIn(g.flags, g.n_buckets)) /\ g.n_occupied <= g.upper_bound
    BY <1>1, <1>3, <1>6, <1>10, <1>11
  <2>4. Sound(g.flags, g.keys, hf, g.n_buckets)
    BY <1>6, <1>11
  <2> QED
    BY <1>6, <2>1, <2>2, <2>3, <2>4 DEF TableOK
<1>13. ASSUME NEW k, NEW v
       PROVE  Has(g.flags, g.keys, g.vals, g.n_buckets, k, v) <=> Has(h.flags, h.keys, h.vals, n, k, v)
  <2>1. HasMoving(s, n, n2, k, v) <=> Has(h.flags, h.keys, h.vals, n, k, v)
    BY <1>5 DEF Moving
  <2>2. HasMoving(s, n, n2, k, v) <=> Has(s.new, s.keys, s.vals, n2, k, v)
    BY <1>7, <1>8 DEF HasMoving, Has, LiveIn
  <2> QED
    BY <1>6, <2>1, <2>2
<1> QED
  BY <1>1, <1>3, <1>6, <1>12, <1>13

--------------------------------------------------------------------------------
(* kh_put, kh_del and the lookup.                                             *)

Entries(h, k, v) == Has(h.flags, h.keys, h.vals, h.n_buckets, k, v)

\* The counters are natural numbers.
LEMMA OfSize ==
  ASSUME NEW u, NEW hf, TableOK(u, hf)
  PROVE  u.n_buckets \in Nat /\ u.n_occupied \in Nat /\ u.size \in Nat /\ u.upper_bound \in Nat
<1>1. u.n_buckets \in Nat
  BY SizesAre DEF TableOK
<1>2. LiveIn(u.flags, u.n_buckets) \in SUBSET (0..(u.n_buckets - 1))
      /\ UsedIn(u.flags, u.n_buckets) \in SUBSET (0..(u.n_buckets - 1))
  BY DEF LiveIn, UsedIn
<1>3. Cardinality(LiveIn(u.flags, u.n_buckets)) \in Nat /\ Cardinality(UsedIn(u.flags, u.n_buckets)) \in Nat
  BY <1>1, <1>2, Counts
<1>4. u.upper_bound \in Nat
  <2>1. CASE u.n_buckets = 0
    BY <2>1 DEF TableOK
  <2>2. CASE u.n_buckets # 0
    BY <2>2, TableSizes
  <2> QED
    BY <2>1, <2>2
<1> QED
  BY <1>1, <1>3, <1>4 DEF TableOK

\* Before a key is put there is room for it, and the table is what it was.
LEMMA ResizedSays ==
  ASSUME NEW h, NEW hf, TableOK(h, hf), hf \in [Keys -> Nat], 2 * h.size < primes[Len(primes)],
         NEW g, g = Resized(h, hf)
  PROVE  /\ TableOK(g, hf) /\ g.n_buckets # 0 /\ g.n_occupied < g.upper_bound
         /\ g.size = h.size /\ g.size \in Nat /\ g.n_occupied \in Nat
         /\ \A k, v : Entries(g, k, v) <=> Entries(h, k, v)
<1>1. ASSUME NEW u, TableOK(u, hf) PROVE u.n_buckets \in Nat /\ u.n_occupied \in Nat /\ u.size \in Nat
                                         /\ u.upper_bound \in Nat
  BY <1>1, OfSize
<1>2. CASE h.n_occupied < h.upper_bound
  <2>1. g = h
    BY <1>2 DEF Resized
  <2>2. h.n_buckets # 0
    <3>1. h.n_occupied \in Nat
      BY <1>1
    <3> QED
      BY <1>2, <3>1 DEF TableOK
  <2> QED
    BY <1>1, <1>2, <2>1, <2>2
<1>3. CASE ~(h.n_occupied < h.upper_bound)
  <2> DEFINE x == IF h.n_buckets > 2 * h.size THEN h.n_buckets - 1 ELSE h.n_buckets + 1
  <2>1. g = kh_resize(h, hf, x)
    BY <1>3 DEF Resized
  <2>2. h.n_occupied >= h.upper_bound
    BY <1>1, <1>3
  <2> HIDE DEF x
  <2>3. x = IF h.n_buckets > 2 * h.size THEN h.n_buckets - 1 ELSE h.n_buckets + 1
    BY DEF x
  <2>4. /\ TableOK(g, hf) /\ g.n_buckets # 0 /\ g.n_occupied < g.upper_bound /\ g.size = h.size
        /\ \A k, v : Has(g.flags, g.keys, g.vals, g.n_buckets, k, v)
                     <=> Has(h.flags, h.keys, h.vals, h.n_buckets, k, v)
    BY <2>1, <2>2, <2>3, ResizeSays
  <2> QED
    BY <1>1, <2>4 DEF Entries
<1> QED
  BY <1>2, <1>3

\* e is g with the key in the cell x.
Entered(g, x, key, e) ==
  e = [n_buckets |-> g.n_buckets, size |-> g.size + 1,
       n_occupied |-> IF g.flags[x] = "empty" THEN g.n_occupied + 1 ELSE g.n_occupied,
       upper_bound |-> g.upper_bound, flags |-> [g.flags EXCEPT ![x] = "live"],
       keys |-> [g.keys EXCEPT ![x] = key], vals |-> g.vals]

\* A key that was not there is put into a free cell.
LEMMA Enters ==
  ASSUME NEW g, NEW hf, TableOK(g, hf), hf \in [Keys -> Nat], NEW key \in Keys, g.n_buckets # 0,
         g.n_occupied < g.upper_bound, g.size \in Nat, g.n_occupied \in Nat,
         NEW x, x = Site(g, hf, key), g.flags[x] # "live",
         NEW e, Entered(g, x, key, e)
  PROVE  /\ TableOK(e, hf) /\ e.n_buckets = g.n_buckets /\ e.size = g.size + 1
         /\ x \in 0..(g.n_buckets - 1) /\ e.flags[x] = "live" /\ e.keys[x] = key
         /\ \A v : ~Entries(g, key, v)
         /\ \A k, v : k # key => (Entries(e, k, v) <=> Entries(g, k, v))
<1> DEFINE n == g.n_buckets
           occ == IF g.flags[x] = "empty" THEN g.n_occupied + 1 ELSE g.n_occupied
           f == [g.flags EXCEPT ![x] = "live"]
           ks == [g.keys EXCEPT ![x] = key]
<1>1. /\ n \in Sizes /\ n \in Nat /\ n > 2
      /\ g.flags \in [0..(n - 1) -> Flags] /\ g.keys \in [0..(n - 1) -> Keys]
      /\ g.vals \in [0..(n - 1) -> Vals] /\ g.upper_bound = UpperBound(n) /\ g.upper_bound \in Nat
  BY TableSizes
<1>2. /\ x \in 0..(n - 1)
      /\ \A i \in 0..(n - 1) : g.flags[i] = "live" => g.keys[i] # key
      /\ \E m \in 0..(n - 1) : Probe(hf[key], m, n) = x /\ Passed(g.flags, hf[key], m, n)
  BY SiteSays
<1>3. e = [n_buckets |-> n, size |-> g.size + 1, n_occupied |-> occ, upper_bound |-> g.upper_bound,
           flags |-> f, keys |-> ks, vals |-> g.vals]
  BY DEF Entered
<1>4. f \in [0..(n - 1) -> Flags] /\ f[x] = "live" /\ \A i \in 0..(n - 1) : i # x => f[i] = g.flags[i]
  BY <1>1, <1>2 DEF Flags
<1>5. ks \in [0..(n - 1) -> Keys] /\ ks[x] = key /\ \A i \in 0..(n - 1) : i # x => ks[i] = g.keys[i]
  BY <1>1, <1>2
<1> HIDE DEF n, occ, f, ks
<1>6. /\ e.n_buckets = n /\ e.size = g.size + 1 /\ e.n_occupied = occ /\ e.upper_bound = g.upper_bound
      /\ e.flags = f /\ e.keys = ks /\ e.vals = g.vals
      /\ e = [n_buckets |-> e.n_buckets, size |-> e.size, n_occupied |-> e.n_occupied,
              upper_bound |-> e.upper_bound, flags |-> e.flags, keys |-> e.keys, vals |-> e.vals]
  BY <1>3
<1>7. Sound(f, ks, hf, n)
  <2> DEFINE fs == g.flags
             ls == g.keys
  <2>1. Sound(fs, ls, hf, n) /\ hf[key] \in Nat /\ \A i \in 0..(n - 1) : hf[ls[i]] \in Nat
    BY <1>1 DEF TableOK, n
  <2>2. MayEnter(fs, ls, hf, n, key, x) /\ Changed(fs, f, n, x, "live") /\ Changed(ls, ks, n, x, key)
    BY <1>2, <1>4, <1>5, <2>1 DEF MayEnter, Changed
  <2>3. x \in 0..(n - 1) /\ n \in Sizes
    BY <1>1, <1>2
  <2> HIDE DEF fs, ls
  <2> QED
    BY <2>2, <2>3, Enter
<1>8. LiveIn(f, n) = LiveIn(g.flags, n) \cup {x} /\ x \notin LiveIn(g.flags, n)
  BY <1>2, <1>4 DEF LiveIn
<1>9. UsedIn(f, n) = UsedIn(g.flags, n) \cup {x} /\ (x \in UsedIn(g.flags, n) <=> g.flags[x] # "empty")
  BY <1>2, <1>4 DEF UsedIn
<1>10. LiveIn(g.flags, n) \in SUBSET (0..(n - 1)) /\ UsedIn(g.flags, n) \in SUBSET (0..(n - 1))
  BY DEF LiveIn, UsedIn
<1>11. Cardinality(LiveIn(f, n)) = g.size + 1
  <2>1. Cardinality(LiveIn(g.flags, n) \cup {x}) = Cardinality(LiveIn(g.flags, n)) + 1
    BY <1>1, <1>8, <1>10, Counts
  <2>2. g.size = Cardinality(LiveIn(g.flags, n))
    BY DEF TableOK, n
  <2> QED
    BY <1>8, <2>1, <2>2
<1>12. Cardinality(UsedIn(f, n)) = occ
  <2>1. g.n_occupied = Cardinality(UsedIn(g.flags, n))
    BY DEF TableOK, n
  <2>2. CASE g.flags[x] = "empty"
    <3>1. Cardinality(UsedIn(g.flags, n) \cup {x}) = Cardinality(UsedIn(g.flags, n)) + 1
      BY <1>1, <1>9, <1>10, <2>2, Counts, ZenonT(40)
    <3> QED
      BY <1>9, <2>1, <2>2, <3>1 DEF occ
  <2>3. CASE g.flags[x] # "empty"
    <3>1. UsedIn(f, n) = UsedIn(g.flags, n)
      BY <1>9, <2>3
    <3> QED
      BY <2>1, <2>3, <3>1 DEF occ
  <2> QED
    BY <2>2, <2>3
<1>13. occ <= g.upper_bound
  BY <1>1 DEF occ
<1>14. TableOK(e, hf)
  <2>1. e.n_buckets \in Sizes \cup {0} /\ e.n_buckets # 0
    BY <1>1, <1>6
  <2>2. /\ e.flags \in [0..(e.n_buckets - 1) -> Flags] /\ e.keys \in [0..(e.n_buckets - 1) -> Keys]
        /\ e.vals \in [0..(e.n_buckets - 1) -> Vals] /\ e.upper_bound = UpperBound(e.n_buckets)
    BY <1>1, <1>4, <1>5, <1>6
  <2>3. /\ e.size = Cardinality(LiveIn(e.flags, e.n_buckets))
        /\ e.n_occupied = Cardinality(UsedIn(e.flags, e.n_buckets)) /\ e.n_occupied <= e.upper_bound
    BY <1>6, <1>11, <1>12, <1>13
  <2>4. Sound(e.flags, e.keys, hf, e.n_buckets)
    BY <1>6, <1>7
  <2> QED
    BY <1>6, <2>1, <2>2, <2>3, <2>4 DEF TableOK
<1>15. \A v : ~Entries(g, key, v)
  BY <1>2 DEF Entries, Has, n
<1>16. ASSUME NEW k, NEW v, k # key PROVE Entries(e, k, v) <=> Entries(g, k, v)
  <2>1. Entries(e, k, v) <=> \E i \in 0..(n - 1) : f[i] = "live" /\ ks[i] = k /\ g.vals[i] = v
    BY <1>6 DEF Entries, Has
  <2>2. Entries(g, k, v) <=> \E i \in 0..(n - 1) : g.flags[i] = "live" /\ g.keys[i] = k /\ g.vals[i] = v
    BY DEF Entries, Has, n
  <2>3. \A i \in 0..(n - 1) : f[i] = "live" /\ ks[i] = k <=> g.flags[i] = "live" /\ g.keys[i] = k
    BY <1>4, <1>5, <1>16
  <2> QED
    BY <2>1, <2>2, <2>3
<1> QED
  BY <1>2, <1>4, <1>5, <1>6, <1>14, <1>15, <1>16 DEF n

\* After kh_put the key is in its cell, and ret says if it was there before.
LEMMA PutSays ==
  ASSUME NEW h, NEW hf, TableOK(h, hf), hf \in [Keys -> Nat], 2 * h.size < primes[Len(primes)],
         NEW key \in Keys, NEW p, p = kh_put(h, hf, key), NEW d, d = p.table, NEW x, x = p.at
  PROVE  /\ TableOK(d, hf) /\ d.n_buckets # 0 /\ d.size \in Nat /\ h.size \in Nat
         /\ x \in 0..(d.n_buckets - 1) /\ d.flags[x] = "live" /\ d.keys[x] = key
         /\ IF p.ret = 0 THEN d.size = h.size ELSE d.size = h.size + 1
         /\ p.ret = 0 <=> \E v : Entries(h, key, v)
         /\ \A k, v : k # key => (Entries(d, k, v) <=> Entries(h, k, v))
<1> DEFINE g == Resized(h, hf)
           y == Site(g, hf, key)
           put == [g EXCEPT !.keys[y] = key, !.flags[y] = "live", !.size = @ + 1]
           occ == IF g.flags[y] = "empty" THEN g.n_occupied + 1 ELSE g.n_occupied
           e == [n_buckets |-> g.n_buckets, size |-> g.size + 1, n_occupied |-> occ,
                 upper_bound |-> g.upper_bound, flags |-> [g.flags EXCEPT ![y] = "live"],
                 keys |-> [g.keys EXCEPT ![y] = key], vals |-> g.vals]
<1>1. /\ TableOK(g, hf) /\ g.n_buckets # 0 /\ g.n_occupied < g.upper_bound
      /\ g.size = h.size /\ g.size \in Nat /\ g.n_occupied \in Nat
      /\ \A k, v : Entries(g, k, v) <=> Entries(h, k, v)
  BY ResizedSays
<1>2. p = IF g.flags[y] = "empty"
            THEN [table |-> [put EXCEPT !.n_occupied = @ + 1], at |-> y, ret |-> 1]
          ELSE IF g.flags[y] = "del" THEN [table |-> put, at |-> y, ret |-> 2]
          ELSE [table |-> g, at |-> y, ret |-> 0]
  BY DEF kh_put
<1> HIDE DEF g
<1>7. y = Site(g, hf, key)
  OBVIOUS
<1> HIDE DEF y
<1>3. y \in 0..(g.n_buckets - 1) /\ (g.flags[y] = "live" => g.keys[y] = key)
      /\ g.flags \in [0..(g.n_buckets - 1) -> Flags]
  <2>1. y \in 0..(g.n_buckets - 1) /\ (g.flags[y] = "live" => g.keys[y] = key)
    BY <1>1, <1>7, SiteSays
  <2>2. g.flags \in [0..(g.n_buckets - 1) -> Flags]
    BY <1>1, TableSizes
  <2> QED
    BY <2>1, <2>2
<1>4. g = [n_buckets |-> g.n_buckets, size |-> g.size, n_occupied |-> g.n_occupied,
           upper_bound |-> g.upper_bound, flags |-> g.flags, keys |-> g.keys, vals |-> g.vals]
  BY <1>1 DEF TableOK
<1>5. CASE g.flags[y] = "live"
  <2>1. d = g /\ x = y /\ p.ret = 0
    BY <1>2, <1>5
  <2>2. \E v : Entries(h, key, v)
    <3>1. Entries(g, key, g.vals[y])
      BY <1>3, <1>5 DEF Entries, Has
    <3> QED
      BY <1>1, <3>1
  <2> QED
    BY <1>1, <1>3, <1>5, <2>1, <2>2
<1>6. CASE g.flags[y] # "live"
  <2>1. put = [n_buckets |-> g.n_buckets, size |-> g.size + 1, n_occupied |-> g.n_occupied,
               upper_bound |-> g.upper_bound, flags |-> [g.flags EXCEPT ![y] = "live"],
               keys |-> [g.keys EXCEPT ![y] = key], vals |-> g.vals]
    <3> DEFINE r == [n_buckets |-> g.n_buckets, size |-> g.size, n_occupied |-> g.n_occupied,
                     upper_bound |-> g.upper_bound, flags |-> g.flags, keys |-> g.keys, vals |-> g.vals]
    <3>1. g = r
      BY <1>4
    <3>2. put = [r EXCEPT !.keys[y] = key, !.flags[y] = "live", !.size = @ + 1]
      BY <3>1
    <3>3. [r EXCEPT !.keys[y] = key, !.flags[y] = "live", !.size = @ + 1]
            = [[r EXCEPT !.keys[y] = key] EXCEPT !.flags[y] = "live", !.size = @ + 1]
      <4> HIDE DEF r
      <4> QED
        OBVIOUS
    <3> DEFINE ks == [g.keys EXCEPT ![y] = key]
    <3>4. [r EXCEPT !.keys[y] = key]
            = [n_buckets |-> g.n_buckets, size |-> g.size, n_occupied |-> g.n_occupied,
               upper_bound |-> g.upper_bound, flags |-> g.flags, keys |-> ks, vals |-> g.vals]
      BY SMTT(30)
    <3>5. [[n_buckets |-> g.n_buckets, size |-> g.size, n_occupied |-> g.n_occupied,
            upper_bound |-> g.upper_bound, flags |-> g.flags, keys |-> ks, vals |-> g.vals]
              EXCEPT !.flags[y] = "live", !.size = @ + 1]
            = [n_buckets |-> g.n_buckets, size |-> g.size + 1, n_occupied |-> g.n_occupied,
               upper_bound |-> g.upper_bound, flags |-> [g.flags EXCEPT ![y] = "live"],
               keys |-> ks, vals |-> g.vals]
      <4> DEFINE wide == [n_buckets |-> g.n_buckets, size |-> g.size, n_occupied |-> g.n_occupied,
                       upper_bound |-> g.upper_bound, flags |-> g.flags, keys |-> ks, vals |-> g.vals]
      <4> HIDE DEF ks, r
      <4>1. [wide EXCEPT !.flags[y] = "live", !.size = @ + 1]
              = [[wide EXCEPT !.flags[y] = "live"] EXCEPT !.size = @ + 1]
        <5> HIDE DEF wide
        <5> QED
          OBVIOUS
      <4>2. [wide EXCEPT !.flags[y] = "live"]
              = [n_buckets |-> g.n_buckets, size |-> g.size, n_occupied |-> g.n_occupied,
                 upper_bound |-> g.upper_bound, flags |-> [g.flags EXCEPT ![y] = "live"],
                 keys |-> ks, vals |-> g.vals]
        OBVIOUS
      <4> DEFINE f == [g.flags EXCEPT ![y] = "live"]
      <4> HIDE DEF f
      <4>3. [[n_buckets |-> g.n_buckets, size |-> g.size, n_occupied |-> g.n_occupied,
              upper_bound |-> g.upper_bound, flags |-> f, keys |-> ks, vals |-> g.vals]
                EXCEPT !.size = @ + 1]
              = [n_buckets |-> g.n_buckets, size |-> g.size + 1, n_occupied |-> g.n_occupied,
                 upper_bound |-> g.upper_bound, flags |-> f, keys |-> ks, vals |-> g.vals]
        OBVIOUS
      <4>4. [wide EXCEPT !.flags[y] = "live"]
              = [n_buckets |-> g.n_buckets, size |-> g.size, n_occupied |-> g.n_occupied,
                 upper_bound |-> g.upper_bound, flags |-> f, keys |-> ks, vals |-> g.vals]
        BY <4>2 DEF f
      <4>5. wide = [n_buckets |-> g.n_buckets, size |-> g.size, n_occupied |-> g.n_occupied,
                 upper_bound |-> g.upper_bound, flags |-> g.flags, keys |-> ks, vals |-> g.vals]
        OBVIOUS
      <4> HIDE DEF wide
      <4>6. [wide EXCEPT !.flags[y] = "live", !.size = @ + 1]
              = [n_buckets |-> g.n_buckets, size |-> g.size + 1, n_occupied |-> g.n_occupied,
                 upper_bound |-> g.upper_bound, flags |-> f, keys |-> ks, vals |-> g.vals]
        BY <4>1, <4>3, <4>4
      <4> QED
        BY <4>5, <4>6 DEF f
    <3> HIDE DEF r
    <3> QED
      BY <3>2, <3>3, <3>4, <3>5
  <2> HIDE DEF put
  <2>2. d = e /\ x = y /\ p.ret # 0
    <3>1. CASE g.flags[y] = "empty"
      <4>1. p = [table |-> [put EXCEPT !.n_occupied = @ + 1], at |-> y, ret |-> 1]
        BY <1>2, <3>1
      <4>2. d = [put EXCEPT !.n_occupied = @ + 1] /\ x = y /\ p.ret # 0
        BY <4>1
      <4> QED
        BY <2>1, <3>1, <4>2
    <3>2. CASE g.flags[y] = "del"
      <4>1. p = [table |-> put, at |-> y, ret |-> 2]
        BY <1>2, <3>2
      <4>2. d = put /\ x = y /\ p.ret # 0
        BY <4>1
      <4> QED
        BY <2>1, <3>2, <4>2
    <3> QED
      BY <1>3, <1>6, <3>1, <3>2 DEF Flags
  <2>4. /\ TableOK(d, hf) /\ d.n_buckets = g.n_buckets /\ d.size = g.size + 1
        /\ y \in 0..(g.n_buckets - 1) /\ d.flags[y] = "live" /\ d.keys[y] = key
        /\ \A v : ~Entries(g, key, v)
        /\ \A k, v : k # key => (Entries(d, k, v) <=> Entries(g, k, v))
    <3>1. g.n_buckets # 0 /\ g.n_occupied < g.upper_bound /\ g.size \in Nat /\ g.n_occupied \in Nat
          /\ TableOK(g, hf)
      BY <1>1
    <3>2. Entered(g, y, key, d)
      BY <2>2 DEF Entered
    <3> QED
      BY <1>6, <1>7, <3>1, <3>2, Enters
  <2>5. /\ TableOK(d, hf) /\ d.n_buckets # 0 /\ d.size \in Nat /\ h.size \in Nat
        /\ x \in 0..(d.n_buckets - 1) /\ d.flags[x] = "live" /\ d.keys[x] = key
    BY <1>1, <2>2, <2>4
  <2>6. d.size = h.size + 1
    BY <1>1, <2>4
  <2>7. \A v : ~Entries(h, key, v)
    BY <1>1, <2>4
  <2>8. \A k, v : k # key => (Entries(d, k, v) <=> Entries(h, k, v))
    BY <1>1, <2>4
  <2> QED
    BY <2>2, <2>5, <2>6, <2>7, <2>8
<1> QED
  BY <1>5, <1>6

\* What is deleted stays in the way of the other keys.
LEMMA Deletes ==
  ASSUME NEW d, NEW hf, TableOK(d, hf), hf \in [Keys -> Nat], d.n_buckets # 0, d.size \in Nat,
         NEW x \in 0..(d.n_buckets - 1), d.flags[x] = "live", NEW e, e = kh_del(d, x)
  PROVE  /\ TableOK(e, hf) /\ e.size = d.size - 1 /\ e.n_buckets = d.n_buckets
         /\ e.flags[x] = "del" /\ e.keys = d.keys
         /\ \A v : ~Entries(e, d.keys[x], v)
         /\ \A k, v : k # d.keys[x] => (Entries(e, k, v) <=> Entries(d, k, v))
<1> DEFINE n == d.n_buckets
           f == [d.flags EXCEPT ![x] = "del"]
<1>1. /\ n \in Sizes /\ n \in Nat /\ n > 2
      /\ d.flags \in [0..(n - 1) -> Flags] /\ d.keys \in [0..(n - 1) -> Keys]
      /\ d.vals \in [0..(n - 1) -> Vals] /\ d.upper_bound = UpperBound(n)
  BY TableSizes
<1>2. f \in [0..(n - 1) -> Flags] /\ f[x] = "del" /\ \A i \in 0..(n - 1) : i # x => f[i] = d.flags[i]
  BY <1>1 DEF Flags
<1>3. e = [d EXCEPT !.flags[x] = "del", !.size = @ - 1]
  <2>1. x # n
    BY <1>1
  <2> QED
    BY <2>1 DEF kh_del
<1>4. d = [n_buckets |-> d.n_buckets, size |-> d.size, n_occupied |-> d.n_occupied,
           upper_bound |-> d.upper_bound, flags |-> d.flags, keys |-> d.keys, vals |-> d.vals]
  BY DEF TableOK
<1>5. e = [n_buckets |-> n, size |-> d.size - 1, n_occupied |-> d.n_occupied,
           upper_bound |-> d.upper_bound, flags |-> f, keys |-> d.keys, vals |-> d.vals]
  BY <1>3, <1>4
<1> HIDE DEF f, n
<1>6. /\ e.n_buckets = n /\ e.size = d.size - 1 /\ e.n_occupied = d.n_occupied
      /\ e.upper_bound = d.upper_bound /\ e.flags = f /\ e.keys = d.keys /\ e.vals = d.vals
      /\ e = [n_buckets |-> e.n_buckets, size |-> e.size, n_occupied |-> e.n_occupied,
              upper_bound |-> e.upper_bound, flags |-> e.flags, keys |-> e.keys, vals |-> e.vals]
  BY <1>5
<1>7. x \in 0..(n - 1) /\ Sound(d.flags, d.keys, hf, n) /\ d.size = Cardinality(LiveIn(d.flags, n))
      /\ d.n_occupied = Cardinality(UsedIn(d.flags, n)) /\ d.n_occupied <= d.upper_bound
  BY DEF TableOK, n
<1>8. Sound(f, d.keys, hf, n)
  <2>1. ASSUME NEW c \in Nat, NEW q \in 0..(n - 1), Passed(d.flags, c, q, n) PROVE Passed(f, c, q, n)
    <3> SUFFICES ASSUME NEW r \in 0..(q - 1) PROVE f[Probe(c, r, n)] # "empty"
      BY DEF Passed
    <3>1. r \in Nat
      BY <1>1
    <3>2. Probe(c, r, n) \in 0..(n - 1)
      BY <1>1, <3>1, ProbeIn
    <3>3. d.flags[Probe(c, r, n)] # "empty"
      BY <2>1 DEF Passed
    <3> QED
      BY <1>2, <3>2, <3>3
  <2>2. ASSUME NEW i \in 0..(n - 1), f[i] = "live" PROVE Reached(f, d.keys, hf, n, i)
    <3>1. d.flags[i] = "live"
      BY <1>2, <2>2
    <3>2. Reached(d.flags, d.keys, hf, n, i)
      BY <1>7, <3>1 DEF Sound
    <3>3. hf[d.keys[i]] \in Nat
      BY <1>1
    <3> QED
      BY <2>1, <3>2, <3>3 DEF Reached
  <2>3. \A i, j \in 0..(n - 1) : f[i] = "live" /\ f[j] = "live" /\ d.keys[i] = d.keys[j] => i = j
    BY <1>2, <1>7 DEF Sound
  <2> QED
    BY <2>2, <2>3 DEF Sound
<1>9. Cardinality(LiveIn(f, n)) = d.size - 1
  <2>1. LiveIn(f, n) = LiveIn(d.flags, n) \ {x} /\ x \in LiveIn(d.flags, n)
    BY <1>2, <1>7 DEF LiveIn
  <2>2. LiveIn(d.flags, n) \in SUBSET (0..(n - 1))
    BY DEF LiveIn
  <2>3. Cardinality(LiveIn(d.flags, n) \ {x}) = Cardinality(LiveIn(d.flags, n)) - 1
    BY <1>1, <2>1, <2>2, Counts, ZenonT(40)
  <2> QED
    BY <1>7, <2>1, <2>3
<1>10. UsedIn(f, n) = UsedIn(d.flags, n)
  BY <1>2, <1>7 DEF UsedIn
<1>11. TableOK(e, hf)
  <2>1. e.n_buckets \in Sizes \cup {0} /\ e.n_buckets # 0
    BY <1>1, <1>6
  <2>2. /\ e.flags \in [0..(e.n_buckets - 1) -> Flags] /\ e.keys \in [0..(e.n_buckets - 1) -> Keys]
        /\ e.vals \in [0..(e.n_buckets - 1) -> Vals] /\ e.upper_bound = UpperBound(e.n_buckets)
    BY <1>1, <1>2, <1>6
  <2>3. /\ e.size = Cardinality(LiveIn(e.flags, e.n_buckets))
        /\ e.n_occupied = Cardinality(UsedIn(e.flags, e.n_buckets)) /\ e.n_occupied <= e.upper_bound
    BY <1>6, <1>7, <1>9, <1>10
  <2>4. Sound(e.flags, e.keys, hf, e.n_buckets)
    BY <1>6, <1>8
  <2> QED
    BY <1>6, <2>1, <2>2, <2>3, <2>4 DEF TableOK
<1>12. \A i \in 0..(n - 1) : f[i] = "live" => d.flags[i] = "live" /\ d.keys[i] # d.keys[x]
  BY <1>2, <1>7 DEF Sound
<1>13. \A v : ~Entries(e, d.keys[x], v)
  BY <1>6, <1>12 DEF Entries, Has
<1>14. ASSUME NEW k, NEW v, k # d.keys[x] PROVE Entries(e, k, v) <=> Entries(d, k, v)
  <2>1. \A i \in 0..(n - 1) : f[i] = "live" /\ d.keys[i] = k <=> d.flags[i] = "live" /\ d.keys[i] = k
    BY <1>2, <1>14
  <2>2. Entries(e, k, v) <=> \E i \in 0..(n - 1) : f[i] = "live" /\ d.keys[i] = k /\ d.vals[i] = v
    BY <1>6 DEF Entries, Has
  <2>3. Entries(d, k, v) <=> \E i \in 0..(n - 1) : d.flags[i] = "live" /\ d.keys[i] = k /\ d.vals[i] = v
    BY DEF Entries, Has, n
  <2> QED
    BY <2>1, <2>2, <2>3
<1> QED
  BY <1>2, <1>6, <1>11, <1>13, <1>14 DEF n

With(g, x, v) == [g EXCEPT !.vals[x] = v]

\* The entries of a key, and of the others.
Only(e, k, v) == \A w : Entries(e, k, w) <=> w = v
Same(e, g, k) == \A w : Entries(e, k, w) <=> Entries(g, k, w)
Others(e, g, k) == \A j, w : j # k => (Entries(e, j, w) <=> Entries(g, j, w))

\* The value of a cell.
LEMMA SetsValue ==
  ASSUME NEW g, NEW hf, TableOK(g, hf), g.n_buckets # 0, NEW x \in 0..(g.n_buckets - 1), NEW v \in Vals,
         NEW e, e = With(g, x, v)
  PROVE  /\ TableOK(e, hf) /\ e.size = g.size
         /\ g.flags[x] = "live" => Only(e, g.keys[x], v)
         /\ g.flags[x] # "live" => Same(e, g, g.keys[x])
         /\ Others(e, g, g.keys[x])
<1> DEFINE n == g.n_buckets
           vs == [g.vals EXCEPT ![x] = v]
<1>1. /\ n \in Sizes /\ n \in Nat /\ n > 2
      /\ g.flags \in [0..(n - 1) -> Flags] /\ g.keys \in [0..(n - 1) -> Keys]
      /\ g.vals \in [0..(n - 1) -> Vals] /\ g.upper_bound = UpperBound(n)
  BY TableSizes
<1>2. vs \in [0..(n - 1) -> Vals] /\ vs[x] = v /\ \A i \in 0..(n - 1) : i # x => vs[i] = g.vals[i]
  BY <1>1
<1>3. g = [n_buckets |-> g.n_buckets, size |-> g.size, n_occupied |-> g.n_occupied,
           upper_bound |-> g.upper_bound, flags |-> g.flags, keys |-> g.keys, vals |-> g.vals]
  BY DEF TableOK
<1>4. e = [n_buckets |-> n, size |-> g.size, n_occupied |-> g.n_occupied,
           upper_bound |-> g.upper_bound, flags |-> g.flags, keys |-> g.keys, vals |-> vs]
  BY <1>3 DEF With
<1> HIDE DEF n, vs
<1>5. /\ e.n_buckets = n /\ e.size = g.size /\ e.n_occupied = g.n_occupied
      /\ e.upper_bound = g.upper_bound /\ e.flags = g.flags /\ e.keys = g.keys /\ e.vals = vs
      /\ e = [n_buckets |-> e.n_buckets, size |-> e.size, n_occupied |-> e.n_occupied,
              upper_bound |-> e.upper_bound, flags |-> e.flags, keys |-> e.keys, vals |-> e.vals]
  BY <1>4
<1>6. /\ x \in 0..(n - 1) /\ Sound(g.flags, g.keys, hf, n) /\ g.size = Cardinality(LiveIn(g.flags, n))
      /\ g.n_occupied = Cardinality(UsedIn(g.flags, n)) /\ g.n_occupied <= g.upper_bound
  BY DEF TableOK, n
<1>7. TableOK(e, hf)
  <2>1. e.n_buckets \in Sizes \cup {0} /\ e.n_buckets # 0
    BY <1>1, <1>5
  <2>2. /\ e.flags \in [0..(e.n_buckets - 1) -> Flags] /\ e.keys \in [0..(e.n_buckets - 1) -> Keys]
        /\ e.vals \in [0..(e.n_buckets - 1) -> Vals] /\ e.upper_bound = UpperBound(e.n_buckets)
    BY <1>1, <1>2, <1>5
  <2>3. /\ e.size = Cardinality(LiveIn(e.flags, e.n_buckets))
        /\ e.n_occupied = Cardinality(UsedIn(e.flags, e.n_buckets)) /\ e.n_occupied <= e.upper_bound
    BY <1>5, <1>6
  <2>4. Sound(e.flags, e.keys, hf, e.n_buckets)
    BY <1>5, <1>6
  <2> QED
    BY <1>5, <2>1, <2>2, <2>3, <2>4 DEF TableOK
<1>8. /\ \A k, w : Entries(e, k, w) <=> \E i \in 0..(n - 1) : g.flags[i] = "live" /\ g.keys[i] = k /\ vs[i] = w
      /\ \A k, w : Entries(g, k, w)
                    <=> \E i \in 0..(n - 1) : g.flags[i] = "live" /\ g.keys[i] = k /\ g.vals[i] = w
  BY <1>5 DEF Entries, Has, n
<1>9. ASSUME g.flags[x] = "live" PROVE \A w : Entries(e, g.keys[x], w) <=> w = v
  <2>1. \A i \in 0..(n - 1) : g.flags[i] = "live" /\ g.keys[i] = g.keys[x] => i = x
    BY <1>6, <1>9 DEF Sound
  <2> QED
    BY <1>2, <1>6, <1>8, <1>9, <2>1
<1>10. ASSUME g.flags[x] # "live" PROVE \A w : Entries(e, g.keys[x], w) <=> Entries(g, g.keys[x], w)
  <2>1. \A i \in 0..(n - 1) : g.flags[i] = "live" => vs[i] = g.vals[i]
    BY <1>2, <1>10
  <2> QED
    BY <1>8, <2>1
<1>11. \A k, w : k # g.keys[x] => (Entries(e, k, w) <=> Entries(g, k, w))
  <2>1. \A i \in 0..(n - 1) : g.keys[i] # g.keys[x] => vs[i] = g.vals[i]
    BY <1>2
  <2> QED
    BY <1>8, <2>1
<1> QED
  BY <1>5, <1>7, <1>9, <1>10, <1>11 DEF Only, Same, Others

\* What a row does to the dictionary.
LEMMA LoadedSays ==
  ASSUME NEW h, hash \in [Keys -> Nat], TableOK(h, hash), 2 * h.size < primes[Len(primes)],
         NEW name \in Keys, NEW v \in Vals, NEW d, d = Loaded(h, name, v)
  PROVE  /\ TableOK(d, hash) /\ h.size \in Nat /\ d.size \in Nat /\ d.size <= h.size + 1
         /\ \A k, w : k # name => (Entries(d, k, w) <=> Entries(h, k, w))
         /\ (\E w : Entries(h, name, w)) => \A w : ~Entries(d, name, w)
         /\ (\A w : ~Entries(h, name, w)) => \A w : Entries(d, name, w) <=> w = v
<1> DEFINE p == kh_put(h, hash, name)
           t == p.table
           x == p.at
           g == IF p.ret = 0 THEN kh_del(t, x) ELSE t
<1>1. /\ TableOK(t, hash) /\ t.n_buckets # 0 /\ t.size \in Nat /\ h.size \in Nat
      /\ x \in 0..(t.n_buckets - 1) /\ t.flags[x] = "live" /\ t.keys[x] = name
      /\ IF p.ret = 0 THEN t.size = h.size ELSE t.size = h.size + 1
      /\ p.ret = 0 <=> \E w : Entries(h, name, w)
      /\ \A k, w : k # name => (Entries(t, k, w) <=> Entries(h, k, w))
  <2> HIDE DEF p
  <2>1. p = kh_put(h, hash, name)
    BY DEF p
  <2> QED
    BY <2>1, PutSays
<1>2. d = With(g, x, v)
  BY DEF Loaded, With
<1>5. TableOK(t, hash) /\ t.n_buckets # 0 /\ t.size \in Nat /\ x \in 0..(t.n_buckets - 1) /\ t.flags[x] = "live"
  BY <1>1
<1> HIDE DEF p, t, x
<1>3. CASE p.ret = 0
  <2>1. g = kh_del(t, x)
    BY <1>3
  <2> HIDE DEF g
  <2>2. /\ TableOK(g, hash) /\ g.size = t.size - 1 /\ g.n_buckets = t.n_buckets
        /\ g.flags[x] = "del" /\ g.keys = t.keys
        /\ \A w : ~Entries(g, t.keys[x], w)
        /\ \A k, w : k # t.keys[x] => (Entries(g, k, w) <=> Entries(t, k, w))
    BY <1>5, <2>1, Deletes, ZenonT(40)
  <2>3. /\ TableOK(d, hash) /\ d.size = g.size
        /\ Same(d, g, g.keys[x]) /\ Others(d, g, g.keys[x])
    <3>1. TableOK(g, hash) /\ g.n_buckets # 0 /\ x \in 0..(g.n_buckets - 1) /\ g.flags[x] # "live"
      BY <1>5, <2>2
    <3> QED
      BY <1>2, <3>1, SetsValue
  <2>4. g.keys[x] = name /\ t.keys[x] = name
    BY <1>1, <2>2
  <2>5. d.size = h.size - 1 /\ d.size \in Int
    BY <1>1, <1>3, <2>2, <2>3
  <2>6. d.size \in Nat
    BY <2>3, OfSize
  <2> QED
    BY <1>1, <1>3, <2>2, <2>3, <2>4, <2>5, <2>6 DEF Same, Others
<1>4. CASE p.ret # 0
  <2>1. g = t
    BY <1>4
  <2> HIDE DEF g
  <2>3. /\ TableOK(d, hash) /\ d.size = g.size
        /\ Only(d, g.keys[x], v) /\ Others(d, g, g.keys[x])
    <3>1. TableOK(g, hash) /\ g.n_buckets # 0 /\ x \in 0..(g.n_buckets - 1) /\ g.flags[x] = "live"
      BY <1>5, <2>1
    <3> QED
      BY <1>2, <3>1, SetsValue
  <2>4. g.keys[x] = name
    BY <1>1, <2>1
  <2> QED
    BY <1>1, <1>4, <2>1, <2>3, <2>4 DEF Only, Others
<1> QED
  BY <1>3, <1>4

\* What the lookup of a key finds in a table.
FoundIn(h, hf, key) == IF kh_get(h, hf, key) = h.n_buckets THEN Absent ELSE kh_value(h, kh_get(h, hf, key))

\* A lookup finds the one value of the key.
LEMMA ValueSays ==
  ASSUME NEW h, NEW hf, TableOK(h, hf), hf \in [Keys -> Nat], NEW key \in Keys,
         NEW r, r = FoundIn(h, hf, key)
  PROVE  \/ r = Absent /\ \A w : ~Entries(h, key, w)
         \/ r \in Vals /\ \A w : Entries(h, key, w) <=> w = r
<1> DEFINE x == kh_get(h, hf, key)
           n == h.n_buckets
<1>1. \/ x \in 0..(n - 1) /\ h.flags[x] = "live" /\ h.keys[x] = key
      \/ x = n /\ \A i \in 0..(n - 1) : h.flags[i] = "live" => h.keys[i] # key
  <2> HIDE DEF x
  <2>1. x = kh_get(h, hf, key)
    BY DEF x
  <2> QED
    BY <2>1, GetSays
<1>2. r = IF x = n THEN Absent ELSE h.vals[x]
  BY DEF FoundIn, kh_value
<1>3. n \in Nat
  BY OfSize
<1> HIDE DEF x
<1>4. CASE x = n
  <2>1. \A i \in 0..(n - 1) : h.flags[i] = "live" => h.keys[i] # key
    BY <1>1, <1>3, <1>4
  <2> QED
    BY <1>2, <1>4, <2>1 DEF Entries, Has
<1>5. CASE x # n
  <2>1. x \in 0..(n - 1) /\ h.flags[x] = "live" /\ h.keys[x] = key /\ r = h.vals[x] /\ n # 0
    BY <1>1, <1>2, <1>3, <1>5
  <2>2. h.vals \in [0..(n - 1) -> Vals]
    BY <2>1, TableSizes
  <2>3. \A i \in 0..(n - 1) : h.flags[i] = "live" /\ h.keys[i] = key => i = x
    BY <2>1 DEF TableOK, Sound
  <2> QED
    BY <2>1, <2>2, <2>3 DEF Entries, Has
<1> QED
  BY <1>4, <1>5

--------------------------------------------------------------------------------
(* The dictionary.                                                            *)

MInv ==
  /\ hash \in Hashes /\ rows \in 0..MaxRows
  /\ TableOK(map, hash) /\ map.size <= rows
  /\ times \in [Names -> Nat] /\ last \in [Names -> Vals \cup {Absent}]
  /\ \A k \in Names : times[k] > 0 => last[k] \in Vals
  /\ \A k, w : Entries(map, k, w) => k \in Names

\* A row under the invariant.
LEMMA RowSays ==
  ASSUME MInv, NEW name \in Names, NEW v \in Vals, rows < MaxRows, NEW d, d = Loaded(map, name, v)
  PROVE  /\ TableOK(d, hash) /\ d.size <= map.size + 1 /\ map.size \in Nat /\ d.size \in Nat
         /\ Others(d, map, name)
         /\ (\E w : Entries(map, name, w)) => \A w : ~Entries(d, name, w)
         /\ (\A w : ~Entries(map, name, w)) => Only(d, name, v)
<1>1. hash \in [Keys -> Nat] /\ name \in Keys
  BY DictAssumption DEF MInv
<1>2. 2 * map.size < primes[Len(primes)]
  <2>1. map.size \in Nat
    BY OfSize DEF MInv
  <2>2. primes[Len(primes)] \in Nat
    BY PrimesAssumption
  <2>3. MaxRows \in Nat /\ 2 * MaxRows <= primes[Len(primes)] /\ map.size <= rows /\ rows \in Nat
    BY DictAssumption DEF MInv
  <2> QED
    BY <2>1, <2>2, <2>3
<1>3. TableOK(map, hash)
  BY DEF MInv
<1> QED
  BY <1>1, <1>2, <1>3, LoadedSays DEF Others, Only

\* The invariant holds initially, and every row keeps it.
LEMMA MapInvInit == MapInit => MInv
<1> SUFFICES ASSUME MapInit PROVE MInv
  OBVIOUS
<1>1. /\ map.n_buckets = 0 /\ map.size = 0 /\ map.n_occupied = 0 /\ map.upper_bound = 0
      /\ map.flags = <<>> /\ map.keys = <<>> /\ map.vals = <<>>
      /\ map = [n_buckets |-> map.n_buckets, size |-> map.size, n_occupied |-> map.n_occupied,
                upper_bound |-> map.upper_bound, flags |-> map.flags, keys |-> map.keys, vals |-> map.vals]
  BY DEF MapInit, kh_init
<1>2. LiveIn(map.flags, map.n_buckets) = {} /\ UsedIn(map.flags, map.n_buckets) = {}
  BY <1>1 DEF LiveIn, UsedIn
<1>3. Cardinality({}) = 0
  BY FS_EmptySet
<1>4. Sound(map.flags, map.keys, hash, map.n_buckets) /\ \A k, w : ~Entries(map, k, w)
  BY <1>1 DEF Sound, Entries, Has
<1>5. TableOK(map, hash)
  <2>1. map.size = Cardinality(LiveIn(map.flags, map.n_buckets))
        /\ map.n_occupied = Cardinality(UsedIn(map.flags, map.n_buckets)) /\ map.n_occupied <= map.upper_bound
    BY <1>1, <1>2, <1>3
  <2>2. map.n_buckets \in Sizes \cup {0} /\ ~(map.n_buckets > 0) /\ map.upper_bound = 0
    BY <1>1
  <2>3. Sound(map.flags, map.keys, hash, map.n_buckets)
        /\ map = [n_buckets |-> map.n_buckets, size |-> map.size, n_occupied |-> map.n_occupied,
                  upper_bound |-> map.upper_bound, flags |-> map.flags, keys |-> map.keys, vals |-> map.vals]
    BY <1>1, <1>4
  <2> QED
    BY <2>1, <2>2, <2>3 DEF TableOK
<1>6. /\ hash \in Hashes /\ rows = 0 /\ MaxRows \in Nat
      /\ times = [k \in Names |-> 0] /\ last = [k \in Names |-> Absent]
  BY DictAssumption DEF MapInit
<1> QED
  BY <1>1, <1>4, <1>5, <1>6 DEF MInv

LEMMA MapInvNext == MInv /\ [MapNext]_mapvars => MInv'
<1> SUFFICES ASSUME MInv, [MapNext]_mapvars PROVE MInv'
  OBVIOUS
<1>1. CASE UNCHANGED mapvars
  BY <1>1 DEF MInv, mapvars
<1>2. ASSUME NEW name \in Names, NEW v \in Vals, rows < MaxRows, map' = Loaded(map, name, v),
             rows' = rows + 1, times' = [times EXCEPT ![name] = @ + 1],
             last' = [last EXCEPT ![name] = v], hash' = hash
      PROVE  MInv'
  <2> DEFINE d == Loaded(map, name, v)
  <2>1. /\ TableOK(d, hash) /\ d.size <= map.size + 1 /\ map.size \in Nat /\ d.size \in Nat
        /\ Others(d, map, name)
    <3>1. d = Loaded(map, name, v)
      OBVIOUS
    <3> HIDE DEF d
    <3> QED
      BY <1>2, <3>1, RowSays
  <2>2. map' = d
    BY <1>2
  <2> HIDE DEF d
  <2>3. TableOK(map, hash)' /\ (\A k, w : Entries(map, k, w) => k \in Names)'
    <3>1. TableOK(map', hash') /\ \A k, w : Entries(map', k, w) => k \in Names
      BY <1>2, <2>1, <2>2 DEF MInv, Others
    <3> QED
      BY <3>1
  <2>4. rows' \in 0..MaxRows /\ map'.size <= rows'
    BY <1>2, <2>1, <2>2, DictAssumption, SMTT(30) DEF MInv
  <2>5. hash' \in Hashes /\ times' \in [Names -> Nat] /\ last' \in [Names -> Vals \cup {Absent}]
    BY <1>2 DEF MInv
  <2>6. \A k \in Names : times'[k] > 0 => last'[k] \in Vals
    BY <1>2 DEF MInv
  <2> QED
    BY <2>3, <2>4, <2>5, <2>6 DEF MInv
<1> QED
  BY <1>1, <1>2 DEF MapNext, dbHandleHashDictLoad

LEMMA MapInvariance == MapSpec => []MInv
BY MapInvInit, MapInvNext, PTL DEF MapSpec

\* In a table of names loaded from any rows, with any hash function and any list of
\* primes, probing ends: there is an empty cell, the counters of khash.h are those of
\* the cells, and no key is in two cells (khash.h 137-238).
THEOREM ProbingEnds == MapSpec => []ProbesEnd
<1>1. MInv => ProbesEnd
  <2> SUFFICES ASSUME MInv PROVE ProbesEnd
    OBVIOUS
  <2>1. TableOK(map, hash) /\ map.n_buckets \in Nat
    BY OfSize DEF MInv
  <2>2. map.n_buckets > 0 => \E i \in 0..(map.n_buckets - 1) : map.flags[i] = "empty"
    BY <2>1, TableSizes
  <2>3. map.size = Cardinality(LiveIn(map.flags, map.n_buckets))
        /\ map.n_occupied = Cardinality(UsedIn(map.flags, map.n_buckets))
        /\ Sound(map.flags, map.keys, hash, map.n_buckets)
    BY <2>1 DEF TableOK
  <2> QED
    BY <2>2, <2>3 DEF ProbesEnd, LiveIn, UsedIn, Sound
<1> QED
  BY <1>1, MapInvariance, PTL

\* What a name is in the dictionary.
LEMMA FoundSays ==
  ASSUME MInv, NEW key \in Keys
  PROVE  \/ Found(key) = Absent /\ \A w : ~Entries(map, key, w)
         \/ Found(key) \in Vals /\ \A w : Entries(map, key, w) <=> w = Found(key)
<1>1. Found(key) = FoundIn(map, hash, key)
  BY DEF Found, FoundIn
<1>2. TableOK(map, hash) /\ hash \in [Keys -> Nat]
  BY DictAssumption DEF MInv
<1> QED
  BY <1>1, <1>2, ValueSays

\* What a row does to a name of the dictionary.
LEMMA RowFound ==
  ASSUME MInv, NEW name \in Names, NEW v \in Vals, rows < MaxRows, NEW d, d = Loaded(map, name, v),
         NEW key \in Names
  PROVE  FoundIn(d, hash, key) = IF key # name THEN Found(key)
                                 ELSE IF Found(name) = Absent THEN v ELSE Absent
<1>1. /\ TableOK(d, hash) /\ Others(d, map, name)
      /\ (\E w : Entries(map, name, w)) => \A w : ~Entries(d, name, w)
      /\ (\A w : ~Entries(map, name, w)) => Only(d, name, v)
  BY RowSays
<1>2. key \in Keys /\ name \in Keys /\ hash \in [Keys -> Nat] /\ Absent \notin Vals
  BY DictAssumption DEF MInv
<1> DEFINE r == FoundIn(d, hash, key)
<1>3. \/ r = Absent /\ \A w : ~Entries(d, key, w)
      \/ r \in Vals /\ \A w : Entries(d, key, w) <=> w = r
  <2>1. r = FoundIn(d, hash, key)
    OBVIOUS
  <2> HIDE DEF r
  <2> QED
    BY <1>1, <1>2, <2>1, ValueSays
<1>4. \/ Found(key) = Absent /\ \A w : ~Entries(map, key, w)
      \/ Found(key) \in Vals /\ \A w : Entries(map, key, w) <=> w = Found(key)
  BY <1>2, FoundSays
<1> HIDE DEF r
<1>5. CASE key # name
  <2>1. \A w : Entries(d, key, w) <=> Entries(map, key, w)
    BY <1>1, <1>5 DEF Others
  <2>2. r = Found(key)
    BY <1>2, <1>3, <1>4, <2>1
  <2> QED
    BY <1>5, <2>2 DEF r
<1>6. CASE key = name
  <2>1. CASE Found(key) = Absent
    <3>1. \A w : Entries(d, key, w) <=> w = v
      BY <1>1, <1>2, <1>4, <1>6, <2>1 DEF Only
    <3>2. r = v
      BY <1>3, <3>1
    <3> QED
      BY <1>6, <2>1, <3>2 DEF r
  <2>2. CASE Found(key) # Absent
    <3>1. \A w : ~Entries(d, key, w)
      BY <1>1, <1>4, <1>6, <2>2
    <3>2. r = Absent
      BY <1>3, <3>1
    <3> QED
      BY <1>6, <2>2, <3>2 DEF r
  <2> QED
    BY <2>1, <2>2
<1> QED
  BY <1>5, <1>6

\* The hash table implements the table of names, for every set of names and hash
\* functions: whatever the collisions, the deleted cells and the rehashing in place,
\* a row takes a name that is there away, puts one that is not there in, and leaves
\* every other as it was (dict.c 241-263, khash.h 151-248).
THEOREM LoadsRows == MapSpec => LoadsTable
<1>1. MapInit => T!TInit
  <2> SUFFICES ASSUME MapInit PROVE T!TInit
    OBVIOUS
  <2>1. MInv /\ \A k, w : ~Entries(map, k, w)
    <3>1. map.n_buckets = 0
      BY DEF MapInit, kh_init
    <3> QED
      BY <3>1, MapInvInit DEF Entries, Has
  <2>2. \A k \in Names : Found(k) = Absent
    BY <2>1, FoundSays, DictAssumption
  <2>3. Entry = [k \in Names |-> Absent]
    BY <2>2 DEF Entry
  <2> QED
    BY <2>3 DEF MapInit, T!TInit
<1>2. MInv /\ [MapNext]_mapvars => [T!TNext]_(T!tvars)
  <2> SUFFICES ASSUME MInv, [MapNext]_mapvars PROVE [T!TNext]_(T!tvars)
    OBVIOUS
  <2>1. CASE UNCHANGED mapvars
    <3>1. Entry' = Entry
      BY <2>1 DEF mapvars, Entry, Found
    <3> QED
      BY <2>1, <3>1 DEF mapvars, T!tvars
  <2>2. ASSUME NEW name \in Names, NEW v \in Vals, rows < MaxRows, map' = Loaded(map, name, v),
               times' = [times EXCEPT ![name] = @ + 1], last' = [last EXCEPT ![name] = v], hash' = hash
        PROVE  T!Row(name, v)
    <3> DEFINE d == Loaded(map, name, v)
               F(key) == FoundIn(d, hash, key)
    <3>1. \A key \in Names : F(key) = IF key # name THEN Found(key)
                                      ELSE IF Found(name) = Absent THEN v ELSE Absent
      <4>1. d = Loaded(map, name, v)
        OBVIOUS
      <4> HIDE DEF d
      <4> QED
        BY <2>2, <4>1, RowFound
    <3>2. Entry' = [key \in Names |-> F(key)]
      BY <2>2 DEF Entry, Found, FoundIn
    <3> HIDE DEF F
    <3>3. Entry' = [Entry EXCEPT ![name] = IF @ = Absent THEN v ELSE Absent]
      BY <3>1, <3>2 DEF Entry
    <3> QED
      BY <2>2, <3>3 DEF T!Row
  <2> QED
    BY <2>1, <2>2 DEF MapNext, dbHandleHashDictLoad, T!TNext
<1> QED
  BY <1>1, <1>2, MapInvariance, PTL DEF MapSpec, LoadsTable, T!TSpec

DInv == T!TTypeOK /\ T!OddOnly /\ \A k \in Names : times[k] > 0 => last[k] \in Vals

\* A row with the entries in a variable of its own.
LEMMA OddRow ==
  ASSUME Absent \notin Vals, NEW e, NEW f, DInv, e = Entry, NEW k \in Names, NEW v \in Vals,
         times' = [times EXCEPT ![k] = @ + 1], last' = [last EXCEPT ![k] = v],
         f = [e EXCEPT ![k] = IF @ = Absent THEN v ELSE Absent]
  PROVE  /\ f \in [Names -> Vals \cup {Absent}] /\ times' \in [Names -> Nat]
         /\ last' \in [Names -> Vals \cup {Absent}]
         /\ \A q \in Names : f[q] = IF times'[q] % 2 = 1 THEN last'[q] ELSE Absent
         /\ \A q \in Names : times'[q] > 0 => last'[q] \in Vals
<1>1. /\ e \in [Names -> Vals \cup {Absent}] /\ times \in [Names -> Nat]
      /\ last \in [Names -> Vals \cup {Absent}]
      /\ \A q \in Names : e[q] = IF times[q] % 2 = 1 THEN last[q] ELSE Absent
      /\ \A q \in Names : times[q] > 0 => last[q] \in Vals
  BY DEF DInv, T!TTypeOK, T!OddOnly
<1>2. /\ f \in [Names -> Vals \cup {Absent}] /\ times' \in [Names -> Nat]
      /\ last' \in [Names -> Vals \cup {Absent}]
  BY <1>1
<1>3. \A q \in Names : times'[q] > 0 => last'[q] \in Vals
  BY <1>1
<1>4. ASSUME NEW q \in Names PROVE f[q] = IF times'[q] % 2 = 1 THEN last'[q] ELSE Absent
  <2>1. CASE q # k
    BY <1>1, <2>1
  <2>2. CASE q = k
    <3>1. times[k] \in Nat /\ times'[k] = times[k] + 1 /\ last'[k] = v
          /\ f[k] = (IF e[k] = Absent THEN v ELSE Absent)
      BY <1>1
    <3>2. times'[k] % 2 = 1 <=> times[k] % 2 # 1
      BY <3>1
    <3>3. CASE times[k] % 2 = 1
      <4>1. times[k] > 0
        BY <3>1, <3>3
      <4>2. e[k] = last[k] /\ last[k] \in Vals
        BY <1>1, <3>3, <4>1
      <4> QED
        BY <2>2, <3>1, <3>2, <3>3, <4>2
    <3>4. CASE times[k] % 2 # 1
      <4>1. e[k] = Absent
        BY <1>1, <3>4
      <4> QED
        BY <2>2, <3>1, <3>2, <3>4, <4>1
    <3> QED
      BY <3>3, <3>4
  <2> QED
    BY <2>1, <2>2
<1> QED
  BY <1>2, <1>3, <1>4

\* A name is in the dictionary exactly if the table has it an odd number of times,
\* in whatever order the rows come, with the value of the last of them.
THEOREM OddNamesOnly == T!TSpec => []T!OddOnly
<1>1. T!TInit => DInv
  BY DEF T!TInit, DInv, T!TTypeOK, T!OddOnly
<1>2. DInv /\ [T!TNext]_(T!tvars) => DInv'
  <2> SUFFICES ASSUME DInv, [T!TNext]_(T!tvars) PROVE DInv'
    OBVIOUS
  <2>1. CASE UNCHANGED T!tvars
    <3>1. Entry' = Entry /\ times' = times /\ last' = last
      BY <2>1 DEF T!tvars
    <3> QED
      BY <3>1 DEF DInv, T!TTypeOK, T!OddOnly
  <2>2. ASSUME NEW k \in Names, NEW v \in Vals, T!Row(k, v) PROVE DInv'
    <3>1. /\ times' = [times EXCEPT ![k] = @ + 1] /\ last' = [last EXCEPT ![k] = v]
          /\ Entry' = [Entry EXCEPT ![k] = IF @ = Absent THEN v ELSE Absent]
      BY <2>2 DEF T!Row
    <3>2. /\ Entry' \in [Names -> Vals \cup {Absent}] /\ times' \in [Names -> Nat]
          /\ last' \in [Names -> Vals \cup {Absent}]
          /\ \A q \in Names : Entry'[q] = IF times'[q] % 2 = 1 THEN last'[q] ELSE Absent
          /\ \A q \in Names : times'[q] > 0 => last'[q] \in Vals
      BY <3>1, OddRow, DictAssumption, ZenonT(40)
    <3> QED
      BY <3>2 DEF DInv, T!TTypeOK, T!OddOnly
  <2> QED
    BY <2>1, <2>2 DEF T!TNext
<1>3. DInv => T!OddOnly
  BY DEF DInv
<1> QED
  BY <1>1, <1>2, <1>3, PTL DEF T!TSpec

\* The beginnings of a word.
LEMMA Beginning ==
  ASSUME NEW w \in Words, NEW n \in 1..Len(w)
  PROVE  /\ Len(SubSeq(w, 1, n)) = n /\ SubSeq(w, 1, Len(w)) = w
         /\ n = Len(w) \/ n > 3 => SubSeq(w, 1, n) \in {w} \cup Beginnings(w)
<1>1. w \in Seq(Chars) /\ Len(w) \in Nat
  BY DictAssumption
<1>2. Len(SubSeq(w, 1, n)) = n
  BY <1>1, SubSeqProperties
<1>3. SubSeq(w, 1, Len(w)) = w
  BY <1>1
<1>4. n # Len(w) /\ n > 3 => n \in 4..(Len(w) - 1)
  BY <1>1
<1> QED
  BY <1>2, <1>3, <1>4 DEF Beginnings

\* A lookup finds the longest beginning of more than three characters, or the word
\* itself, among the names that were read an odd number of times, and returns the last
\* value of that name, for every set of names and words (dict.c 71-91).
THEOREM FindsLongest == MapSpec => []LongestBeginning
<1>1. MInv /\ T!OddOnly => LongestBeginning
  <2> SUFFICES ASSUME MInv, T!OddOnly, NEW w \in Words
               PROVE  \/ \E n \in 1..Len(w) :
                          LET b == SubSeq(w, 1, n) IN
                          /\ Read(b) /\ (n > 3 \/ n = Len(w))
                          /\ \A m \in (n + 1)..Len(w) : ~Read(SubSeq(w, 1, m))
                          /\ hmDictGet(w) = last[b]
                      \/ /\ \A n \in 1..Len(w) : Read(SubSeq(w, 1, n)) => n <= 3 /\ n < Len(w)
                         /\ hmDictGet(w) = 0
    BY DEF LongestBeginning
  <2> DEFINE tried == {w} \cup Beginnings(w)
             hits == {s \in tried : Found(s) # Absent}
             N == {n \in 1..Len(w) : Read(SubSeq(w, 1, n)) /\ (n > 3 \/ n = Len(w))}
  <2>1. w \in Seq(Chars) /\ Len(w) \in Nat /\ Len(w) > 0 /\ tried \subseteq Keys /\ Absent \notin Vals
    <3>1. w \in Seq(Chars) /\ w # <<>> /\ tried \subseteq Keys /\ Absent \notin Vals
      BY DictAssumption
    <3> QED
      BY <3>1, EmptySeq
  <2>2. ASSUME NEW k \in Keys PROVE (Found(k) # Absent <=> Read(k)) /\ (Read(k) => Found(k) = last[k])
    <3>1. \/ Found(k) = Absent /\ \A u : ~Entries(map, k, u)
          \/ Found(k) \in Vals /\ \A u : Entries(map, k, u) <=> u = Found(k)
      BY FoundSays
    <3>2. CASE k \notin Names
      BY <3>1, <3>2 DEF MInv, Read
    <3>3. CASE k \in Names
      <4>1. Found(k) = IF times[k] % 2 = 1 THEN last[k] ELSE Absent
        BY <3>3 DEF T!OddOnly, Entry
      <4>2. times[k] % 2 = 1 => last[k] \in Vals
        <5>1. times[k] \in Nat /\ (times[k] > 0 => last[k] \in Vals)
          BY <3>3 DEF MInv
        <5> QED
          BY <5>1, SMTT(30)
      <4> QED
        BY <2>1, <3>3, <4>1, <4>2 DEF Read
    <3> QED
      BY <3>2, <3>3
  <2>3. \A s \in tried : \E n \in 1..Len(w) : s = SubSeq(w, 1, n) /\ (n > 3 \/ n = Len(w))
    <3>1. w = SubSeq(w, 1, Len(w)) /\ Len(w) \in 1..Len(w)
      BY <2>1
    <3>2. \A n \in 4..(Len(w) - 1) : n \in 1..Len(w) /\ n > 3
      BY <2>1
    <3> QED
      BY <3>1, <3>2 DEF Beginnings
  <2>4. \A n \in 1..Len(w) : n > 3 \/ n = Len(w) => SubSeq(w, 1, n) \in tried
    BY Beginning
  <2>5. hmDictGet(w) = IF hits = {} THEN 0 ELSE Found(CHOOSE s \in hits : \A t \in hits : Len(t) <= Len(s))
    BY DEF hmDictGet
  <2>6. \A s \in hits : \E n \in N : s = SubSeq(w, 1, n)
    BY <2>1, <2>2, <2>3
  <2>7. \A n \in N : SubSeq(w, 1, n) \in hits
    BY <2>1, <2>2, <2>4
  <2>8. N \in SUBSET (0..Len(w))
    BY <2>1
  <2>9. \A n \in N : n \in 1..Len(w) /\ Len(SubSeq(w, 1, n)) = n
    BY Beginning
  <2>10. \A n \in 1..Len(w) : Read(SubSeq(w, 1, n)) /\ (n > 3 \/ n = Len(w)) <=> n \in N
    OBVIOUS
  <2> HIDE DEF tried, hits, N
  <2>11. CASE hits = {}
    <3>1. hmDictGet(w) = 0
      BY <2>5, <2>11
    <3>2. N = {}
      BY <2>7, <2>11
    <3>3. \A n \in 1..Len(w) : Read(SubSeq(w, 1, n)) => n <= 3 /\ n < Len(w)
      BY <2>1, <2>10, <3>2
    <3> QED
      BY <3>1, <3>3
  <2>12. CASE hits # {}
    <3>1. N # {}
      BY <2>6, <2>12
    <3> DEFINE n == Max(N)
    <3>2. n \in N /\ \A m \in N : m <= n
      BY <2>1, <2>8, <3>1, Greatest
    <3> HIDE DEF n
    <3> DEFINE b == SubSeq(w, 1, n)
               s == CHOOSE s \in hits : \A t \in hits : Len(t) <= Len(s)
    <3>3. b \in hits /\ \A t \in hits : Len(t) <= Len(b)
      <4> SUFFICES ASSUME NEW t \in hits PROVE Len(t) <= Len(b)
        BY <2>7, <3>2
      <4>1. PICK m \in N : t = SubSeq(w, 1, m)
        BY <2>6
      <4> QED
        BY <2>9, <3>2, <4>1
    <3>4. s \in hits /\ \A t \in hits : Len(t) <= Len(s)
      <4> HIDE DEF b
      <4> QED
        BY <3>3
    <3> HIDE DEF s
    <3>5. s = b
      <4>1. PICK m \in N : s = SubSeq(w, 1, m)
        BY <2>6, <3>4
      <4>2. Len(s) = m /\ Len(b) = n
        BY <2>9, <3>2, <4>1
      <4>3. Len(b) <= Len(s) /\ m <= n
        BY <3>2, <3>3, <3>4
      <4>4. m \in Int /\ n \in Int
        BY <2>9, <3>2
      <4>5. m = n
        BY <4>2, <4>3, <4>4
      <4> QED
        BY <4>1, <4>5
    <3>6. hmDictGet(w) = Found(b)
      BY <2>5, <2>12, <3>5 DEF s
    <3>7. n \in 1..Len(w) /\ Read(b) /\ (n > 3 \/ n = Len(w)) /\ b \in Keys
      <4>1. n \in 1..Len(w)
        BY <2>9, <3>2
      <4> QED
        BY <2>1, <2>4, <2>10, <3>2, <4>1
    <3>8. Found(b) = last[b]
      BY <2>2, <3>7
    <3>9. \A m \in (n + 1)..Len(w) : ~Read(SubSeq(w, 1, m))
      <4> SUFFICES ASSUME NEW m \in (n + 1)..Len(w), Read(SubSeq(w, 1, m)) PROVE FALSE
        OBVIOUS
      <4>1. m \in 1..Len(w) /\ (m > 3 \/ m = Len(w)) /\ ~(m <= n)
        BY <2>1, <3>7
      <4> QED
        BY <2>10, <3>2, <4>1
    <3> HIDE DEF n
    <3> QED
      BY <3>6, <3>7, <3>8, <3>9
  <2> QED
    BY <2>11, <2>12
<1>2. MapSpec => []T!OddOnly
  BY LoadsRows, OddNamesOnly, PTL DEF LoadsTable
<1> QED
  BY <1>1, <1>2, MapInvariance, PTL
================================================================================
