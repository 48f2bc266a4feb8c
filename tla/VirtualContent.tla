----------------------------- MODULE VirtualContent -----------------------------
(****************************************************************************)
(* The text holder (virtualcontent.c): one text per process in four static  *)
(* pointers, two of which may name the same block.  Its callers are the two *)
(* entry points of the predictor (citpred.cc, 1486-1508) and the three      *)
(* trainers, which all call initContent, load a text, use it and call       *)
(* cleanContent, unless the load fails.                                     *)
(*                                                                          *)
(* A block belongs to the text holder, to the rest of the program, or to    *)
(* nobody; a freed block may be handed out again.  What freeing a block     *)
(* that is not the text holder's does is undefined: the model stops there,  *)
(* with misuse.  That parseFile refuses a text is a choice here (TagText    *)
(* says when).                                                              *)
(****************************************************************************)
EXTENDS Integers, FiniteSets

CONSTANTS
  Blocks,         \* what the allocator hands out
  NULL,
  Callers,        \* which of the callers the process has
  MaxRefusals     \* bound on the texts that parseFile refuses

ASSUME VirtualContentAssumption ==
  /\ NULL \notin Blocks /\ IsFiniteSet(Blocks)
  /\ Callers \subseteq {"PredictFile", "PredictString", "trainer"}
  /\ MaxRefusals \in Nat

VARIABLES
  content, pcontent, offset, tags,   \* the static pointers
  contentType,    \* 0 nothing set, 1 a string, 2 a file
  noparse,
  owner,          \* who has a block: "text", "other" or "nobody"
  DEBUGFLAG,      \* the build (debuginfo.h): a release has FALSE
  \* the caller
  caller, pc,
  \* records for the properties
  misuse,         \* a block was freed that was not the text holder's
  refusals        \* how often parseFile gave up on a text it had read

pointers == <<content, pcontent, offset, tags>>
vars == <<DEBUGFLAG, pointers, contentType, noparse, owner, caller, pc, misuse, refusals>>

Owned == {b \in Blocks : owner[b] = "text"}
Free == {b \in Blocks : owner[b] = "nobody"}

getPcontent == IF contentType = 0 THEN NULL ELSE pcontent

--------------------------------------------------------------------------------
(* calloc and free.                                                           *)

\* frees what the pointers p name, one after the other, and then takes the blocks of the
\* set new; a pointer that is NULL names nothing
FreeAndTake(p, new) ==
  LET Named == {n \in DOMAIN p : p[n] # NULL}
      Freed == {p[n] : n \in Named}
  IN
  /\ misuse' = (misuse \/ \E n \in Named : owner[p[n]] # "text" \/ \E m \in Named : m # n /\ p[m] = p[n])
  /\ owner' = [b \in Blocks |-> IF b \in new THEN "text" ELSE IF b \in Freed THEN "nobody" ELSE owner[b]]

\* the text of an earlier call that was not cleaned
Earlier == IF contentType = 1 THEN <<pcontent>> ELSE <<>>

Init ==
  /\ DEBUGFLAG \in BOOLEAN
  /\ content = NULL /\ pcontent = NULL /\ offset = NULL /\ tags = NULL
  /\ contentType = 0 /\ noparse = FALSE
  /\ owner = [b \in Blocks |-> "nobody"]
  /\ caller \in Callers /\ pc = "init"
  /\ misuse = FALSE /\ refusals = 0

Step(from, to) == ~misuse /\ pc = from /\ pc' = to /\ UNCHANGED DEBUGFLAG

\* The next call, by any caller.
Call == Step("idle", "init") /\ caller' \in Callers
        /\ UNCHANGED <<pointers, contentType, noparse, owner, misuse, refusals>>

\* Whatever a failed call left is forgotten, not freed.
initContent ==
  /\ Step("init", "mode")
  /\ content' = NULL /\ pcontent' = NULL /\ offset' = NULL /\ tags' = NULL
  /\ noparse' = FALSE /\ contentType' = 0
  /\ UNCHANGED <<owner, caller, misuse, refusals>>

\* The predictor does not parse tags in the release build; the trainers always do.
setNoParse ==
  /\ Step("mode", "load")
  /\ noparse' = (caller # "trainer" /\ ~DEBUGFLAG)
  /\ UNCHANGED <<pointers, contentType, owner, caller, misuse, refusals>>

\* setFileContent: the text under both names.
setFileContent ==
  /\ caller = "PredictString" /\ Step("load", "use")
  /\ \E b \in Free :
       /\ content' = b /\ pcontent' = b
       /\ FreeAndTake(Earlier, {b})
  /\ contentType' = 1
  /\ UNCHANGED <<offset, tags, noparse, caller, refusals>>

\* parseFile on a file that cannot be opened: the callers return without cleanContent.
OpenFails ==
  /\ caller # "PredictString" /\ Step("load", "idle")
  /\ IF contentType = 1 THEN content' = NULL /\ pcontent' = NULL
                        ELSE UNCHANGED <<content, pcontent>>
  /\ FreeAndTake(Earlier, {})
  /\ UNCHANGED <<offset, tags, contentType, noparse, caller, refusals>>

\* readFileToParse: four blocks, or one under two names.
ReadsFile ==
  \/ /\ ~noparse
     /\ \E a, b, c, d \in Free :
          /\ Cardinality({a, b, c, d}) = 4
          /\ content' = a /\ pcontent' = b /\ offset' = c /\ tags' = d
          /\ FreeAndTake(Earlier, {a, b, c, d})
  \/ /\ noparse
     /\ \E a \in Free :
          /\ content' = a /\ pcontent' = a
          /\ FreeAndTake(Earlier, {a})
     /\ UNCHANGED <<offset, tags>>

\* parseFile, return 1.
parseFile ==
  /\ caller # "PredictString" /\ Step("load", "use")
  /\ ReadsFile
  /\ contentType' = 2
  /\ UNCHANGED <<noparse, caller, refusals>>

\* parseFile on a text whose tags do not balance: the blocks stay, and the caller
\* returns without cleanContent.
parseFileRefuses ==
  /\ caller # "PredictString" /\ Step("load", "idle")
  /\ ~noparse /\ refusals < MaxRefusals
  /\ ReadsFile
  /\ contentType' = 2
  /\ refusals' = refusals + 1
  /\ UNCHANGED <<noparse, caller>>

\* The predictor and the trainers take and free blocks of their own; what they return
\* outlives the text.
OtherTakes ==
  /\ Step("use", "use")
  /\ \A b \in Blocks : owner[b] # "other"
  /\ \E b \in Free : owner' = [owner EXCEPT ![b] = "other"]
  /\ UNCHANGED <<pointers, contentType, noparse, caller, misuse, refusals>>

OtherFrees ==
  /\ Step("idle", "idle")
  /\ \E b \in Blocks : owner[b] = "other" /\ owner' = [owner EXCEPT ![b] = "nobody"]
  /\ UNCHANGED <<pointers, contentType, noparse, caller, misuse, refusals>>

Used == Step("use", "clean")
        /\ UNCHANGED <<pointers, contentType, noparse, owner, caller, misuse, refusals>>

SecondName_Kept == contentType = 2 /\ noparse

\* noparse is already reset where cleanContent looks at it.
SecondName == contentType = 2

Cleaned ==
  /\ content' = NULL
  /\ IF SecondName
       THEN /\ FreeAndTake(pointers, {})
            /\ pcontent' = NULL /\ offset' = NULL /\ tags' = NULL
       ELSE /\ FreeAndTake(<<content>>, {})
            /\ UNCHANGED <<pcontent, offset, tags>>
  /\ noparse' = FALSE
  /\ UNCHANGED <<caller, refusals>>

cleanContent_KeepsType == Step("clean", "idle") /\ Cleaned /\ UNCHANGED contentType

\* After a string pcontent keeps its value; contentType = 0 hides it.
cleanContent == Step("clean", "idle") /\ Cleaned /\ contentType' = 0

Next ==
  \/ Call \/ initContent \/ setNoParse \/ setFileContent
  \/ OpenFails \/ parseFile \/ parseFileRefuses
  \/ OtherTakes \/ OtherFrees \/ Used \/ cleanContent

Spec == Init /\ [][Next]_vars

--------------------------------------------------------------------------------
(* Properties.                                                                *)

\* The types of the state; offset and tags exist only for a parsed file.
TypeOK ==
  /\ \A n \in 1..4 : pointers[n] \in Blocks \cup {NULL}
  /\ contentType \in 0..2 /\ noparse \in BOOLEAN
  /\ owner \in [Blocks -> {"text", "other", "nobody"}]
  /\ caller \in Callers
  /\ pc \in {"idle", "init", "mode", "load", "use", "clean"}
  /\ misuse \in BOOLEAN /\ refusals \in 0..MaxRefusals
  /\ pc = "use" => (offset # NULL <=> contentType = 2 /\ ~noparse)

\* No block is freed twice, nor one that belongs to somebody else by now
\* (the pairs of names in cleanContent, virtualcontent.c:301), with one exception: a
\* release build has one block under two names after it read a
\* file, and cleanContent frees it under both.
FreedOnceElse == misuse => ~DEBUGFLAG /\ caller = "PredictFile"

\* The text that getPcontent hands out is there: while it is used, after it was
\* cleaned, and after a load that failed, although pcontent is left dangling.
NoStaleText == getPcontent # NULL => owner[getPcontent] = "text"

\* The text holder frees and hands out blocks of its own (virtualcontent.c, 58-61 and
\* 301-317), in any order of its callers and after loads that failed.
NamesOwnBlocks == TypeOK /\ FreedOnceElse /\ NoStaleText

\* Between two calls the text holder has no memory but the four blocks of each text
\* that parseFile refused, which nobody frees.
OnlyRefusalsLeak == pc = "idle" /\ ~misuse => Cardinality(Owned) = 4 * refusals
================================================================================
