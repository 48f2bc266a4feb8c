------------------------------- MODULE TokenStack -------------------------------
(****************************************************************************)
(* The stack of open tags of tokens.c: an unsigned int whose digits in base *)
(* TOKEN_MAX_LEN are the tags, the innermost one last.                      *)
(****************************************************************************)
EXTENDS Integers

CONSTANTS
  TOKEN_MAX_LEN,  \* the base, and the bound of the tag numbers
  MaxUint         \* the largest unsigned int

ASSUME TokenStackAssumption ==
  /\ TOKEN_MAX_LEN \in Nat /\ TOKEN_MAX_LEN > 1
  /\ MaxUint \in Nat /\ MaxUint >= TOKEN_MAX_LEN

UnsignedInt == 0..MaxUint

\* The tag numbers that doTokenInit takes from token.ini.
TagId == 1..(TOKEN_MAX_LEN - 1)

HasRoom(tp, id) ==
  /\ id # 0 /\ id <= TOKEN_MAX_LEN
  /\ tp <= MaxUint \div TOKEN_MAX_LEN

Pushed(tp, id) == (tp * TOKEN_MAX_LEN + id) % (MaxUint + 1)

\* A push without room leaves the stack as it is; parseFile does not look at the result.
tokenPush(tp, id) == IF HasRoom(tp, id) THEN Pushed(tp, id) ELSE tp

Top(tp) == tp % TOKEN_MAX_LEN

tokenPop_Undivided(tp) == tp - Top(tp)

tokenPop(tp) == tp \div TOKEN_MAX_LEN

\* What the loops `while((nowTag=tokenPop(&myTags)) > 0)' meet.
OpenTags[tp \in UnsignedInt] ==
  IF Top(tp) = 0 THEN {} ELSE {Top(tp)} \cup OpenTags[tokenPop(tp)]
================================================================================
