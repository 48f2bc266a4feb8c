-------------------------------- MODULE Framing --------------------------------
(****************************************************************************)
(* The framing of a query on a connection to citepd: the client sends the   *)
(* query and then the end flag ("#MTFBWU#" in src/src/citepd.cc), and the   *)
(* server looks for the first end flag in everything it has received.       *)
(* Offsets count bytes from 0, as std::string::find does; the sequences of  *)
(* TLA+ count from 1.                                                       *)
(****************************************************************************)
EXTENDS Integers, Sequences

CONSTANTS
  Byte,           \* the bytes a query is made of, those of the end flag included
  end_flag        \* the terminator of a query

ASSUME FlagAssumption ==
  /\ end_flag \in Seq(Byte)
  /\ Len(end_flag) > 0

\* The first n bytes of s hold an end flag that starts at offset i.
FlagAt(s, n, i) ==
  /\ i + Len(end_flag) <= n
  /\ \A j \in 1..Len(end_flag) : s[i + j] = end_flag[j]

\* query.find(end_flag) = i, for the query made of the first n bytes of s.
FindsFlagAt(s, n, i) ==
  /\ FlagAt(s, n, i)
  /\ \A j \in 0..(i - 1) : ~FlagAt(s, n, j)

\* query.find(end_flag) = std::string::npos, for the same query.
HasNoFlag(s, n) == \A i \in 0..n : ~FlagAt(s, n, i)
================================================================================
