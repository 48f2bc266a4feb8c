----------------------------- MODULE MCHeadTraining -----------------------------
(* Small instances of HeadTraining for TLC. *)
EXTENDS HeadTraining

\* Two thresholds, the stricter one finding fewer headings, or none, or the same
\* ones a little further on.
Increasing == {s \in UNION {[1..n -> 1..TextSize] : n \in 0..2} :
                 \A i, j \in DOMAIN s : i < j => s[i] < s[j]}
MCContents == [Stacks -> Increasing]
================================================================================
