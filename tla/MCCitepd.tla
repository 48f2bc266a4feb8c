-------------------------------- MODULE MCCitepd --------------------------------
(* Small instances of Citepd for TLC. *)
EXTENDS Citepd, TLC

CONSTANTS x, f, g      \* a byte of a query; the two bytes of the end flag

MCByte == {x, f, g}

\* A flag that a read can cut in two, and streams that have it after the limit's
\* bytes, one past them, at once with a byte after it, or never.
LongFlag   == <<f, g>>
MixedStreams == {<<x>>, <<x, f, g>>, <<x, x, f, g>>, <<f, g, x>>}

\* For liveness the framing does not matter: one byte of flag, a query, and a
\* client that never sends its flag.
ShortFlag == <<g>>
MCStreams == {<<x, g>>, <<x>>}

MCSymmetry == Permutations(Conns) \cup Permutations(Pids)
================================================================================
