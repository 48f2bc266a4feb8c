---------------------------- MODULE MCCitationReader ----------------------------
(* Small instances of CitationReader for TLC. *)
EXTENDS CitationReader

CONSTANTS x, g         \* a byte of a text; the end flag

MCByte == {x, g}
MCFlag == <<g>>

\* A text, one past the limit of the service, and one with an end flag in it.
MCTexts == {<<x>>, <<x, x, x, x>>, <<x, g, x>>}
================================================================================
