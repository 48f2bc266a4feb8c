------------------------------- MODULE MCAssembly -------------------------------
(* Assembly on every short text with every labelling of its words. *)
EXTENDS Assembly
================================================================================
