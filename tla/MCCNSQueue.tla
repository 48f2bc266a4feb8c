------------------------------- MODULE MCCNSQueue -------------------------------
(* CNSQueue on a small ring; the elements are told apart by their content. *)
EXTENDS CNSQueue
================================================================================
