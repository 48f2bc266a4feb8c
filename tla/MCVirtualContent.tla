---------------------------- MODULE MCVirtualContent ----------------------------
(* VirtualContent on a few blocks. *)
EXTENDS VirtualContent
================================================================================
