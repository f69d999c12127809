---------------------------- MODULE MCXmmsvList ----------------------------
(* XmmsvList on a small instance. *)
EXTENDS XmmsvList
=============================================================================
