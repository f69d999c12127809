---------------------------- MODULE MCXmmsvDict ----------------------------
(* XmmsvDict on a small instance. *)
EXTENDS XmmsvDict
=============================================================================
