--------------------------- MODULE MCXmmsClient ---------------------------
(* XmmsClient for TLC: the values of replies are interchangeable.           *)
EXTENDS XmmsClient, TLC

Symmetry == Permutations(Values)
=============================================================================
