------------------------------- MODULE KeyMap -------------------------------
(***************************************************************************)
(* What the dictionary of value.c promises: a map from keys to values.     *)
(***************************************************************************)
EXTENDS Functions

CONSTANTS Keys, Vals

VARIABLE map

MInit == map = [k \in {} |-> 0]

MSet(k, v) == map' = [j \in DOMAIN map \cup {k} |-> IF j = k THEN v ELSE map[j]]
MRemove(k) == map' = Restrict(map, DOMAIN map \ {k})
MClear     == map' = [k \in {} |-> 0]

MSame      == UNCHANGED map

MNext == \/ \E k \in Keys : MRemove(k) \/ \E v \in Vals : MSet(k, v)
         \/ MClear

MSpec == MInit /\ [][MNext]_map
=============================================================================
