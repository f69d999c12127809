----------------------------- MODULE IdSequence -----------------------------
(***************************************************************************)
(* What the idlist functions of coll.c promise: a sequence of ids.         *)
(***************************************************************************)
EXTENDS Naturals, SequencesExt

VARIABLES
  ids,
  asked      \* the last call: function and arguments, positions counted from 1

IInit == ids = <<>> /\ asked = <<>>

IInsert(p, id)  == ids' = InsertAt(ids, p, id)
IMove(from, to) == ids' = InsertAt(RemoveAt(ids, from), to, ids[from])
IRemove(p)      == ids' = RemoveAt(ids, p)
ISet(p, id)     == ids' = ReplaceAt(ids, p, id)
IReplace(list)  == ids' = Front(list)

INext ==
  /\ asked' # <<>>
  /\ \/ asked'[1] = "insert" /\ IInsert(asked'[2], asked'[3])
     \/ asked'[1] = "move" /\ IMove(asked'[2], asked'[3])
     \/ asked'[1] = "remove" /\ IRemove(asked'[2])
     \/ asked'[1] = "set_index" /\ ISet(asked'[2], asked'[3])
     \/ asked'[1] = "set" /\ IReplace(asked'[2])
     \/ asked'[1] = "failed" /\ UNCHANGED ids

ISpec == IInit /\ [][INext]_<<ids, asked>>
=============================================================================
