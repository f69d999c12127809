----------------------------- MODULE CursorList -----------------------------
(***************************************************************************)
(* What the list of value.c promises, without positions: a sequence of     *)
(* entries, no two of them the same, and cursors that stand on an entry,   *)
(* behind the last entry or before the first one.  "#xmmsv_list_iter_t's   *)
(* remain pointing at their element" (value.c:1303), whatever is done to   *)
(* the other entries.                                                      *)
(***************************************************************************)
EXTENDS Naturals, Sequences, SequencesExt

CONSTANTS Entries, Iterators, End, Before

VARIABLES
  seq,     \* the entries
  cursor   \* where each registered iterator stands

cvars == <<seq, cursor>>

IndexOf(s, c) == CHOOSE p \in DOMAIN s : s[p] = c

\* The place at p, and the places next to place c.
Place(s, p) == IF p \in DOMAIN s THEN s[p] ELSE End
Succ(c) == IF c = Before THEN Place(seq, 1)
           ELSE IF c = End THEN End
           ELSE Place(seq, IndexOf(seq, c) + 1)
Pred(c) == IF c = Before \/ c = Place(seq, 1) THEN Before
           ELSE IF c = End THEN seq[Len(seq)]
           ELSE seq[IndexOf(seq, c) - 1]

CInit == seq = <<>> /\ cursor = <<>>

\* A cursor at the place of insertion is at the new entry afterwards; the others
\* do not move.
CInsert(p, e) ==
  /\ e \notin ToSet(seq)
  /\ seq' = InsertAt(seq, p, e)
  /\ cursor' = [i \in DOMAIN cursor |->
                  IF cursor[i] = Place(seq, p) THEN e ELSE cursor[i]]

\* A cursor on a removed entry moves to the next one.
CRemove(p) ==
  /\ seq' = RemoveAt(seq, p)
  /\ cursor' = [i \in DOMAIN cursor |->
                  IF cursor[i] = seq[p] THEN Succ(seq[p]) ELSE cursor[i]]

CMove(from, to) ==
  /\ seq' = InsertAt(RemoveAt(seq, from), to, seq[from])
  /\ UNCHANGED cursor

CReplace(p, e) ==
  /\ e \notin ToSet(seq)
  /\ seq' = ReplaceAt(seq, p, e)
  /\ cursor' = [i \in DOMAIN cursor |-> IF cursor[i] = seq[p] THEN e ELSE cursor[i]]

CClear ==
  /\ seq' = <<>>
  /\ cursor' = [i \in DOMAIN cursor |-> End]

CPlace(i, c) ==
  /\ cursor' = [j \in DOMAIN cursor \cup {i} |-> IF j = i THEN c ELSE cursor[j]]
  /\ UNCHANGED seq

CDrop(S) ==
  /\ cursor' = [j \in DOMAIN cursor \ S |-> cursor[j]]
  /\ UNCHANGED seq

CFree == seq' = <<>> /\ cursor' = <<>>

CNext ==
  \/ \E p \in 1..Len(seq) + 1, e \in Entries : CInsert(p, e)
  \/ \E p \in DOMAIN seq, e \in Entries : CReplace(p, e)
  \/ \E p \in DOMAIN seq : CRemove(p) \/ \E q \in DOMAIN seq : CMove(p, q)
  \/ CClear \/ CFree
  \/ \E i \in Iterators : CPlace(i, Place(seq, 1)) \/ CDrop({i})
  \/ \E i \in DOMAIN cursor :
       \/ CPlace(i, Succ(cursor[i])) \/ CPlace(i, Pred(cursor[i]))
       \/ \E p \in 1..Len(seq) + 1 : CPlace(i, Place(seq, p))

CSpec == CInit /\ [][CNext]_cvars
=============================================================================
