------------------------------- MODULE Idlist -------------------------------
(***************************************************************************)
(* The idlist of a collection (coll.c): ids in an array that ends with a 0,*)
(* which doubles when it is full and halves when it is half empty.         *)
(*                                                                         *)
(* Reading or writing outside the array is applying or updating `mem'      *)
(* outside its domain, which TLC reports.  Calls with an index that is out *)
(* of range return 0 and change nothing.                                   *)
(***************************************************************************)
EXTENDS Naturals, SequencesExt

CONSTANTS
  Ids,       \* the ids that are put in; 0 is none, but nobody looks
  Junk,      \* what a place holds that was never written
  Lists,     \* the lists, each ending with a 0, that are set as a whole
  Fails,     \* the operations that may find no memory: "insert" and "remove"
  MaxIds     \* bound: length of the idlist

ASSUME IdlistAssumption ==
  /\ MaxIds \in Nat
  /\ \A ids \in Lists : /\ ids \in Seq(Ids \cup {0}) /\ ids # <<>> /\ ids[Len(ids)] = 0
                        /\ Len(ids) <= MaxIds + 1

VARIABLES
  mem,       \* coll->idlist, coll->idlist_allocated being the size of its domain
  size,      \* coll->idlist_size
  asked      \* the last call, with its arguments (history)

idlist == <<mem, size, asked>>

Alloc(m) == Cardinality(DOMAIN m)
Array(s) == [i \in 0..Len(s) - 1 |-> s[i + 1]]

\* xmmsv_coll_idlist_resize
Resized(m, n) == [i \in 0..n - 1 |-> IF i \in DOMAIN m THEN m[i] ELSE Junk]

\* xmmsv_coll_new
IdlistInit == mem = Array(<<0>>) /\ size = 1 /\ asked = <<>>

-----------------------------------------------------------------------------
Grown(m) == IF size = Alloc(m) THEN Resized(m, Alloc(m) * 2) ELSE m

\* xmmsv_coll_idlist_insert
InsertAtIndex(index, id) ==
  /\ index < size
  /\ size <= MaxIds
  /\ LET grown == Grown(mem) IN
     mem' = [i \in DOMAIN grown |-> IF i = index THEN id
                                    ELSE IF i > index /\ i <= size THEN mem[i - 1] ELSE grown[i]]
  /\ size' = size + 1
  /\ asked' = <<"insert", index + 1, id>>

InsertFails ==
  /\ "insert" \in Fails /\ size = Alloc(mem)
  /\ asked' = <<"failed">>
  /\ UNCHANGED <<mem, size>>

\* xmmsv_coll_idlist_append
AppendId(id) == InsertAtIndex(size - 1, id)

\* Mutant: the entry moves to the place behind the one asked for.
Moved_Behind(i, from, to) ==
  IF i = to THEN mem[from]
  ELSE IF from <= i /\ i <= to THEN mem[i + 1]
  ELSE IF to <= i /\ i < from THEN mem[i - 1] ELSE mem[i]

Moved(i, from, to) ==
  IF i = to THEN mem[from]
  ELSE IF from <= i /\ i < to THEN mem[i + 1]
  ELSE IF to < i /\ i <= from THEN mem[i - 1] ELSE mem[i]

\* xmmsv_coll_idlist_move
MoveId(from, to) ==
  /\ from < size - 1 /\ to < size - 1
  /\ mem' = [i \in DOMAIN mem |-> Moved(i, from, to)]
  /\ asked' = <<"move", from + 1, to + 1>>
  /\ UNCHANGED size

Closed(index) == [i \in DOMAIN mem |-> IF i >= index /\ i < size - 1 THEN mem[i + 1] ELSE mem[i]]

\* xmmsv_coll_idlist_remove; when the array cannot be made smaller it stays.
RemoveId(index) ==
  /\ index < size - 1
  /\ size' = size - 1
  /\ asked' = <<"remove", index + 1>>
  /\ LET half == Alloc(mem) \div 2 IN
     \/ mem' = IF size' <= half THEN Resized(Closed(index), half) ELSE Closed(index)
     \/ "remove" \in Fails /\ size' <= half /\ mem' = Closed(index)

\* xmmsv_coll_set_idlist and, with a list that is only a 0, _idlist_clear
SetIdlist(ids) ==
  /\ mem' = Array(ids)
  /\ size' = Len(ids)
  /\ asked' = <<"set", ids>>

\* xmmsv_coll_idlist_set_index
SetIndex(index, id) ==
  /\ index < size - 1
  /\ mem' = [mem EXCEPT ![index] = id]
  /\ asked' = <<"set_index", index + 1, id>>
  /\ UNCHANGED size

IdlistNext ==
  \/ \E id \in Ids : AppendId(id) \/ \E i \in 0..MaxIds : InsertAtIndex(i, id) \/ SetIndex(i, id)
  \/ \E i \in 0..MaxIds : RemoveId(i) \/ \E j \in 0..MaxIds : MoveId(i, j)
  \/ \E ids \in Lists : SetIdlist(ids)
  \/ SetIdlist(<<0>>) \/ InsertFails

IdlistSpec == IdlistInit /\ [][IdlistNext]_idlist

-----------------------------------------------------------------------------
\* The array has its room, and no place that belongs to the list was never written.
IdlistTypeOK ==
  /\ size \in 1..MaxIds + 1 /\ size <= Alloc(mem)
  /\ DOMAIN mem = 0..Alloc(mem) - 1
  /\ \A i \in 0..size - 1 : mem[i] \in Ids \cup {0}

\* xmmsv_coll_idlist_get_index, for every index
Contents == [i \in 1..size - 1 |-> mem[i - 1]]

\* "The list must be 0-terminated" (coll.c:161) for those who get the array by
\* xmmsv_coll_get_idlist: they find the end without leaving it, and all the ids up
\* to it, that is up to the first id 0.
ReadToZero ==
  \E n \in 0..size - 1 :
    /\ mem[n] = 0 /\ \A i \in 0..n - 1 : mem[i] # 0
    /\ \A i \in 1..size - 1 : Contents[i] = 0 => n < i
    /\ (\A i \in 1..size - 1 : Contents[i] # 0) => n = size - 1

IdsAbstract == INSTANCE IdSequence WITH ids <- Contents

\* With its shifting, doubling and halving the array is a sequence of ids on which
\* every call does what it says.
IdlistImplements == IdsAbstract!ISpec
=============================================================================
