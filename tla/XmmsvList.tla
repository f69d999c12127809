----------------------------- MODULE XmmsvList -----------------------------
(***************************************************************************)
(* A list value of value.c with its iterators, its entries' references and *)
(* its restriction to one type, used by one thread through the public      *)
(* functions xmmsv_list_* and xmmsv_list_iter_*.                           *)
(*                                                                         *)
(* The application inserts and removes at an iterator only when that is not *)
(* before the first entry: the code would take position -1 for the last    *)
(* entry.                                                                  *)
(*                                                                         *)
(* Calls that return an error and change nothing are stuttering steps.     *)
(* Memory is always found; XmmsvDict looks at what happens when it is not. *)
(***************************************************************************)
EXTENDS XmmsvListOps, Sequences

CONSTANTS
  Values,      \* values the application may put into the list
  Ints,        \* those of the type the list may be restricted to
  Its,         \* names of iterators
  MaxInserts   \* bound: insertions over a behaviour

ASSUME ListAssumption ==
  /\ Ints \subseteq Values
  /\ MaxInserts \in Nat

VARIABLES
  l,           \* the list
  live,        \* it is not freed yet
  restricted,  \* l->restricted (to Ints)
  ref,         \* the reference count of every value
  held,        \* the values the application owns a reference to
  mine,        \* the iterators the application has
  inserted     \* insertions so far; numbers the entries (history)

vars == <<l, live, restricted, ref, held, mine, inserted>>

\* What the list holds: a value, with the number of its insertion (history).
Slots == [val : Values, n : 1..MaxInserts]

Positions == -(MaxInserts + 1)..MaxInserts + 1

Occurrences(v) == {i \in 1..l.size : Contents(l)[i].val = v}

\* The application may pass a value it owns or has borrowed from the list.
Usable(v) == v \in held \/ Occurrences(v) # {}

Init ==
  /\ l = EmptyList
  /\ live = TRUE
  /\ restricted = FALSE
  /\ ref = [v \in Values |-> 1]
  /\ held = Values
  /\ mine = {}
  /\ inserted = 0

-----------------------------------------------------------------------------
\* Mutant: the list does not take a reference of its own.
Taken_Not(v) == UNCHANGED ref

\* The list takes a reference to v.
Taken(v) == ref' = [ref EXCEPT ![v] = @ + 1]

\* The type check of _xmmsv_list_insert.
Admits(v) == restricted => v \in Ints

\* xmmsv_list_insert, xmmsv_list_append (at l->size) and, at the position of an
\* iterator, xmmsv_list_iter_insert.
InsertAtPos(pos, v) ==
  /\ InRange(pos, l.size, TRUE)
  /\ Admits(v)
  /\ inserted < MaxInserts
  /\ inserted' = inserted + 1
  /\ l' = Insert(l, pos, [val |-> v, n |-> inserted'])
  /\ Taken(v)
  /\ UNCHANGED <<live, restricted, held, mine>>

ListInsert(pos, v) == live /\ Usable(v) /\ InsertAtPos(pos, v)
ListAppend(v)      == live /\ Usable(v) /\ InsertAtPos(l.size, v)
IterInsert(it, v) ==
  /\ live /\ it \in mine /\ Usable(v)
  /\ l.pos[it] >= 0
  /\ InsertAtPos(l.pos[it], v)

\* xmmsv_list_remove and xmmsv_list_iter_remove
RemoveAtPos(pos) ==
  /\ InRange(pos, l.size, FALSE)
  /\ l' = Remove(l, pos)
  /\ ref' = [ref EXCEPT ![l.mem[Absolute(pos, l.size)].val] = @ - 1]
  /\ UNCHANGED <<live, restricted, held, mine, inserted>>

ListRemove(pos) == live /\ RemoveAtPos(pos)
IterRemove(it) ==
  /\ live /\ it \in mine
  /\ l.pos[it] >= 0
  /\ RemoveAtPos(l.pos[it])

\* xmmsv_list_move
ListMove(old, new) ==
  /\ live
  /\ InRange(old, l.size, FALSE)
  /\ InRange(new, l.size, FALSE)
  /\ l' = Move(l, old, new)
  /\ UNCHANGED <<live, restricted, ref, held, mine, inserted>>

\* xmmsv_list_set: no look at the restriction.
ListSet(pos, v) ==
  /\ live
  /\ Usable(v)
  /\ InRange(pos, l.size, FALSE)
  /\ inserted < MaxInserts
  /\ inserted' = inserted + 1
  /\ LET p == Absolute(pos, l.size)
         old == l.mem[p].val
     IN /\ l' = [l EXCEPT !.mem[p] = [val |-> v, n |-> inserted']]
        /\ ref' = [w \in Values |-> ref[w] + (IF w = v THEN 1 ELSE 0)
                                          - (IF w = old THEN 1 ELSE 0)]
  /\ UNCHANGED <<live, restricted, held, mine>>

\* Every entry gives its reference back.
Released == [v \in Values |-> ref[v] - Cardinality(Occurrences(v))]

\* xmmsv_list_clear
ListClear ==
  /\ live
  /\ l' = Clear(l)
  /\ ref' = Released
  /\ UNCHANGED <<live, restricted, held, mine, inserted>>

\* The last reference to the list is given back: xmmsv_list_free frees the
\* iterators first.
ListFree ==
  /\ live
  /\ live' = FALSE
  /\ l' = EmptyList
  /\ ref' = Released
  /\ mine' = {}
  /\ UNCHANGED <<restricted, held, inserted>>

\* xmmsv_list_restrict_type looks at every entry with an iterator of its own, and
\* leaves the iterator behind at an entry of another type.
ListRestrict(it) ==
  /\ live
  /\ ~restricted
  /\ it \notin DOMAIN l.pos
  /\ \/ /\ \A i \in 1..l.size : Contents(l)[i].val \in Ints
        /\ restricted' = TRUE
        /\ UNCHANGED l
     \/ \E p \in 0..l.size - 1 :
          /\ l.mem[p].val \notin Ints
          /\ \A q \in 0..p - 1 : l.mem[q].val \in Ints
          /\ l' = At(Register(l, it), it, p)
          /\ UNCHANGED restricted
  /\ UNCHANGED <<live, ref, held, mine, inserted>>

-----------------------------------------------------------------------------
\* xmmsv_get_list_iter and xmmsv_list_iter_explicit_destroy
GetIter(it) ==
  /\ live
  /\ it \notin DOMAIN l.pos
  /\ l' = Register(l, it)
  /\ mine' = mine \cup {it}
  /\ UNCHANGED <<live, restricted, ref, held, inserted>>

DestroyIter(it) ==
  /\ live
  /\ it \in mine
  /\ l' = Unregister(l, it)
  /\ mine' = mine \ {it}
  /\ UNCHANGED <<live, restricted, ref, held, inserted>>

\* xmmsv_list_iter_first, _last, _next, _prev and _seek
IterStep(it) ==
  /\ live
  /\ it \in mine
  /\ \/ l' = At(l, it, 0)
     \/ l' = Last(l, it)
     \/ l' = Stepped(l, it)
     \/ l' = Back(l, it)
     \/ \E pos \in Positions : /\ InRange(pos, l.size, TRUE)
                               /\ l' = At(l, it, Absolute(pos, l.size))
  /\ UNCHANGED <<live, restricted, ref, held, mine, inserted>>

\* The application gives its reference to a value back.
Unref(v) ==
  /\ v \in held
  /\ held' = held \ {v}
  /\ ref' = [ref EXCEPT ![v] = @ - 1]
  /\ UNCHANGED <<l, live, restricted, mine, inserted>>

Next ==
  \/ \E v \in Values : \/ ListAppend(v) \/ Unref(v)
                       \/ \E pos \in Positions : ListInsert(pos, v) \/ ListSet(pos, v)
                       \/ \E it \in Its : IterInsert(it, v)
  \/ \E pos \in Positions : ListRemove(pos) \/ \E new \in Positions : ListMove(pos, new)
  \/ ListClear \/ ListFree
  \/ \E it \in Its : \/ ListRestrict(it) \/ GetIter(it) \/ DestroyIter(it)
                     \/ IterStep(it) \/ IterRemove(it)

Spec == Init /\ [][Next]_vars

-----------------------------------------------------------------------------
\* The list is an array with room for its entries, and an iterator is never
\* further out than one place before the first or behind the last entry.
TypeOK ==
  /\ l.size \in Nat /\ l.alloc \in Nat /\ l.size <= l.alloc
  /\ DOMAIN l.mem = 0..l.alloc - 1
  /\ \A i \in 0..l.size - 1 : l.mem[i] \in Slots
  /\ DOMAIN l.pos \subseteq Its
  /\ \A it \in DOMAIN l.pos : l.pos[it] \in -1..l.size
  /\ live \in BOOLEAN /\ restricted \in BOOLEAN
  /\ ref \in [Values -> Int]
  /\ held \subseteq Values
  /\ mine \subseteq DOMAIN l.pos
  /\ inserted \in 0..MaxInserts

\* "The list will hold a reference to the element until it's removed"
\* (value.c:1265): one for every place at which the list holds the value, and
\* none after the list was cleared or freed.
ValueRefs ==
  \A v \in Values :
    ref[v] = (IF v \in held THEN 1 ELSE 0) + Cardinality(Occurrences(v))

\* The array never has more than the room of the next halving to spare: the
\* memory follows the size down ("Reduce memory usage by two if possible",
\* value.c:1100) and is empty with the list; what it holds has its type.
Compact == TypeOK /\ (l.alloc >= 2 => l.size > l.alloc \div 2)

\* The list without positions: iterators are named by the entry they stand on.
Beyond(side) == [beyond |-> side]
Standing(it) ==
  LET p == l.pos[it]
  IN IF p = -1 THEN Beyond("first") ELSE IF p = l.size THEN Beyond("last") ELSE l.mem[p]

Abstract == INSTANCE CursorList WITH
  Entries <- Slots, Iterators <- Its, End <- Beyond("last"),
  Before <- Beyond("first"),
  seq <- Contents(l), cursor <- [it \in mine |-> Standing(it)]

\* The list with its array, memmove and adjusted positions implements the
\* sequence with cursors: no operation lets an iterator slip off its entry.
Implements == Abstract!CSpec
=============================================================================
