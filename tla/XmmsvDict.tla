----------------------------- MODULE XmmsvDict -----------------------------
(***************************************************************************)
(* A dictionary value of value.c: "dict implemented as a flat [key1, val1, *)
(* key2, val2, ...] list", sorted by key and searched by bisection, with   *)
(* iterators that are iterators of the flat list.                          *)
(*                                                                         *)
(* Every function of the interface that takes a key works with an iterator *)
(* of its own, Tmp.  A dictionary iterator is named like the list iterator *)
(* it owns.  xmmsv_dict_iter_free leaves that list iterator registered with*)
(* the flat list until the dictionary is freed; it is adjusted and never   *)
(* read again, and the model forgets it.  xmmsv_dict_get, _has_key and     *)
(* _foreach then change nothing and are no actions.                        *)
(***************************************************************************)
EXTENDS XmmsvListOps, Sequences, TLC

CONSTANTS
  Keys,      \* keys, in the order of strcmp: numbers
  Vals,      \* values
  Its,       \* names of the application's iterators
  Tmp,       \* the iterator of the function that is executing
  Fails,     \* where memory may run out: "insert" and "replace"
  Careful    \* a value is replaced only when no iterator stands behind it

ASSUME DictAssumption ==
  /\ Keys \subseteq Nat
  /\ Tmp \notin Its
  /\ Fails \subseteq {"insert", "replace"}
  /\ Careful \in BOOLEAN

VARIABLES
  d,       \* the flat list
  live     \* the dictionary is not freed yet

vars == <<d, live>>

\* The entries of the flat list.
Key(k) == [key |-> k]
Val(v) == [val |-> v]
Slots  == [key : Keys] \cup [val : Vals]

mine == DOMAIN d.pos      \* the application's iterators

Pairs(l) == l.size \div 2
KeyAt(l, i) == l.mem[2 * i].key

Init == d = EmptyList /\ live = TRUE

-----------------------------------------------------------------------------
\* Mutant: an unsuccessful search always stops in front of the last key seen.
NotFound_Before(l, mid, k) == [found |-> FALSE, pos |-> 2 * mid]

\* The search has ended at pair mid without finding k.
NotFound(l, mid, k) ==
  [found |-> FALSE,
   pos |-> IF KeyAt(l, mid) < k THEN After(l, After(l, 2 * mid)) ELSE 2 * mid]

\* xmmsv_dict_iter_find: bisection over the pairs left..right.
Find(l, k) ==
  LET n == Pairs(l)
      search[lr \in (0..n) \X (-1..n - 1)] ==
        LET left == lr[1]
            right == lr[2]
            mid == left + (right - left) \div 2
        IN IF KeyAt(l, mid) = k THEN [found |-> TRUE, pos |-> 2 * mid]
           ELSE IF KeyAt(l, mid) < k
                THEN IF mid + 1 > right THEN NotFound(l, mid, k)
                     ELSE search[<<mid + 1, right>>]
                ELSE IF left > mid - 1 THEN NotFound(l, mid, k)
                     ELSE search[<<left, mid - 1>>]
  IN IF n = 0 THEN [found |-> FALSE, pos |-> 0] ELSE search[<<0, n - 1>>]

\* An insertion at an iterator: the outcomes, with their success.
TryInsert(l, it, entry, site) ==
  {[ok |-> TRUE, l |-> Insert(l, l.pos[it], entry)]}
  \cup (IF MustGrow(l) /\ site \in Fails THEN {[ok |-> FALSE, l |-> l]} ELSE {})

\* Mutant: the iterator is left on the value.
Replaced_OnValue(l, it, v) ==
  LET cut == Remove(Stepped(l, it), Stepped(l, it).pos[it])
  IN {r.l : r \in TryInsert(cut, it, Val(v), "replace")}

\* xmmsv_dict_iter_set: the value behind the key is removed and the new one
\* inserted in its place; the iterator returns to the key.
Replaced(l, it, v) ==
  LET cut == Remove(Stepped(l, it), Stepped(l, it).pos[it])
  IN {At(r.l, it, l.pos[it]) : r \in TryInsert(cut, it, Val(v), "replace")}

\* The other branch of xmmsv_dict_set: the key is inserted, then the value; when
\* the value cannot be, the key is removed again.
Added(l, it, k, v) ==
  UNION {IF r.ok
         THEN LET next == Stepped(r.l, it)
              IN {IF s.ok THEN s.l ELSE Remove(At(next, it, next.pos[it] - 1), next.pos[it] - 1) :
                    s \in TryInsert(next, it, Val(v), "insert")}
         ELSE {r.l} : r \in TryInsert(l, it, Key(k), "insert")}

\* xmmsv_dict_iter_remove: the key and then, at the same position, the value.
Cut(l, it) ==
  IF ~Valid(l, it) THEN l
  ELSE LET one == Remove(l, l.pos[it])
       IN IF Valid(one, it) THEN Remove(one, one.pos[it]) ELSE one

\* xmmsv_get_dict_iter, with xmmsv_dict_iter_find, for a function's own use ...
Looking(k) == At(Register(d, Tmp), Tmp, Find(d, k).pos)

\* ... and xmmsv_dict_iter_free.
Done(l) == d' = Unregister(l, Tmp)

\* No iterator but `it' stands behind the pair of key position p.
NoneBehind(it, p) == Careful => \A i \in mine \ {it} : d.pos[i] <= p

-----------------------------------------------------------------------------
\* xmmsv_dict_set
DictSet(k, v) ==
  /\ live
  /\ IF Find(d, k).found
     THEN /\ NoneBehind(Tmp, Find(d, k).pos)
          /\ \E l \in Replaced(Looking(k), Tmp, v) : Done(l)
     ELSE \E l \in Added(Looking(k), Tmp, k, v) : Done(l)
  /\ UNCHANGED live

\* xmmsv_dict_remove
DictRemove(k) ==
  /\ live
  /\ IF Find(d, k).found THEN Done(Cut(Looking(k), Tmp)) ELSE UNCHANGED d
  /\ UNCHANGED live

DictClear == live /\ d' = Clear(d) /\ UNCHANGED live

\* xmmsv_dict_free frees the dictionary iterators, and with the flat list all
\* list iterators.
DictFree ==
  /\ live
  /\ live' = FALSE
  /\ d' = EmptyList

\* xmmsv_get_dict_iter and xmmsv_dict_iter_explicit_destroy
GetIter(it) == /\ live /\ it \notin mine
               /\ d' = Register(d, it)
               /\ UNCHANGED live
DestroyIter(it) == /\ it \in mine
                   /\ d' = Unregister(d, it)
                   /\ UNCHANGED live

\* xmmsv_dict_iter_first, _next and _find
IterStep(it) ==
  /\ it \in mine
  /\ \/ d' = At(d, it, 0)
     \/ d' = Stepped(Stepped(d, it), it)
     \/ \E k \in Keys : d' = At(d, it, Find(d, k).pos)
  /\ UNCHANGED live

IterSet(it, v) ==
  /\ it \in mine
  /\ Valid(d, it)
  /\ NoneBehind(it, d.pos[it])
  /\ \E l \in Replaced(d, it, v) : d' = l
  /\ UNCHANGED live

IterRemove(it) ==
  /\ it \in mine
  /\ d' = Cut(d, it)
  /\ UNCHANGED live

Next ==
  \/ DictClear \/ DictFree
  \/ \E k \in Keys : DictRemove(k) \/ \E v \in Vals : DictSet(k, v)
  \/ \E it \in Its : \/ GetIter(it) \/ DestroyIter(it) \/ IterStep(it)
                     \/ IterRemove(it) \/ \E v \in Vals : IterSet(it, v)

Spec == Init /\ [][Next]_vars

-----------------------------------------------------------------------------
TypeOK ==
  /\ d.size \in Nat /\ d.size <= d.alloc
  /\ DOMAIN d.mem = 0..d.alloc - 1
  /\ \A i \in 0..d.size - 1 : d.mem[i] \in Slots
  /\ DOMAIN d.pos \subseteq Its
  /\ \A it \in mine : d.pos[it] \in 0..d.size
  /\ live \in BOOLEAN

\* "Check whether the iterator is valid and points to a valid pair"
\* (value.c:1969): a valid iterator points to a key, not to a value.
OnPairs == \A it \in mine : Valid(d, it) => d.pos[it] % 2 = 0

\* "a consistent state" (value.c:1772): keys and values alternate and the keys
\* are in ascending order, also when memory ran out in the middle of an insertion,
\* and no iterator stands in the middle of a pair.
Consistent ==
  /\ TypeOK /\ OnPairs
  /\ d.size % 2 = 0
  /\ \A i \in 0..Pairs(d) - 1 :
       /\ d.mem[2 * i] \in [key : Keys]
       /\ d.mem[2 * i + 1] \in [val : Vals]
  /\ \A i, j \in 0..Pairs(d) - 1 : i < j => KeyAt(d, i) < KeyAt(d, j)

KeysOf(l) == {KeyAt(l, i) : i \in 0..Pairs(l) - 1}
PosOf(l, k) == CHOOSE p \in 0..l.size - 1 : l.mem[p] = Key(k)

\* A loop over the dictionary neither skips nor repeats a key when entries are
\* set or removed on the way: what is still to come stays to come.
NoSkip ==
  [][\A it \in mine \cap mine' : Contents(d') # Contents(d) =>
       \A k \in KeysOf(d) \cap KeysOf(d') :
         PosOf(d, k) >= d.pos[it] <=> PosOf(d', k) >= d'.pos[it]]_vars

AsMap == INSTANCE KeyMap WITH
  map <- [k \in KeysOf(d) |-> d.mem[PosOf(d, k) + 1].val]

\* The flat list implements a map, and each function does to the map what it is
\* called for: setting, removing and replacing, through the dictionary or through
\* any of its iterators, changes the entry of one key, the named one.  A setting
\* for which there is no memory changes nothing.
Implements ==
  /\ AsMap!MSpec
  /\ [][\A k \in Keys :
          /\ DictRemove(k) => AsMap!MRemove(k)
          /\ \A v \in Vals : DictSet(k, v) => AsMap!MSet(k, v) \/ AsMap!MSame
          /\ \A it \in mine : Valid(d, it) /\ d.mem[d.pos[it]] = Key(k) =>
               /\ IterRemove(it) => AsMap!MRemove(k)
               /\ \A v \in Vals : IterSet(it, v) => AsMap!MSet(k, v)]_vars
=============================================================================
