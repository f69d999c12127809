--------------------------- MODULE XmmsvListOps ---------------------------
(***************************************************************************)
(* The array list of value.c (struct xmmsv_list_St) as a value, with the   *)
(* functions that change it:                                               *)
(*   mem    the array l->list, a function on 0..alloc-1,                   *)
(*   size   l->size,                                                       *)
(*   alloc  l->allocated,                                                  *)
(*   pos    l->iterators: the position of every registered iterator.       *)
(* Positions count from 0, as in the code.  Reading or writing outside the *)
(* array is applying or updating `mem' outside its domain, which TLC       *)
(* reports.                                                                *)
(***************************************************************************)
EXTENDS Integers, FiniteSets

CONSTANT Junk     \* what an array slot holds that was never written

Lists(S, Its) ==
  [mem : UNION {[0..n-1 -> S \cup {Junk}] : n \in Nat}, size : Nat, alloc : Nat,
   pos : UNION {[I -> Int] : I \in SUBSET Its}]

EmptyList == [mem |-> [i \in {} |-> Junk], size |-> 0, alloc |-> 0,
              pos |-> [i \in {} |-> 0]]

\* absolutify_and_validate_pos: negative positions count from the end.
Absolute(p, size) == IF p < 0 THEN size + p ELSE p
InRange(p, size, append) ==
  /\ p < 0 => -p <= size
  /\ Absolute(p, size) <= size
  /\ ~append => Absolute(p, size) # size

\* realloc to n slots; what is added is uninitialised.
Resize(l, n) ==
  [l EXCEPT !.mem = [i \in 0..n-1 |-> IF i < l.alloc THEN l.mem[i] ELSE Junk],
            !.alloc = n]

\* memmove of n slots; l->list + dst, l->list + src
Memmove(mem, dst, src, n) ==
  [i \in DOMAIN mem |-> IF i \in dst..dst+n-1 THEN mem[i - dst + src] ELSE mem[i]]

\* Whether an insertion has to allocate, which may fail.
MustGrow(l) == l.size = l.alloc

\* Mutant: the iterators are left alone.
Shifted_Not(l, p) == l.pos

\* The iterators after an insertion at p.
Shifted(l, p) == [i \in DOMAIN l.pos |-> IF l.pos[i] > p THEN l.pos[i] + 1 ELSE l.pos[i]]

\* _xmmsv_list_insert, when the position is valid and memory is found.
Insert(l, pos, v) ==
  LET p == Absolute(pos, l.size)
      g == IF ~MustGrow(l) THEN l
           ELSE Resize(l, IF l.alloc > 0 THEN 2 * l.alloc ELSE 1)
      m == IF l.size > p THEN Memmove(g.mem, p + 1, p, l.size - p) ELSE g.mem
  IN [g EXCEPT !.mem = [m EXCEPT ![p] = v], !.size = @ + 1, !.pos = Shifted(l, p)]

\* Mutant: the array is halved one entry too late.
Shrunk_Late(l) == LET half == l.alloc \div 2
                  IN IF l.size < half THEN Resize(l, half) ELSE l

\* "Reduce memory usage by two if possible".
Shrunk(l) == LET half == l.alloc \div 2
             IN IF l.size <= half THEN Resize(l, half) ELSE l

\* The iterators after a removal at p.
Closed(l, p) == [i \in DOMAIN l.pos |-> IF l.pos[i] > p THEN l.pos[i] - 1 ELSE l.pos[i]]

\* _xmmsv_list_remove, when the position is valid.
Remove(l, pos) ==
  LET p == Absolute(pos, l.size)
      n == l.size - 1
      m == IF p < n THEN Memmove(l.mem, p, p + 1, n - p) ELSE l.mem
  IN Shrunk([l EXCEPT !.mem = m, !.size = n, !.pos = Closed(l, p)])

\* Mutant: only the iterators strictly between the two positions follow.
Follow_Between(q, from, to) ==
  IF q = from THEN to
  ELSE IF q > from /\ q < to THEN q - 1
  ELSE IF q >= to /\ q < from THEN q + 1 ELSE q

\* The iterator position q after an entry has been moved.
Follow(q, from, to) ==
  IF q = from THEN to
  ELSE IF q > from /\ q <= to THEN q - 1
  ELSE IF q >= to /\ q < from THEN q + 1 ELSE q

\* _xmmsv_list_move, when both positions are valid.
Move(l, old, new) ==
  LET from == Absolute(old, l.size)
      to   == Absolute(new, l.size)
      m    == IF from < to THEN Memmove(l.mem, from, from + 1, to - from)
              ELSE Memmove(l.mem, to + 1, to, from - to)
  IN [l EXCEPT !.mem = [m EXCEPT ![to] = l.mem[from]],
               !.pos = [i \in DOMAIN l.pos |-> Follow(l.pos[i], from, to)]]

\* _xmmsv_list_clear
Clear(l) == [l EXCEPT !.mem = [i \in {} |-> Junk], !.size = 0, !.alloc = 0,
                      !.pos = [i \in DOMAIN l.pos |-> 0]]

\* xmmsv_list_iter_new and xmmsv_list_iter_free
Register(l, it)   == [l EXCEPT !.pos = [i \in DOMAIN l.pos \cup {it} |->
                                          IF i = it THEN 0 ELSE l.pos[i]]]
Unregister(l, it) == [l EXCEPT !.pos = [i \in DOMAIN l.pos \ {it} |-> l.pos[i]]]

\* xmmsv_list_iter_valid, _entry, _next, _prev, _last and _seek
Valid(l, it) == l.pos[it] < l.size /\ l.pos[it] >= 0
Entry(l, it) == l.mem[l.pos[it]]
At(l, it, p) == [l EXCEPT !.pos[it] = p]
After(l, p)    == IF p < l.size THEN p + 1 ELSE p
Stepped(l, it) == At(l, it, After(l, l.pos[it]))
Back(l, it)    == IF l.pos[it] >= 0 THEN At(l, it, l.pos[it] - 1) ELSE l
Last(l, it)    == At(l, it, IF l.size > 0 THEN l.size - 1 ELSE l.size)

\* The entries of the list, in order.
Contents(l) == [i \in 1..l.size |-> l.mem[i - 1]]
=============================================================================
