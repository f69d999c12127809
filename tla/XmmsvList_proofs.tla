-------------------------- MODULE XmmsvList_proofs --------------------------
(***************************************************************************)
(* That the array behind a list keeps its room and its iterators their     *)
(* bounds, and that the list owns one reference for every entry, for any   *)
(* number of values, iterators and insertions.                             *)
(***************************************************************************)
EXTENDS XmmsvList, XmmsvListOps_proofs, FiniteSetTheorems, SequenceTheorems, TLAPS

-----------------------------------------------------------------------------
\* The number of times value w is in the first n slots.
Places(mem, n, w) == {i \in 1..n : mem[i - 1].val = w}
Count(mem, n, w) == Cardinality(Places(mem, n, w))

\* The slots 0..n of g are the slots 0..n - 1 of f with e put in at p.
PutIn(f, g, n, p, e) ==
  \A i \in 0..n : g[i] = IF i < p THEN f[i] ELSE IF i = p THEN e ELSE f[i - 1]

LEMMA PlacesFinite ==
  ASSUME NEW mem, NEW n \in Nat, NEW w
  PROVE IsFiniteSet(Places(mem, n, w)) /\ Count(mem, n, w) \in Nat
<1>1. IsFiniteSet(1..n) /\ Places(mem, n, w) \in SUBSET (1..n)  BY FS_Interval DEF Places
<1> QED BY <1>1, FS_Subset, FS_CardinalityType DEF Count

\* What is put in adds one place of its value and moves those of the others.
LEMMA CountPutIn ==
  ASSUME NEW f, NEW g, NEW n \in Nat, NEW p \in 0..n, NEW e, PutIn(f, g, n, p, e), NEW w
  PROVE Count(g, n + 1, w) = Count(f, n, w) + (IF e.val = w THEN 1 ELSE 0)
<1> DEFINE A == Places(f, n, w)
           B == Places(g, n + 1, w)
           h == [i \in A |-> IF i <= p THEN i ELSE i + 1]
<1>1. IsFiniteSet(A) /\ IsFiniteSet(B) /\ Cardinality(A) \in Nat /\ Cardinality(B) \in Nat
  BY PlacesFinite DEF Count
<1>2. h \in Bijection(A, B \ {p + 1})
  <2>1. \A i \in A : i \in 1..n /\ f[i - 1].val = w  BY DEF Places
  <2>2. ASSUME NEW i \in A PROVE h[i] \in B \ {p + 1}
    <3>1. i \in 1..n /\ f[i - 1].val = w  BY <2>1
    <3>2. CASE i <= p
      <4>1. h[i] = i /\ i - 1 \in 0..n /\ i - 1 < p /\ i # p + 1 /\ i \in 1..n + 1  BY <3>1, <3>2
      <4>2. g[i - 1] = f[i - 1]  BY <4>1 DEF PutIn
      <4> QED BY <3>1, <4>1, <4>2 DEF Places
    <3>3. CASE ~(i <= p)
      <4>1. h[i] = i + 1 /\ i \in 0..n /\ ~(i < p) /\ i # p /\ i + 1 # p + 1 /\ i + 1 \in 1..n + 1
            /\ (i + 1) - 1 = i
        BY <3>1, <3>3
      <4>2. g[i] = f[i - 1]  BY <4>1 DEF PutIn
      <4> QED BY <3>1, <4>1, <4>2 DEF Places
    <3> QED BY <3>2, <3>3
  <2>3. ASSUME NEW i \in A, NEW j \in A, h[i] = h[j] PROVE i = j  BY <2>1, <2>3
  <2>4. ASSUME NEW k \in B \ {p + 1} PROVE \E i \in A : h[i] = k
    <3>1. k \in 1..n + 1 /\ g[k - 1].val = w /\ k # p + 1  BY DEF Places
    <3>2. CASE k <= p
      <4>1. k \in 1..n /\ k - 1 \in 0..n /\ k - 1 < p  BY <3>1, <3>2
      <4>2. g[k - 1] = f[k - 1]  BY <4>1 DEF PutIn
      <4>3. k \in A  BY <3>1, <4>1, <4>2 DEF Places
      <4> QED BY <3>2, <4>3
    <3>3. CASE ~(k <= p)
      <4>1. k - 1 \in 1..n /\ k - 1 \in 0..n /\ ~(k - 1 < p) /\ k - 1 # p /\ ~(k - 1 <= p)
            /\ (k - 1) + 1 = k
        BY <3>1, <3>3
      <4>2. g[k - 1] = f[(k - 1) - 1]  BY <4>1 DEF PutIn
      <4>3. k - 1 \in A  BY <3>1, <4>1, <4>2 DEF Places
      <4> QED BY <4>1, <4>3
    <3> QED BY <3>2, <3>3
  <2>5. h \in [A -> B \ {p + 1}]  BY <2>2
  <2> HIDE DEF h, A, B
  <2> QED BY <2>3, <2>4, <2>5 DEF Bijection, Injection, IsInjective, Surjection
<1>3. Cardinality(B \ {p + 1}) = Cardinality(A)
  <2> HIDE DEF h, A, B
  <2> QED BY <1>1, <1>2, FS_Bijection DEF ExistsBijection
<1>4. Cardinality(B \ {p + 1}) = IF p + 1 \in B THEN Cardinality(B) - 1 ELSE Cardinality(B)
  <2> HIDE DEF A, B
  <2> QED BY <1>1, FS_RemoveElement
<1>5. p + 1 \in B <=> e.val = w
  <2>1. p \in 0..n /\ ~(p < p) /\ p + 1 \in 1..n + 1 /\ (p + 1) - 1 = p  OBVIOUS
  <2>2. g[p] = e  BY <2>1 DEF PutIn
  <2> QED BY <2>1, <2>2 DEF Places
<1> HIDE DEF A, B
<1> QED BY <1>1, <1>3, <1>4, <1>5 DEF Count, A, B

\* Nothing but the slots of the list counts.
LEMMA CountSame ==
  ASSUME NEW f, NEW g, NEW n \in Nat, \A i \in 0..n - 1 : g[i] = f[i], NEW w
  PROVE Count(g, n, w) = Count(f, n, w)
<1>1. \A i \in 1..n : g[i - 1] = f[i - 1]  OBVIOUS
<1>2. Places(g, n, w) = Places(f, n, w)  BY <1>1 DEF Places
<1> QED BY <1>2 DEF Count

-----------------------------------------------------------------------------
Rest ==
  /\ DOMAIN l.pos \subseteq Its
  /\ live \in BOOLEAN /\ restricted \in BOOLEAN
  /\ ref \in [Values -> Int]
  /\ held \subseteq Values
  /\ mine \subseteq DOMAIN l.pos
  /\ inserted \in 0..MaxInserts

Counted ==
  \A v \in Values : ref[v] = (IF v \in held THEN 1 ELSE 0) + Count(l.mem, l.size, v)

Inv == Kept(Slots, l) /\ Tight(l) /\ Rest /\ Counted

\* The invariant says what the run checks.
LEMMA OccurrencesCount ==
  ASSUME NEW v PROVE Cardinality(Occurrences(v)) = Count(l.mem, l.size, v)
<1>1. \A i \in 1..l.size : Contents(l)[i] = l.mem[i - 1]  BY DEF Contents
<1>2. Occurrences(v) = Places(l.mem, l.size, v)  BY <1>1 DEF Occurrences, Places
<1> QED BY <1>2 DEF Count

LEMMA InvCompact == Inv => Compact
BY DEF Inv, Kept, Tight, Rest, Compact, TypeOK

LEMMA InvRefs == Inv => ValueRefs
BY OccurrencesCount DEF Inv, Counted, ValueRefs

LEMMA InitInv == Init => Inv
<1> SUFFICES ASSUME Init PROVE Inv  OBVIOUS
<1>1. /\ l.size = 0 /\ l.alloc = 0 /\ DOMAIN l.mem = {} /\ DOMAIN l.pos = {}
      /\ l = EmptyList
  BY DEF Init, EmptyList
<1>2. Record(l)  BY <1>1 DEF EmptyList, Record
<1>3. Kept(Slots, l) /\ Tight(l)  BY <1>1, <1>2 DEF Kept, Tight
<1>4. \A v \in Values : Count(l.mem, l.size, v) = 0
  <2>1. \A v : Places(l.mem, l.size, v) = {}  BY <1>1 DEF Places
  <2> QED BY <2>1, FS_EmptySet DEF Count
<1>5. Counted  BY <1>4 DEF Init, Counted
<1>6. Rest
  <2>1. live \in BOOLEAN /\ restricted \in BOOLEAN  BY DEF Init
  <2>2. ref \in [Values -> Int] /\ held \subseteq Values /\ inserted \in 0..MaxInserts
    BY ListAssumption DEF Init
  <2>3. DOMAIN l.pos \subseteq Its /\ mine \subseteq DOMAIN l.pos  BY <1>1 DEF Init
  <2> QED BY <2>1, <2>2, <2>3 DEF Rest
<1> QED BY <1>3, <1>5, <1>6 DEF Inv

-----------------------------------------------------------------------------
LEMMA InsertStep ==
  ASSUME Inv, NEW pos \in Int, NEW v \in Values, InsertAtPos(pos, v)
  PROVE Inv'
<1> DEFINE e == [val |-> v, n |-> inserted']
           p == Absolute(pos, l.size)
<1>1. Kept(Slots, l) /\ Tight(l) /\ Rest /\ Counted /\ l.size \in Nat  BY DEF Inv, Kept
<1>2. inserted' = inserted + 1 /\ inserted' \in 1..MaxInserts
  BY <1>1, ListAssumption DEF InsertAtPos, Rest
<1>3. e \in Slots  BY <1>2 DEF Slots
<1>4. l' = Insert(l, pos, e) /\ InRange(pos, l.size, TRUE)  BY DEF InsertAtPos
<1> HIDE DEF e
<1>5. /\ p \in 0..l.size
      /\ Kept(Slots, l') /\ Tight(l')
      /\ l'.size = l.size + 1 /\ l'.pos = Shifted(l, p)
      /\ PutIn(l.mem, l'.mem, l.size, p, e)
  <2> DEFINE b == Insert(l, pos, e)
  <2>1. /\ p \in 0..l.size /\ Kept(Slots, b) /\ (Tight(l) => Tight(b))
        /\ PutInto(b, l, p, e)
    BY <1>1, <1>3, <1>4, InsertFacts
  <2> HIDE DEF b, p
  <2>2. b = l'  BY <1>4 DEF b
  <2> QED BY <1>1, <2>1, <2>2 DEF PutIn, PutInto
<1>6. Rest'
  <2>1. DOMAIN l'.pos = DOMAIN l.pos  BY <1>5 DEF Shifted
  <2> QED BY <1>1, <1>2, <2>1 DEF Rest, InsertAtPos, Taken
<1>7. Counted'
  <2> SUFFICES ASSUME NEW w \in Values
               PROVE ref'[w] = (IF w \in held' THEN 1 ELSE 0) + Count(l'.mem, l'.size, w)
    BY DEF Counted
  <2>1. Count(l'.mem, l.size + 1, w) = Count(l.mem, l.size, w) + (IF e.val = w THEN 1 ELSE 0)
    <3> HIDE DEF p
    <3> QED BY <1>1, <1>5, CountPutIn
  <2>2. e.val = v  BY DEF e
  <2>3. ref'[w] = IF w = v THEN ref[w] + 1 ELSE ref[w]  BY <1>1 DEF InsertAtPos, Taken, Rest
  <2>4. ref[w] = (IF w \in held THEN 1 ELSE 0) + Count(l.mem, l.size, w)  BY <1>1 DEF Counted
  <2>5. Count(l.mem, l.size, w) \in Nat  BY <1>1, PlacesFinite
  <2> QED BY <1>5, <2>1, <2>2, <2>3, <2>4, <2>5 DEF InsertAtPos
<1> QED BY <1>5, <1>6, <1>7 DEF Inv

LEMMA RemoveStep ==
  ASSUME Inv, NEW pos \in Int, RemoveAtPos(pos) PROVE Inv'
<1> DEFINE p == Absolute(pos, l.size)
           e == l.mem[p]
<1>1. Kept(Slots, l) /\ Tight(l) /\ Rest /\ Counted /\ l.size \in Nat  BY DEF Inv, Kept
<1>2. l' = Remove(l, pos) /\ InRange(pos, l.size, FALSE)  BY DEF RemoveAtPos
<1>3. /\ p \in 0..l.size - 1
      /\ Kept(Slots, l') /\ Tight(l')
      /\ l'.size = l.size - 1 /\ l'.pos = Closed(l, p)
      /\ \A i \in 0..l.size - 2 : l'.mem[i] = IF i < p THEN l.mem[i] ELSE l.mem[i + 1]
  BY <1>1, <1>2, RemoveFacts DEF TakenOut
<1>4. e.val \in Values  BY <1>1, <1>3 DEF Kept, Slots
<1>5. ref' = [ref EXCEPT ![e.val] = @ - 1]  BY DEF RemoveAtPos
<1> HIDE DEF p
<1>6. Rest'
  <2>1. DOMAIN l'.pos = DOMAIN l.pos  BY <1>3 DEF Closed
  <2>2. ref' \in [Values -> Int]  BY <1>1, <1>4, <1>5 DEF Rest
  <2> QED BY <1>1, <2>1, <2>2 DEF Rest, RemoveAtPos
<1>7. PutIn(l'.mem, l.mem, l'.size, p, e)
  <2> SUFFICES ASSUME NEW i \in 0..l'.size
               PROVE l.mem[i] = IF i < p THEN l'.mem[i] ELSE IF i = p THEN e ELSE l'.mem[i - 1]
    BY DEF PutIn
  <2>1. CASE i < p
    <3>1. i \in 0..l.size - 2  BY <1>1, <1>3, <2>1
    <3> QED BY <1>3, <2>1, <3>1
  <2>2. CASE i = p  BY <1>3, <2>2
  <2>3. CASE i > p
    <3>1. i - 1 \in 0..l.size - 2 /\ ~(i - 1 < p) /\ (i - 1) + 1 = i /\ i # p /\ ~(i < p)
      BY <1>1, <1>3, <2>3
    <3>2. l'.mem[i - 1] = l.mem[(i - 1) + 1]  BY <1>3, <3>1
    <3> QED BY <3>1, <3>2
  <2> QED BY <1>3, <2>1, <2>2, <2>3
<1>8. Counted'
  <2> SUFFICES ASSUME NEW w \in Values
               PROVE ref'[w] = (IF w \in held' THEN 1 ELSE 0) + Count(l'.mem, l'.size, w)
    BY DEF Counted
  <2>1. l'.size \in Nat /\ p \in 0..l'.size /\ l'.size + 1 = l.size  BY <1>1, <1>3
  <2> HIDE DEF e
  <2>2. Count(l.mem, l'.size + 1, w) = Count(l'.mem, l'.size, w) + (IF e.val = w THEN 1 ELSE 0)
    BY <1>7, <2>1, CountPutIn
  <2>3. ref'[w] = IF w = e.val THEN ref[w] - 1 ELSE ref[w]  BY <1>1, <1>5 DEF Rest
  <2>4. ref[w] = (IF w \in held THEN 1 ELSE 0) + Count(l.mem, l.size, w)  BY <1>1 DEF Counted
  <2>5. Count(l'.mem, l'.size, w) \in Nat  BY <2>1, PlacesFinite
  <2> QED BY <2>1, <2>2, <2>3, <2>4, <2>5 DEF RemoveAtPos
<1> QED BY <1>3, <1>6, <1>8 DEF Inv

\* Moving is taking out and putting in.
LEMMA MoveStep ==
  ASSUME Inv, NEW old \in Int, NEW new \in Int, ListMove(old, new) PROVE Inv'
<1> DEFINE from == Absolute(old, l.size)
           to   == Absolute(new, l.size)
           e    == l.mem[from]
           n    == l.size - 1
           h    == [i \in 0..n |-> IF i < from THEN l.mem[i] ELSE l.mem[i + 1]]
<1>1. Kept(Slots, l) /\ Tight(l) /\ Rest /\ Counted /\ l.size \in Nat  BY DEF Inv, Kept
<1>2. l' = Move(l, old, new) /\ InRange(old, l.size, FALSE) /\ InRange(new, l.size, FALSE)
  BY DEF ListMove
<1>3. /\ from \in 0..l.size - 1 /\ to \in 0..l.size - 1
      /\ Kept(Slots, l') /\ l'.alloc = l.alloc /\ l'.size = l.size
      /\ l'.pos = [it \in DOMAIN l.pos |-> Follow(l.pos[it], from, to)]
      /\ \A i \in 0..l.size - 1 :
           l'.mem[i] = IF i = to THEN e
                       ELSE IF i >= from /\ i < to THEN l.mem[i + 1]
                       ELSE IF i > to /\ i <= from THEN l.mem[i - 1] ELSE l.mem[i]
  <2> DEFINE b == Move(l, old, new)
  <2>1. /\ from \in 0..l.size - 1 /\ to \in 0..l.size - 1
        /\ Kept(Slots, b) /\ b.alloc = l.alloc /\ MovedTo(b, l, from, to)
    BY <1>1, <1>2, MoveFacts
  <2> HIDE DEF b, from, to
  <2>2. b = l'  BY <1>2 DEF b
  <2> QED BY <2>1, <2>2 DEF MovedTo
<1> HIDE DEF from, to
<1>4. Tight(l')  BY <1>1, <1>3 DEF Tight
<1>5. Rest'  BY <1>1, <1>3 DEF Rest, ListMove
<1>6. n \in Nat /\ n + 1 = l.size  BY <1>1, <1>3
<1>7. PutIn(h, l.mem, n, from, e)
  <2> SUFFICES ASSUME NEW i \in 0..n
               PROVE l.mem[i] = IF i < from THEN h[i] ELSE IF i = from THEN e ELSE h[i - 1]
    BY DEF PutIn
  <2>1. CASE i < from  BY <2>1
  <2>2. CASE i = from  BY <1>3, <2>2
  <2>3. CASE i > from
    <3>1. i - 1 \in 0..n /\ ~(i - 1 < from) /\ (i - 1) + 1 = i /\ ~(i < from) /\ i # from
      BY <1>3, <1>6, <2>3
    <3>2. h[i - 1] = l.mem[(i - 1) + 1]  BY <3>1
    <3> QED BY <3>1, <3>2
  <2> QED BY <1>3, <2>1, <2>2, <2>3
<1>8. PutIn(h, l'.mem, n, to, e)
  <2> SUFFICES ASSUME NEW i \in 0..n
               PROVE l'.mem[i] = IF i < to THEN h[i] ELSE IF i = to THEN e ELSE h[i - 1]
    BY DEF PutIn
  <2>0. /\ i \in 0..l.size - 1
        /\ h[i] = IF i < from THEN l.mem[i] ELSE l.mem[i + 1]
        /\ i > 0 => h[i - 1] = IF i - 1 < from THEN l.mem[i - 1] ELSE l.mem[i]
    <3>1. i > 0 => i - 1 \in 0..n /\ (i - 1) + 1 = i  BY <1>6
    <3> QED BY <1>6, <3>1
  <2> HIDE DEF h, e, n
  <2>1. CASE i < to
    <3>1. l'.mem[i] = IF i >= from THEN l.mem[i + 1] ELSE l.mem[i]  BY <1>3, <2>0, <2>1
    <3> QED BY <1>3, <2>0, <2>1, <3>1
  <2>2. CASE i = to  BY <1>3, <2>0, <2>2
  <2>3. CASE i > to
    <3>1. l'.mem[i] = IF i <= from THEN l.mem[i - 1] ELSE l.mem[i]  BY <1>3, <2>0, <2>3
    <3> QED BY <1>3, <2>0, <2>3, <3>1
  <2> QED BY <1>3, <2>0, <2>1, <2>2, <2>3
<1>9. Counted'
  <2> SUFFICES ASSUME NEW w \in Values
               PROVE ref'[w] = (IF w \in held' THEN 1 ELSE 0) + Count(l'.mem, l'.size, w)
    BY DEF Counted
  <2>1. from \in 0..n /\ to \in 0..n  BY <1>3, <1>6
  <2> HIDE DEF h, e, n
  <2>2. Count(l.mem, n + 1, w) = Count(h, n, w) + (IF e.val = w THEN 1 ELSE 0)
    BY <1>6, <1>7, <2>1, CountPutIn
  <2>3. Count(l'.mem, n + 1, w) = Count(h, n, w) + (IF e.val = w THEN 1 ELSE 0)
    BY <1>6, <1>8, <2>1, CountPutIn
  <2> QED BY <1>1, <1>3, <1>6, <2>2, <2>3 DEF Counted, ListMove
<1> QED BY <1>3, <1>4, <1>5, <1>9 DEF Inv

\* So is replacing, at the same place.
LEMMA SetStep ==
  ASSUME Inv, NEW pos \in Int, NEW v \in Values, ListSet(pos, v) PROVE Inv'
<1> DEFINE p == Absolute(pos, l.size)
           e == [val |-> v, n |-> inserted']
           d == l.mem[p]
           n == l.size - 1
           h == [i \in 0..n |-> IF i < p THEN l.mem[i] ELSE l.mem[i + 1]]
<1>1. Kept(Slots, l) /\ Tight(l) /\ Rest /\ Counted /\ l.size \in Nat  BY DEF Inv, Kept
<1>2. p \in 0..l.size - 1  BY <1>1, AbsoluteIn DEF ListSet
<1>3. inserted' = inserted + 1 /\ inserted' \in 1..MaxInserts
  BY <1>1, ListAssumption DEF ListSet, Rest
<1>4. e \in Slots /\ e.val = v  BY <1>3 DEF Slots
<1>5. /\ l' = [l EXCEPT !.mem[p] = e]
      /\ ref' = [w \in Values |-> ref[w] + (IF w = v THEN 1 ELSE 0) - (IF w = d.val THEN 1 ELSE 0)]
  BY DEF ListSet
<1> HIDE DEF p, e
<1>6. /\ l'.mem = [l.mem EXCEPT ![p] = e] /\ l'.size = l.size /\ l'.alloc = l.alloc
      /\ l'.pos = l.pos /\ Record(l')
  <2>1. l = [mem |-> l.mem, size |-> l.size, alloc |-> l.alloc, pos |-> l.pos]
    BY <1>1 DEF Kept, Record
  <2> DEFINE mem == [l.mem EXCEPT ![p] = e]
  <2>2. l' = [mem |-> mem, size |-> l.size, alloc |-> l.alloc, pos |-> l.pos]  BY <1>5, <2>1
  <2>3. mem = [i \in DOMAIN mem |-> mem[i]]  OBVIOUS
  <2>4. l.pos = [it \in DOMAIN l.pos |-> l.pos[it]]  BY <1>1 DEF Kept, Record
  <2> HIDE DEF mem
  <2>5. Record(l')  BY <2>2, <2>3, <2>4 DEF Record
  <2> QED BY <2>2, <2>5 DEF mem
<1>7. l'.mem[p] = e /\ \A i \in 0..n : i # p => l'.mem[i] = l.mem[i]
  <2>1. p \in DOMAIN l.mem /\ 0..n \subseteq DOMAIN l.mem  BY <1>1, <1>2 DEF Kept
  <2> QED BY <1>6, <2>1
<1>8. Kept(Slots, l')
  <2>1. \A i \in 0..l'.size - 1 : l'.mem[i] \in Slots  BY <1>1, <1>4, <1>6, <1>7 DEF Kept
  <2> QED BY <1>1, <1>6, <2>1 DEF Kept
<1>9. Tight(l')  BY <1>1, <1>6 DEF Tight
<1>10. ref' \in [Values -> Int]  BY <1>1, <1>5 DEF Rest
<1>11. Rest'  BY <1>1, <1>3, <1>6, <1>10 DEF Rest, ListSet
<1>12. n \in Nat /\ n + 1 = l.size  BY <1>1, <1>2
<1>13. PutIn(h, l.mem, n, p, d)
  <2> SUFFICES ASSUME NEW i \in 0..n
               PROVE l.mem[i] = IF i < p THEN h[i] ELSE IF i = p THEN d ELSE h[i - 1]
    BY DEF PutIn
  <2>1. CASE i < p  BY <2>1
  <2>2. CASE i = p  BY <1>2, <2>2
  <2>3. CASE i > p
    <3>1. i - 1 \in 0..n /\ ~(i - 1 < p) /\ (i - 1) + 1 = i /\ ~(i < p) /\ i # p
      BY <1>2, <1>12, <2>3
    <3>2. h[i - 1] = l.mem[(i - 1) + 1]  BY <3>1
    <3> QED BY <3>1, <3>2
  <2> QED BY <1>2, <2>1, <2>2, <2>3
<1>14. PutIn(h, l'.mem, n, p, e)
  <2>1. ~(p < p)  BY <1>2
  <2> QED BY <1>7, <1>13, <2>1 DEF PutIn
<1>15. Counted'
  <2> SUFFICES ASSUME NEW w \in Values
               PROVE ref'[w] = (IF w \in held' THEN 1 ELSE 0) + Count(l'.mem, l'.size, w)
    BY DEF Counted
  <2>1. p \in 0..n  BY <1>2, <1>12
  <2>2. ref'[w] = ref[w] + (IF w = v THEN 1 ELSE 0) - (IF w = d.val THEN 1 ELSE 0)  BY <1>5
  <2> HIDE DEF h, d, n
  <2>3. Count(l.mem, n + 1, w) = Count(h, n, w) + (IF d.val = w THEN 1 ELSE 0)
    BY <1>12, <1>13, <2>1, CountPutIn
  <2>4. Count(l'.mem, n + 1, w) = Count(h, n, w) + (IF e.val = w THEN 1 ELSE 0)
    BY <1>12, <1>14, <2>1, CountPutIn
  <2>5. ref[w] = (IF w \in held THEN 1 ELSE 0) + Count(l.mem, l.size, w)  BY <1>1 DEF Counted
  <2>6. Count(h, n, w) \in Nat  BY <1>12, PlacesFinite
  <2>7. held' = held  BY DEF ListSet
  <2> QED BY <1>4, <1>6, <1>12, <2>2, <2>3, <2>4, <2>5, <2>6, <2>7
<1> QED BY <1>8, <1>9, <1>11, <1>15 DEF Inv

\* Steps that change the list's positions only, and perhaps what the application has.
LEMMA PositionsStep ==
  ASSUME Inv, NEW q, q = [it \in DOMAIN q |-> q[it]],
         \A it \in DOMAIN q : q[it] \in -1..l.size, DOMAIN q \subseteq Its,
         l' = [l EXCEPT !.pos = q], mine' \subseteq DOMAIN q,
         restricted' \in BOOLEAN, UNCHANGED <<live, ref, held, inserted>>
  PROVE Inv'
<1>1. Kept(Slots, l) /\ Tight(l) /\ Rest /\ Counted  BY DEF Inv
<1>2. Kept(Slots, l') /\ l'.mem = l.mem /\ l'.size = l.size /\ l'.alloc = l.alloc /\ l'.pos = q
  BY <1>1, PositionsOnly
<1>3. Tight(l')  BY <1>1, <1>2 DEF Tight
<1>4. Rest'  BY <1>1, <1>2 DEF Rest
<1>5. Counted'  BY <1>1, <1>2 DEF Counted
<1> QED BY <1>2, <1>3, <1>4, <1>5 DEF Inv

LEMMA AtStep ==
  ASSUME Inv, NEW it \in mine, NEW p \in -1..l.size, l' = At(l, it, p),
         UNCHANGED <<live, restricted, ref, held, mine, inserted>>
  PROVE Inv'
<1> DEFINE q == [l.pos EXCEPT ![it] = p]
<1>1. Kept(Slots, l) /\ Rest  BY DEF Inv
<1>2. l.pos = [j \in DOMAIN l.pos |-> l.pos[j]]  BY <1>1 DEF Kept, Record
<1>3. l' = [l EXCEPT !.pos = q]  BY DEF At
<1>4. q = [j \in DOMAIN q |-> q[j]] /\ DOMAIN q = DOMAIN l.pos  OBVIOUS
<1>5. \A j \in DOMAIN q : q[j] \in -1..l.size  BY <1>1 DEF Kept
<1> HIDE DEF q
<1>6. DOMAIN q \subseteq Its /\ mine' \subseteq DOMAIN q /\ restricted' \in BOOLEAN
  BY <1>1, <1>4 DEF Rest
<1> QED BY <1>3, <1>4, <1>5, <1>6, PositionsStep

LEMMA IterStepStep ==
  ASSUME Inv, NEW it \in Its, IterStep(it) PROVE Inv'
<1>1. /\ it \in mine /\ l.pos[it] \in -1..l.size /\ l.size \in Nat
      /\ UNCHANGED <<live, restricted, ref, held, mine, inserted>>
  BY DEF Inv, Rest, Kept, IterStep
<1>2. CASE l' = At(l, it, 0)  BY <1>1, <1>2, AtStep
<1>3. CASE l' = Last(l, it)
  <2>1. (IF l.size > 0 THEN l.size - 1 ELSE l.size) \in -1..l.size  BY <1>1
  <2> QED BY <1>1, <1>3, <2>1, AtStep DEF Last
<1>4. CASE l' = Stepped(l, it)
  <2>1. After(l, l.pos[it]) \in -1..l.size  BY <1>1 DEF After
  <2> QED BY <1>1, <1>4, <2>1, AtStep DEF Stepped
<1>5. CASE l' = Back(l, it)
  <2>1. CASE l.pos[it] >= 0
    <3>1. l.pos[it] - 1 \in -1..l.size  BY <1>1, <2>1
    <3> QED BY <1>1, <1>5, <2>1, <3>1, AtStep DEF Back
  <2>2. CASE ~(l.pos[it] >= 0)
    <3>1. l' = l  BY <1>5, <2>2 DEF Back
    <3> QED BY <1>1, <3>1 DEF Inv, Rest, Counted
  <2> QED BY <2>1, <2>2
<1>6. ASSUME NEW pos \in Positions, InRange(pos, l.size, TRUE), l' = At(l, it, Absolute(pos, l.size))
      PROVE Inv'
  <2>1. pos \in Int  BY ListAssumption DEF Positions
  <2>2. Absolute(pos, l.size) \in 0..l.size
    <3>1. l.size \in Nat /\ InRange(pos, l.size, TRUE)  BY <1>1, <1>6
    <3> QED BY <2>1, <3>1, AbsoluteIn
  <2>3. Absolute(pos, l.size) \in -1..l.size  BY <1>1, <2>2
  <2> QED BY <1>1, <1>6, <2>3, AtStep
<1> QED BY <1>2, <1>3, <1>4, <1>5, <1>6 DEF IterStep

LEMMA RegisterFacts ==
  ASSUME Inv, NEW it \in Its, it \notin DOMAIN l.pos, NEW p \in 0..l.size
  PROVE LET q == [j \in DOMAIN l.pos \cup {it} |-> IF j = it THEN p ELSE l.pos[j]]
        IN /\ \A j \in DOMAIN q : q[j] \in -1..l.size
           /\ DOMAIN q \subseteq Its /\ mine \cup {it} \subseteq DOMAIN q
BY DEF Inv, Kept, Rest

LEMMA GetIterStep ==
  ASSUME Inv, NEW it \in Its, GetIter(it) PROVE Inv'
<1> DEFINE q == [j \in DOMAIN l.pos \cup {it} |-> IF j = it THEN 0 ELSE l.pos[j]]
<1>1. l' = [l EXCEPT !.pos = q]  BY DEF GetIter, Register
<1>2. 0 \in 0..l.size  BY DEF Inv, Kept
<1>3. /\ \A j \in DOMAIN q : q[j] \in -1..l.size
      /\ DOMAIN q \subseteq Its /\ mine' \subseteq DOMAIN q
  BY <1>2, RegisterFacts DEF GetIter
<1>4. q = [j \in DOMAIN q |-> q[j]]  OBVIOUS
<1>5. restricted' \in BOOLEAN /\ UNCHANGED <<live, ref, held, inserted>>
  BY DEF GetIter, Inv, Rest
<1> HIDE DEF q
<1> QED BY <1>1, <1>3, <1>4, <1>5, PositionsStep

LEMMA DestroyIterStep ==
  ASSUME Inv, NEW it \in Its, DestroyIter(it) PROVE Inv'
<1> DEFINE q == [j \in DOMAIN l.pos \ {it} |-> l.pos[j]]
<1>1. l' = [l EXCEPT !.pos = q]  BY DEF DestroyIter, Unregister
<1>2. /\ \A j \in DOMAIN q : q[j] \in -1..l.size
      /\ DOMAIN q \subseteq Its /\ mine' \subseteq DOMAIN q
  BY DEF DestroyIter, Inv, Kept, Rest
<1>3. q = [j \in DOMAIN q |-> q[j]]  OBVIOUS
<1>4. restricted' \in BOOLEAN /\ UNCHANGED <<live, ref, held, inserted>>
  BY DEF DestroyIter, Inv, Rest
<1> HIDE DEF q
<1> QED BY <1>1, <1>2, <1>3, <1>4, PositionsStep

LEMMA RestrictStep ==
  ASSUME Inv, NEW it \in Its, ListRestrict(it) PROVE Inv'
<1>1. CASE UNCHANGED l /\ restricted' = TRUE
  <2>1. UNCHANGED <<live, ref, held, mine, inserted>>  BY DEF ListRestrict
  <2> QED BY <1>1, <2>1 DEF Inv, Rest, Counted
<1>2. ASSUME NEW p \in 0..l.size - 1, l' = At(Register(l, it), it, p), UNCHANGED restricted
      PROVE Inv'
  <2> DEFINE q0 == [j \in DOMAIN l.pos \cup {it} |-> IF j = it THEN 0 ELSE l.pos[j]]
             q  == [j \in DOMAIN l.pos \cup {it} |-> IF j = it THEN p ELSE l.pos[j]]
  <2>1. Kept(Slots, l) /\ l.size \in Nat  BY DEF Inv, Kept
  <2>2. [q0 EXCEPT ![it] = p] = q  OBVIOUS
  <2>3. l' = [[l EXCEPT !.pos = q0] EXCEPT !.pos = [q0 EXCEPT ![it] = p]]
    <3>1. l = [mem |-> l.mem, size |-> l.size, alloc |-> l.alloc, pos |-> l.pos]
      BY <2>1 DEF Kept, Record
    <3>2. Register(l, it) = [l EXCEPT !.pos = q0]  BY DEF Register
    <3> HIDE DEF q0
    <3>3. Register(l, it).pos = q0  BY <3>1, <3>2
    <3> QED BY <1>2, <3>2, <3>3 DEF At
  <2>4. l' = [l EXCEPT !.pos = q]
    <3>1. l = [mem |-> l.mem, size |-> l.size, alloc |-> l.alloc, pos |-> l.pos]
      BY <2>1 DEF Kept, Record
    <3> HIDE DEF q, q0
    <3> QED BY <2>2, <2>3, <3>1
  <2>5. /\ \A j \in DOMAIN q : q[j] \in -1..l.size
        /\ DOMAIN q \subseteq Its /\ mine' \subseteq DOMAIN q
    <3>1. it \notin DOMAIN l.pos /\ mine' = mine  BY DEF ListRestrict
    <3>2. p \in 0..l.size  BY <1>2, <2>1
    <3>3. /\ \A j \in DOMAIN q : q[j] \in -1..l.size
          /\ DOMAIN q \subseteq Its /\ mine \cup {it} \subseteq DOMAIN q
      BY <3>1, <3>2, RegisterFacts
    <3> QED BY <3>1, <3>3
  <2>6. q = [j \in DOMAIN q |-> q[j]]  OBVIOUS
  <2>7. restricted' \in BOOLEAN /\ UNCHANGED <<live, ref, held, inserted>>
    BY <1>2 DEF ListRestrict, Inv, Rest
  <2> HIDE DEF q
  <2> QED BY <2>4, <2>5, <2>6, <2>7, PositionsStep
<1> QED BY <1>1, <1>2 DEF ListRestrict

-----------------------------------------------------------------------------
\* Every entry gives its reference back, and there are none left.
LEMMA ReleasedStep ==
  ASSUME Inv, ref' = Released, UNCHANGED held, l'.size = 0
  PROVE Counted' /\ ref' \in [Values -> Int]
<1>1. Kept(Slots, l) /\ Rest /\ Counted /\ l.size \in Nat  BY DEF Inv, Kept
<1>2. ASSUME NEW w \in Values
      PROVE /\ ref'[w] = (IF w \in held' THEN 1 ELSE 0) + Count(l'.mem, l'.size, w)
            /\ ref'[w] \in Int
  <2>1. ref'[w] = ref[w] - Count(l.mem, l.size, w)  BY OccurrencesCount DEF Released
  <2>2. ref[w] = (IF w \in held THEN 1 ELSE 0) + Count(l.mem, l.size, w)  BY <1>1 DEF Counted
  <2>3. Count(l.mem, l.size, w) \in Nat  BY <1>1, PlacesFinite
  <2>4. Count(l'.mem, l'.size, w) = 0
    <3>1. Places(l'.mem, l'.size, w) = {}  BY DEF Places
    <3> QED BY <3>1, FS_EmptySet DEF Count
  <2> QED BY <2>1, <2>2, <2>3, <2>4
<1>3. Counted'  BY <1>2 DEF Counted
<1>4. ref' = [w \in Values |-> ref'[w]]  BY DEF Released
<1>5. ref' \in [Values -> Int]  BY <1>2, <1>4
<1> QED BY <1>3, <1>5

LEMMA ClearStep == ASSUME Inv, ListClear PROVE Inv'
<1> DEFINE q == [j \in DOMAIN l.pos |-> 0]
           none == [i \in {} |-> Junk]
<1>1. Kept(Slots, l) /\ Rest  BY DEF Inv
<1>2. l' = [l EXCEPT !.mem = none, !.size = 0, !.alloc = 0, !.pos = q]  BY DEF ListClear, Clear
<1>3. l = [mem |-> l.mem, size |-> l.size, alloc |-> l.alloc, pos |-> l.pos]
  BY <1>1 DEF Kept, Record
<1>4. DOMAIN none = {} /\ none = [i \in DOMAIN none |-> none[i]] /\ q = [j \in DOMAIN q |-> q[j]]
      /\ DOMAIN q = DOMAIN l.pos /\ \A j \in DOMAIN q : q[j] = 0
  OBVIOUS
<1> HIDE DEF q, none
<1>5. l' = [mem |-> none, size |-> 0, alloc |-> 0, pos |-> q]  BY <1>2, <1>3
<1>6. Record(l')  BY <1>4, <1>5 DEF Record
<1>7. Kept(Slots, l') /\ Tight(l')  BY <1>4, <1>5, <1>6 DEF Kept, Tight
<1>8. Counted' /\ ref' \in [Values -> Int]  BY <1>5, ReleasedStep DEF ListClear
<1>9. Rest'  BY <1>1, <1>4, <1>5, <1>8 DEF Rest, ListClear
<1> QED BY <1>7, <1>8, <1>9 DEF Inv

LEMMA FreeStep == ASSUME Inv, ListFree PROVE Inv'
<1>1. Rest  BY DEF Inv
<1>2. /\ l'.size = 0 /\ l'.alloc = 0 /\ DOMAIN l'.mem = {} /\ DOMAIN l'.pos = {}
      /\ l' = EmptyList
  BY DEF ListFree, EmptyList
<1>3. Record(l')  BY <1>2 DEF EmptyList, Record
<1>4. Kept(Slots, l') /\ Tight(l')  BY <1>2, <1>3 DEF Kept, Tight
<1>5. Counted' /\ ref' \in [Values -> Int]  BY <1>2, ReleasedStep DEF ListFree
<1>6. Rest'
  <2>1. live' \in BOOLEAN /\ restricted' \in BOOLEAN  BY <1>1 DEF ListFree, Rest
  <2>2. mine' \subseteq DOMAIN l'.pos /\ DOMAIN l'.pos \subseteq Its  BY <1>2 DEF ListFree
  <2> QED BY <1>1, <1>5, <2>1, <2>2 DEF ListFree, Rest
<1> QED BY <1>4, <1>5, <1>6 DEF Inv

LEMMA UnrefStep == ASSUME Inv, NEW v \in Values, Unref(v) PROVE Inv'
<1>1. Kept(Slots, l) /\ Rest /\ Counted /\ Tight(l) /\ l.size \in Nat  BY DEF Inv, Kept
<1>2. Kept(Slots, l') /\ Tight(l')  BY <1>1 DEF Unref
<1>3. ref' \in [Values -> Int] /\ held' \subseteq Values  BY <1>1 DEF Unref, Rest
<1>4. Rest'  BY <1>1, <1>3 DEF Unref, Rest
<1>5. Counted'
  <2> SUFFICES ASSUME NEW w \in Values
               PROVE ref'[w] = (IF w \in held' THEN 1 ELSE 0) + Count(l'.mem, l'.size, w)
    BY DEF Counted
  <2>1. ref[w] = (IF w \in held THEN 1 ELSE 0) + Count(l.mem, l.size, w)  BY <1>1 DEF Counted
  <2>2. Count(l.mem, l.size, w) \in Nat  BY <1>1, PlacesFinite
  <2>3. ref'[w] = IF w = v THEN ref[w] - 1 ELSE ref[w]  BY <1>1 DEF Unref, Rest
  <2> QED BY <2>1, <2>2, <2>3 DEF Unref
<1> QED BY <1>2, <1>4, <1>5 DEF Inv

LEMMA NextInv == ASSUME Inv, [Next]_vars PROVE Inv'
<1>0. Positions \subseteq Int /\ l.size \in Int  BY ListAssumption DEF Positions, Inv, Kept
<1>1. ASSUME NEW v \in Values, ListAppend(v) PROVE Inv'  BY <1>0, <1>1, InsertStep DEF ListAppend
<1>2. ASSUME NEW v \in Values, Unref(v) PROVE Inv'  BY <1>2, UnrefStep
<1>3. ASSUME NEW v \in Values, NEW pos \in Positions, ListInsert(pos, v) \/ ListSet(pos, v) PROVE Inv'
  BY <1>0, <1>3, InsertStep, SetStep DEF ListInsert
<1>4. ASSUME NEW v \in Values, NEW it \in Its, IterInsert(it, v) PROVE Inv'
  <2>1. l.pos[it] \in Int  BY <1>4 DEF IterInsert, Inv, Rest, Kept
  <2> QED BY <1>4, <2>1, InsertStep DEF IterInsert
<1>5. ASSUME NEW pos \in Positions, ListRemove(pos) PROVE Inv'
  BY <1>0, <1>5, RemoveStep DEF ListRemove
<1>6. ASSUME NEW pos \in Positions, NEW new \in Positions, ListMove(pos, new) PROVE Inv'
  BY <1>0, <1>6, MoveStep
<1>7. ASSUME NEW it \in Its, IterRemove(it) PROVE Inv'
  <2>1. l.pos[it] \in Int  BY <1>7 DEF IterRemove, Inv, Rest, Kept
  <2> QED BY <1>7, <2>1, RemoveStep DEF IterRemove
<1>8. CASE UNCHANGED vars  BY <1>8 DEF vars, Inv, Rest, Counted
<1> QED BY <1>1, <1>2, <1>3, <1>4, <1>5, <1>6, <1>7, <1>8, ClearStep, FreeStep, RestrictStep,
          GetIterStep, DestroyIterStep, IterStepStep
    DEF Next

LEMMA Invariance == Spec => []Inv
<1>1. Inv /\ [Next]_vars => Inv'  BY NextInv
<1> QED BY InitInv, <1>1, PTL DEF Spec

\* Every slot that the list uses holds an entry, no iterator is out of bounds, and the
\* memory follows the size, however far the list grows and shrinks (value.c:1035-1110).
THEOREM CompactCorrect == Spec => []Compact
BY Invariance, InvCompact, PTL

\* A value is referenced once by the list for every place it has there, however often
\* it is put in, replaced by itself, moved, cleared or freed (value.c:1058, 1246-1290).
THEOREM ValueRefsCorrect == Spec => []ValueRefs
BY Invariance, InvRefs, PTL

-----------------------------------------------------------------------------
\* No two entries are the same: each has the number of its insertion.
Distinct(a) == \A i, j \in 0..a.size - 1 : a.mem[i] = a.mem[j] => i = j
Numbered(a, n) == \A i \in 0..a.size - 1 : a.mem[i].n <= n
RInv == Inv /\ Distinct(l) /\ Numbered(l, inserted)

\* What an iterator at position p stands on.
Spot(a, p) == IF p = -1 THEN Beyond("first")
              ELSE IF p = a.size THEN Beyond("last") ELSE a.mem[p]

-----------------------------------------------------------------------------
\* t is s with e in place p; t is s without its place p.
Inserted(t, s, p, e) ==
  /\ t \in Seq(Slots) /\ Len(t) = Len(s) + 1
  /\ \A i \in 1..Len(s) + 1 : t[i] = IF i < p THEN s[i] ELSE IF i = p THEN e ELSE s[i - 1]
Removed(t, s, p) ==
  /\ t \in Seq(Slots) /\ Len(t) = Len(s) - 1
  /\ \A i \in 1..Len(s) - 1 : t[i] = IF i < p THEN s[i] ELSE s[i + 1]

\* The functions on sequences, place by place.
LEMMA InsertAtPlaces ==
  ASSUME NEW s \in Seq(Slots), NEW p \in 1..Len(s) + 1, NEW e \in Slots
  PROVE Inserted(Abstract!InsertAt(s, p, e), s, p, e)
<1> DEFINE front == SubSeq(s, 1, p - 1)
           back  == SubSeq(s, p, Len(s))
           first == front \o <<e>>
<1>1. Len(s) \in Nat /\ \A i \in 1..Len(s) : s[i] \in Slots  BY LenProperties
<1>2. front \in Seq(Slots) /\ Len(front) = p - 1 /\ \A i \in 1..p - 1 : front[i] = s[i]
  <2>1. 1 \in Int /\ p - 1 \in Int /\ \A i \in 1..p - 1 : s[i] \in Slots  BY <1>1
  <2>2. /\ front \in Seq(Slots)
        /\ Len(front) = IF 1 <= p - 1 THEN p - 1 - 1 + 1 ELSE 0
        /\ \A i \in 1..p - 1 - 1 + 1 : front[i] = s[1 + i - 1]
    BY <2>1, SubSeqProperties
  <2> HIDE DEF front
  <2> QED BY <1>1, <2>2
<1>3. /\ back \in Seq(Slots) /\ Len(back) = Len(s) - p + 1
      /\ \A i \in 1..Len(s) - p + 1 : back[i] = s[p + i - 1]
  <2>1. p \in Int /\ Len(s) \in Int /\ \A i \in p..Len(s) : s[i] \in Slots  BY <1>1
  <2>2. /\ back \in Seq(Slots)
        /\ Len(back) = IF p <= Len(s) THEN Len(s) - p + 1 ELSE 0
        /\ \A i \in 1..Len(s) - p + 1 : back[i] = s[p + i - 1]
    BY <2>1, SubSeqProperties
  <2> HIDE DEF back
  <2> QED BY <1>1, <2>2
<1> HIDE DEF front, back
<1>4. <<e>> \in Seq(Slots) /\ Len(<<e>>) = 1 /\ <<e>>[1] = e  OBVIOUS
<1>5. /\ first \in Seq(Slots) /\ Len(first) = p
      /\ \A i \in 1..p : first[i] = IF i <= p - 1 THEN s[i] ELSE e
  <2>1. /\ first \in Seq(Slots) /\ Len(first) = Len(front) + Len(<<e>>)
        /\ \A i \in 1..Len(front) + Len(<<e>>) :
             first[i] = IF i <= Len(front) THEN front[i] ELSE <<e>>[i - Len(front)]
    BY <1>2, <1>4, ConcatProperties
  <2> HIDE DEF first
  <2>2. Len(first) = p  BY <1>1, <1>2, <1>4, <2>1
  <2>3. ASSUME NEW i \in 1..p PROVE first[i] = IF i <= p - 1 THEN s[i] ELSE e
    BY <1>1, <1>2, <1>4, <2>1
  <2> QED BY <2>1, <2>2, <2>3
<1> HIDE DEF first
<1> DEFINE t == first \o back
<1>6. Abstract!InsertAt(s, p, e) = t  BY DEF Abstract!InsertAt, first, front, back
<1>7. /\ t \in Seq(Slots) /\ Len(t) = Len(first) + Len(back)
      /\ \A i \in 1..Len(first) + Len(back) :
           t[i] = IF i <= Len(first) THEN first[i] ELSE back[i - Len(first)]
  <2>1. first \in Seq(Slots) /\ back \in Seq(Slots)  BY <1>3, <1>5
  <2> QED BY <2>1, ConcatProperties
<1> HIDE DEF t
<1>8. Len(t) = Len(s) + 1  BY <1>1, <1>3, <1>5, <1>7
<1>9. ASSUME NEW i \in 1..Len(s) + 1
      PROVE t[i] = IF i < p THEN s[i] ELSE IF i = p THEN e ELSE s[i - 1]
  <2>1. t[i] = IF i <= p THEN first[i] ELSE back[i - p]  BY <1>1, <1>3, <1>5, <1>7
  <2>2. CASE i <= p  BY <1>1, <1>5, <2>1, <2>2
  <2>3. CASE i > p
    <3>1. i - p \in 1..Len(s) - p + 1 /\ p + (i - p) - 1 = i - 1  BY <1>1, <2>3
    <3>2. back[i - p] = s[i - 1]  BY <1>3, <3>1
    <3> QED BY <1>1, <2>1, <2>3, <3>2
  <2> QED BY <1>1, <2>2, <2>3
<1> QED BY <1>6, <1>7, <1>8, <1>9 DEF Inserted

LEMMA RemoveAtPlaces ==
  ASSUME NEW s \in Seq(Slots), NEW p \in 1..Len(s)
  PROVE Removed(Abstract!RemoveAt(s, p), s, p)
<1> DEFINE front == SubSeq(s, 1, p - 1)
           back  == SubSeq(s, p + 1, Len(s))
<1>1. Len(s) \in Nat /\ \A i \in 1..Len(s) : s[i] \in Slots  BY LenProperties
<1>2. front \in Seq(Slots) /\ Len(front) = p - 1 /\ \A i \in 1..p - 1 : front[i] = s[i]
  <2>1. 1 \in Int /\ p - 1 \in Int /\ \A i \in 1..p - 1 : s[i] \in Slots  BY <1>1
  <2>2. /\ front \in Seq(Slots)
        /\ Len(front) = IF 1 <= p - 1 THEN p - 1 - 1 + 1 ELSE 0
        /\ \A i \in 1..p - 1 - 1 + 1 : front[i] = s[1 + i - 1]
    BY <2>1, SubSeqProperties
  <2> HIDE DEF front
  <2> QED BY <1>1, <2>2
<1>3. /\ back \in Seq(Slots) /\ Len(back) = Len(s) - p
      /\ \A i \in 1..Len(s) - p : back[i] = s[p + i]
  <2>1. p + 1 \in Int /\ Len(s) \in Int /\ \A i \in p + 1..Len(s) : s[i] \in Slots  BY <1>1
  <2>2. /\ back \in Seq(Slots)
        /\ Len(back) = IF p + 1 <= Len(s) THEN Len(s) - (p + 1) + 1 ELSE 0
        /\ \A i \in 1..Len(s) - (p + 1) + 1 : back[i] = s[(p + 1) + i - 1]
    BY <2>1, SubSeqProperties
  <2> HIDE DEF back
  <2> QED BY <1>1, <2>2
<1> HIDE DEF front, back
<1> DEFINE t == front \o back
<1>4. Abstract!RemoveAt(s, p) = t  BY DEF Abstract!RemoveAt, front, back
<1>5. /\ t \in Seq(Slots) /\ Len(t) = Len(front) + Len(back)
      /\ \A i \in 1..Len(front) + Len(back) :
           t[i] = IF i <= Len(front) THEN front[i] ELSE back[i - Len(front)]
  <2>1. front \in Seq(Slots) /\ back \in Seq(Slots)  BY <1>2, <1>3
  <2> QED BY <2>1, ConcatProperties
<1> HIDE DEF t
<1>6. Len(t) = Len(s) - 1  BY <1>1, <1>2, <1>3, <1>5
<1>7. ASSUME NEW i \in 1..Len(s) - 1 PROVE t[i] = IF i < p THEN s[i] ELSE s[i + 1]
  <2>1. t[i] = IF i <= p - 1 THEN front[i] ELSE back[i - (p - 1)]  BY <1>1, <1>2, <1>3, <1>5
  <2>2. CASE i < p  BY <1>1, <1>2, <2>1, <2>2
  <2>3. CASE i >= p
    <3>1. i - (p - 1) \in 1..Len(s) - p /\ p + (i - (p - 1)) = i + 1  BY <1>1, <2>3
    <3>2. back[i - (p - 1)] = s[i + 1]  BY <1>3, <3>1
    <3> QED BY <1>1, <2>1, <2>3, <3>2
  <2> QED BY <1>1, <2>2, <2>3
<1> QED BY <1>4, <1>5, <1>6, <1>7 DEF Removed

LEMMA SpotDistinct ==
  ASSUME NEW a, Kept(Slots, a), Distinct(a), NEW p \in -1..a.size, NEW q \in -1..a.size,
         Spot(a, p) = Spot(a, q)
  PROVE p = q
<1>1. Beyond("first") # Beyond("last") /\ Beyond("first") \notin Slots /\ Beyond("last") \notin Slots
  BY DEF Beyond, Slots
<1>2. \A i \in 0..a.size - 1 : a.mem[i] \in Slots  BY DEF Kept
<1> QED BY <1>1, <1>2 DEF Spot, Distinct, Kept

-----------------------------------------------------------------------------
\* What the abstract places and steps are, in positions.
LEMMA ContentsFacts ==
  ASSUME NEW a, Kept(Slots, a)
  PROVE /\ Contents(a) \in Seq(Slots) /\ Len(Contents(a)) = a.size
        /\ DOMAIN Contents(a) = 1..a.size
        /\ \A i \in 1..a.size : Contents(a)[i] = a.mem[i - 1]
<1>1. a.size \in Nat /\ \A i \in 1..a.size : a.mem[i - 1] \in Slots  BY DEF Kept
<1>2. Contents(a) \in [1..a.size -> Slots]  BY <1>1 DEF Contents
<1>3. Contents(a) \in Seq(Slots)  BY <1>1, <1>2, SeqDef
<1>4. Len(Contents(a)) = a.size  BY <1>1, <1>2, <1>3, LenProperties
<1> QED BY <1>2, <1>3, <1>4 DEF Contents

LEMMA PlaceIsSpot ==
  ASSUME NEW a, Kept(Slots, a), NEW p \in 0..a.size
  PROVE Abstract!Place(Contents(a), p + 1) = Spot(a, p)
<1>1. a.size \in Nat  BY DEF Kept
<1> QED BY <1>1, ContentsFacts DEF Abstract!Place, Spot

LEMMA EntryIsSpot ==
  ASSUME NEW a, Kept(Slots, a), NEW p \in 0..a.size - 1
  PROVE /\ p + 1 \in DOMAIN Contents(a) /\ Contents(a)[p + 1] = a.mem[p]
        /\ Spot(a, p) = a.mem[p]
<1>1. a.size \in Nat  BY DEF Kept
<1>2. p + 1 \in 1..a.size /\ p + 1 - 1 = p /\ p # -1 /\ p # a.size  BY <1>1
<1> QED BY <1>2, ContentsFacts DEF Spot

LEMMA IndexOfSpot ==
  ASSUME NEW a, Kept(Slots, a), Distinct(a), NEW p \in 0..a.size - 1
  PROVE Abstract!IndexOf(Contents(a), Spot(a, p)) = p + 1
<1>1. a.size \in Nat  BY DEF Kept
<1>2. p + 1 \in DOMAIN Contents(a) /\ Contents(a)[p + 1] = a.mem[p] /\ Spot(a, p) = a.mem[p]
  BY EntryIsSpot
<1>3. ASSUME NEW i \in DOMAIN Contents(a), Contents(a)[i] = a.mem[p] PROVE i = p + 1
  <2>1. i \in Int /\ i - 1 \in 0..a.size - 1 /\ a.mem[i - 1] = a.mem[p]  BY <1>1, <1>3, ContentsFacts
  <2>2. i - 1 = p  BY <2>1 DEF Distinct
  <2> QED BY <1>1, <2>1, <2>2
<1> QED BY <1>2, <1>3 DEF Abstract!IndexOf

LEMMA StepsOfSpots ==
  ASSUME Kept(Slots, l), Distinct(l), NEW p \in -1..l.size
  PROVE /\ Abstract!Succ(Spot(l, p)) = Spot(l, After(l, p))
        /\ Abstract!Pred(Spot(l, p)) = Spot(l, IF p >= 0 THEN p - 1 ELSE p)
<1>1. l.size \in Nat  BY DEF Kept
<1>2. \A i \in 0..l.size : Abstract!Place(Contents(l), i + 1) = Spot(l, i)  BY PlaceIsSpot
<1>3. \A i \in -1..l.size : /\ Spot(l, i) = Beyond("first") <=> i = -1
                            /\ Spot(l, i) = Beyond("last") <=> i = l.size
  <2>1. Spot(l, -1) = Beyond("first") /\ Spot(l, l.size) = Beyond("last")  BY <1>1 DEF Spot
  <2>2. -1 \in -1..l.size /\ l.size \in -1..l.size  BY <1>1
  <2>3. ASSUME NEW i \in -1..l.size, Spot(l, i) = Beyond("first") PROVE i = -1
    BY <2>1, <2>2, <2>3, SpotDistinct
  <2>4. ASSUME NEW i \in -1..l.size, Spot(l, i) = Beyond("last") PROVE i = l.size
    BY <2>1, <2>2, <2>4, SpotDistinct
  <2> QED BY <2>1, <2>3, <2>4
<1>4. Spot(l, 0) = Abstract!Place(Contents(l), 1)
  <2>1. 0 \in 0..l.size /\ 0 + 1 = 1  BY <1>1
  <2> QED BY <1>2, <2>1
<1>5. Abstract!Succ(Spot(l, p)) = Spot(l, After(l, p))
  <2>1. CASE p = -1
    <3>1. After(l, p) = 0  BY <1>1, <2>1 DEF After
    <3> QED BY <1>3, <1>4, <2>1, <3>1 DEF Abstract!Succ
  <2>2. CASE p = l.size
    <3>1. After(l, p) = p  BY <1>1, <2>2 DEF After
    <3>2. Spot(l, p) = Beyond("last") /\ Spot(l, p) # Beyond("first")  BY <1>1, <1>3, <2>2
    <3> QED BY <3>1, <3>2 DEF Abstract!Succ
  <2>3. CASE p \in 0..l.size - 1
    <3>1. After(l, p) = p + 1 /\ p + 1 \in 0..l.size  BY <1>1, <2>3 DEF After
    <3>2. Spot(l, p) # Beyond("last") /\ Spot(l, p) # Beyond("first")  BY <1>1, <1>3, <2>3
    <3>3. Abstract!IndexOf(Contents(l), Spot(l, p)) = p + 1  BY <2>3, IndexOfSpot
    <3>4. Abstract!Succ(Spot(l, p)) = Abstract!Place(Contents(l), (p + 1) + 1)
      BY <3>2, <3>3 DEF Abstract!Succ
    <3> QED BY <1>2, <3>1, <3>4
  <2> QED BY <1>1, <2>1, <2>2, <2>3
<1>6. Abstract!Pred(Spot(l, p)) = Spot(l, IF p >= 0 THEN p - 1 ELSE p)
  <2>1. CASE p = -1
    <3>1. Spot(l, p) = Beyond("first")  BY <1>1, <1>3, <2>1
    <3> QED BY <2>1, <3>1 DEF Abstract!Pred
  <2>2. CASE p = 0
    <3>1. Spot(l, -1) = Beyond("first")  BY DEF Spot
    <3> QED BY <1>4, <2>2, <3>1 DEF Abstract!Pred
  <2>3. CASE p \in 1..l.size
    <3>1. Spot(l, p) # Beyond("first") /\ Spot(l, p) # Spot(l, 0)
      <4>1. 0 \in -1..l.size /\ p # 0  BY <1>1, <2>3
      <4> QED BY <1>3, <2>3, <4>1, SpotDistinct
    <3>2. p - 1 \in 0..l.size - 1  BY <1>1, <2>3
    <3>3. Contents(l)[p] = l.mem[p - 1] /\ Len(Contents(l)) = l.size  BY <2>3, ContentsFacts
    <3>4. Spot(l, p - 1) = l.mem[p - 1]  BY <1>1, <3>2 DEF Spot
    <3>5. CASE p = l.size
      <4>1. Spot(l, p) = Beyond("last")  BY <1>3, <3>5
      <4> QED BY <1>4, <2>3, <3>1, <3>3, <3>4, <3>5, <4>1 DEF Abstract!Pred
    <3>6. CASE p < l.size
      <4>1. Spot(l, p) # Beyond("last")  BY <1>1, <1>3, <3>6
      <4>2. p \in 0..l.size - 1  BY <1>1, <2>3, <3>6
      <4>3. Abstract!IndexOf(Contents(l), Spot(l, p)) = p + 1  BY <4>2, IndexOfSpot
      <4>4. Abstract!Pred(Spot(l, p)) = Contents(l)[p + 1 - 1]
        BY <1>4, <3>1, <4>1, <4>3 DEF Abstract!Pred
      <4> QED BY <2>3, <3>3, <3>4, <4>4
    <3> QED BY <1>1, <2>3, <3>5, <3>6
  <2> QED BY <1>1, <2>1, <2>2, <2>3
<1> QED BY <1>5, <1>6

-----------------------------------------------------------------------------
\* The cursors of the refinement mapping, before and after a step.
Cursors == [it \in mine |-> Standing(it)]

LEMMA CursorsAreSpots ==
  /\ Cursors = [it \in mine |-> Spot(l, l.pos[it])]
  /\ Cursors' = [it \in mine' |-> Spot(l', l'.pos[it])]
BY DEF Cursors, Standing, Spot

LEMMA PositionsIn ==
  ASSUME Inv, NEW it \in mine
  PROVE it \in DOMAIN l.pos /\ l.pos[it] \in -1..l.size /\ l.size \in Nat
BY DEF Inv, Rest, Kept

LEMMA NewEntry ==
  ASSUME RInv, inserted < MaxInserts, NEW v \in Values
  PROVE LET e == [val |-> v, n |-> inserted + 1]
        IN /\ e \in Slots /\ e.n = inserted + 1
           /\ \A i \in 0..l.size - 1 : l.mem[i] # e
           /\ e \notin Abstract!ToSet(Contents(l))
<1> DEFINE e == [val |-> v, n |-> inserted + 1]
<1>1. Kept(Slots, l) /\ Numbered(l, inserted) /\ inserted \in Nat /\ MaxInserts \in Nat
  BY ListAssumption DEF RInv, Inv, Rest
<1>2. e \in Slots /\ e.n = inserted + 1  BY <1>1 DEF Slots
<1>3. ASSUME NEW i \in 0..l.size - 1 PROVE l.mem[i] # e
  <2>1. l.mem[i].n <= inserted /\ l.mem[i] \in Slots  BY <1>1 DEF Numbered, Kept
  <2> HIDE DEF e
  <2> QED BY <1>1, <1>2, <2>1 DEF Slots
<1> HIDE DEF e
<1>4. ASSUME NEW i \in DOMAIN Contents(l) PROVE Contents(l)[i] # e
  <2>1. i \in 1..l.size /\ l.size \in Nat  BY <1>1, ContentsFacts DEF Kept
  <2>2. i - 1 \in 0..l.size - 1  BY <2>1
  <2> QED BY <1>1, <1>3, <2>1, <2>2, ContentsFacts
<1>5. e \notin Abstract!ToSet(Contents(l))  BY <1>4 DEF Abstract!ToSet
<1> QED BY <1>2, <1>3, <1>5 DEF e

\* An insertion is an insertion of an entry that is not there yet.
LEMMA InsertImplements ==
  ASSUME RInv, Inv', NEW v \in Values, NEW pos \in Int, InsertAtPos(pos, v)
  PROVE /\ Distinct(l') /\ Numbered(l', inserted')
        /\ Abstract!CNext
<1> DEFINE e == [val |-> v, n |-> inserted + 1]
           p == Absolute(pos, l.size)
<1>1. /\ Kept(Slots, l) /\ Kept(Slots, l') /\ Distinct(l) /\ Numbered(l, inserted)
      /\ l.size \in Nat /\ inserted \in Nat
      /\ inserted' = inserted + 1 /\ l' = Insert(l, pos, e) /\ mine' = mine
      /\ inserted < MaxInserts /\ InRange(pos, l.size, TRUE)
  <2>1. Kept(Slots, l) /\ Kept(Slots, l') /\ Distinct(l) /\ Numbered(l, inserted) /\ Rest
    BY DEF RInv, Inv
  <2>2. inserted \in Nat /\ l.size \in Nat  BY <2>1, ListAssumption DEF Rest, Kept
  <2>3. /\ inserted' = inserted + 1 /\ mine' = mine
        /\ l' = Insert(l, pos, [val |-> v, n |-> inserted'])
        /\ inserted < MaxInserts /\ InRange(pos, l.size, TRUE)
    BY DEF InsertAtPos
  <2> QED BY <2>1, <2>2, <2>3
<1>2. /\ e \in Slots /\ e.n = inserted + 1
      /\ \A i \in 0..l.size - 1 : l.mem[i] # e
      /\ e \notin Abstract!ToSet(Contents(l))
  BY <1>1, NewEntry
<1> HIDE DEF e
<1>3. /\ p \in 0..l.size
      /\ l'.size = l.size + 1 /\ l'.pos = Shifted(l, p)
      /\ \A i \in 0..l.size : l'.mem[i] = IF i < p THEN l.mem[i]
                                          ELSE IF i = p THEN e ELSE l.mem[i - 1]
  <2> DEFINE b == Insert(l, pos, e)
  <2>1. p \in 0..l.size /\ PutInto(b, l, p, e)
    BY <1>1, <1>2, InsertFacts
  <2> HIDE DEF b, p
  <2>2. b = l'  BY <1>1 DEF b
  <2> QED BY <2>1, <2>2 DEF PutInto
<1> HIDE DEF p
<1>4. Distinct(l')
  <2> SUFFICES ASSUME NEW i \in 0..l.size, NEW j \in 0..l.size, l'.mem[i] = l'.mem[j]
               PROVE i = j
    BY <1>1, <1>3 DEF Distinct
  <2> DEFINE Old(k) == IF k < p THEN k ELSE k - 1
  <2>1. \A k \in 0..l.size : k # p => Old(k) \in 0..l.size - 1 /\ l'.mem[k] = l.mem[Old(k)]
    BY <1>1, <1>3
  <2>2. l'.mem[p] = e  BY <1>1, <1>3
  <2>3. i = p <=> j = p
    <3> HIDE DEF Old
    <3> QED BY <1>2, <2>1, <2>2
  <2>4. CASE i # p
    <3>1. Old(i) = Old(j)
      <4> HIDE DEF Old
      <4> QED BY <1>1, <2>1, <2>3, <2>4 DEF Distinct
    <3> QED BY <1>3, <2>3, <2>4, <3>1
  <2> QED BY <2>3, <2>4
<1>5. Numbered(l', inserted')
  <2> SUFFICES ASSUME NEW i \in 0..l.size PROVE l'.mem[i].n <= inserted + 1
    BY <1>1, <1>3 DEF Numbered
  <2>1. CASE i = p  BY <1>1, <1>2, <1>3, <2>1
  <2>2. CASE i # p
    <3>1. PICK k \in 0..l.size - 1 : l'.mem[i] = l.mem[k]
      <4>1. CASE i < p  BY <1>1, <1>3, <4>1
      <4>2. CASE i > p
        <5>1. i - 1 \in 0..l.size - 1  BY <1>1, <1>3, <4>2
        <5> QED BY <1>1, <1>3, <4>2, <5>1
      <4> QED BY <1>3, <2>2, <4>1, <4>2
    <3>2. l.mem[k].n <= inserted /\ l.mem[k].n \in Int  BY <1>1 DEF Numbered, Kept, Slots
    <3> QED BY <1>1, <3>1, <3>2
  <2> QED BY <2>1, <2>2
<1>6. Contents(l)' = Abstract!InsertAt(Contents(l), p + 1, e)
  <2> DEFINE s == Contents(l)
             k == p + 1
             t == Abstract!InsertAt(s, k, e)
  <2>1. /\ s \in Seq(Slots) /\ Len(s) = l.size
        /\ \A i \in 1..l.size : s[i] = l.mem[i - 1]
    BY <1>1, ContentsFacts
  <2>2. /\ Contents(l') \in Seq(Slots) /\ Len(Contents(l')) = l.size + 1
        /\ \A i \in 1..l.size + 1 : Contents(l')[i] = l'.mem[i - 1]
    BY <1>1, <1>3, ContentsFacts
  <2> HIDE DEF s
  <2>3. k \in 1..Len(s) + 1  BY <1>1, <1>3, <2>1
  <2> HIDE DEF k
  <2>4. /\ t \in Seq(Slots) /\ Len(t) = Len(s) + 1
        /\ \A i \in 1..Len(s) + 1 :
             t[i] = IF i < k THEN s[i] ELSE IF i = k THEN e ELSE s[i - 1]
    <3>1. e \in Slots /\ s \in Seq(Slots)  BY <1>2, <2>1
    <3>2. Inserted(Abstract!InsertAt(s, k, e), s, k, e)  BY <2>3, <3>1, InsertAtPlaces
    <3> QED BY <3>2 DEF Inserted
  <2> HIDE DEF t
  <2> USE DEF k
  <2>5. ASSUME NEW i \in 1..l.size + 1 PROVE Contents(l')[i] = t[i]
    <3>1. i \in Int /\ i - 1 \in 0..l.size  BY <1>1
    <3>2. Contents(l')[i] = IF i - 1 < p THEN l.mem[i - 1]
                            ELSE IF i - 1 = p THEN e ELSE l.mem[i - 2]
      BY <1>3, <2>2, <3>1
    <3>3. CASE i < p + 1
      <4>1. i \in 1..l.size  BY <1>1, <1>3, <3>1, <3>3
      <4> QED BY <1>1, <1>3, <2>1, <2>4, <3>1, <3>2, <3>3, <4>1
    <3>4. CASE i = p + 1  BY <1>1, <1>3, <2>1, <2>4, <3>1, <3>2, <3>4
    <3>5. CASE i > p + 1
      <4>1. i - 1 \in 1..l.size /\ i - 1 - 1 = i - 2  BY <1>1, <1>3, <3>1, <3>5
      <4>2. s[i - 1] = l.mem[i - 2]  BY <2>1, <4>1
      <4> QED BY <1>1, <1>3, <2>1, <2>4, <3>1, <3>2, <3>5, <4>2
    <3> QED BY <1>3, <3>1, <3>3, <3>4, <3>5
  <2>6. Contents(l') = t  BY <2>1, <2>2, <2>4, <2>5, SeqEqual
  <2> QED BY <2>6 DEF t, s, k
<1>7. ASSUME NEW it \in mine
      PROVE Spot(l', l'.pos[it]) = IF Spot(l, l.pos[it]) = Abstract!Place(Contents(l), p + 1)
                                   THEN e ELSE Spot(l, l.pos[it])
  <2> DEFINE q == l.pos[it]
  <2>1. it \in DOMAIN l.pos /\ q \in -1..l.size  BY PositionsIn DEF RInv
  <2>2. l'.pos[it] = IF q > p THEN q + 1 ELSE q  BY <1>3, <2>1 DEF Shifted
  <2>3. Abstract!Place(Contents(l), p + 1) = Spot(l, p)  BY <1>1, <1>3, PlaceIsSpot
  <2> HIDE DEF q
  <2>4. Spot(l, q) = Spot(l, p) <=> q = p
    <3>1. p \in -1..l.size  BY <1>1, <1>3
    <3> QED BY <1>1, <2>1, <3>1, SpotDistinct
  <2>5. CASE q = p
    <3>1. Spot(l', l'.pos[it]) = e  BY <1>1, <1>3, <2>1, <2>2, <2>5 DEF Spot
    <3> QED BY <2>3, <2>4, <2>5, <3>1 DEF q
  <2>6. CASE q < p
    <3>1. Spot(l', l'.pos[it]) = Spot(l, q)  BY <1>1, <1>3, <2>1, <2>2, <2>6 DEF Spot
    <3> QED BY <1>3, <2>1, <2>3, <2>4, <2>6, <3>1 DEF q
  <2>7. CASE q > p
    <3>1. l'.pos[it] = q + 1  BY <2>2, <2>7
    <3>2. CASE q = l.size  BY <1>1, <1>3, <2>3, <2>4, <2>7, <3>1, <3>2 DEF Spot, q
    <3>3. CASE q < l.size
      <4>1. q + 1 \in 0..l.size /\ q + 1 - 1 = q /\ q + 1 > p  BY <1>1, <1>3, <2>1, <2>7, <3>3
      <4>2. l'.mem[q + 1] = l.mem[q]  BY <1>1, <1>3, <2>1, <4>1
      <4>3. Spot(l', q + 1) = Spot(l, q)  BY <1>1, <1>3, <2>1, <2>7, <3>3, <4>2 DEF Spot
      <4> QED BY <1>3, <2>1, <2>3, <2>4, <2>7, <3>1, <4>3 DEF q
    <3> QED BY <1>1, <2>1, <3>2, <3>3
  <2> QED BY <1>3, <2>1, <2>5, <2>6, <2>7
<1>8. Cursors' = [i \in DOMAIN Cursors |->
                    IF Cursors[i] = Abstract!Place(Contents(l), p + 1) THEN e ELSE Cursors[i]]
  BY <1>1, <1>7, CursorsAreSpots
<1>9. p + 1 \in 1..Len(Contents(l)) + 1  BY <1>1, <1>3, ContentsFacts
<1>10. Abstract!CInsert(p + 1, e)  BY <1>2, <1>6, <1>8 DEF Abstract!CInsert, Cursors
<1> QED BY <1>2, <1>4, <1>5, <1>9, <1>10 DEF Abstract!CNext

\* A replacement puts a new entry in the place of an old one.
LEMMA SetImplements ==
  ASSUME RInv, Inv', NEW v \in Values, NEW pos \in Int, ListSet(pos, v)
  PROVE /\ Distinct(l') /\ Numbered(l', inserted')
        /\ Abstract!CNext
<1> DEFINE e == [val |-> v, n |-> inserted + 1]
           p == Absolute(pos, l.size)
<1>1. /\ Kept(Slots, l) /\ Kept(Slots, l') /\ Distinct(l) /\ Numbered(l, inserted)
      /\ l.size \in Nat /\ inserted \in Nat
      /\ inserted' = inserted + 1 /\ l' = [l EXCEPT !.mem[p] = e] /\ mine' = mine
      /\ inserted < MaxInserts /\ InRange(pos, l.size, FALSE)
  <2>1. Kept(Slots, l) /\ Kept(Slots, l') /\ Distinct(l) /\ Numbered(l, inserted) /\ Rest
    BY DEF RInv, Inv
  <2>2. inserted \in Nat /\ l.size \in Nat  BY <2>1, ListAssumption DEF Rest, Kept
  <2>3. /\ inserted' = inserted + 1 /\ mine' = mine
        /\ l' = [l EXCEPT !.mem[p] = [val |-> v, n |-> inserted']]
        /\ inserted < MaxInserts /\ InRange(pos, l.size, FALSE)
    BY DEF ListSet
  <2> QED BY <2>1, <2>2, <2>3
<1>2. /\ e \in Slots /\ e.n = inserted + 1
      /\ \A i \in 0..l.size - 1 : l.mem[i] # e
      /\ e \notin Abstract!ToSet(Contents(l))
  BY <1>1, NewEntry
<1> HIDE DEF e
<1>3. p \in 0..l.size - 1  BY <1>1, AbsoluteIn
<1> HIDE DEF p
<1>4. /\ l'.size = l.size /\ l'.pos = l.pos
      /\ \A i \in 0..l.size - 1 : l'.mem[i] = IF i = p THEN e ELSE l.mem[i]
  <2>1. /\ l = [mem |-> l.mem, size |-> l.size, alloc |-> l.alloc, pos |-> l.pos]
        /\ l.mem = [i \in DOMAIN l.mem |-> l.mem[i]]
    BY <1>1 DEF Kept, Record
  <2>2. 0..l.size - 1 \subseteq DOMAIN l.mem  BY <1>1 DEF Kept
  <2> DEFINE m == [l.mem EXCEPT ![p] = e]
  <2>3. l' = [l EXCEPT !.mem = m]  BY <1>1
  <2>4. \A i \in 0..l.size - 1 : m[i] = IF i = p THEN e ELSE l.mem[i]  BY <1>3, <2>1, <2>2
  <2> HIDE DEF m
  <2>5. l'.mem = m /\ l'.size = l.size /\ l'.pos = l.pos  BY <2>1, <2>3
  <2> QED BY <2>4, <2>5
<1>5. Distinct(l')  BY <1>1, <1>2, <1>4 DEF Distinct
<1>6. Numbered(l', inserted')
  <2> SUFFICES ASSUME NEW i \in 0..l.size - 1 PROVE l'.mem[i].n <= inserted + 1
    BY <1>1, <1>4 DEF Numbered
  <2>1. CASE i = p  BY <1>1, <1>2, <1>4, <2>1
  <2>2. CASE i # p
    <3>1. l.mem[i].n <= inserted /\ l.mem[i].n \in Int  BY <1>1 DEF Numbered, Kept, Slots
    <3> QED BY <1>1, <1>4, <2>2, <3>1
  <2> QED BY <2>1, <2>2
<1>7. Contents(l)' = Abstract!ReplaceAt(Contents(l), p + 1, e)
  <2> DEFINE t == [Contents(l) EXCEPT ![p + 1] = e]
  <2>1. Contents(l) = [i \in 1..l.size |-> l.mem[i - 1]]  BY DEF Contents
  <2>2. Contents(l') = [i \in 1..l.size |-> l'.mem[i - 1]]  BY <1>4 DEF Contents
  <2>3. t = [i \in 1..l.size |-> IF i = p + 1 THEN e ELSE l.mem[i - 1]]
    BY <1>1, <1>3, <2>1
  <2>4. \A i \in 1..l.size : l'.mem[i - 1] = IF i = p + 1 THEN e ELSE l.mem[i - 1]
    BY <1>1, <1>3, <1>4
  <2> QED BY <2>2, <2>3, <2>4 DEF Abstract!ReplaceAt
<1>8. Contents(l)[p + 1] = Spot(l, p) /\ p + 1 \in DOMAIN Contents(l)
  BY <1>1, <1>3, EntryIsSpot
<1>9. ASSUME NEW it \in mine
      PROVE Spot(l', l'.pos[it]) = IF Spot(l, l.pos[it]) = Contents(l)[p + 1]
                                   THEN e ELSE Spot(l, l.pos[it])
  <2> DEFINE q == l.pos[it]
  <2>1. q \in -1..l.size /\ l'.pos[it] = q  BY <1>4, PositionsIn DEF RInv
  <2> HIDE DEF q
  <2>2. Spot(l, q) = Spot(l, p) <=> q = p
    <3>1. p \in -1..l.size  BY <1>1, <1>3
    <3> QED BY <1>1, <2>1, <3>1, SpotDistinct
  <2>3. Spot(l', q) = IF q = p THEN e ELSE Spot(l, q)
    BY <1>1, <1>3, <1>4, <2>1 DEF Spot
  <2> QED BY <1>8, <2>1, <2>2, <2>3 DEF q
<1>10. Cursors' = [i \in DOMAIN Cursors |->
                     IF Cursors[i] = Contents(l)[p + 1] THEN e ELSE Cursors[i]]
  BY <1>1, <1>9, CursorsAreSpots
<1>11. Abstract!CReplace(p + 1, e)  BY <1>2, <1>7, <1>10 DEF Abstract!CReplace, Cursors
<1> QED BY <1>2, <1>5, <1>6, <1>8, <1>11 DEF Abstract!CNext

\* A removal leaves the cursors of the removed entry at the next one.
LEMMA RemoveImplements ==
  ASSUME RInv, Inv', NEW pos \in Int, RemoveAtPos(pos)
  PROVE /\ Distinct(l') /\ Numbered(l', inserted')
        /\ Abstract!CNext
<1> DEFINE p == Absolute(pos, l.size)
<1>1. /\ Kept(Slots, l) /\ Kept(Slots, l') /\ Distinct(l) /\ Numbered(l, inserted)
      /\ l.size \in Nat
      /\ inserted' = inserted /\ l' = Remove(l, pos) /\ mine' = mine
      /\ InRange(pos, l.size, FALSE)
  BY DEF RInv, Inv, Kept, RemoveAtPos
<1>2. /\ p \in 0..l.size - 1
      /\ l'.size = l.size - 1 /\ l'.pos = Closed(l, p)
      /\ \A i \in 0..l.size - 2 : l'.mem[i] = IF i < p THEN l.mem[i] ELSE l.mem[i + 1]
  BY <1>1, RemoveFacts DEF TakenOut
<1> HIDE DEF p
<1>3. l'.size - 1 = l.size - 2  BY <1>1, <1>2
<1> DEFINE Old(k) == IF k < p THEN k ELSE k + 1
<1>4. \A k \in 0..l.size - 2 : Old(k) \in 0..l.size - 1 /\ l'.mem[k] = l.mem[Old(k)]
  BY <1>1, <1>2
<1>5. Distinct(l')
  <2> SUFFICES ASSUME NEW i \in 0..l.size - 2, NEW j \in 0..l.size - 2, l'.mem[i] = l'.mem[j]
               PROVE i = j
    BY <1>3 DEF Distinct
  <2>1. Old(i) = Old(j)
    <3> HIDE DEF Old
    <3> QED BY <1>1, <1>4 DEF Distinct
  <2> QED BY <1>1, <1>2, <2>1
<1>6. Numbered(l', inserted')
  <2> HIDE DEF Old
  <2> QED BY <1>1, <1>3, <1>4 DEF Numbered
<1>7. Contents(l)' = Abstract!RemoveAt(Contents(l), p + 1)
  <2> DEFINE s == Contents(l)
             k == p + 1
             t == Abstract!RemoveAt(s, k)
  <2>1. /\ s \in Seq(Slots) /\ Len(s) = l.size
        /\ \A i \in 1..l.size : s[i] = l.mem[i - 1]
    BY <1>1, ContentsFacts
  <2>2. /\ Contents(l') \in Seq(Slots) /\ Len(Contents(l')) = l.size - 1
        /\ \A i \in 1..l.size - 1 : Contents(l')[i] = l'.mem[i - 1]
    BY <1>1, <1>2, ContentsFacts
  <2> HIDE DEF s
  <2>3. k \in 1..Len(s)  BY <1>1, <1>2, <2>1
  <2> HIDE DEF k
  <2>4. /\ t \in Seq(Slots) /\ Len(t) = Len(s) - 1
        /\ \A i \in 1..Len(s) - 1 : t[i] = IF i < k THEN s[i] ELSE s[i + 1]
    <3>1. s \in Seq(Slots)  BY <2>1
    <3>2. Removed(Abstract!RemoveAt(s, k), s, k)  BY <2>3, <3>1, RemoveAtPlaces
    <3> QED BY <3>2 DEF Removed
  <2> HIDE DEF t
  <2> USE DEF k
  <2>5. ASSUME NEW i \in 1..l.size - 1 PROVE Contents(l')[i] = t[i]
    <3>1. /\ i \in Int /\ i - 1 \in 0..l.size - 2 /\ i \in 1..l.size /\ i + 1 \in 1..l.size
          /\ i - 1 + 1 = i /\ i + 1 - 1 = i
      BY <1>1
    <3>2. Contents(l')[i] = IF i - 1 < p THEN l.mem[i - 1] ELSE l.mem[i]
      BY <1>2, <2>2, <3>1
    <3>3. s[i] = l.mem[i - 1] /\ s[i + 1] = l.mem[i]  BY <2>1, <3>1
    <3> QED BY <1>1, <1>2, <2>1, <2>4, <3>1, <3>2, <3>3
  <2>6. Contents(l') = t  BY <1>1, <2>1, <2>2, <2>4, <2>5, SeqEqual
  <2> QED BY <2>6 DEF t, s
<1>8. Contents(l)[p + 1] = Spot(l, p) /\ p + 1 \in DOMAIN Contents(l)
  BY <1>1, <1>2, EntryIsSpot
<1>9. Abstract!Succ(Spot(l, p)) = Spot(l, p + 1)
  <2>1. p \in -1..l.size /\ After(l, p) = p + 1  BY <1>1, <1>2 DEF After
  <2> QED BY <1>1, <2>1, StepsOfSpots
<1>10. ASSUME NEW it \in mine
       PROVE Spot(l', l'.pos[it]) = IF Spot(l, l.pos[it]) = Spot(l, p)
                                    THEN Spot(l, p + 1) ELSE Spot(l, l.pos[it])
  <2> DEFINE q == l.pos[it]
  <2>1. it \in DOMAIN l.pos /\ q \in -1..l.size  BY PositionsIn DEF RInv
  <2>2. l'.pos[it] = IF q > p THEN q - 1 ELSE q  BY <1>2, <2>1 DEF Closed
  <2> HIDE DEF q, Old
  <2>3. Spot(l, q) = Spot(l, p) <=> q = p
    <3>1. p \in -1..l.size  BY <1>1, <1>2
    <3> QED BY <1>1, <2>1, <3>1, SpotDistinct
  <2>4. CASE q = p
    <3>1. l'.pos[it] = p  BY <1>1, <1>2, <2>1, <2>2, <2>4
    <3>2. Spot(l', p) = Spot(l, p + 1)
      <4>1. CASE p = l.size - 1  BY <1>1, <1>2, <4>1 DEF Spot
      <4>2. CASE p < l.size - 1
        <5>1. p \in 0..l.size - 2  BY <1>1, <1>2, <4>2
        <5>2. l'.mem[p] = l.mem[p + 1]  BY <1>1, <1>2, <5>1
        <5> QED BY <1>1, <1>2, <4>2, <5>2 DEF Spot
      <4> QED BY <1>1, <1>2, <4>1, <4>2
    <3> QED BY <2>3, <2>4, <3>1, <3>2 DEF q
  <2>5. CASE q < p
    <3>1. l'.pos[it] = q  BY <1>1, <1>2, <2>1, <2>2, <2>5
    <3>2. Spot(l', q) = Spot(l, q)
      <4>1. CASE q = -1  BY <4>1 DEF Spot
      <4>2. CASE q >= 0
        <5>1. q \in 0..l.size - 2 /\ q # l.size - 1 /\ q # l.size  BY <1>1, <1>2, <2>1, <2>5, <4>2
        <5>2. l'.mem[q] = l.mem[q]  BY <1>2, <2>5, <5>1
        <5> QED BY <1>1, <1>2, <5>1, <5>2 DEF Spot
      <4> QED BY <2>1, <4>1, <4>2
    <3> QED BY <1>2, <2>1, <2>3, <2>5, <3>1, <3>2 DEF q
  <2>6. CASE q > p
    <3>1. l'.pos[it] = q - 1  BY <1>1, <1>2, <2>1, <2>2, <2>6
    <3>2. Spot(l', q - 1) = Spot(l, q)
      <4>1. CASE q = l.size  BY <1>1, <1>2, <4>1 DEF Spot
      <4>2. CASE q < l.size
        <5>1. q - 1 \in 0..l.size - 2 /\ ~(q - 1 < p) /\ q - 1 + 1 = q /\ q - 1 # l.size - 1
          BY <1>1, <1>2, <2>1, <2>6, <4>2
        <5>2. l'.mem[q - 1] = l.mem[q]  BY <1>2, <5>1
        <5> QED BY <1>1, <1>2, <2>1, <2>6, <4>2, <5>1, <5>2 DEF Spot
      <4> QED BY <1>1, <2>1, <4>1, <4>2
    <3> QED BY <1>2, <2>1, <2>3, <2>6, <3>1, <3>2 DEF q
  <2> QED BY <1>2, <2>1, <2>4, <2>5, <2>6
<1>11. Cursors' = [i \in DOMAIN Cursors |->
                     IF Cursors[i] = Spot(l, p) THEN Spot(l, p + 1) ELSE Cursors[i]]
  BY <1>1, <1>10, CursorsAreSpots
<1>12. Abstract!CRemove(p + 1)
  BY <1>7, <1>8, <1>9, <1>11 DEF Abstract!CRemove, Cursors
<1> QED BY <1>5, <1>6, <1>8, <1>12 DEF Abstract!CNext

\* A move takes the cursors of the entry along and leaves the others at theirs.
LEMMA MoveImplements ==
  ASSUME RInv, Inv', NEW old \in Int, NEW new \in Int, ListMove(old, new)
  PROVE /\ Distinct(l') /\ Numbered(l', inserted')
        /\ Abstract!CNext
<1> DEFINE from == Absolute(old, l.size)
           to   == Absolute(new, l.size)
<1>1. /\ Kept(Slots, l) /\ Kept(Slots, l') /\ Distinct(l) /\ Numbered(l, inserted)
      /\ l.size \in Nat
      /\ inserted' = inserted /\ l' = Move(l, old, new) /\ mine' = mine
      /\ InRange(old, l.size, FALSE) /\ InRange(new, l.size, FALSE)
  BY DEF RInv, Inv, Kept, ListMove
<1>2. /\ from \in 0..l.size - 1 /\ to \in 0..l.size - 1
      /\ l'.size = l.size
      /\ l'.pos = [it \in DOMAIN l.pos |-> Follow(l.pos[it], from, to)]
      /\ \A i \in 0..l.size - 1 :
           l'.mem[i] = IF i = to THEN l.mem[from]
                       ELSE IF i >= from /\ i < to THEN l.mem[i + 1]
                       ELSE IF i > to /\ i <= from THEN l.mem[i - 1] ELSE l.mem[i]
  <2> DEFINE b == Move(l, old, new)
  <2>1. from \in 0..l.size - 1 /\ to \in 0..l.size - 1 /\ MovedTo(b, l, from, to)
    BY <1>1, MoveFacts
  <2> HIDE DEF b, from, to
  <2>2. b = l'  BY <1>1 DEF b
  <2> QED BY <2>1, <2>2 DEF MovedTo
<1> HIDE DEF from, to
<1> DEFINE Old(k) == IF k = to THEN from
                     ELSE IF k >= from /\ k < to THEN k + 1
                     ELSE IF k > to /\ k <= from THEN k - 1 ELSE k
<1>3. \A k \in 0..l.size - 1 : Old(k) \in 0..l.size - 1  BY <1>1, <1>2
<1>4. \A k \in 0..l.size - 1 : l'.mem[k] = l.mem[Old(k)]  BY <1>1, <1>2
<1>5. \A i, j \in 0..l.size - 1 : Old(i) = Old(j) => i = j  BY <1>1, <1>2
<1>6. \A q \in 0..l.size - 1 : /\ Follow(q, from, to) \in 0..l.size - 1
                               /\ Old(Follow(q, from, to)) = q
  BY <1>1, <1>2 DEF Follow
<1> HIDE DEF Old
<1>7. Distinct(l')
  <2> SUFFICES ASSUME NEW i \in 0..l.size - 1, NEW j \in 0..l.size - 1, l'.mem[i] = l'.mem[j]
               PROVE i = j
    BY <1>2 DEF Distinct
  <2>1. Old(i) = Old(j)  BY <1>1, <1>3, <1>4 DEF Distinct
  <2> QED BY <1>5, <2>1
<1>8. Numbered(l', inserted')  BY <1>1, <1>2, <1>3, <1>4 DEF Numbered
<1>9. /\ from + 1 \in DOMAIN Contents(l) /\ to + 1 \in DOMAIN Contents(l)
      /\ Contents(l)[from + 1] = l.mem[from]
  BY <1>1, <1>2, EntryIsSpot
<1>10. Contents(l)' = Abstract!InsertAt(Abstract!RemoveAt(Contents(l), from + 1), to + 1,
                                        Contents(l)[from + 1])
  <2> DEFINE s == Contents(l)
             f == from + 1
             k == to + 1
             e == l.mem[from]
             r == Abstract!RemoveAt(s, f)
             t == Abstract!InsertAt(r, k, e)
  <2>1. /\ s \in Seq(Slots) /\ Len(s) = l.size
        /\ \A i \in 1..l.size : s[i] = l.mem[i - 1]
    BY <1>1, ContentsFacts
  <2>2. /\ Contents(l') \in Seq(Slots) /\ Len(Contents(l')) = l.size
        /\ \A i \in 1..l.size : Contents(l')[i] = l'.mem[i - 1]
    BY <1>1, <1>2, ContentsFacts
  <2>3. e \in Slots  BY <1>1, <1>2 DEF Kept
  <2> HIDE DEF s, e
  <2>4. s \in Seq(Slots) /\ f \in 1..Len(s)  BY <1>1, <1>2, <2>1
  <2> HIDE DEF f
  <2>5. /\ r \in Seq(Slots) /\ Len(r) = Len(s) - 1
        /\ \A i \in 1..Len(s) - 1 : r[i] = IF i < f THEN s[i] ELSE s[i + 1]
    <3>1. Removed(Abstract!RemoveAt(s, f), s, f)  BY <2>4, RemoveAtPlaces
    <3> QED BY <3>1 DEF Removed
  <2> HIDE DEF r
  <2>6. r \in Seq(Slots) /\ k \in 1..Len(r) + 1  BY <1>1, <1>2, <2>1, <2>5
  <2> HIDE DEF k
  <2>7. /\ t \in Seq(Slots) /\ Len(t) = Len(r) + 1
        /\ \A i \in 1..Len(r) + 1 :
             t[i] = IF i < k THEN r[i] ELSE IF i = k THEN e ELSE r[i - 1]
    <3>1. e \in Slots /\ r \in Seq(Slots)  BY <2>3, <2>6
    <3>2. k \in 1..Len(r) + 1  BY <2>6
    <3>3. Inserted(Abstract!InsertAt(r, k, e), r, k, e)  BY <3>1, <3>2, InsertAtPlaces
    <3> QED BY <3>3 DEF Inserted
  <2> HIDE DEF t
  <2>8. Len(r) + 1 = l.size  BY <1>1, <2>1, <2>5
  <2>9. \A i \in 1..l.size - 1 : r[i] = IF i < f THEN l.mem[i - 1] ELSE l.mem[i]
    <3> SUFFICES ASSUME NEW i \in 1..l.size - 1
                 PROVE r[i] = IF i < f THEN l.mem[i - 1] ELSE l.mem[i]
      OBVIOUS
    <3>1. i \in 1..l.size /\ i + 1 \in 1..l.size /\ i + 1 - 1 = i  BY <1>1
    <3>2. s[i] = l.mem[i - 1] /\ s[i + 1] = l.mem[i]  BY <2>1, <3>1
    <3> QED BY <2>1, <2>5, <3>2
  <2>10. ASSUME NEW i \in 1..l.size PROVE Contents(l')[i] = t[i]
    <3>1. i \in Int /\ i - 1 \in 0..l.size - 1 /\ i - 1 + 1 = i /\ from \in Int /\ to \in Int
      BY <1>1, <1>2
    <3>2. t[i] = IF i < k THEN r[i] ELSE IF i = k THEN e ELSE r[i - 1]  BY <2>7, <2>8
    <3>3. Contents(l')[i] = IF i - 1 = to THEN e
                            ELSE IF i - 1 >= from /\ i - 1 < to THEN l.mem[i]
                            ELSE IF i - 1 > to /\ i - 1 <= from THEN l.mem[i - 2]
                            ELSE l.mem[i - 1]
      <4>1. i - 1 - 1 = i - 2  BY <3>1
      <4> QED BY <1>2, <2>2, <3>1, <4>1 DEF e
    <3>4. CASE i = k  BY <3>1, <3>2, <3>3, <3>4 DEF k
    <3>5. CASE i < k
      <4>1. i \in 1..l.size - 1  BY <1>1, <1>2, <3>1, <3>5 DEF k
      <4>2. t[i] = IF i < f THEN l.mem[i - 1] ELSE l.mem[i]  BY <2>9, <3>2, <3>5, <4>1
      <4> QED BY <3>1, <3>3, <3>5, <4>2 DEF k, f
    <3>6. CASE i > k
      <4>1. i - 1 \in 1..l.size - 1 /\ i - 1 - 1 = i - 2  BY <1>1, <1>2, <3>1, <3>6 DEF k
      <4>2. t[i] = IF i - 1 < f THEN l.mem[i - 2] ELSE l.mem[i - 1]
        <5>1. t[i] = r[i - 1]  BY <1>2, <3>1, <3>2, <3>6 DEF k
        <5> QED BY <2>9, <4>1, <5>1
      <4> QED BY <3>1, <3>3, <3>6, <4>2 DEF k, f
    <3> QED BY <3>1, <3>4, <3>5, <3>6 DEF k
  <2>11. Contents(l') = t  BY <2>1, <2>2, <2>7, <2>8, <2>10, SeqEqual
  <2> QED BY <1>9, <2>11 DEF t, r, s, f, k, e
<1>11. ASSUME NEW it \in mine PROVE Spot(l', l'.pos[it]) = Spot(l, l.pos[it])
  <2> DEFINE q == l.pos[it]
  <2>1. it \in DOMAIN l.pos /\ q \in -1..l.size  BY PositionsIn DEF RInv
  <2>2. l'.pos[it] = Follow(q, from, to)  BY <1>2, <2>1
  <2> HIDE DEF q
  <2>3. CASE q \in 0..l.size - 1
    <3>1. Follow(q, from, to) \in 0..l.size - 1 /\ l'.mem[Follow(q, from, to)] = l.mem[q]
      BY <1>4, <1>6, <2>3
    <3> QED BY <1>1, <1>2, <2>2, <2>3, <3>1, EntryIsSpot DEF q
  <2>4. CASE q = -1 \/ q = l.size
    <3>1. Follow(q, from, to) = q  BY <1>1, <1>2, <2>4 DEF Follow
    <3> QED BY <1>1, <1>2, <2>2, <2>4, <3>1 DEF q, Spot
  <2> QED BY <1>1, <2>1, <2>3, <2>4
<1>12. Cursors' = Cursors  BY <1>1, <1>11, CursorsAreSpots
<1>13. Abstract!CMove(from + 1, to + 1)  BY <1>10, <1>12 DEF Abstract!CMove, Cursors
<1> QED BY <1>7, <1>8, <1>9, <1>13 DEF Abstract!CNext

-----------------------------------------------------------------------------
\* Steps that change positions only.
LEMMA EntriesKept ==
  ASSUME RInv, l'.mem = l.mem, l'.size = l.size, inserted' = inserted
  PROVE /\ Distinct(l') /\ Numbered(l', inserted')
        /\ Contents(l)' = Contents(l)
        /\ \A p : Spot(l', p) = Spot(l, p)
BY DEF RInv, Distinct, Numbered, Contents, Spot

LEMMA AtImplements ==
  ASSUME RInv, NEW it \in mine, NEW p \in -1..l.size, l' = At(l, it, p),
         UNCHANGED <<mine, inserted>>
  PROVE /\ Distinct(l') /\ Numbered(l', inserted')
        /\ Abstract!CPlace(it, Spot(l, p)) /\ it \in DOMAIN Cursors
<1> DEFINE q == [l.pos EXCEPT ![it] = p]
<1>1. Kept(Slots, l) /\ mine \subseteq DOMAIN l.pos  BY DEF RInv, Inv, Rest
<1>2. l.pos = [j \in DOMAIN l.pos |-> l.pos[j]]  BY <1>1 DEF Kept, Record
<1>3. l' = [l EXCEPT !.pos = q]  BY DEF At
<1>4. /\ q = [j \in DOMAIN q |-> q[j]] /\ DOMAIN q = DOMAIN l.pos
      /\ \A j \in DOMAIN l.pos : q[j] = IF j = it THEN p ELSE l.pos[j]
  BY <1>1
<1>5. \A j \in DOMAIN q : q[j] \in -1..l.size  BY <1>1, <1>4 DEF Kept
<1> HIDE DEF q
<1>6. l'.mem = l.mem /\ l'.size = l.size /\ l'.pos = q  BY <1>1, <1>3, <1>4, <1>5, PositionsOnly
<1>7. /\ Distinct(l') /\ Numbered(l', inserted')
      /\ Contents(l)' = Contents(l) /\ \A r : Spot(l', r) = Spot(l, r)
  BY <1>6, EntriesKept
<1>8. Cursors' = [j \in mine |-> IF j = it THEN Spot(l, p) ELSE Spot(l, l.pos[j])]
  BY <1>1, <1>4, <1>6, <1>7, CursorsAreSpots
<1>9. Cursors' = [j \in DOMAIN Cursors \cup {it} |-> IF j = it THEN Spot(l, p) ELSE Cursors[j]]
  BY <1>8, CursorsAreSpots
<1> QED BY <1>7, <1>9, CursorsAreSpots DEF Abstract!CPlace, Cursors

LEMMA IterStepImplements ==
  ASSUME RInv, Inv', NEW it \in Its, IterStep(it)
  PROVE /\ Distinct(l') /\ Numbered(l', inserted')
        /\ [Abstract!CNext]_Abstract!cvars
<1>1. /\ it \in mine /\ l.pos[it] \in -1..l.size /\ l.size \in Nat
      /\ Kept(Slots, l) /\ Distinct(l) /\ UNCHANGED <<mine, inserted>>
  BY DEF RInv, Inv, Rest, Kept, IterStep
<1>2. Cursors[it] = Spot(l, l.pos[it])  BY <1>1, CursorsAreSpots
\* A cursor may be set on any place.
<1>3. ASSUME NEW p \in 0..l.size, l' = At(l, it, p)
      PROVE Distinct(l') /\ Numbered(l', inserted') /\ Abstract!CNext
  <2>1. p \in -1..l.size  BY <1>1
  <2>2. /\ Distinct(l') /\ Numbered(l', inserted')
        /\ Abstract!CPlace(it, Spot(l, p)) /\ it \in DOMAIN Cursors
    BY <1>1, <1>3, <2>1, AtImplements
  <2> DEFINE k == p + 1
  <2>3. Spot(l, p) = Abstract!Place(Contents(l), k)  BY <1>1, PlaceIsSpot
  <2>4. k \in 1..Len(Contents(l)) + 1  BY <1>1, ContentsFacts
  <2> HIDE DEF k
  <2> QED BY <2>2, <2>3, <2>4 DEF Abstract!CNext, Cursors
<1>4. CASE l' = At(l, it, 0)
  <2>1. 0 \in 0..l.size  BY <1>1
  <2> QED BY <1>3, <1>4, <2>1
<1>5. CASE l' = Last(l, it)
  <2>1. (IF l.size > 0 THEN l.size - 1 ELSE l.size) \in 0..l.size  BY <1>1
  <2> QED BY <1>3, <1>5, <2>1 DEF Last
<1>6. CASE l' = Stepped(l, it)
  <2>1. After(l, l.pos[it]) \in -1..l.size  BY <1>1 DEF After
  <2>2. /\ Distinct(l') /\ Numbered(l', inserted')
        /\ Abstract!CPlace(it, Spot(l, After(l, l.pos[it]))) /\ it \in DOMAIN Cursors
    BY <1>1, <1>6, <2>1, AtImplements DEF Stepped
  <2>3. Spot(l, After(l, l.pos[it])) = Abstract!Succ(Cursors[it])
    BY <1>1, <1>2, StepsOfSpots
  <2> QED BY <2>2, <2>3 DEF Abstract!CNext, Cursors
<1>7. CASE l' = Back(l, it)
  <2>1. CASE l.pos[it] >= 0
    <3> DEFINE p == l.pos[it] - 1
    <3>1. p \in -1..l.size  BY <1>1, <2>1
    <3>2. l' = At(l, it, p)  BY <1>7, <2>1 DEF Back
    <3>3. Abstract!Pred(Cursors[it]) = Spot(l, p)  BY <1>1, <1>2, <2>1, StepsOfSpots
    <3> HIDE DEF p
    <3>4. /\ Distinct(l') /\ Numbered(l', inserted')
          /\ Abstract!CPlace(it, Spot(l, p)) /\ it \in DOMAIN Cursors
      BY <1>1, <3>1, <3>2, AtImplements
    <3> QED BY <3>3, <3>4 DEF Abstract!CNext, Cursors
  <2>2. CASE ~(l.pos[it] >= 0)
    <3>1. l' = l  BY <1>7, <2>2 DEF Back
    <3>2. Cursors' = Cursors /\ Contents(l)' = Contents(l)
      BY <1>1, <3>1, CursorsAreSpots DEF Contents
    <3> QED BY <1>1, <3>1, <3>2, EntriesKept DEF Abstract!cvars, Cursors
  <2> QED BY <2>1, <2>2
<1>8. ASSUME NEW pos \in Positions, InRange(pos, l.size, TRUE), l' = At(l, it, Absolute(pos, l.size))
      PROVE Distinct(l') /\ Numbered(l', inserted') /\ Abstract!CNext
  <2>1. pos \in Int  BY ListAssumption DEF Positions
  <2>2. Absolute(pos, l.size) \in 0..l.size
    <3>1. l.size \in Nat /\ InRange(pos, l.size, TRUE)  BY <1>1, <1>8
    <3> QED BY <2>1, <3>1, AbsoluteIn
  <2> QED BY <1>3, <1>8, <2>2
<1> QED BY <1>4, <1>5, <1>6, <1>7, <1>8 DEF IterStep

\* Registering and unregistering change positions and which of them are cursors.
LEMMA RegisteredSpots ==
  ASSUME RInv, NEW q, q = [j \in DOMAIN q |-> q[j]], \A j \in DOMAIN q : q[j] \in -1..l.size,
         l' = [l EXCEPT !.pos = q], inserted' = inserted
  PROVE /\ Distinct(l') /\ Numbered(l', inserted')
        /\ Contents(l)' = Contents(l)
        /\ Cursors' = [j \in mine' |-> Spot(l, q[j])]
<1>1. Kept(Slots, l)  BY DEF RInv, Inv
<1>2. l'.mem = l.mem /\ l'.size = l.size /\ l'.pos = q  BY <1>1, PositionsOnly
<1>3. /\ Distinct(l') /\ Numbered(l', inserted')
      /\ Contents(l)' = Contents(l) /\ \A r : Spot(l', r) = Spot(l, r)
  BY <1>2, EntriesKept
<1>4. Cursors' = [j \in mine' |-> Spot(l, q[j])]  BY <1>2, <1>3, CursorsAreSpots
<1> QED BY <1>3, <1>4

LEMMA GetIterImplements ==
  ASSUME RInv, Inv', NEW it \in Its, GetIter(it)
  PROVE /\ Distinct(l') /\ Numbered(l', inserted')
        /\ Abstract!CNext
<1> DEFINE q == [j \in DOMAIN l.pos \cup {it} |-> IF j = it THEN 0 ELSE l.pos[j]]
<1>1. /\ Kept(Slots, l) /\ mine \subseteq DOMAIN l.pos /\ l.size \in Nat
      /\ \A j \in DOMAIN l.pos : l.pos[j] \in -1..l.size
      /\ it \notin DOMAIN l.pos /\ mine' = mine \cup {it} /\ inserted' = inserted
  BY DEF RInv, Inv, Rest, Kept, GetIter
<1>2. l' = [l EXCEPT !.pos = q]  BY DEF GetIter, Register
<1>3. q = [j \in DOMAIN q |-> q[j]] /\ \A j \in DOMAIN q : q[j] \in -1..l.size  BY <1>1
<1>4. \A j \in mine' : q[j] = IF j = it THEN 0 ELSE l.pos[j]  BY <1>1
<1> HIDE DEF q
<1>5. /\ Distinct(l') /\ Numbered(l', inserted')
      /\ Contents(l)' = Contents(l) /\ Cursors' = [j \in mine' |-> Spot(l, q[j])]
  BY <1>1, <1>2, <1>3, RegisteredSpots
<1>6. Cursors' = [j \in DOMAIN Cursors \cup {it} |-> IF j = it THEN Spot(l, 0) ELSE Cursors[j]]
  BY <1>1, <1>4, <1>5, CursorsAreSpots
<1>7. Spot(l, 0) = Abstract!Place(Contents(l), 1)
  <2>1. 0 \in 0..l.size /\ 0 + 1 = 1  BY <1>1
  <2> QED BY <1>1, <2>1, PlaceIsSpot
<1>8. Abstract!CPlace(it, Abstract!Place(Contents(l), 1))
  BY <1>5, <1>6, <1>7 DEF Abstract!CPlace, Cursors
<1> QED BY <1>5, <1>8 DEF Abstract!CNext

LEMMA DestroyIterImplements ==
  ASSUME RInv, Inv', NEW it \in Its, DestroyIter(it)
  PROVE /\ Distinct(l') /\ Numbered(l', inserted')
        /\ Abstract!CNext
<1> DEFINE q == [j \in DOMAIN l.pos \ {it} |-> l.pos[j]]
<1>1. /\ mine \subseteq DOMAIN l.pos /\ \A j \in DOMAIN l.pos : l.pos[j] \in -1..l.size
      /\ mine' = mine \ {it} /\ inserted' = inserted
  BY DEF RInv, Inv, Rest, Kept, DestroyIter
<1>2. l' = [l EXCEPT !.pos = q]  BY DEF DestroyIter, Unregister
<1>3. q = [j \in DOMAIN q |-> q[j]] /\ \A j \in DOMAIN q : q[j] \in -1..l.size  BY <1>1
<1>4. \A j \in mine' : q[j] = l.pos[j]  BY <1>1
<1> HIDE DEF q
<1>5. /\ Distinct(l') /\ Numbered(l', inserted')
      /\ Contents(l)' = Contents(l) /\ Cursors' = [j \in mine' |-> Spot(l, q[j])]
  BY <1>1, <1>2, <1>3, RegisteredSpots
<1>6. Cursors' = [j \in DOMAIN Cursors \ {it} |-> Cursors[j]]
  BY <1>1, <1>4, <1>5, CursorsAreSpots
<1> QED BY <1>5, <1>6 DEF Abstract!CNext, Abstract!CDrop, Cursors

LEMMA RestrictImplements ==
  ASSUME RInv, Inv', NEW it \in Its, ListRestrict(it)
  PROVE /\ Distinct(l') /\ Numbered(l', inserted')
        /\ UNCHANGED Abstract!cvars
<1>1. /\ Kept(Slots, l) /\ mine \subseteq DOMAIN l.pos /\ l.size \in Nat
      /\ \A j \in DOMAIN l.pos : l.pos[j] \in -1..l.size
      /\ it \notin DOMAIN l.pos /\ mine' = mine /\ inserted' = inserted
  BY DEF RInv, Inv, Rest, Kept, ListRestrict
<1>2. CASE UNCHANGED l
  <2>1. Cursors' = Cursors /\ Contents(l)' = Contents(l)
    BY <1>1, <1>2, CursorsAreSpots DEF Contents
  <2> QED BY <1>1, <1>2, <2>1, EntriesKept DEF Abstract!cvars, Cursors
<1>3. ASSUME NEW p \in 0..l.size - 1, l' = At(Register(l, it), it, p)
      PROVE /\ Distinct(l') /\ Numbered(l', inserted')
            /\ UNCHANGED Abstract!cvars
  <2> DEFINE q0 == [j \in DOMAIN l.pos \cup {it} |-> IF j = it THEN 0 ELSE l.pos[j]]
             q  == [j \in DOMAIN l.pos \cup {it} |-> IF j = it THEN p ELSE l.pos[j]]
  <2>1. l = [mem |-> l.mem, size |-> l.size, alloc |-> l.alloc, pos |-> l.pos]
    BY <1>1 DEF Kept, Record
  <2>2. [q0 EXCEPT ![it] = p] = q  OBVIOUS
  <2>3. Register(l, it) = [l EXCEPT !.pos = q0]  BY DEF Register
  <2>4. q = [j \in DOMAIN q |-> q[j]] /\ \A j \in DOMAIN q : q[j] \in -1..l.size  BY <1>1
  <2>5. \A j \in mine' : q[j] = l.pos[j]  BY <1>1
  <2> HIDE DEF q, q0
  <2>6. Register(l, it) = [mem |-> l.mem, size |-> l.size, alloc |-> l.alloc, pos |-> q0]
    BY <2>1, <2>3
  <2>7. l' = [mem |-> l.mem, size |-> l.size, alloc |-> l.alloc, pos |-> q]
    BY <1>3, <2>2, <2>6 DEF At
  <2>8. l' = [l EXCEPT !.pos = q]  BY <2>1, <2>7
  <2>9. /\ Distinct(l') /\ Numbered(l', inserted')
        /\ Contents(l)' = Contents(l) /\ Cursors' = [j \in mine' |-> Spot(l, q[j])]
    BY <1>1, <2>4, <2>8, RegisteredSpots
  <2>10. Cursors' = Cursors  BY <1>1, <2>5, <2>9, CursorsAreSpots
  <2> QED BY <2>9, <2>10 DEF Abstract!cvars, Cursors
<1> QED BY <1>2, <1>3 DEF ListRestrict

-----------------------------------------------------------------------------
\* Clearing leaves every cursor at the end; freeing leaves none.
LEMMA ClearImplements ==
  ASSUME RInv, Inv', ListClear
  PROVE /\ Distinct(l') /\ Numbered(l', inserted')
        /\ Abstract!CNext
<1> DEFINE q == [j \in DOMAIN l.pos |-> 0]
           none == [i \in {} |-> Junk]
<1>1. Kept(Slots, l) /\ mine \subseteq DOMAIN l.pos /\ mine' = mine /\ inserted' = inserted
  BY DEF RInv, Inv, Rest, ListClear
<1>2. l = [mem |-> l.mem, size |-> l.size, alloc |-> l.alloc, pos |-> l.pos]
  BY <1>1 DEF Kept, Record
<1>3. l' = [l EXCEPT !.mem = none, !.size = 0, !.alloc = 0, !.pos = q]  BY DEF ListClear, Clear
<1>4. \A j \in mine : q[j] = 0  BY <1>1
<1> HIDE DEF q, none
<1>5. l'.size = 0 /\ l'.pos = q  BY <1>2, <1>3
<1>6. Distinct(l') /\ Numbered(l', inserted')  BY <1>5 DEF Distinct, Numbered
<1>7. Contents(l)' = <<>>
  <2>1. Contents(l') \in Seq(Slots) /\ Len(Contents(l')) = 0
    BY <1>5, ContentsFacts DEF Inv
  <2> QED BY <2>1, EmptySeq
<1>8. Cursors' = [j \in DOMAIN Cursors |-> Beyond("last")]
  BY <1>1, <1>4, <1>5, CursorsAreSpots DEF Spot
<1> QED BY <1>6, <1>7, <1>8 DEF Abstract!CNext, Abstract!CClear, Cursors

LEMMA NoCursors ==
  ASSUME NEW c, c = [j \in {} |-> c[j]] PROVE c = <<>>
OBVIOUS

LEMMA FreeImplements ==
  ASSUME RInv, Inv', ListFree
  PROVE /\ Distinct(l') /\ Numbered(l', inserted')
        /\ Abstract!CNext
<1>1. l'.size = 0 /\ mine' = {}  BY DEF ListFree, EmptyList
<1>2. Distinct(l') /\ Numbered(l', inserted')  BY <1>1 DEF Distinct, Numbered
<1>3. Contents(l)' = <<>>
  <2>1. Contents(l') \in Seq(Slots) /\ Len(Contents(l')) = 0
    BY <1>1, ContentsFacts DEF Inv
  <2> QED BY <2>1, EmptySeq
<1>4. Cursors' = <<>>
  <2>1. Cursors' = [j \in {} |-> Cursors'[j]]  BY <1>1, CursorsAreSpots
  <2> QED BY <2>1, NoCursors
<1> QED BY <1>2, <1>3, <1>4 DEF Abstract!CNext, Abstract!CFree, Cursors

-----------------------------------------------------------------------------
LEMMA InitImplements == Init => RInv /\ Abstract!CInit
<1> SUFFICES ASSUME Init PROVE RInv /\ Abstract!CInit  OBVIOUS
<1>1. Inv /\ l.size = 0 /\ mine = {}  BY InitInv DEF Init, EmptyList
<1>2. RInv  BY <1>1 DEF RInv, Distinct, Numbered
<1>3. Contents(l) = <<>>
  <2>1. Contents(l) \in Seq(Slots) /\ Len(Contents(l)) = 0  BY <1>1, ContentsFacts DEF Inv
  <2> QED BY <2>1, EmptySeq
<1>4. Cursors = <<>>
  <2>1. Cursors = [j \in {} |-> Cursors[j]]  BY <1>1, CursorsAreSpots
  <2> QED BY <2>1, NoCursors
<1> QED BY <1>2, <1>3, <1>4 DEF Abstract!CInit, Cursors

LEMMA NextImplements ==
  ASSUME RInv, [Next]_vars
  PROVE RInv' /\ [Abstract!CNext]_Abstract!cvars
<1> SUFFICES /\ Distinct(l') /\ Numbered(l', inserted')
             /\ [Abstract!CNext]_Abstract!cvars
  BY NextInv DEF RInv
<1>0. Inv' /\ Positions \subseteq Int /\ l.size \in Int
  BY NextInv, ListAssumption DEF Positions, RInv, Inv, Kept
<1>1. ASSUME NEW v \in Values, ListAppend(v)
      PROVE Distinct(l') /\ Numbered(l', inserted') /\ Abstract!CNext
  BY <1>0, <1>1, InsertImplements DEF ListAppend
<1>2. ASSUME NEW v \in Values, NEW pos \in Positions, ListInsert(pos, v)
      PROVE Distinct(l') /\ Numbered(l', inserted') /\ Abstract!CNext
  BY <1>0, <1>2, InsertImplements DEF ListInsert
<1>3. ASSUME NEW v \in Values, NEW pos \in Positions, ListSet(pos, v)
      PROVE Distinct(l') /\ Numbered(l', inserted') /\ Abstract!CNext
  BY <1>0, <1>3, SetImplements
<1>4. ASSUME NEW v \in Values, NEW it \in Its, IterInsert(it, v)
      PROVE Distinct(l') /\ Numbered(l', inserted') /\ Abstract!CNext
  <2>1. it \in mine  BY <1>4 DEF IterInsert
  <2>2. l.pos[it] \in Int  BY <2>1, PositionsIn DEF RInv
  <2> QED BY <1>0, <1>4, <2>2, InsertImplements DEF IterInsert
<1>5. ASSUME NEW pos \in Positions, ListRemove(pos)
      PROVE Distinct(l') /\ Numbered(l', inserted') /\ Abstract!CNext
  BY <1>0, <1>5, RemoveImplements DEF ListRemove
<1>6. ASSUME NEW it \in Its, IterRemove(it)
      PROVE Distinct(l') /\ Numbered(l', inserted') /\ Abstract!CNext
  <2>1. it \in mine  BY <1>6 DEF IterRemove
  <2>2. l.pos[it] \in Int  BY <2>1, PositionsIn DEF RInv
  <2> QED BY <1>0, <1>6, <2>2, RemoveImplements DEF IterRemove
<1>7. ASSUME NEW old \in Positions, NEW new \in Positions, ListMove(old, new)
      PROVE Distinct(l') /\ Numbered(l', inserted') /\ Abstract!CNext
  BY <1>0, <1>7, MoveImplements
\* The other steps change neither entries nor cursors.
<1>8. ASSUME UNCHANGED <<l, mine, inserted>>
      PROVE Distinct(l') /\ Numbered(l', inserted') /\ UNCHANGED Abstract!cvars
  <2>1. Cursors' = Cursors /\ Contents(l)' = Contents(l)
    BY <1>8, CursorsAreSpots DEF Contents
  <2> QED BY <1>8, <2>1, EntriesKept DEF Abstract!cvars, Cursors
<1>9. ASSUME NEW v \in Values, Unref(v) PROVE UNCHANGED <<l, mine, inserted>>
  BY <1>9 DEF Unref
<1>10. CASE UNCHANGED vars  BY <1>8, <1>10 DEF vars
<1> QED BY <1>0, <1>1, <1>2, <1>3, <1>4, <1>5, <1>6, <1>7, <1>8, <1>9, <1>10,
          ClearImplements, FreeImplements, RestrictImplements, GetIterImplements,
          DestroyIterImplements, IterStepImplements
    DEF Next

\* The list with its array, memmove and adjusted positions is the sequence with cursors:
\* "xmmsv_list_iter_t's remain pointing at their element" (value.c:1303), whatever is
\* inserted, replaced, moved or removed around it.
THEOREM ImplementsCorrect == Spec => Implements
<1>1. Init => RInv /\ Abstract!CInit  BY InitImplements
<1>2. RInv /\ [Next]_vars => RInv' /\ [Abstract!CNext]_Abstract!cvars  BY NextImplements
<1> QED BY <1>1, <1>2, PTL DEF Spec, Implements, Abstract!CSpec
=============================================================================
