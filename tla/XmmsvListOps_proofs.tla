------------------------ MODULE XmmsvListOps_proofs ------------------------
(***************************************************************************)
(* What the functions on the array of value.c return and preserve, for     *)
(* entries of any kind: lists and dictionaries are built from them.        *)
(***************************************************************************)
EXTENDS XmmsvListOps, TLAPS

\* What the functions on the array need and keep; a list is a record of functions.
Record(a) ==
  a = [mem |-> [i \in DOMAIN a.mem |-> a.mem[i]], size |-> a.size, alloc |-> a.alloc,
       pos |-> [it \in DOMAIN a.pos |-> a.pos[it]]]
Kept(S, a) ==
  /\ Record(a)
  /\ a.size \in Nat /\ a.alloc \in Nat /\ a.size <= a.alloc
  /\ DOMAIN a.mem = 0..a.alloc - 1
  /\ \A i \in 0..a.size - 1 : a.mem[i] \in S
  /\ \A it \in DOMAIN a.pos : a.pos[it] \in -1..a.size
Tight(a) == a.alloc >= 2 => a.size > a.alloc \div 2

\* b is a with v put in at p, without the entry at p, with that at from moved to to;
\* the iterators follow.
PutInto(b, a, p, v) ==
  /\ b.size = a.size + 1 /\ b.pos = Shifted(a, p)
  /\ \A i \in 0..a.size : b.mem[i] = IF i < p THEN a.mem[i]
                                     ELSE IF i = p THEN v ELSE a.mem[i - 1]
TakenOut(b, a, p) ==
  /\ b.size = a.size - 1 /\ b.pos = Closed(a, p)
  /\ \A i \in 0..a.size - 2 : b.mem[i] = IF i < p THEN a.mem[i] ELSE a.mem[i + 1]
MovedTo(b, a, from, to) ==
  /\ b.size = a.size /\ b.pos = [it \in DOMAIN a.pos |-> Follow(a.pos[it], from, to)]
  /\ \A i \in 0..a.size - 1 :
       b.mem[i] = IF i = to THEN a.mem[from]
                  ELSE IF i >= from /\ i < to THEN a.mem[i + 1]
                  ELSE IF i > to /\ i <= from THEN a.mem[i - 1] ELSE a.mem[i]

-----------------------------------------------------------------------------
\* A valid position counts from the beginning and is within the list.
LEMMA AbsoluteIn ==
  ASSUME NEW size \in Nat, NEW pos \in Int
  PROVE /\ InRange(pos, size, TRUE) => Absolute(pos, size) \in 0..size
        /\ InRange(pos, size, FALSE) => Absolute(pos, size) \in 0..size - 1
BY DEF InRange, Absolute

\* More or less room changes no entry that fits.
LEMMA ResizeFacts ==
  ASSUME NEW S, NEW a, Kept(S, a), NEW n \in Nat, a.size <= n
  PROVE /\ Kept(S, Resize(a, n))
        /\ Resize(a, n).size = a.size /\ Resize(a, n).alloc = n
        /\ Resize(a, n).pos = a.pos
        /\ \A i \in 0..a.size - 1 : Resize(a, n).mem[i] = a.mem[i]
<1> DEFINE b == Resize(a, n)
           mem == [i \in 0..n - 1 |-> IF i < a.alloc THEN a.mem[i] ELSE Junk]
<1>0. a = [mem |-> a.mem, size |-> a.size, alloc |-> a.alloc, pos |-> a.pos]
  BY DEF Kept, Record
<1>1. /\ b.mem = mem /\ b.size = a.size /\ b.alloc = n /\ b.pos = a.pos
      /\ b = [mem |-> b.mem, size |-> b.size, alloc |-> b.alloc, pos |-> b.pos]
  <2>1. b = [[a EXCEPT !.mem = mem] EXCEPT !.alloc = n]  BY DEF Resize
  <2> HIDE DEF mem, b
  <2>2. b = [mem |-> mem, size |-> a.size, alloc |-> n, pos |-> a.pos]  BY <1>0, <2>1
  <2> QED BY <2>2
<1> HIDE DEF b
<1>2. \A i \in 0..a.size - 1 : b.mem[i] = a.mem[i]  BY <1>1 DEF Kept
<1>3. Record(b)
  <2>1. b.mem = [i \in DOMAIN b.mem |-> b.mem[i]]  BY <1>1
  <2>2. b.pos = [it \in DOMAIN b.pos |-> b.pos[it]]  BY <1>1 DEF Kept, Record
  <2> QED BY <1>1, <2>1, <2>2 DEF Record
<1>4. Kept(S, b)  BY <1>1, <1>2, <1>3 DEF Kept
<1> QED BY <1>1, <1>2, <1>4 DEF b

\* The list after an insertion at p.
LEMMA InsertFacts ==
  ASSUME NEW S, NEW a, Kept(S, a), NEW pos \in Int, InRange(pos, a.size, TRUE), NEW v \in S
  PROVE /\ Absolute(pos, a.size) \in 0..a.size
        /\ Kept(S, Insert(a, pos, v)) /\ (Tight(a) => Tight(Insert(a, pos, v)))
        /\ PutInto(Insert(a, pos, v), a, Absolute(pos, a.size), v)
<1> DEFINE p == Absolute(pos, a.size)
           g == IF ~MustGrow(a) THEN a ELSE Resize(a, IF a.alloc > 0 THEN 2 * a.alloc ELSE 1)
           m == IF a.size > p THEN Memmove(g.mem, p + 1, p, a.size - p) ELSE g.mem
           b == [g EXCEPT !.mem = [m EXCEPT ![p] = v], !.size = @ + 1, !.pos = Shifted(a, p)]
<1>0. Insert(a, pos, v) = b  BY DEF Insert
<1>1. a.size \in Nat /\ a.alloc \in Nat /\ a.size <= a.alloc  BY DEF Kept
<1>2. p \in 0..a.size  BY <1>1, AbsoluteIn
<1>3. /\ Kept(S, g) /\ g.size = a.size /\ g.alloc >= a.size + 1
      /\ g.pos = a.pos /\ \A i \in 0..a.size - 1 : g.mem[i] = a.mem[i]
      /\ g.alloc = IF a.size = a.alloc THEN (IF a.alloc > 0 THEN 2 * a.alloc ELSE 1) ELSE a.alloc
  <2>1. CASE MustGrow(a)
    <3> DEFINE n == IF a.alloc > 0 THEN 2 * a.alloc ELSE 1
    <3>1. n \in Nat /\ n >= a.size + 1  BY <1>1, <2>1 DEF MustGrow
    <3>2. g = Resize(a, n)  BY <2>1
    <3> HIDE DEF n, g
    <3>3. /\ Kept(S, g) /\ g.size = a.size /\ g.alloc = n
          /\ g.pos = a.pos /\ \A i \in 0..a.size - 1 : g.mem[i] = a.mem[i]
      BY <1>1, <3>1, <3>2, ResizeFacts
    <3> QED BY <2>1, <3>1, <3>3 DEF MustGrow, n
  <2>2. CASE ~MustGrow(a)
    <3>1. g = a  BY <2>2
    <3> HIDE DEF g
    <3> QED BY <1>1, <2>2, <3>1 DEF MustGrow
  <2> QED BY <2>1, <2>2
<1> HIDE DEF g
<1>4. /\ m = [i \in 0..g.alloc - 1 |-> m[i]]
      /\ \A i \in 0..a.size : i # p => m[i] = IF i < p THEN a.mem[i] ELSE a.mem[i - 1]
  <2>1. CASE a.size > p
    <3>1. m = [i \in 0..g.alloc - 1 |->
                 IF i \in p + 1..p + 1 + (a.size - p) - 1 THEN g.mem[i - (p + 1) + p] ELSE g.mem[i]]
      BY <2>1, <1>3 DEF Memmove, Kept
    <3> HIDE DEF m
    <3>2. \A i \in 0..a.size : i # p => m[i] = IF i < p THEN a.mem[i] ELSE a.mem[i - 1]
      <4> SUFFICES ASSUME NEW i \in 0..a.size, i # p
                   PROVE m[i] = IF i < p THEN a.mem[i] ELSE a.mem[i - 1]
        OBVIOUS
      <4>1. i \in 0..g.alloc - 1  BY <1>1, <1>3 DEF Kept
      <4>2. CASE i < p
        <5>1. m[i] = g.mem[i]  BY <1>2, <3>1, <4>1, <4>2
        <5> QED BY <1>1, <1>2, <1>3, <4>2, <5>1
      <4>3. CASE i > p
        <5>1. m[i] = g.mem[i - 1]  BY <1>1, <1>2, <3>1, <4>1, <4>3
        <5> QED BY <1>1, <1>2, <1>3, <4>3, <5>1
      <4> QED BY <1>2, <4>2, <4>3
    <3> QED BY <3>1, <3>2
  <2>2. CASE ~(a.size > p)
    <3>1. m = g.mem /\ p = a.size  BY <1>1, <1>2, <2>2
    <3> HIDE DEF m
    <3> QED BY <1>1, <1>3, <3>1 DEF Kept, Record
  <2> QED BY <2>1, <2>2
<1> HIDE DEF m
<1>5. /\ b.size = a.size + 1 /\ b.alloc = g.alloc /\ b.pos = Shifted(a, p)
      /\ b.mem = [m EXCEPT ![p] = v]
      /\ Record(b)
  <2>1. g = [mem |-> g.mem, size |-> g.size, alloc |-> g.alloc, pos |-> g.pos]
    BY <1>3 DEF Kept, Record
  <2> DEFINE mem == [m EXCEPT ![p] = v]
  <2>2. b = [g EXCEPT !.mem = mem, !.size = @ + 1, !.pos = Shifted(a, p)]  OBVIOUS
  <2>3. mem = [i \in DOMAIN mem |-> mem[i]]  OBVIOUS
  <2>4. Shifted(a, p) = [it \in DOMAIN Shifted(a, p) |-> Shifted(a, p)[it]]  BY DEF Shifted
  <2> HIDE DEF mem, b
  <2>5. b = [mem |-> mem, size |-> g.size + 1, alloc |-> g.alloc, pos |-> Shifted(a, p)]
    BY <2>1, <2>2
  <2> QED BY <1>3, <2>3, <2>4, <2>5 DEF Record, mem
<1> HIDE DEF b
<1>6. \A i \in 0..a.size : b.mem[i] = IF i < p THEN a.mem[i]
                                      ELSE IF i = p THEN v ELSE a.mem[i - 1]
  <2>1. 0..a.size \subseteq 0..g.alloc - 1  BY <1>1, <1>3 DEF Kept
  <2>2. b.mem[p] = v /\ \A i \in 0..a.size : i # p => b.mem[i] = m[i]
    <3>1. DOMAIN m = 0..g.alloc - 1  BY <1>4
    <3>2. p \in DOMAIN m /\ 0..a.size \subseteq DOMAIN m  BY <1>2, <2>1, <3>1
    <3>3. b.mem = [m EXCEPT ![p] = v]  BY <1>5
    <3> HIDE DEF p
    <3> QED BY <3>2, <3>3
  <2> HIDE DEF p
  <2> SUFFICES ASSUME NEW i \in 0..a.size
               PROVE b.mem[i] = IF i < p THEN a.mem[i] ELSE IF i = p THEN v ELSE a.mem[i - 1]
    OBVIOUS
  <2>3. CASE i = p  BY <1>2, <2>2, <2>3
  <2>4. CASE i # p  BY <1>4, <2>2, <2>4
  <2> QED BY <2>3, <2>4
<1>7. DOMAIN b.pos = DOMAIN a.pos /\ \A it \in DOMAIN b.pos : b.pos[it] \in -1..b.size
  BY <1>1, <1>2, <1>5 DEF Kept, Shifted
<1>8. \A i \in 0..b.size - 1 : b.mem[i] \in S
  <2> SUFFICES ASSUME NEW i \in 0..a.size PROVE b.mem[i] \in S  BY <1>1, <1>5
  <2>1. CASE i < p
    <3>1. i \in 0..a.size - 1  BY <1>1, <1>2, <2>1
    <3> QED BY <1>6, <2>1, <3>1 DEF Kept
  <2>2. CASE i = p
    <3>1. ~(i < p)  BY <1>1, <2>2
    <3> QED BY <1>6, <2>2, <3>1
  <2>3. CASE i > p
    <3>1. i - 1 \in 0..a.size - 1 /\ ~(i < p) /\ i # p  BY <1>1, <1>2, <2>3
    <3> QED BY <1>6, <3>1 DEF Kept
  <2> QED BY <1>2, <2>1, <2>2, <2>3
<1>9. Kept(S, b)
  <2>1. DOMAIN b.mem = 0..b.alloc - 1  BY <1>4, <1>5
  <2> QED BY <1>1, <1>3, <1>5, <1>7, <1>8, <2>1 DEF Kept
<1>10. Tight(a) => Tight(b)  BY <1>1, <1>3, <1>5 DEF Tight
<1>11. PutInto(b, a, p, v)  BY <1>5, <1>6 DEF PutInto
<1> QED BY <1>0, <1>2, <1>9, <1>10, <1>11 DEF b

\* The list after a removal at p.
LEMMA RemoveFacts ==
  ASSUME NEW S, NEW a, Kept(S, a), NEW pos \in Int, InRange(pos, a.size, FALSE)
  PROVE /\ Absolute(pos, a.size) \in 0..a.size - 1
        /\ Kept(S, Remove(a, pos)) /\ (Tight(a) => Tight(Remove(a, pos)))
        /\ TakenOut(Remove(a, pos), a, Absolute(pos, a.size))
<1> DEFINE p == Absolute(pos, a.size)
           n == a.size - 1
           m == IF p < n THEN Memmove(a.mem, p, p + 1, n - p) ELSE a.mem
           g == [a EXCEPT !.mem = m, !.size = n, !.pos = Closed(a, p)]
<1>0. Remove(a, pos) = Shrunk(g)  BY DEF Remove
<1>1. a.size \in Nat /\ a.alloc \in Nat /\ a.size <= a.alloc  BY DEF Kept
<1>2. p \in 0..n /\ n \in Nat
  <2>1. Absolute(pos, a.size) \in 0..a.size - 1  BY <1>1, AbsoluteIn
  <2> HIDE DEF p
  <2>2. p \in 0..a.size - 1  BY <2>1 DEF p
  <2> QED BY <1>1, <2>2
<1>3. /\ m = [i \in 0..a.alloc - 1 |-> m[i]]
      /\ \A i \in 0..n - 1 : m[i] = IF i < p THEN a.mem[i] ELSE a.mem[i + 1]
  <2>1. CASE p < n
    <3>1. m = [i \in 0..a.alloc - 1 |->
                 IF i \in p..p + (n - p) - 1 THEN a.mem[i - p + (p + 1)] ELSE a.mem[i]]
      BY <2>1 DEF Memmove, Kept
    <3> HIDE DEF m, n
    <3> SUFFICES ASSUME NEW i \in 0..n - 1
                 PROVE m[i] = IF i < p THEN a.mem[i] ELSE a.mem[i + 1]
      BY <3>1
    <3>2. i \in 0..a.alloc - 1  BY <1>1 DEF n
    <3>3. CASE i < p
      <4>1. m[i] = a.mem[i]  BY <1>2, <3>1, <3>2, <3>3
      <4> QED BY <3>3, <4>1
    <3>4. CASE ~(i < p)
      <4>1. i \in p..p + (n - p) - 1 /\ i - p + (p + 1) = i + 1  BY <1>2, <3>4
      <4>2. m[i] = a.mem[i + 1]  BY <3>1, <3>2, <4>1
      <4> QED BY <3>4, <4>2
    <3> QED BY <3>3, <3>4
  <2>2. CASE ~(p < n)
    <3>1. m = a.mem /\ p = n  BY <1>2, <2>2
    <3> HIDE DEF m, n
    <3> QED BY <1>2, <3>1 DEF Kept, Record
  <2> QED BY <2>1, <2>2
<1> HIDE DEF m
<1>4. /\ g.size = n /\ g.alloc = a.alloc /\ g.pos = Closed(a, p) /\ g.mem = m
      /\ Record(g)
  <2>1. a = [mem |-> a.mem, size |-> a.size, alloc |-> a.alloc, pos |-> a.pos]
    BY DEF Kept, Record
  <2>2. g = [a EXCEPT !.mem = m, !.size = n, !.pos = Closed(a, p)]  OBVIOUS
  <2> HIDE DEF g, n
  <2>3. g = [mem |-> m, size |-> n, alloc |-> a.alloc, pos |-> Closed(a, p)]  BY <2>1, <2>2
  <2>4. Closed(a, p) = [it \in DOMAIN Closed(a, p) |-> Closed(a, p)[it]]  BY DEF Closed
  <2> QED BY <1>3, <2>3, <2>4 DEF Record
<1> HIDE DEF g
<1>5. \A i \in 0..n - 1 : g.mem[i] \in S
  <2> SUFFICES ASSUME NEW i \in 0..n - 1 PROVE g.mem[i] \in S  OBVIOUS
  <2>1. i \in 0..a.size - 1 /\ i + 1 \in 0..a.size - 1  BY <1>1
  <2> QED BY <1>3, <1>4, <2>1 DEF Kept
<1>6. \A it \in DOMAIN g.pos : g.pos[it] \in -1..g.size
  BY <1>1, <1>2, <1>4 DEF Kept, Closed
<1>7. Kept(S, g)
  <2>1. DOMAIN g.mem = 0..g.alloc - 1  BY <1>3, <1>4
  <2>2. n <= a.alloc  BY <1>1
  <2> HIDE DEF n
  <2> QED BY <1>1, <1>2, <1>4, <1>5, <1>6, <2>1, <2>2 DEF Kept
<1> DEFINE b == Shrunk(g)
           half == g.alloc \div 2
<1>8. half \in Nat  BY <1>1, <1>4
<1>9. /\ Kept(S, b) /\ b.size = n /\ b.pos = g.pos
      /\ \A i \in 0..n - 1 : b.mem[i] = g.mem[i]
      /\ b.alloc = IF n <= half THEN half ELSE a.alloc
  <2>1. CASE n <= half
    <3>1. b = Resize(g, half)  BY <1>4, <2>1 DEF Shrunk
    <3> HIDE DEF b, half
    <3> QED BY <1>4, <1>7, <1>8, <2>1, <3>1, ResizeFacts
  <2>2. CASE ~(n <= half)
    <3>1. b = g  BY <1>4, <2>2 DEF Shrunk
    <3> HIDE DEF b, half
    <3> QED BY <1>4, <1>7, <2>2, <3>1
  <2> QED BY <2>1, <2>2
<1>10. Tight(a) => Tight(b)
  <2> HIDE DEF b
  <2> QED BY <1>1, <1>2, <1>4, <1>9 DEF Tight
<1> HIDE DEF b
<1>11. \A i \in 0..a.size - 2 : b.mem[i] = IF i < p THEN a.mem[i] ELSE a.mem[i + 1]
  <2>1. a.size - 2 = n - 1  BY <1>1
  <2> QED BY <1>3, <1>4, <1>9, <2>1
<1>12. TakenOut(b, a, p)  BY <1>4, <1>9, <1>11 DEF TakenOut
<1> QED BY <1>0, <1>2, <1>9, <1>10, <1>12 DEF b

\* The list after the entry at from has been moved to the place to.
LEMMA MoveFacts ==
  ASSUME NEW S, NEW a, Kept(S, a), NEW old \in Int, InRange(old, a.size, FALSE),
         NEW new \in Int, InRange(new, a.size, FALSE)
  PROVE /\ Absolute(old, a.size) \in 0..a.size - 1 /\ Absolute(new, a.size) \in 0..a.size - 1
        /\ Kept(S, Move(a, old, new)) /\ Move(a, old, new).alloc = a.alloc
        /\ MovedTo(Move(a, old, new), a, Absolute(old, a.size), Absolute(new, a.size))
<1> DEFINE from == Absolute(old, a.size)
           to   == Absolute(new, a.size)
           m    == IF from < to THEN Memmove(a.mem, from, from + 1, to - from)
                   ELSE Memmove(a.mem, to + 1, to, from - to)
           pos  == [it \in DOMAIN a.pos |-> Follow(a.pos[it], from, to)]
           b    == [a EXCEPT !.mem = [m EXCEPT ![to] = a.mem[from]], !.pos = pos]
<1>0. Move(a, old, new) = b  BY DEF Move
<1>1. a.size \in Nat /\ a.alloc \in Nat /\ a.size <= a.alloc  BY DEF Kept
<1>2. from \in 0..a.size - 1 /\ to \in 0..a.size - 1  BY <1>1, AbsoluteIn
<1>3. /\ m = [i \in 0..a.alloc - 1 |-> m[i]]
      /\ \A i \in 0..a.size - 1 :
           i # to => m[i] = IF i >= from /\ i < to THEN a.mem[i + 1]
                            ELSE IF i > to /\ i <= from THEN a.mem[i - 1] ELSE a.mem[i]
  <2>1. CASE from < to
    <3>1. m = [i \in 0..a.alloc - 1 |->
                 IF i \in from..from + (to - from) - 1 THEN a.mem[i - from + (from + 1)] ELSE a.mem[i]]
      BY <2>1 DEF Memmove, Kept
    <3> HIDE DEF m, from, to
    <3> SUFFICES ASSUME NEW i \in 0..a.size - 1, i # to
                 PROVE m[i] = IF i >= from /\ i < to THEN a.mem[i + 1]
                              ELSE IF i > to /\ i <= from THEN a.mem[i - 1] ELSE a.mem[i]
      BY <3>1
    <3>2. i \in 0..a.alloc - 1  BY <1>1
    <3>3. CASE i >= from /\ i < to
      <4>1. i \in from..from + (to - from) - 1 /\ i - from + (from + 1) = i + 1  BY <1>2, <3>3
      <4> QED BY <3>1, <3>2, <3>3, <4>1
    <3>4. CASE ~(i >= from /\ i < to)
      <4>1. i \notin from..from + (to - from) - 1 /\ ~(i > to /\ i <= from)  BY <1>2, <2>1, <3>4
      <4> QED BY <3>1, <3>2, <3>4, <4>1
    <3> QED BY <3>3, <3>4
  <2>2. CASE ~(from < to)
    <3>1. m = [i \in 0..a.alloc - 1 |->
                 IF i \in to + 1..to + 1 + (from - to) - 1 THEN a.mem[i - (to + 1) + to] ELSE a.mem[i]]
      BY <2>2 DEF Memmove, Kept
    <3> HIDE DEF m, from, to
    <3> SUFFICES ASSUME NEW i \in 0..a.size - 1, i # to
                 PROVE m[i] = IF i >= from /\ i < to THEN a.mem[i + 1]
                              ELSE IF i > to /\ i <= from THEN a.mem[i - 1] ELSE a.mem[i]
      BY <3>1
    <3>2. i \in 0..a.alloc - 1 /\ ~(i >= from /\ i < to)  BY <1>1, <1>2, <2>2
    <3>3. CASE i > to /\ i <= from
      <4>1. i \in to + 1..to + 1 + (from - to) - 1 /\ i - (to + 1) + to = i - 1  BY <1>2, <3>3
      <4> QED BY <3>1, <3>2, <3>3, <4>1
    <3>4. CASE ~(i > to /\ i <= from)
      <4>1. i \notin to + 1..to + 1 + (from - to) - 1  BY <1>2, <2>2, <3>4
      <4> QED BY <3>1, <3>2, <3>4, <4>1
    <3> QED BY <3>3, <3>4
  <2> QED BY <2>1, <2>2
<1> HIDE DEF m
<1>4. /\ b.size = a.size /\ b.alloc = a.alloc /\ b.pos = pos
      /\ b.mem = [m EXCEPT ![to] = a.mem[from]]
      /\ Record(b)
  <2> DEFINE mem == [m EXCEPT ![to] = a.mem[from]]
  <2>1. a = [mem |-> a.mem, size |-> a.size, alloc |-> a.alloc, pos |-> a.pos]
    BY DEF Kept, Record
  <2>2. b = [a EXCEPT !.mem = mem, !.pos = pos]  OBVIOUS
  <2>3. mem = [i \in DOMAIN mem |-> mem[i]]  OBVIOUS
  <2>4. pos = [it \in DOMAIN pos |-> pos[it]]  OBVIOUS
  <2> HIDE DEF b, mem, pos
  <2>5. b = [mem |-> mem, size |-> a.size, alloc |-> a.alloc, pos |-> pos]  BY <2>1, <2>2
  <2> QED BY <2>3, <2>4, <2>5 DEF Record, mem
<1> HIDE DEF b
<1>5. \A i \in 0..a.size - 1 :
        b.mem[i] = IF i = to THEN a.mem[from]
                   ELSE IF i >= from /\ i < to THEN a.mem[i + 1]
                   ELSE IF i > to /\ i <= from THEN a.mem[i - 1] ELSE a.mem[i]
  <2>1. 0..a.size - 1 \subseteq 0..a.alloc - 1  BY <1>1
  <2>2. to \in DOMAIN m /\ 0..a.size - 1 \subseteq DOMAIN m  BY <1>2, <1>3, <2>1
  <2>3. b.mem[to] = a.mem[from] /\ \A i \in 0..a.size - 1 : i # to => b.mem[i] = m[i]
    <3>1. b.mem = [m EXCEPT ![to] = a.mem[from]]  BY <1>4
    <3> HIDE DEF from, to
    <3> QED BY <2>2, <3>1
  <2> HIDE DEF from, to
  <2> QED BY <1>3, <2>3
<1>6. \A i \in 0..a.size - 1 : b.mem[i] \in S
  <2> HIDE DEF from, to
  <2> SUFFICES ASSUME NEW i \in 0..a.size - 1 PROVE b.mem[i] \in S  OBVIOUS
  <2>1. a.mem[from] \in S /\ a.mem[i] \in S  BY <1>2 DEF Kept
  <2>2. i >= from /\ i < to => a.mem[i + 1] \in S
    <3>1. i >= from /\ i < to => i + 1 \in 0..a.size - 1  BY <1>1, <1>2
    <3> QED BY <3>1 DEF Kept
  <2>3. i > to /\ i <= from => a.mem[i - 1] \in S
    <3>1. i > to /\ i <= from => i - 1 \in 0..a.size - 1  BY <1>1, <1>2
    <3> QED BY <3>1 DEF Kept
  <2> QED BY <1>5, <2>1, <2>2, <2>3
<1>7. \A it \in DOMAIN b.pos : b.pos[it] \in -1..b.size
  <2> HIDE DEF from, to
  <2> QED BY <1>1, <1>2, <1>4 DEF Kept, Follow
<1>8. Kept(S, b)
  <2>1. DOMAIN b.mem = 0..b.alloc - 1  BY <1>3, <1>4
  <2> QED BY <1>1, <1>4, <1>6, <1>7, <2>1 DEF Kept
<1>9. MovedTo(b, a, from, to)  BY <1>4, <1>5 DEF MovedTo
<1> QED BY <1>0, <1>2, <1>4, <1>8, <1>9 DEF b

\* What happens to the list's positions and to nothing else.
LEMMA PositionsOnly ==
  ASSUME NEW S, NEW a, Kept(S, a), NEW q, q = [it \in DOMAIN q |-> q[it]],
         \A it \in DOMAIN q : q[it] \in -1..a.size
  PROVE LET b == [a EXCEPT !.pos = q]
        IN /\ Kept(S, b) /\ b.mem = a.mem /\ b.size = a.size /\ b.alloc = a.alloc /\ b.pos = q
<1> DEFINE b == [a EXCEPT !.pos = q]
<1>1. a = [mem |-> a.mem, size |-> a.size, alloc |-> a.alloc, pos |-> a.pos]
  BY DEF Kept, Record
<1>2. b = [mem |-> a.mem, size |-> a.size, alloc |-> a.alloc, pos |-> q]  BY <1>1
<1>3. a.mem = [i \in DOMAIN a.mem |-> a.mem[i]]  BY DEF Kept, Record
<1> HIDE DEF b
<1>4. Record(b)  BY <1>2, <1>3 DEF Record
<1>5. Kept(S, b)  BY <1>2, <1>4 DEF Kept
<1> QED BY <1>2, <1>5 DEF b
=============================================================================
