-------------------------- MODULE XmmsvDict_proofs --------------------------
(***************************************************************************)
(* Theorems about XmmsvDict for every value of its constants: the bisection*)
(* finds the place of a key, and the flat list stays one of pairs in the   *)
(* order of their keys, with the iterators on the pairs.                   *)
(***************************************************************************)
EXTENDS XmmsvDict, XmmsvListOps_proofs, WellFoundedInduction

\* Induction over the natural numbers, for sets, from the well-foundedness of <.
NatLess == {ss \in Nat \X Nat : ss[1] < ss[2]}

LEMMA NatInd ==
  ASSUME NEW T, 0 \in T, \A n \in Nat : n \in T => n + 1 \in T
  PROVE  \A n \in Nat : n \in T
<1> DEFINE U == {n \in Nat : n \notin T}
<1>1. CASE U = {}  BY <1>1
<1>2. CASE U # {}
  <2>1. IsWellFoundedOn(NatLess, Nat)  BY NatLessThanWellFounded DEF OpToRel, NatLess
  <2>2. PICK m \in U : \A k \in U : ~(<<k, m>> \in NatLess)  BY <1>2, <2>1, WFMin
  <2>3. m \in Nat /\ m # 0 /\ m \notin T  OBVIOUS
  <2>4. m - 1 \in Nat /\ m = (m - 1) + 1  BY <2>3
  <2>5. m - 1 \in U  BY <2>3, <2>4
  <2>6. <<m - 1, m>> \in NatLess  BY <2>3, <2>4 DEF NatLess
  <2> QED BY <2>2, <2>5, <2>6
<1> QED BY <1>1, <1>2

-----------------------------------------------------------------------------
\* The bisection: what a step of it returns from the ranges left..right, given what
\* h returns; and how far a range is from being empty.
Ranges(n) == (0..n) \X (-1..n - 1)
Half(lr) == lr[1] + (lr[2] - lr[1]) \div 2
Step(l, k, h, lr) ==
  IF KeyAt(l, Half(lr)) = k THEN [found |-> TRUE, pos |-> 2 * Half(lr)]
  ELSE IF KeyAt(l, Half(lr)) < k
       THEN IF Half(lr) + 1 > lr[2] THEN NotFound(l, Half(lr), k)
            ELSE h[<<Half(lr) + 1, lr[2]>>]
       ELSE IF lr[1] > Half(lr) - 1 THEN NotFound(l, Half(lr), k)
            ELSE h[<<lr[1], Half(lr) - 1>>]
Steps(l, k, h) == [lr \in Ranges(Pairs(l)) |-> Step(l, k, h, lr)]
Width(lr) == IF lr[2] < lr[1] THEN 0 ELSE lr[2] - lr[1] + 1

\* The middle of a range lies in it, and what is left is narrower.
LEMMA HalfFacts ==
  ASSUME NEW n \in Nat, NEW lr \in Ranges(n)
  PROVE  /\ lr[1] \in Int /\ lr[2] \in Int /\ Half(lr) \in Int
         /\ Width(lr) \in 0..n /\ Width(lr) \in Nat
         /\ Half(lr) + 1 <= lr[2] => /\ <<Half(lr) + 1, lr[2]>> \in Ranges(n)
                                     /\ Width(<<Half(lr) + 1, lr[2]>>) < Width(lr)
         /\ lr[1] <= Half(lr) - 1 => /\ <<lr[1], Half(lr) - 1>> \in Ranges(n)
                                     /\ Width(<<lr[1], Half(lr) - 1>>) < Width(lr)
         /\ lr[1] <= lr[2] => Half(lr) \in lr[1]..lr[2]
<1>1. PICK a \in 0..n, b \in -1..n - 1 : lr = <<a, b>>  BY DEF Ranges
<1>2. lr[1] = a /\ lr[2] = b  BY <1>1
<1>3. PICK m \in Int : m = Half(lr) /\ m = a + (b - a) \div 2  BY <1>2 DEF Half
<1>4. (a <= b => m \in a..b) /\ (b < a => m >= b /\ m <= a)  BY <1>3
<1>5. /\ m + 1 <= b => /\ <<m + 1, b>> \in Ranges(n)
                       /\ Width(<<m + 1, b>>) < Width(lr)
      /\ a <= m - 1 => /\ <<a, m - 1>> \in Ranges(n)
                       /\ Width(<<a, m - 1>>) < Width(lr)
  BY <1>2, <1>4 DEF Ranges, Width
<1>6. Width(lr) \in 0..n /\ Width(lr) \in Nat  BY <1>2 DEF Width
<1> QED BY <1>2, <1>3, <1>4, <1>5, <1>6

\* The recursion of the search is well-founded: there is a function that obeys it.
LEMMA SearchExists ==
  ASSUME NEW l, Pairs(l) \in Nat, NEW k
  PROVE  \E h : h = Steps(l, k, h)
<1> DEFINE n == Pairs(l)
           Obeys(h, w) == /\ h = [lr \in Ranges(n) |-> h[lr]]
                          /\ \A lr \in Ranges(n) : Width(lr) <= w => h[lr] = Step(l, k, h, lr)
           T == {w \in Nat : \E h : Obeys(h, w)}
<1> HIDE DEF n
<1>0. n \in Nat /\ \A h : Steps(l, k, h) = [lr \in Ranges(n) |-> Step(l, k, h, lr)]
  BY DEF n, Steps
<1>r. ASSUME NEW lr \in Ranges(n)
      PROVE  /\ lr[1] \in Int /\ lr[2] \in Int /\ Half(lr) \in Int /\ Width(lr) \in 0..n
             /\ Half(lr) + 1 <= lr[2] => /\ <<Half(lr) + 1, lr[2]>> \in Ranges(n)
                                         /\ Width(<<Half(lr) + 1, lr[2]>>) < Width(lr)
             /\ lr[1] <= Half(lr) - 1 => /\ <<lr[1], Half(lr) - 1>> \in Ranges(n)
                                         /\ Width(<<lr[1], Half(lr) - 1>>) < Width(lr)
  BY <1>0, HalfFacts
<1>w. \A lr \in Ranges(n) : Width(lr) \in Nat
  <2> SUFFICES ASSUME NEW lr \in Ranges(n) PROVE Width(lr) \in Nat  OBVIOUS
  <2>1. Width(lr) \in 0..n  BY <1>r
  <2> QED BY <1>0, <2>1
<1>1. 0 \in T
  <2> DEFINE h == Steps(l, k, [lr \in Ranges(n) |-> 0])
  <2>1. ASSUME NEW lr \in Ranges(n), Width(lr) <= 0 PROVE h[lr] = Step(l, k, h, lr)
    <3>1. ~(Half(lr) + 1 <= lr[2]) /\ ~(lr[1] <= Half(lr) - 1)
      <4>1. ASSUME NEW x \in Ranges(n), Width(x) < Width(lr) PROVE FALSE
        <5>1. Width(x) \in Nat /\ Width(lr) \in Nat  BY <1>w
        <5> QED BY <2>1, <4>1, <5>1
      <4>2. CASE Half(lr) + 1 <= lr[2]
        <5> DEFINE x == <<Half(lr) + 1, lr[2]>>
        <5>1. x \in Ranges(n) /\ Width(x) < Width(lr)  BY <1>r, <4>2
        <5> HIDE DEF x
        <5> QED BY <4>1, <5>1
      <4>3. CASE lr[1] <= Half(lr) - 1
        <5> DEFINE x == <<lr[1], Half(lr) - 1>>
        <5>1. x \in Ranges(n) /\ Width(x) < Width(lr)  BY <1>r, <4>3
        <5> HIDE DEF x
        <5> QED BY <4>1, <5>1
      <4> QED BY <4>2, <4>3
    <3>2. lr[1] \in Int /\ lr[2] \in Int /\ Half(lr) \in Int  BY <1>r
    <3>3. Half(lr) + 1 > lr[2] /\ lr[1] > Half(lr) - 1  BY <3>1, <3>2
    <3>4. \A g : Step(l, k, g, lr) = Step(l, k, [x \in Ranges(n) |-> 0], lr)
      BY <3>3 DEF Step
    <3>5. h[lr] = Step(l, k, [x \in Ranges(n) |-> 0], lr)  BY <1>0
    <3> QED BY <3>4, <3>5
  <2>2. h = [lr \in Ranges(n) |-> h[lr]]  BY <1>0
  <2> HIDE DEF h
  <2> QED BY <2>1, <2>2
<1>2. ASSUME NEW w \in Nat, w \in T PROVE w + 1 \in T
  <2>1. PICK g : Obeys(g, w)  BY <1>2
  <2> DEFINE h == Steps(l, k, g)
  <2>2. h = [lr \in Ranges(n) |-> Step(l, k, g, lr)]  BY <1>0
  <2> HIDE DEF h
  <2>3. \A lr \in Ranges(n) : Width(lr) <= w => h[lr] = g[lr]  BY <2>1, <2>2
  <2>4. ASSUME NEW lr \in Ranges(n), Width(lr) <= w + 1 PROVE h[lr] = Step(l, k, h, lr)
    <3>1. lr[1] \in Int /\ lr[2] \in Int /\ Half(lr) \in Int  BY <1>r
    <3>2. \A x \in Ranges(n) : Width(x) \in Nat  BY <1>w
    <3>3. Half(lr) + 1 <= lr[2] => h[<<Half(lr) + 1, lr[2]>>] = g[<<Half(lr) + 1, lr[2]>>]
      <4> HAVE Half(lr) + 1 <= lr[2]
      <4> DEFINE x == <<Half(lr) + 1, lr[2]>>
      <4>1. x \in Ranges(n) /\ Width(x) < Width(lr)  BY <1>r
      <4> HIDE DEF x
      <4>2. Width(x) <= w  BY <2>4, <3>2, <4>1
      <4>3. h[x] = g[x]  BY <2>3, <4>1, <4>2
      <4> QED BY <4>3 DEF x
    <3>4. lr[1] <= Half(lr) - 1 => h[<<lr[1], Half(lr) - 1>>] = g[<<lr[1], Half(lr) - 1>>]
      <4> HAVE lr[1] <= Half(lr) - 1
      <4> DEFINE x == <<lr[1], Half(lr) - 1>>
      <4>1. x \in Ranges(n) /\ Width(x) < Width(lr)  BY <1>r
      <4> HIDE DEF x
      <4>2. Width(x) <= w  BY <2>4, <3>2, <4>1
      <4>3. h[x] = g[x]  BY <2>3, <4>1, <4>2
      <4> QED BY <4>3 DEF x
    <3>5. Step(l, k, h, lr) = Step(l, k, g, lr)  BY <3>1, <3>3, <3>4 DEF Step
    <3>6. h[lr] = Step(l, k, g, lr)  BY <2>2
    <3> QED BY <3>5, <3>6
  <2>5. h = [lr \in Ranges(n) |-> h[lr]]  BY <2>2
  <2>6. Obeys(h, w + 1)  BY <2>4, <2>5
  <2> HIDE DEF Obeys
  <2> QED BY <2>6
<1> HIDE DEF T
<1>3. n \in T  BY <1>0, <1>1, <1>2, NatInd
<1>4. PICK h : Obeys(h, n)  BY <1>3 DEF T
<1>5. \A lr \in Ranges(n) : Width(lr) <= n
  <2>1. \A lr \in Ranges(n) : Width(lr) \in 0..n  BY <1>r
  <2> QED BY <1>0, <2>1
<1>6. h = [lr \in Ranges(n) |-> Step(l, k, h, lr)]  BY <1>4, <1>5
<1> QED BY <1>0, <1>6

\* Pairs of a key and a value, the keys in ascending order.
Flat(l) ==
  /\ Kept(Slots, l)
  /\ l.size = 2 * Pairs(l)
  /\ \A i \in 0..Pairs(l) - 1 : l.mem[2 * i] \in [key : Keys] /\ l.mem[2 * i + 1] \in [val : Vals]
  /\ \A i, j \in 0..Pairs(l) - 1 : i < j => KeyAt(l, i) < KeyAt(l, j)

\* The place of key k is pair p: there it is, or there it belongs.
Sought(l, k, r, p) ==
  /\ r.pos = 2 * p
  /\ r.found => p < Pairs(l) /\ KeyAt(l, p) = k
  /\ ~r.found => /\ \A i \in 0..Pairs(l) - 1 : i < p => KeyAt(l, i) < k
                 /\ \A i \in 0..Pairs(l) - 1 : i >= p => KeyAt(l, i) > k

LEMMA FlatFacts ==
  ASSUME NEW l, Flat(l)
  PROVE  /\ Pairs(l) \in Nat /\ l.size = 2 * Pairs(l)
         /\ \A i \in 0..Pairs(l) - 1 : KeyAt(l, i) \in Keys /\ KeyAt(l, i) \in Nat
         /\ \A i, j \in 0..Pairs(l) - 1 : i < j => KeyAt(l, i) < KeyAt(l, j)
<1>1. l.size \in Nat  BY DEF Flat, Kept
<1>2. Pairs(l) \in Nat  BY <1>1 DEF Pairs
<1>3. ASSUME NEW i \in 0..Pairs(l) - 1 PROVE KeyAt(l, i) \in Keys
  <2>1. l.mem[2 * i] \in [key : Keys]  BY DEF Flat
  <2> QED BY <2>1 DEF KeyAt
<1>4. \A i \in 0..Pairs(l) - 1 : KeyAt(l, i) \in Nat  BY <1>3, DictAssumption
<1> QED BY <1>2, <1>3, <1>4 DEF Flat

LEMMA NotFoundFacts ==
  ASSUME NEW l, Flat(l), NEW k \in Keys, NEW m \in 0..Pairs(l) - 1, KeyAt(l, m) # k,
         \A i \in 0..Pairs(l) - 1 : i < m => KeyAt(l, i) < k,
         \A i \in 0..Pairs(l) - 1 : i > m => KeyAt(l, i) > k
  PROVE  \E p \in 0..Pairs(l) : Sought(l, k, NotFound(l, m, k), p)
<1> DEFINE n == Pairs(l)
           r == NotFound(l, m, k)
<1>1. n \in Nat /\ l.size = 2 * n  BY FlatFacts
<1>2. KeyAt(l, m) \in Nat /\ k \in Nat  BY FlatFacts, DictAssumption
<1>3. CASE KeyAt(l, m) < k
  <2>1. After(l, 2 * m) = 2 * m + 1 /\ After(l, 2 * m + 1) = 2 * m + 2  BY <1>1 DEF After
  <2>2. r = [found |-> FALSE, pos |-> After(l, After(l, 2 * m))]  BY <1>3 DEF NotFound
  <2>3. r.found = FALSE /\ r.pos = 2 * (m + 1)  BY <2>1, <2>2
  <2>4. m + 1 \in 0..n  BY <1>1
  <2>5. \A i \in 0..n - 1 : (i < m + 1 => i < m \/ i = m) /\ (i >= m + 1 => i > m)  BY <1>1
  <2>6. \A i \in 0..n - 1 : (i < m + 1 => KeyAt(l, i) < k) /\ (i >= m + 1 => KeyAt(l, i) > k)
    BY <2>5, <1>3
  <2>7. PICK p \in 0..n : p = m + 1  BY <2>4
  <2> HIDE DEF r
  <2>8. Sought(l, k, r, p)  BY <2>3, <2>6, <2>7 DEF Sought
  <2> QED BY <2>8 DEF r
<1>4. CASE ~(KeyAt(l, m) < k)
  <2>1. r = [found |-> FALSE, pos |-> 2 * m]  BY <1>4 DEF NotFound
  <2>2. r.found = FALSE /\ r.pos = 2 * m  BY <2>1
  <2>3. KeyAt(l, m) > k  BY <1>2, <1>4
  <2>4. \A i \in 0..n - 1 : i >= m => i > m \/ i = m  BY <1>1
  <2>5. \A i \in 0..n - 1 : (i < m => KeyAt(l, i) < k) /\ (i >= m => KeyAt(l, i) > k)
    BY <2>3, <2>4
  <2>6. m \in 0..n  BY <1>1
  <2> HIDE DEF r
  <2>7. Sought(l, k, r, m)  BY <2>2, <2>5 DEF Sought
  <2> QED BY <2>6, <2>7 DEF r
<1> QED BY <1>3, <1>4

\* The key, if it is there, is among the pairs lr.
Around(l, k, lr) ==
  /\ lr[1] <= lr[2]
  /\ \A i \in 0..Pairs(l) - 1 : i < lr[1] => KeyAt(l, i) < k
  /\ \A i \in 0..Pairs(l) - 1 : i > lr[2] => KeyAt(l, i) > k

LEMMA SearchFacts ==
  ASSUME NEW l, Flat(l), NEW k \in Keys, NEW h, h = Steps(l, k, h)
  PROVE  \A lr \in Ranges(Pairs(l)) :
           Around(l, k, lr) => \E p \in 0..Pairs(l) : Sought(l, k, h[lr], p)
<1> DEFINE n == Pairs(l)
           Done1(lr) == Around(l, k, lr) => \E p \in 0..Pairs(l) : Sought(l, k, h[lr], p)
           T == {w \in Nat : \A lr \in Ranges(n) : Width(lr) <= w => Done1(lr)}
<1>0. n \in Nat /\ h = [lr \in Ranges(n) |-> Step(l, k, h, lr)]  BY FlatFacts DEF Steps
<1>n. \A i \in 0..n - 1 : KeyAt(l, i) \in Nat  BY FlatFacts
<1>a. \A i, j \in 0..n - 1 : i < j => KeyAt(l, i) < KeyAt(l, j)  BY FlatFacts
<1>k. k \in Nat  BY DictAssumption
<1> HIDE DEF n, Done1
<1>r. ASSUME NEW lr \in Ranges(n)
      PROVE  /\ lr[1] \in 0..n /\ lr[2] \in -1..n - 1 /\ Half(lr) \in Int /\ Width(lr) \in 0..n
             /\ Half(lr) + 1 <= lr[2] => /\ <<Half(lr) + 1, lr[2]>> \in Ranges(n)
                                         /\ Width(<<Half(lr) + 1, lr[2]>>) < Width(lr)
             /\ lr[1] <= Half(lr) - 1 => /\ <<lr[1], Half(lr) - 1>> \in Ranges(n)
                                         /\ Width(<<lr[1], Half(lr) - 1>>) < Width(lr)
             /\ lr[1] <= lr[2] => Half(lr) \in lr[1]..lr[2]
  <2>1. lr[1] \in 0..n /\ lr[2] \in -1..n - 1  BY <1>0 DEF Ranges
  <2> QED BY <1>0, <2>1, HalfFacts
<1>w. \A lr \in Ranges(n) : Width(lr) \in Nat
  <2> SUFFICES ASSUME NEW lr \in Ranges(n) PROVE Width(lr) \in Nat  OBVIOUS
  <2>1. Width(lr) \in 0..n  BY <1>r
  <2> QED BY <1>0, <2>1
<1>s. ASSUME NEW w \in Nat, \A x \in Ranges(n) : Width(x) < w => Done1(x),
             NEW lr \in Ranges(n), Width(lr) <= w
      PROVE  Done1(lr)
  <2> SUFFICES ASSUME Around(l, k, lr)
               PROVE  \E p \in 0..Pairs(l) : Sought(l, k, h[lr], p)
    BY DEF Done1
  <2>1. h[lr] = Step(l, k, h, lr)  BY <1>0
  <2>2. lr[1] \in 0..n /\ lr[2] \in -1..n - 1 /\ lr[1] <= lr[2]  BY <1>r DEF Around
  <2>3. PICK m \in 0..n - 1 : m = Half(lr) /\ m >= lr[1] /\ m <= lr[2]
    <3>1. Half(lr) \in lr[1]..lr[2]  BY <1>r, <2>2
    <3> QED BY <1>0, <2>2, <3>1
  <2>4. (\A i \in 0..n - 1 : i < lr[1] => KeyAt(l, i) < k)
        /\ (\A i \in 0..n - 1 : i > lr[2] => KeyAt(l, i) > k)
    BY DEF Around, n
  <2>5. KeyAt(l, m) \in Nat  BY <1>n
  <2>6. ASSUME NEW x \in Ranges(n), Width(x) < Width(lr), h[lr] = h[x],
               x[1] <= x[2],
               \A i \in 0..n - 1 : i < x[1] => KeyAt(l, i) < k,
               \A i \in 0..n - 1 : i > x[2] => KeyAt(l, i) > k
        PROVE  \E p \in 0..Pairs(l) : Sought(l, k, h[lr], p)
    <3>1. Around(l, k, x)  BY <2>6 DEF Around, n
    <3>2. Width(x) \in Nat /\ Width(lr) \in Nat  BY <1>w
    <3>3. Width(x) < w  BY <1>s, <2>6, <3>2
    <3>4. Done1(x)  BY <1>s, <3>3
    <3> QED BY <2>6, <3>1, <3>4 DEF Done1
  <2>7. CASE KeyAt(l, m) = k
    <3>1. h[lr] = [found |-> TRUE, pos |-> 2 * m]  BY <2>1, <2>3, <2>7 DEF Step
    <3>2. h[lr].found = TRUE /\ h[lr].pos = 2 * m  BY <3>1
    <3>3. m \in 0..n /\ m < n  BY <1>0
    <3>4. Sought(l, k, h[lr], m)  BY <2>7, <3>2, <3>3 DEF Sought, n
    <3> QED BY <3>3, <3>4 DEF n
  <2>8. CASE KeyAt(l, m) < k
    <3>1. \A i \in 0..n - 1 : i < m + 1 => KeyAt(l, i) < k
      <4> SUFFICES ASSUME NEW i \in 0..n - 1, i < m + 1 PROVE KeyAt(l, i) < k  OBVIOUS
      <4>1. CASE i = m  BY <2>8, <4>1
      <4>2. CASE i < m
        <5>1. KeyAt(l, i) < KeyAt(l, m)  BY <1>a, <4>2
        <5>2. KeyAt(l, i) \in Nat  BY <1>n
        <5> QED BY <1>k, <2>5, <2>8, <5>1, <5>2
      <4> QED BY <1>0, <4>1, <4>2
    <3>2. CASE m + 1 > lr[2]
      <4>1. h[lr] = NotFound(l, m, k)  BY <1>k, <2>1, <2>3, <2>5, <2>8, <3>2 DEF Step
      <4>2. \A i \in 0..n - 1 : i > m => i > lr[2]  BY <1>0, <2>2, <3>2
      <4>3. \A i \in 0..n - 1 : i < m => i < m + 1  BY <1>0
      <4>4. /\ \A i \in 0..Pairs(l) - 1 : i < m => KeyAt(l, i) < k
            /\ \A i \in 0..Pairs(l) - 1 : i > m => KeyAt(l, i) > k
            /\ m \in 0..Pairs(l) - 1
        BY <2>4, <3>1, <4>2, <4>3 DEF n
      <4>5. KeyAt(l, m) # k  BY <1>k, <2>5, <2>8
      <4> QED BY <4>1, <4>4, <4>5, NotFoundFacts
    <3>3. CASE ~(m + 1 > lr[2])
      <4> DEFINE x == <<m + 1, lr[2]>>
      <4>1. h[lr] = h[x]  BY <1>k, <2>1, <2>3, <2>5, <2>8, <3>3 DEF Step
      <4>2. m + 1 <= lr[2]  BY <2>2, <3>3
      <4>3. x \in Ranges(n) /\ Width(x) < Width(lr)  BY <1>r, <2>3, <4>2
      <4>4. x[1] = m + 1 /\ x[2] = lr[2]  OBVIOUS
      <4> HIDE DEF x
      <4> QED BY <2>4, <2>6, <3>1, <4>1, <4>2, <4>3, <4>4
    <3> QED BY <3>2, <3>3
  <2>9. CASE KeyAt(l, m) > k
    <3>1. \A i \in 0..n - 1 : i > m - 1 => KeyAt(l, i) > k
      <4> SUFFICES ASSUME NEW i \in 0..n - 1, i > m - 1 PROVE KeyAt(l, i) > k  OBVIOUS
      <4>1. CASE i = m  BY <2>9, <4>1
      <4>2. CASE i > m
        <5>1. KeyAt(l, m) < KeyAt(l, i)  BY <1>a, <4>2
        <5>2. KeyAt(l, i) \in Nat  BY <1>n
        <5> QED BY <1>k, <2>5, <2>9, <5>1, <5>2
      <4> QED BY <1>0, <4>1, <4>2
    <3>2. CASE lr[1] > m - 1
      <4>1. h[lr] = NotFound(l, m, k)  BY <1>k, <2>1, <2>3, <2>5, <2>9, <3>2 DEF Step
      <4>2. \A i \in 0..n - 1 : i < m => i < lr[1]  BY <1>0, <2>2, <3>2
      <4>3. \A i \in 0..n - 1 : i > m => i > m - 1  BY <1>0
      <4>4. /\ \A i \in 0..Pairs(l) - 1 : i < m => KeyAt(l, i) < k
            /\ \A i \in 0..Pairs(l) - 1 : i > m => KeyAt(l, i) > k
            /\ m \in 0..Pairs(l) - 1
        BY <2>4, <3>1, <4>2, <4>3 DEF n
      <4>5. KeyAt(l, m) # k  BY <1>k, <2>5, <2>9
      <4> QED BY <4>1, <4>4, <4>5, NotFoundFacts
    <3>3. CASE ~(lr[1] > m - 1)
      <4> DEFINE x == <<lr[1], m - 1>>
      <4>1. h[lr] = h[x]  BY <1>k, <2>1, <2>3, <2>5, <2>9, <3>3 DEF Step
      <4>2. lr[1] <= m - 1  BY <2>2, <3>3
      <4>3. x \in Ranges(n) /\ Width(x) < Width(lr)  BY <1>r, <2>3, <4>2
      <4>4. x[1] = lr[1] /\ x[2] = m - 1  OBVIOUS
      <4> HIDE DEF x
      <4> QED BY <2>4, <2>6, <3>1, <4>1, <4>2, <4>3, <4>4
    <3> QED BY <3>2, <3>3
  <2> QED BY <1>k, <2>5, <2>7, <2>8, <2>9
<1>1. 0 \in T
  <2>1. \A x \in Ranges(n) : Width(x) < 0 => Done1(x)  BY <1>w
  <2>2. \A lr \in Ranges(n) : Width(lr) <= 0 => Done1(lr)
    <3>1. PICK z \in Nat : z = 0  OBVIOUS
    <3> QED BY <1>s, <2>1, <3>1
  <2> QED BY <2>2
<1>2. ASSUME NEW w \in Nat, w \in T PROVE w + 1 \in T
  <2>1. PICK v \in Nat : v = w + 1  OBVIOUS
  <2>2. \A x \in Ranges(n) : Width(x) < v => Done1(x)  BY <1>2, <1>w, <2>1
  <2>3. \A lr \in Ranges(n) : Width(lr) <= v => Done1(lr)  BY <1>s, <2>2
  <2> QED BY <2>1, <2>3
<1>3. n \in T
  <2> HIDE DEF T
  <2> QED BY <1>0, <1>1, <1>2, NatInd
<1>4. \A lr \in Ranges(n) : Width(lr) <= n
  <2> SUFFICES ASSUME NEW lr \in Ranges(n) PROVE Width(lr) <= n  OBVIOUS
  <2>1. Width(lr) \in 0..n  BY <1>r
  <2> QED BY <1>0, <2>1
<1>5. \A lr \in Ranges(n) : Done1(lr)  BY <1>3, <1>4
<1> QED BY <1>5 DEF Done1, n

\* The bisection finds a key, or the place where it belongs.
LEMMA FindFacts ==
  ASSUME NEW l, Flat(l), NEW k \in Keys
  PROVE  \E p \in 0..Pairs(l) : Sought(l, k, Find(l, k), p)
<1> DEFINE n == Pairs(l)
<1>1. n \in Nat  BY FlatFacts
<1>2. CASE n = 0
  <2>1. Find(l, k) = [found |-> FALSE, pos |-> 0]  BY <1>2 DEF Find
  <2>2. Find(l, k).found = FALSE /\ Find(l, k).pos = 2 * 0  BY <2>1
  <2>3. Sought(l, k, Find(l, k), 0)  BY <1>2, <2>2 DEF Sought
  <2> QED BY <1>1, <2>3
<1>3. CASE n # 0
  <2> DEFINE h == CHOOSE g : g = Steps(l, k, g)
             search == CHOOSE search : search =
               [lr \in (0..n) \X (-1..n - 1) |->
                  IF KeyAt(l, lr[1] + (lr[2] - lr[1]) \div 2) = k
                  THEN [found |-> TRUE, pos |-> 2 * (lr[1] + (lr[2] - lr[1]) \div 2)]
                  ELSE IF KeyAt(l, lr[1] + (lr[2] - lr[1]) \div 2) < k
                       THEN IF (lr[1] + (lr[2] - lr[1]) \div 2) + 1 > lr[2]
                            THEN NotFound(l, lr[1] + (lr[2] - lr[1]) \div 2, k)
                            ELSE search[<<(lr[1] + (lr[2] - lr[1]) \div 2) + 1, lr[2]>>]
                       ELSE IF lr[1] > (lr[1] + (lr[2] - lr[1]) \div 2) - 1
                            THEN NotFound(l, lr[1] + (lr[2] - lr[1]) \div 2, k)
                            ELSE search[<<lr[1], (lr[1] + (lr[2] - lr[1]) \div 2) - 1>>]]
  <2>1. h = Steps(l, k, h)  BY <1>1, SearchExists
  <2>2. Find(l, k) = search[<<0, n - 1>>]  BY <1>3 DEF Find
  <2>3. search = h  BY DEF Steps, Step, Ranges, Half
  <2> HIDE DEF h, search
  <2> DEFINE lr == <<0, n - 1>>
  <2>4. lr \in Ranges(n) /\ lr[1] = 0 /\ lr[2] = n - 1  BY <1>1, <1>3 DEF Ranges
  <2> HIDE DEF lr
  <2>5. Around(l, k, lr)  BY <1>1, <1>3, <2>4 DEF Around
  <2>6. \E p \in 0..Pairs(l) : Sought(l, k, h[lr], p)
    <3>1. \A x \in Ranges(Pairs(l)) :
            Around(l, k, x) => \E p \in 0..Pairs(l) : Sought(l, k, h[x], p)
      BY <2>1, SearchFacts
    <3> QED BY <2>4, <2>5, <3>1
  <2>7. Find(l, k) = h[lr]  BY <2>2, <2>3 DEF lr
  <2> QED BY <2>6, <2>7
<1> QED BY <1>2, <1>3

-----------------------------------------------------------------------------
\* The same entries in b as in a.
SameEntries(b, a) == b.size = a.size /\ \A i \in 0..a.size - 1 : b.mem[i] = a.mem[i]

\* The positions of the iterators that matter, and of none that is not there.
On(l, I) == \A j \in I : \E q \in 0..Pairs(l) : l.pos[j] = 2 * q

LEMMA AtFacts ==
  ASSUME NEW S, NEW a, Kept(S, a), NEW it \in DOMAIN a.pos, NEW p \in -1..a.size
  PROVE  /\ Kept(S, At(a, it, p)) /\ At(a, it, p).mem = a.mem /\ At(a, it, p).size = a.size
         /\ At(a, it, p).alloc = a.alloc
         /\ DOMAIN At(a, it, p).pos = DOMAIN a.pos
         /\ At(a, it, p).pos[it] = p
         /\ \A j \in DOMAIN a.pos \ {it} : At(a, it, p).pos[j] = a.pos[j]
<1> DEFINE q == [a.pos EXCEPT ![it] = p]
           b == At(a, it, p)
<1>0. a.pos = [j \in DOMAIN a.pos |-> a.pos[j]]  BY DEF Kept, Record
<1>1. q = [j \in DOMAIN q |-> q[j]] /\ DOMAIN q = DOMAIN a.pos  OBVIOUS
<1>2. \A j \in DOMAIN q : q[j] = IF j = it THEN p ELSE a.pos[j]  BY <1>0
<1>3. b = [a EXCEPT !.pos = q]
  <2>1. a = [mem |-> a.mem, size |-> a.size, alloc |-> a.alloc, pos |-> a.pos]
    BY DEF Kept, Record
  <2> QED BY <2>1 DEF At
<1> HIDE DEF q
<1>4. \A j \in DOMAIN q : q[j] \in -1..a.size  BY <1>1, <1>2 DEF Kept
<1>5. Kept(S, b) /\ b.mem = a.mem /\ b.size = a.size /\ b.alloc = a.alloc /\ b.pos = q
  BY <1>1, <1>3, <1>4, PositionsOnly
<1> HIDE DEF b
<1> QED BY <1>1, <1>2, <1>5 DEF b

LEMMA RegisterFacts ==
  ASSUME NEW S, NEW a, Kept(S, a), NEW it
  PROVE  /\ Kept(S, Register(a, it)) /\ Register(a, it).mem = a.mem
         /\ Register(a, it).size = a.size
         /\ DOMAIN Register(a, it).pos = DOMAIN a.pos \cup {it}
         /\ Register(a, it).pos[it] = 0
         /\ \A j \in DOMAIN a.pos \ {it} : Register(a, it).pos[j] = a.pos[j]
<1> DEFINE q == [j \in DOMAIN a.pos \cup {it} |-> IF j = it THEN 0 ELSE a.pos[j]]
           b == Register(a, it)
<1>1. /\ q = [j \in DOMAIN q |-> q[j]] /\ DOMAIN q = DOMAIN a.pos \cup {it}
      /\ \A j \in DOMAIN q : q[j] = IF j = it THEN 0 ELSE a.pos[j]
  OBVIOUS
<1>2. b = [a EXCEPT !.pos = q]  BY DEF Register
<1> HIDE DEF q, b
<1>3. \A j \in DOMAIN q : q[j] \in -1..a.size  BY <1>1 DEF Kept
<1>4. Kept(S, b) /\ b.mem = a.mem /\ b.size = a.size /\ b.pos = q
  BY <1>1, <1>2, <1>3, PositionsOnly
<1> QED BY <1>1, <1>4 DEF b

LEMMA UnregisterFacts ==
  ASSUME NEW S, NEW a, Kept(S, a), NEW it
  PROVE  /\ Kept(S, Unregister(a, it)) /\ Unregister(a, it).mem = a.mem
         /\ Unregister(a, it).size = a.size
         /\ DOMAIN Unregister(a, it).pos = DOMAIN a.pos \ {it}
         /\ \A j \in DOMAIN a.pos \ {it} : Unregister(a, it).pos[j] = a.pos[j]
<1> DEFINE q == [j \in DOMAIN a.pos \ {it} |-> a.pos[j]]
           b == Unregister(a, it)
<1>1. /\ q = [j \in DOMAIN q |-> q[j]] /\ DOMAIN q = DOMAIN a.pos \ {it}
      /\ \A j \in DOMAIN q : q[j] = a.pos[j]
  OBVIOUS
<1>2. b = [a EXCEPT !.pos = q]  BY DEF Unregister
<1> HIDE DEF q, b
<1>3. \A j \in DOMAIN q : q[j] \in -1..a.size  BY <1>1 DEF Kept
<1>4. Kept(S, b) /\ b.mem = a.mem /\ b.size = a.size /\ b.pos = q
  BY <1>1, <1>2, <1>3, PositionsOnly
<1> QED BY <1>1, <1>4 DEF b

\* Being flat is about the entries.
LEMMA FlatSame ==
  ASSUME NEW a, Flat(a), NEW b, Kept(Slots, b), SameEntries(b, a)
  PROVE  Flat(b) /\ Pairs(b) = Pairs(a) /\ \A i \in 0..Pairs(a) - 1 : KeyAt(b, i) = KeyAt(a, i)
<1>1. Pairs(a) \in Nat /\ a.size = 2 * Pairs(a)  BY FlatFacts
<1>2. b.size = a.size /\ Pairs(b) = Pairs(a)  BY DEF SameEntries, Pairs
<1>3. \A i \in 0..Pairs(a) - 1 : b.mem[2 * i] = a.mem[2 * i] /\ b.mem[2 * i + 1] = a.mem[2 * i + 1]
  <2> SUFFICES ASSUME NEW i \in 0..Pairs(a) - 1
               PROVE  b.mem[2 * i] = a.mem[2 * i] /\ b.mem[2 * i + 1] = a.mem[2 * i + 1]
    OBVIOUS
  <2>1. 2 * i \in 0..a.size - 1 /\ 2 * i + 1 \in 0..a.size - 1  BY <1>1
  <2> QED BY <2>1 DEF SameEntries
<1>4. \A i \in 0..Pairs(a) - 1 : KeyAt(b, i) = KeyAt(a, i)  BY <1>3 DEF KeyAt
<1> QED BY <1>2, <1>3, <1>4 DEF Flat

-----------------------------------------------------------------------------
\* b is a with the pair of k and v put in as pair p, or without pair p.
PairIn(b, a, p, k, v) ==
  /\ b.size = a.size + 2
  /\ \A i \in 0..Pairs(a) :
       /\ b.mem[2 * i] = IF i < p THEN a.mem[2 * i] ELSE IF i = p THEN Key(k)
                         ELSE a.mem[2 * (i - 1)]
       /\ b.mem[2 * i + 1] = IF i < p THEN a.mem[2 * i + 1] ELSE IF i = p THEN Val(v)
                             ELSE a.mem[2 * (i - 1) + 1]
PairOut(b, a, p) ==
  /\ b.size = a.size - 2
  /\ \A i \in 0..Pairs(a) - 2 :
       /\ b.mem[2 * i] = IF i < p THEN a.mem[2 * i] ELSE a.mem[2 * (i + 1)]
       /\ b.mem[2 * i + 1] = IF i < p THEN a.mem[2 * i + 1] ELSE a.mem[2 * (i + 1) + 1]
PairSet(b, a, p, v) ==
  /\ b.size = a.size
  /\ \A i \in 0..Pairs(a) - 1 :
       /\ b.mem[2 * i] = a.mem[2 * i]
       /\ b.mem[2 * i + 1] = IF i = p THEN Val(v) ELSE a.mem[2 * i + 1]

\* A pair is put in where its key belongs: the list stays flat.
LEMMA PairInFlat ==
  ASSUME NEW a, Flat(a), NEW p \in 0..Pairs(a), NEW k \in Keys, NEW v \in Vals,
         \A i \in 0..Pairs(a) - 1 : i < p => KeyAt(a, i) < k,
         \A i \in 0..Pairs(a) - 1 : i >= p => KeyAt(a, i) > k,
         NEW b, Kept(Slots, b), PairIn(b, a, p, k, v)
  PROVE  /\ Flat(b) /\ Pairs(b) = Pairs(a) + 1
         /\ \A i \in 0..Pairs(a) : KeyAt(b, i) = IF i < p THEN KeyAt(a, i) ELSE IF i = p THEN k
                                                 ELSE KeyAt(a, i - 1)
<1> DEFINE n == Pairs(a)
<1>1. n \in Nat /\ a.size = 2 * n  BY FlatFacts
<1>2. b.size = a.size + 2 /\ Pairs(b) = n + 1  BY <1>1 DEF PairIn, Pairs
<1>3. b.size = 2 * (n + 1)  BY <1>1, <1>2
<1>4. k \in Nat /\ \A i \in 0..n - 1 : KeyAt(a, i) \in Nat  BY FlatFacts, DictAssumption
<1>5. ASSUME NEW i \in 0..n
      PROVE  /\ b.mem[2 * i] \in [key : Keys] /\ b.mem[2 * i + 1] \in [val : Vals]
             /\ KeyAt(b, i) = IF i < p THEN KeyAt(a, i) ELSE IF i = p THEN k ELSE KeyAt(a, i - 1)
  <2>1. CASE i < p
    <3>1. i \in 0..n - 1  BY <1>1, <2>1
    <3>2. b.mem[2 * i] = a.mem[2 * i] /\ b.mem[2 * i + 1] = a.mem[2 * i + 1]
      BY <2>1 DEF PairIn
    <3>3. a.mem[2 * i] \in [key : Keys] /\ a.mem[2 * i + 1] \in [val : Vals]
      BY <3>1 DEF Flat
    <3> QED BY <2>1, <3>2, <3>3 DEF KeyAt
  <2>2. CASE i = p
    <3>1. ~(i < p)  BY <1>1, <2>2
    <3>2. b.mem[2 * i] = Key(k) /\ b.mem[2 * i + 1] = Val(v)  BY <2>2, <3>1 DEF PairIn
    <3> QED BY <2>2, <3>1, <3>2 DEF KeyAt, Key, Val
  <2>3. CASE i > p
    <3>1. i - 1 \in 0..n - 1 /\ ~(i < p) /\ i # p  BY <1>1, <2>3
    <3>2. b.mem[2 * i] = a.mem[2 * (i - 1)] /\ b.mem[2 * i + 1] = a.mem[2 * (i - 1) + 1]
      BY <3>1 DEF PairIn
    <3>3. a.mem[2 * (i - 1)] \in [key : Keys] /\ a.mem[2 * (i - 1) + 1] \in [val : Vals]
      BY <3>1 DEF Flat
    <3> QED BY <3>1, <3>2, <3>3 DEF KeyAt
  <2> QED BY <1>1, <2>1, <2>2, <2>3
<1>6. ASSUME NEW i \in 0..n, NEW j \in 0..n, i < j PROVE KeyAt(b, i) < KeyAt(b, j)
  <2>1. /\ KeyAt(b, i) = IF i < p THEN KeyAt(a, i) ELSE IF i = p THEN k ELSE KeyAt(a, i - 1)
        /\ KeyAt(b, j) = IF j < p THEN KeyAt(a, j) ELSE IF j = p THEN k ELSE KeyAt(a, j - 1)
    BY <1>5
  <2>2. \A x, y \in 0..n - 1 : x < y => KeyAt(a, x) < KeyAt(a, y)  BY FlatFacts
  <2>3. CASE j < p
    <3>1. i < p /\ i \in 0..n - 1 /\ j \in 0..n - 1  BY <1>1, <1>6, <2>3
    <3> QED BY <1>6, <2>1, <2>2, <2>3, <3>1
  <2>4. CASE j = p
    <3>1. i < p /\ i \in 0..n - 1 /\ ~(j < p)  BY <1>1, <1>6, <2>4
    <3>2. KeyAt(b, i) = KeyAt(a, i) /\ KeyAt(b, j) = k  BY <2>1, <2>4, <3>1
    <3> QED BY <3>1, <3>2
  <2>5. CASE j > p
    <3>1. j - 1 \in 0..n - 1 /\ ~(j < p) /\ j # p /\ j - 1 >= p  BY <1>1, <2>5
    <3>2. KeyAt(b, j) = KeyAt(a, j - 1) /\ KeyAt(a, j - 1) > k  BY <2>1, <3>1
    <3>3. CASE i < p
      <4>1. i \in 0..n - 1 /\ i < j - 1  BY <1>1, <2>5, <3>3
      <4>2. KeyAt(b, i) = KeyAt(a, i)  BY <2>1, <3>3
      <4>3. KeyAt(a, i) < KeyAt(a, j - 1)  BY <2>2, <3>1, <4>1
      <4> QED BY <3>2, <4>2, <4>3
    <3>4. CASE i = p
      <4>1. ~(i < p)  BY <1>1, <3>4
      <4>2. KeyAt(b, i) = k  BY <2>1, <3>4, <4>1
      <4>3. KeyAt(a, j - 1) \in Nat  BY <1>4, <3>1
      <4> QED BY <1>4, <3>2, <4>2, <4>3
    <3>5. CASE i > p
      <4>1. i - 1 \in 0..n - 1 /\ i - 1 < j - 1 /\ ~(i < p) /\ i # p  BY <1>1, <1>6, <3>5
      <4>2. KeyAt(b, i) = KeyAt(a, i - 1)  BY <2>1, <4>1
      <4>3. KeyAt(a, i - 1) < KeyAt(a, j - 1)  BY <2>2, <3>1, <4>1
      <4> QED BY <3>2, <4>2, <4>3
    <3> QED BY <1>1, <3>3, <3>4, <3>5
  <2> QED BY <1>1, <2>3, <2>4, <2>5
<1>7. 0..Pairs(b) - 1 = 0..n  BY <1>1, <1>2
<1>8. Flat(b)  BY <1>2, <1>3, <1>5, <1>6, <1>7 DEF Flat
<1> QED BY <1>2, <1>5, <1>8

\* A pair is taken out.
LEMMA PairOutFlat ==
  ASSUME NEW a, Flat(a), NEW p \in 0..Pairs(a) - 1, NEW b, Kept(Slots, b), PairOut(b, a, p)
  PROVE  /\ Flat(b) /\ Pairs(b) = Pairs(a) - 1
         /\ \A i \in 0..Pairs(a) - 2 :
              KeyAt(b, i) = IF i < p THEN KeyAt(a, i) ELSE KeyAt(a, i + 1)
<1> DEFINE n == Pairs(a)
<1>1. n \in Nat /\ a.size = 2 * n  BY FlatFacts
<1>2. b.size = a.size - 2 /\ Pairs(b) = n - 1  BY <1>1 DEF PairOut, Pairs
<1>3. b.size = 2 * (n - 1)  BY <1>1, <1>2
<1>5. ASSUME NEW i \in 0..n - 2
      PROVE  /\ b.mem[2 * i] \in [key : Keys] /\ b.mem[2 * i + 1] \in [val : Vals]
             /\ KeyAt(b, i) = IF i < p THEN KeyAt(a, i) ELSE KeyAt(a, i + 1)
  <2>1. i \in 0..n - 1 /\ i + 1 \in 0..n - 1  BY <1>1
  <2>2. CASE i < p
    <3>1. b.mem[2 * i] = a.mem[2 * i] /\ b.mem[2 * i + 1] = a.mem[2 * i + 1]
      BY <2>2 DEF PairOut
    <3>2. a.mem[2 * i] \in [key : Keys] /\ a.mem[2 * i + 1] \in [val : Vals]
      BY <2>1 DEF Flat
    <3> QED BY <2>2, <3>1, <3>2 DEF KeyAt
  <2>3. CASE ~(i < p)
    <3>1. b.mem[2 * i] = a.mem[2 * (i + 1)] /\ b.mem[2 * i + 1] = a.mem[2 * (i + 1) + 1]
      BY <2>3 DEF PairOut
    <3>2. a.mem[2 * (i + 1)] \in [key : Keys] /\ a.mem[2 * (i + 1) + 1] \in [val : Vals]
      BY <2>1 DEF Flat
    <3> QED BY <2>3, <3>1, <3>2 DEF KeyAt
  <2> QED BY <2>2, <2>3
<1>6. ASSUME NEW i \in 0..n - 2, NEW j \in 0..n - 2, i < j PROVE KeyAt(b, i) < KeyAt(b, j)
  <2>1. /\ KeyAt(b, i) = KeyAt(a, IF i < p THEN i ELSE i + 1)
        /\ KeyAt(b, j) = KeyAt(a, IF j < p THEN j ELSE j + 1)
    BY <1>5
  <2>2. PICK x \in 0..n - 1, y \in 0..n - 1 :
          x = (IF i < p THEN i ELSE i + 1) /\ y = (IF j < p THEN j ELSE j + 1)
    BY <1>1
  <2>3. x < y  BY <1>1, <1>6, <2>2
  <2>4. KeyAt(a, x) < KeyAt(a, y)  BY <2>3, FlatFacts
  <2> QED BY <2>1, <2>2, <2>4
<1>7. 0..Pairs(b) - 1 = 0..n - 2  BY <1>1, <1>2
<1>8. Flat(b)  BY <1>2, <1>3, <1>5, <1>6, <1>7 DEF Flat
<1> QED BY <1>2, <1>5, <1>8

\* The value of a pair is replaced.
LEMMA PairSetFlat ==
  ASSUME NEW a, Flat(a), NEW p \in 0..Pairs(a) - 1, NEW v \in Vals,
         NEW b, Kept(Slots, b), PairSet(b, a, p, v)
  PROVE  /\ Flat(b) /\ Pairs(b) = Pairs(a)
         /\ \A i \in 0..Pairs(a) - 1 : KeyAt(b, i) = KeyAt(a, i)
<1> DEFINE n == Pairs(a)
<1>1. n \in Nat /\ a.size = 2 * n  BY FlatFacts
<1>2. b.size = a.size /\ Pairs(b) = n  BY DEF PairSet, Pairs
<1>3. ASSUME NEW i \in 0..n - 1
      PROVE  /\ b.mem[2 * i] \in [key : Keys] /\ b.mem[2 * i + 1] \in [val : Vals]
             /\ KeyAt(b, i) = KeyAt(a, i)
  <2>1. a.mem[2 * i] \in [key : Keys] /\ a.mem[2 * i + 1] \in [val : Vals]  BY DEF Flat
  <2>2. Val(v) \in [val : Vals]  BY DEF Val
  <2> QED BY <2>1, <2>2 DEF PairSet, KeyAt
<1>4. \A i, j \in 0..n - 1 : i < j => KeyAt(b, i) < KeyAt(b, j)  BY <1>3, FlatFacts
<1>5. Flat(b)  BY <1>1, <1>2, <1>3, <1>4 DEF Flat
<1> QED BY <1>2, <1>3, <1>5

-----------------------------------------------------------------------------
\* Positions that count from the beginning.
LEMMA PutAt ==
  ASSUME NEW S, NEW a, Kept(S, a), NEW pos \in 0..a.size, NEW v \in S
  PROVE  Kept(S, Insert(a, pos, v)) /\ PutInto(Insert(a, pos, v), a, pos, v)
<1>1. a.size \in Nat /\ pos \in Int  BY DEF Kept
<1>2. InRange(pos, a.size, TRUE) /\ Absolute(pos, a.size) = pos  BY <1>1 DEF InRange, Absolute
<1>3. /\ Kept(S, Insert(a, pos, v))
      /\ PutInto(Insert(a, pos, v), a, Absolute(pos, a.size), v)
  BY <1>1, <1>2, InsertFacts
<1> QED BY <1>2, <1>3

LEMMA TakeAt ==
  ASSUME NEW S, NEW a, Kept(S, a), NEW pos \in 0..a.size - 1
  PROVE  Kept(S, Remove(a, pos)) /\ TakenOut(Remove(a, pos), a, pos)
<1>1. a.size \in Nat /\ pos \in Int  BY DEF Kept
<1>2. InRange(pos, a.size, FALSE) /\ Absolute(pos, a.size) = pos  BY <1>1 DEF InRange, Absolute
<1>3. /\ Kept(S, Remove(a, pos))
      /\ TakenOut(Remove(a, pos), a, Absolute(pos, a.size))
  BY <1>1, <1>2, RemoveFacts
<1> QED BY <1>2, <1>3

\* The iterators of the others after both entries of pair p have been put in or out.
PosIn(b, a, p, I) ==
  \A j \in I : b.pos[j] = IF a.pos[j] > 2 * p THEN a.pos[j] + 2 ELSE a.pos[j]
PosOut(b, a, p, I) ==
  \A j \in I : b.pos[j] = IF a.pos[j] > 2 * p THEN a.pos[j] - 2 ELSE a.pos[j]

\* xmmsv_dict_set of a new key: the pair is put in, or nothing changes.
LEMMA AddedFacts ==
  ASSUME NEW a, Flat(a), NEW it \in DOMAIN a.pos, NEW p \in 0..Pairs(a), a.pos[it] = 2 * p,
         NEW O, O = DOMAIN a.pos \ {it}, On(a, O),
         NEW k \in Keys, NEW v \in Vals, NEW b, b \in Added(a, it, k, v)
  PROVE  /\ Kept(Slots, b) /\ DOMAIN b.pos = DOMAIN a.pos
         /\ \/ PairIn(b, a, p, k, v) /\ PosIn(b, a, p, O)
            \/ SameEntries(b, a) /\ \A j \in O : b.pos[j] = a.pos[j]
<1> DEFINE n == Pairs(a)
           I == DOMAIN a.pos
<1>0. /\ n \in Nat /\ a.size = 2 * n /\ Kept(Slots, a)
      /\ Key(k) \in Slots /\ Val(v) \in Slots
  BY FlatFacts DEF Flat, Slots, Key, Val
<1>i. \A j \in I \ {it} : a.pos[j] \in Int /\ (a.pos[j] > 2 * p => a.pos[j] > 2 * p + 1)
  <2> SUFFICES ASSUME NEW j \in I \ {it}
               PROVE  a.pos[j] \in Int /\ (a.pos[j] > 2 * p => a.pos[j] > 2 * p + 1)
    OBVIOUS
  <2>1. PICK q \in 0..n : a.pos[j] = 2 * q  BY DEF On
  <2> QED BY <1>0, <2>1
<1>1. PICK r \in TryInsert(a, it, Key(k), "insert") :
        b \in (IF r.ok
               THEN LET next == Stepped(r.l, it)
                    IN {IF s.ok THEN s.l
                        ELSE Remove(At(next, it, next.pos[it] - 1), next.pos[it] - 1) :
                          s \in TryInsert(next, it, Val(v), "insert")}
               ELSE {r.l})
  BY DEF Added
<1> DEFINE one == Insert(a, 2 * p, Key(k))
<1>2. \/ r = [ok |-> TRUE, l |-> one]
      \/ r = [ok |-> FALSE, l |-> a]
  BY DEF TryInsert
<1>3. CASE r = [ok |-> FALSE, l |-> a]
  <2>1. r.ok = FALSE /\ r.l = a  BY <1>3
  <2>2. b = a  BY <1>1, <2>1
  <2> QED BY <1>0, <2>2 DEF SameEntries
<1>4. CASE r = [ok |-> TRUE, l |-> one]
  <2>1. r.ok = TRUE /\ r.l = one  BY <1>4
  <2> DEFINE next == Stepped(one, it)
  <2>2. b \in {IF s.ok THEN s.l
               ELSE Remove(At(next, it, next.pos[it] - 1), next.pos[it] - 1) :
                 s \in TryInsert(next, it, Val(v), "insert")}
    BY <1>1, <2>1
  <2>3. PICK s \in TryInsert(next, it, Val(v), "insert") :
          b = IF s.ok THEN s.l ELSE Remove(At(next, it, next.pos[it] - 1), next.pos[it] - 1)
    BY <2>2
  <2>4. 2 * p \in 0..a.size  BY <1>0
  <2>5. Kept(Slots, one) /\ PutInto(one, a, 2 * p, Key(k))  BY <1>0, <2>4, PutAt
  <2> HIDE DEF one
  <2>6. /\ one.size = 2 * n + 1 /\ DOMAIN one.pos = I /\ one.pos[it] = 2 * p
        /\ \A j \in I \ {it} : one.pos[j] = IF a.pos[j] > 2 * p THEN a.pos[j] + 1 ELSE a.pos[j]
    <3>1. one.pos = Shifted(a, 2 * p) /\ one.size = a.size + 1  BY <2>5 DEF PutInto
    <3> QED BY <1>0, <3>1 DEF Shifted
  <2>7. next = At(one, it, 2 * p + 1)  BY <1>0, <2>6 DEF Stepped, After
  <2>8. /\ Kept(Slots, next) /\ next.mem = one.mem /\ next.size = 2 * n + 1
        /\ DOMAIN next.pos = I /\ next.pos[it] = 2 * p + 1
        /\ \A j \in I \ {it} : next.pos[j] = IF a.pos[j] > 2 * p THEN a.pos[j] + 1 ELSE a.pos[j]
    <3>1. 2 * p + 1 \in -1..one.size  BY <1>0, <2>6
    <3> HIDE DEF next
    <3> QED BY <2>5, <2>6, <2>7, <3>1, AtFacts
  <2> HIDE DEF next
  <2>9. \A i \in 0..a.size : next.mem[i] = IF i < 2 * p THEN a.mem[i]
                                          ELSE IF i = 2 * p THEN Key(k) ELSE a.mem[i - 1]
    BY <2>5, <2>8 DEF PutInto
  <2> DEFINE two == Insert(next, 2 * p + 1, Val(v))
  <2>10. s = [ok |-> TRUE, l |-> two] \/ s = [ok |-> FALSE, l |-> next]
    BY <2>3, <2>8 DEF TryInsert
  <2>11. CASE s = [ok |-> TRUE, l |-> two]
    <3>1. b = two  BY <2>3, <2>11
    <3>2. 2 * p + 1 \in 0..next.size  BY <1>0, <2>8
    <3>3. Kept(Slots, b) /\ PutInto(b, next, 2 * p + 1, Val(v))
      BY <1>0, <2>8, <3>1, <3>2, PutAt
    <3> HIDE DEF two
    <3>4. b.size = a.size + 2 /\ b.pos = Shifted(next, 2 * p + 1)
      BY <1>0, <2>8, <3>3 DEF PutInto
    <3>5. DOMAIN b.pos = I /\ PosIn(b, a, p, I \ {it})
      <4>1. DOMAIN b.pos = I  BY <2>8, <3>4 DEF Shifted
      <4>2. ASSUME NEW j \in I \ {it}
            PROVE  b.pos[j] = IF a.pos[j] > 2 * p THEN a.pos[j] + 2 ELSE a.pos[j]
        <5>1. b.pos[j] = IF next.pos[j] > 2 * p + 1 THEN next.pos[j] + 1 ELSE next.pos[j]
          BY <2>8, <3>4 DEF Shifted
        <5>2. next.pos[j] = IF a.pos[j] > 2 * p THEN a.pos[j] + 1 ELSE a.pos[j]  BY <2>8
        <5>3. a.pos[j] \in Int /\ (a.pos[j] > 2 * p => a.pos[j] > 2 * p + 1)  BY <1>i
        <5> QED BY <5>1, <5>2, <5>3
      <4> QED BY <4>1, <4>2 DEF PosIn
    <3>6. \A i \in 0..next.size : b.mem[i] = IF i < 2 * p + 1 THEN next.mem[i]
                                  ELSE IF i = 2 * p + 1 THEN Val(v) ELSE next.mem[i - 1]
      BY <3>3 DEF PutInto
    <3>7. ASSUME NEW i \in 0..n
          PROVE  /\ b.mem[2 * i] = IF i < p THEN a.mem[2 * i] ELSE IF i = p THEN Key(k)
                                   ELSE a.mem[2 * (i - 1)]
                 /\ b.mem[2 * i + 1] = IF i < p THEN a.mem[2 * i + 1] ELSE IF i = p THEN Val(v)
                                       ELSE a.mem[2 * (i - 1) + 1]
      <4>1. 2 * i \in 0..next.size /\ 2 * i + 1 \in 0..next.size  BY <1>0, <2>8
      <4>2. CASE i < p
        <5>1. 2 * i < 2 * p + 1 /\ 2 * i + 1 < 2 * p + 1 /\ 2 * i < 2 * p /\ 2 * i + 1 < 2 * p
          BY <4>2
        <5>2. 2 * i \in 0..a.size /\ 2 * i + 1 \in 0..a.size  BY <1>0, <4>2
        <5>3. b.mem[2 * i] = next.mem[2 * i] /\ b.mem[2 * i + 1] = next.mem[2 * i + 1]
          BY <3>6, <4>1, <5>1
        <5>4. next.mem[2 * i] = a.mem[2 * i] /\ next.mem[2 * i + 1] = a.mem[2 * i + 1]
          BY <2>9, <5>1, <5>2
        <5> QED BY <4>2, <5>3, <5>4
      <4>3. CASE i = p
        <5>1. 2 * i < 2 * p + 1 /\ ~(2 * i < 2 * p) /\ ~(2 * i + 1 < 2 * p + 1) /\ ~(i < p)
              /\ 2 * i = 2 * p /\ 2 * i + 1 = 2 * p + 1
          BY <4>3
        <5>2. 2 * i \in 0..a.size  BY <1>0
        <5>3. b.mem[2 * i] = next.mem[2 * i] /\ b.mem[2 * i + 1] = Val(v)
          BY <3>6, <4>1, <5>1
        <5>4. next.mem[2 * i] = Key(k)  BY <2>9, <5>1, <5>2
        <5> QED BY <4>3, <5>1, <5>3, <5>4
      <4>4. CASE i > p
        <5>1. /\ ~(2 * i < 2 * p + 1) /\ 2 * i # 2 * p + 1
              /\ ~(2 * i + 1 < 2 * p + 1) /\ 2 * i + 1 # 2 * p + 1
              /\ ~(i < p) /\ i # p
          BY <4>4
        <5>2. /\ 2 * i - 1 \in 0..a.size /\ ~(2 * i - 1 < 2 * p) /\ 2 * i - 1 # 2 * p
              /\ 2 * i \in 0..a.size /\ ~(2 * i < 2 * p) /\ 2 * i # 2 * p
              /\ (2 * i - 1) - 1 = 2 * (i - 1) /\ 2 * i - 1 = 2 * (i - 1) + 1
              /\ (2 * i + 1) - 1 = 2 * i
          BY <1>0, <4>4
        <5>3. b.mem[2 * i] = next.mem[2 * i - 1] /\ b.mem[2 * i + 1] = next.mem[(2 * i + 1) - 1]
          BY <3>6, <4>1, <5>1
        <5>4. next.mem[2 * i - 1] = a.mem[(2 * i - 1) - 1] /\ next.mem[2 * i] = a.mem[2 * i - 1]
          BY <2>9, <5>2
        <5>5. b.mem[2 * i + 1] = next.mem[2 * i]  BY <5>2, <5>3
        <5>6. b.mem[2 * i] = a.mem[2 * (i - 1)] /\ b.mem[2 * i + 1] = a.mem[2 * (i - 1) + 1]
          BY <5>2, <5>3, <5>4, <5>5
        <5> QED BY <5>1, <5>6
      <4> QED BY <1>0, <4>2, <4>3, <4>4
    <3>8. PairIn(b, a, p, k, v)  BY <3>4, <3>7 DEF PairIn
    <3> QED BY <3>3, <3>5, <3>8
  <2>12. CASE s = [ok |-> FALSE, l |-> next]
    <3> DEFINE back == At(next, it, 2 * p)
    <3>1. b = Remove(back, 2 * p)
      <4>1. next.pos[it] - 1 = 2 * p  BY <1>0, <2>8
      <4>2. s.ok = FALSE  BY <2>12
      <4> QED BY <2>3, <4>1, <4>2
    <3>2. /\ Kept(Slots, back) /\ back.mem = next.mem /\ back.size = 2 * n + 1
          /\ DOMAIN back.pos = I
          /\ \A j \in I \ {it} : back.pos[j] = IF a.pos[j] > 2 * p THEN a.pos[j] + 1 ELSE a.pos[j]
      <4>1. 2 * p \in -1..next.size  BY <1>0, <2>8
      <4> HIDE DEF back
      <4>2. /\ Kept(Slots, At(next, it, 2 * p)) /\ At(next, it, 2 * p).mem = next.mem
            /\ At(next, it, 2 * p).size = next.size
            /\ DOMAIN At(next, it, 2 * p).pos = DOMAIN next.pos
            /\ \A j \in DOMAIN next.pos \ {it} : At(next, it, 2 * p).pos[j] = next.pos[j]
        BY <2>8, <4>1, AtFacts
      <4> QED BY <2>8, <4>2 DEF back
    <3> HIDE DEF back
    <3>3. 2 * p \in 0..back.size - 1  BY <1>0, <3>2
    <3>4. Kept(Slots, b) /\ TakenOut(b, back, 2 * p)  BY <3>1, <3>2, <3>3, TakeAt
    <3>5. b.size = 2 * n /\ b.pos = Closed(back, 2 * p)  BY <1>0, <3>2, <3>4 DEF TakenOut
    <3>6. DOMAIN b.pos = I /\ \A j \in I \ {it} : b.pos[j] = a.pos[j]
      <4>1. DOMAIN b.pos = I  BY <3>2, <3>5 DEF Closed
      <4>2. ASSUME NEW j \in I \ {it} PROVE b.pos[j] = a.pos[j]
        <5>1. b.pos[j] = IF back.pos[j] > 2 * p THEN back.pos[j] - 1 ELSE back.pos[j]
          BY <3>2, <3>5 DEF Closed
        <5>2. back.pos[j] = IF a.pos[j] > 2 * p THEN a.pos[j] + 1 ELSE a.pos[j]  BY <3>2
        <5>3. a.pos[j] \in Int  BY <1>i
        <5> QED BY <5>1, <5>2, <5>3
      <4> QED BY <4>1, <4>2
    <3>7. \A i \in 0..a.size - 1 : b.mem[i] = a.mem[i]
      <4> SUFFICES ASSUME NEW i \in 0..a.size - 1 PROVE b.mem[i] = a.mem[i]  OBVIOUS
      <4>1. i \in 0..back.size - 2 /\ i \in 0..a.size /\ i + 1 \in 0..a.size  BY <1>0, <3>2
      <4>2. b.mem[i] = IF i < 2 * p THEN next.mem[i] ELSE next.mem[i + 1]
        BY <3>2, <3>4, <4>1 DEF TakenOut
      <4>3. CASE i < 2 * p  BY <2>9, <4>1, <4>2, <4>3
      <4>4. CASE ~(i < 2 * p)
        <5>1. ~(i + 1 < 2 * p) /\ i + 1 # 2 * p /\ (i + 1) - 1 = i  BY <1>0, <4>4
        <5>2. next.mem[i + 1] = a.mem[(i + 1) - 1]  BY <2>9, <4>1, <5>1
        <5> QED BY <4>2, <4>4, <5>1, <5>2
      <4> QED BY <4>3, <4>4
    <3>8. SameEntries(b, a)  BY <1>0, <3>5, <3>7 DEF SameEntries
    <3> QED BY <3>4, <3>6, <3>8
  <2> QED BY <2>10, <2>11, <2>12
<1>5. /\ Kept(Slots, b) /\ DOMAIN b.pos = DOMAIN a.pos
      /\ \/ PairIn(b, a, p, k, v) /\ PosIn(b, a, p, I \ {it})
         \/ SameEntries(b, a) /\ \A j \in I \ {it} : b.pos[j] = a.pos[j]
  BY <1>2, <1>3, <1>4
<1> QED BY <1>5

\* The value of a pair is replaced, with nobody behind the pair and memory found.
LEMMA ReplacedFacts ==
  ASSUME NEW a, Flat(a), NEW it \in DOMAIN a.pos, NEW p \in 0..Pairs(a) - 1, a.pos[it] = 2 * p,
         \A j \in DOMAIN a.pos \ {it} : a.pos[j] <= 2 * p,
         "replace" \notin Fails, NEW v \in Vals, NEW b \in Replaced(a, it, v)
  PROVE  /\ Kept(Slots, b) /\ DOMAIN b.pos = DOMAIN a.pos
         /\ PairSet(b, a, p, v) /\ \A j \in DOMAIN a.pos : b.pos[j] = a.pos[j]
<1> DEFINE n == Pairs(a)
           I == DOMAIN a.pos
           there == Stepped(a, it)
           cut == Remove(there, there.pos[it])
           two == Insert(cut, cut.pos[it], Val(v))
<1>0. n \in Nat /\ a.size = 2 * n /\ Kept(Slots, a) /\ Val(v) \in Slots
  BY FlatFacts DEF Flat, Slots, Val
<1>i. \A j \in I : a.pos[j] \in Int  BY <1>0 DEF Kept
<1>1. b = At(two, it, 2 * p)
  <2>1. PICK r \in TryInsert(cut, it, Val(v), "replace") : b = At(r.l, it, a.pos[it])
    BY DEF Replaced
  <2> HIDE DEF cut
  <2>2. r = [ok |-> TRUE, l |-> two]  BY <2>1 DEF TryInsert
  <2> HIDE DEF two
  <2> QED BY <2>1, <2>2
<1>2. there = At(a, it, 2 * p + 1)  BY <1>0 DEF Stepped, After
<1>3. /\ Kept(Slots, there) /\ there.mem = a.mem /\ there.size = 2 * n
      /\ DOMAIN there.pos = I /\ there.pos[it] = 2 * p + 1
      /\ \A j \in I \ {it} : there.pos[j] = a.pos[j]
  <2>1. 2 * p + 1 \in -1..a.size  BY <1>0
  <2> HIDE DEF there
  <2> QED BY <1>0, <1>2, <2>1, AtFacts
<1> HIDE DEF there
<1>4. /\ Kept(Slots, cut) /\ TakenOut(cut, there, 2 * p + 1)
  <2>1. 2 * p + 1 \in 0..there.size - 1  BY <1>0, <1>3
  <2>2. cut = Remove(there, 2 * p + 1)  BY <1>3
  <2> HIDE DEF cut
  <2> QED BY <1>3, <2>1, <2>2, TakeAt
<1> HIDE DEF cut
<1>5. /\ cut.size = 2 * n - 1 /\ DOMAIN cut.pos = I /\ cut.pos[it] = 2 * p + 1
      /\ \A j \in I \ {it} : cut.pos[j] = a.pos[j]
  <2>1. cut.size = 2 * n - 1 /\ cut.pos = Closed(there, 2 * p + 1)
    BY <1>0, <1>3, <1>4 DEF TakenOut
  <2>2. cut.pos[it] = 2 * p + 1  BY <1>3, <2>1 DEF Closed
  <2>3. ASSUME NEW j \in I \ {it} PROVE cut.pos[j] = a.pos[j]
    <3>1. there.pos[j] = a.pos[j] /\ ~(a.pos[j] > 2 * p + 1)  BY <1>3, <1>i
    <3> QED BY <1>3, <2>1, <3>1 DEF Closed
  <2> QED BY <1>3, <2>1, <2>2, <2>3 DEF Closed
<1>6. Kept(Slots, two) /\ PutInto(two, cut, 2 * p + 1, Val(v))
  <2>1. 2 * p + 1 \in 0..cut.size  BY <1>0, <1>5
  <2>2. two = Insert(cut, 2 * p + 1, Val(v))  BY <1>5
  <2> HIDE DEF two
  <2> QED BY <1>0, <1>4, <2>1, <2>2, PutAt
<1> HIDE DEF two
<1>7. /\ two.size = 2 * n /\ DOMAIN two.pos = I
      /\ \A j \in I \ {it} : two.pos[j] = a.pos[j]
  <2>1. two.size = 2 * n /\ two.pos = Shifted(cut, 2 * p + 1)  BY <1>0, <1>5, <1>6 DEF PutInto
  <2>2. ASSUME NEW j \in I \ {it} PROVE two.pos[j] = a.pos[j]
    <3>1. cut.pos[j] = a.pos[j] /\ ~(a.pos[j] > 2 * p + 1)  BY <1>5, <1>i
    <3> QED BY <1>5, <2>1, <3>1 DEF Shifted
  <2> QED BY <1>5, <2>1, <2>2 DEF Shifted
<1>8. /\ Kept(Slots, b) /\ b.mem = two.mem /\ b.size = 2 * n /\ DOMAIN b.pos = I
      /\ \A j \in I : b.pos[j] = a.pos[j]
  <2>1. 2 * p \in -1..two.size /\ it \in DOMAIN two.pos  BY <1>0, <1>7
  <2>2. /\ Kept(Slots, b) /\ b.mem = two.mem /\ b.size = two.size
        /\ DOMAIN b.pos = DOMAIN two.pos /\ b.pos[it] = 2 * p
        /\ \A j \in DOMAIN two.pos \ {it} : b.pos[j] = two.pos[j]
    BY <1>1, <1>6, <2>1, AtFacts
  <2> QED BY <1>7, <2>2
<1>9. \A i \in 0..a.size - 1 : b.mem[i] = IF i = 2 * p + 1 THEN Val(v) ELSE a.mem[i]
  <2> SUFFICES ASSUME NEW i \in 0..a.size - 1
               PROVE  b.mem[i] = IF i = 2 * p + 1 THEN Val(v) ELSE a.mem[i]
    OBVIOUS
  <2>1. i \in 0..cut.size  BY <1>0, <1>5
  <2>2. b.mem[i] = IF i < 2 * p + 1 THEN cut.mem[i] ELSE IF i = 2 * p + 1 THEN Val(v)
                   ELSE cut.mem[i - 1]
    BY <1>6, <1>8, <2>1 DEF PutInto
  <2>3. \A x \in 0..there.size - 2 :
          cut.mem[x] = IF x < 2 * p + 1 THEN a.mem[x] ELSE a.mem[x + 1]
    BY <1>3, <1>4 DEF TakenOut
  <2>4. CASE i < 2 * p + 1
    <3>1. i \in 0..there.size - 2 /\ i # 2 * p + 1  BY <1>0, <1>3, <2>4
    <3> QED BY <2>2, <2>3, <2>4, <3>1
  <2>5. CASE i = 2 * p + 1
    <3>1. ~(i < 2 * p + 1)  BY <2>5
    <3> QED BY <2>2, <2>5, <3>1
  <2>6. CASE i > 2 * p + 1
    <3>1. /\ i - 1 \in 0..there.size - 2 /\ ~(i < 2 * p + 1) /\ i # 2 * p + 1
          /\ ~(i - 1 < 2 * p + 1) /\ (i - 1) + 1 = i
      BY <1>0, <1>3, <2>6
    <3> QED BY <2>2, <2>3, <3>1
  <2> QED BY <1>0, <2>4, <2>5, <2>6
<1>10. PairSet(b, a, p, v)
  <2> SUFFICES ASSUME NEW i \in 0..n - 1
               PROVE  /\ b.mem[2 * i] = a.mem[2 * i]
                      /\ b.mem[2 * i + 1] = IF i = p THEN Val(v) ELSE a.mem[2 * i + 1]
    BY <1>0, <1>8 DEF PairSet
  <2>1. /\ 2 * i \in 0..a.size - 1 /\ 2 * i + 1 \in 0..a.size - 1
        /\ 2 * i # 2 * p + 1 /\ (2 * i + 1 = 2 * p + 1 <=> i = p)
    BY <1>0
  <2> QED BY <1>9, <2>1
<1> QED BY <1>8, <1>10

\* A pair is removed.
LEMMA CutFacts ==
  ASSUME NEW a, Flat(a), NEW it \in DOMAIN a.pos, NEW p \in 0..Pairs(a) - 1, a.pos[it] = 2 * p,
         On(a, DOMAIN a.pos \ {it})
  PROVE  /\ Kept(Slots, Cut(a, it)) /\ DOMAIN Cut(a, it).pos = DOMAIN a.pos
         /\ PairOut(Cut(a, it), a, p)
         /\ Cut(a, it).pos[it] = 2 * p
         /\ PosOut(Cut(a, it), a, p, DOMAIN a.pos \ {it})
<1> DEFINE n == Pairs(a)
           I == DOMAIN a.pos
           one == Remove(a, 2 * p)
           b == Remove(one, 2 * p)
<1>0. n \in Nat /\ a.size = 2 * n /\ Kept(Slots, a)  BY FlatFacts DEF Flat
<1>i. \A j \in I \ {it} : a.pos[j] \in Int /\ (a.pos[j] > 2 * p => a.pos[j] > 2 * p + 1)
  <2> SUFFICES ASSUME NEW j \in I \ {it}
               PROVE  a.pos[j] \in Int /\ (a.pos[j] > 2 * p => a.pos[j] > 2 * p + 1)
    OBVIOUS
  <2>1. PICK q \in 0..n : a.pos[j] = 2 * q  BY DEF On
  <2> QED BY <1>0, <2>1
<1>1. Kept(Slots, one) /\ TakenOut(one, a, 2 * p)
  <2>1. 2 * p \in 0..a.size - 1  BY <1>0
  <2> HIDE DEF one
  <2> QED BY <1>0, <2>1, TakeAt DEF one
<1> HIDE DEF one, b
<1>2. /\ one.size = 2 * n - 1 /\ DOMAIN one.pos = I /\ one.pos[it] = 2 * p
      /\ \A j \in I \ {it} : one.pos[j] = IF a.pos[j] > 2 * p THEN a.pos[j] - 1 ELSE a.pos[j]
  <2>1. one.size = 2 * n - 1 /\ one.pos = Closed(a, 2 * p)  BY <1>0, <1>1 DEF TakenOut
  <2> QED BY <1>0, <2>1 DEF Closed
<1>3. Cut(a, it) = b
  <2>1. Valid(a, it) /\ Valid(one, it)  BY <1>0, <1>2 DEF Valid
  <2>2. one = Remove(a, a.pos[it])  BY DEF one
  <2>3. Cut(a, it) = Remove(one, one.pos[it])  BY <2>1, <2>2 DEF Cut
  <2> QED BY <1>2, <2>3 DEF b
<1>4. Kept(Slots, b) /\ TakenOut(b, one, 2 * p)
  <2>1. 2 * p \in 0..one.size - 1  BY <1>0, <1>2
  <2> QED BY <1>1, <2>1, TakeAt DEF b
<1>5. b.size = 2 * n - 2 /\ b.pos = Closed(one, 2 * p)  BY <1>0, <1>2, <1>4 DEF TakenOut
<1>6. DOMAIN b.pos = I /\ b.pos[it] = 2 * p
  BY <1>2, <1>5 DEF Closed
<1>7. PosOut(b, a, p, I \ {it})
  <2> SUFFICES ASSUME NEW j \in I \ {it}
               PROVE  b.pos[j] = IF a.pos[j] > 2 * p THEN a.pos[j] - 2 ELSE a.pos[j]
    BY DEF PosOut
  <2>1. b.pos[j] = IF one.pos[j] > 2 * p THEN one.pos[j] - 1 ELSE one.pos[j]
    BY <1>2, <1>5 DEF Closed
  <2>2. one.pos[j] = IF a.pos[j] > 2 * p THEN a.pos[j] - 1 ELSE a.pos[j]  BY <1>2
  <2>3. a.pos[j] \in Int /\ (a.pos[j] > 2 * p => a.pos[j] > 2 * p + 1)  BY <1>i
  <2> QED BY <2>1, <2>2, <2>3
<1>8. \A x \in 0..a.size - 2 : one.mem[x] = IF x < 2 * p THEN a.mem[x] ELSE a.mem[x + 1]
  BY <1>1 DEF TakenOut
<1>9. \A x \in 0..one.size - 2 : b.mem[x] = IF x < 2 * p THEN one.mem[x] ELSE one.mem[x + 1]
  BY <1>4 DEF TakenOut
<1>10. ASSUME NEW x \in 0..a.size - 3
       PROVE  b.mem[x] = IF x < 2 * p THEN a.mem[x] ELSE a.mem[x + 2]
  <2>1. x \in 0..one.size - 2 /\ x \in 0..a.size - 2 /\ x + 1 \in 0..a.size - 2
    BY <1>0, <1>2
  <2>2. CASE x < 2 * p  BY <1>8, <1>9, <2>1, <2>2
  <2>3. CASE ~(x < 2 * p)
    <3>1. ~(x + 1 < 2 * p) /\ (x + 1) + 1 = x + 2  BY <1>0, <2>3
    <3>2. b.mem[x] = one.mem[x + 1]  BY <1>9, <2>1, <2>3
    <3>3. one.mem[x + 1] = a.mem[(x + 1) + 1]  BY <1>8, <2>1, <3>1
    <3> QED BY <2>3, <3>1, <3>2, <3>3
  <2> QED BY <2>2, <2>3
<1>11. PairOut(b, a, p)
  <2> SUFFICES ASSUME NEW i \in 0..n - 2
               PROVE  /\ b.mem[2 * i] = IF i < p THEN a.mem[2 * i] ELSE a.mem[2 * (i + 1)]
                      /\ b.mem[2 * i + 1] = IF i < p THEN a.mem[2 * i + 1]
                                            ELSE a.mem[2 * (i + 1) + 1]
    BY <1>0, <1>5 DEF PairOut
  <2>1. /\ 2 * i \in 0..a.size - 3 /\ 2 * i + 1 \in 0..a.size - 3
        /\ 2 * i + 2 = 2 * (i + 1) /\ (2 * i + 1) + 2 = 2 * (i + 1) + 1
        /\ (2 * i < 2 * p <=> i < p) /\ (2 * i + 1 < 2 * p <=> i < p)
    BY <1>0
  <2>2. /\ b.mem[2 * i] = IF 2 * i < 2 * p THEN a.mem[2 * i] ELSE a.mem[2 * i + 2]
        /\ b.mem[2 * i + 1] = IF 2 * i + 1 < 2 * p THEN a.mem[2 * i + 1]
                              ELSE a.mem[(2 * i + 1) + 2]
    BY <1>10, <2>1
  <2>3. CASE i < p  BY <2>1, <2>2, <2>3
  <2>4. CASE ~(i < p)
    <3>1. ~(2 * i < 2 * p) /\ ~(2 * i + 1 < 2 * p)  BY <2>1, <2>4
    <3>2. b.mem[2 * i] = a.mem[2 * i + 2] /\ b.mem[2 * i + 1] = a.mem[(2 * i + 1) + 2]
      BY <2>2, <3>1
    <3> QED BY <2>1, <2>4, <3>2
  <2> QED BY <2>3, <2>4
<1> QED BY <1>3, <1>4, <1>6, <1>7, <1>11

-----------------------------------------------------------------------------
\* The inductive invariant: the flat list is one of pairs in the order of their keys,
\* and the iterators are on the pairs or at the end.
IInv ==
  /\ Flat(d)
  /\ On(d, DOMAIN d.pos)
  /\ DOMAIN d.pos \subseteq Its
  /\ live \in BOOLEAN

\* What the theorems assume of the application and of memory.  A value replaced in
\* front of an iterator, or removed and then not inserted again for want of memory,
\* leaves the list inconsistent.
Orderly == Careful /\ "replace" \notin Fails

\* The function's own iterator finds its place, and no entry changes.
LEMMA LookingFacts ==
  ASSUME IInv, NEW k \in Keys, NEW p \in 0..Pairs(d), Sought(d, k, Find(d, k), p)
  PROVE  /\ Flat(Looking(k)) /\ SameEntries(Looking(k), d) /\ Pairs(Looking(k)) = Pairs(d)
         /\ \A i \in 0..Pairs(d) - 1 : KeyAt(Looking(k), i) = KeyAt(d, i)
         /\ DOMAIN Looking(k).pos = mine \cup {Tmp} /\ Looking(k).pos[Tmp] = 2 * p
         /\ \A j \in mine : Looking(k).pos[j] = d.pos[j]
         /\ On(Looking(k), mine)
         /\ mine = (mine \cup {Tmp}) \ {Tmp}
<1> DEFINE a == Register(d, Tmp)
           b == At(a, Tmp, 2 * p)
<1>1. Pairs(d) \in Nat /\ d.size = 2 * Pairs(d)  BY FlatFacts DEF IInv
<1>2. Kept(Slots, d) /\ Tmp \notin mine  BY DictAssumption DEF IInv, Flat, mine
<1>3. /\ Kept(Slots, a) /\ a.mem = d.mem /\ a.size = d.size /\ DOMAIN a.pos = mine \cup {Tmp}
      /\ \A j \in mine : a.pos[j] = d.pos[j]
  BY <1>2, RegisterFacts DEF mine
<1>4. Looking(k) = b  BY DEF Looking, Sought
<1> HIDE DEF a
<1>5. 2 * p \in -1..a.size  BY <1>1, <1>3
<1>6. /\ Kept(Slots, b) /\ b.mem = d.mem /\ b.size = d.size /\ DOMAIN b.pos = mine \cup {Tmp}
      /\ b.pos[Tmp] = 2 * p /\ \A j \in mine : b.pos[j] = d.pos[j]
  <2>1. Tmp \in DOMAIN a.pos  BY <1>3
  <2>2. /\ Kept(Slots, b) /\ b.mem = a.mem /\ b.size = a.size /\ DOMAIN b.pos = DOMAIN a.pos
        /\ b.pos[Tmp] = 2 * p /\ \A j \in DOMAIN a.pos \ {Tmp} : b.pos[j] = a.pos[j]
    <3>1. Kept(Slots, a)  BY <1>3
    <3>2. PICK q \in -1..a.size : q = 2 * p  BY <1>5
    <3> QED BY <2>1, <3>1, <3>2, AtFacts DEF b
  <2> QED BY <1>2, <1>3, <2>2
<1> HIDE DEF b
<1>7. SameEntries(b, d)  BY <1>6 DEF SameEntries
<1>8. Flat(b) /\ Pairs(b) = Pairs(d) /\ \A i \in 0..Pairs(d) - 1 : KeyAt(b, i) = KeyAt(d, i)
  BY <1>6, <1>7, FlatSame DEF IInv
<1>9. On(b, mine)  BY <1>6, <1>8 DEF IInv, On, mine
<1> QED BY <1>2, <1>4, <1>6, <1>7, <1>8, <1>9

\* What xmmsv_dict_set does: it replaces the value of the key, puts the pair in, or
\* leaves everything as it was.
SetDoes(k, v, p) ==
  /\ Sought(d, k, Find(d, k), p) /\ Kept(Slots, d') /\ mine' = mine
  /\ \/ /\ Find(d, k).found /\ PairSet(d', d, p, v)
        /\ \A j \in mine : d'.pos[j] = d.pos[j]
     \/ ~Find(d, k).found /\ PairIn(d', d, p, k, v) /\ PosIn(d', d, p, mine)
     \/ SameEntries(d', d) /\ \A j \in mine : d'.pos[j] = d.pos[j]

\* Entries and positions are those of a list that is the same but for its iterators.
LEMMA Freed ==
  ASSUME NEW a, Kept(Slots, a), NEW it, NEW b, b = Unregister(a, it)
  PROVE  /\ Kept(Slots, b) /\ b.mem = a.mem /\ b.size = a.size
         /\ DOMAIN b.pos = DOMAIN a.pos \ {it}
         /\ \A j \in DOMAIN a.pos \ {it} : b.pos[j] = a.pos[j]
BY UnregisterFacts

LEMMA DictSetDoes ==
  ASSUME IInv, Orderly, NEW k \in Keys, NEW v \in Vals, DictSet(k, v)
  PROVE  \E p \in 0..Pairs(d) : SetDoes(k, v, p)
<1> DEFINE n == Pairs(d)
           look == Looking(k)
<1>1. n \in Nat /\ d.size = 2 * n /\ Flat(d)  BY FlatFacts DEF IInv
<1>2. PICK p \in 0..n : Sought(d, k, Find(d, k), p)  BY <1>1, FindFacts
<1>3. /\ Flat(look) /\ SameEntries(look, d) /\ Pairs(look) = n
      /\ \A i \in 0..n - 1 : KeyAt(look, i) = KeyAt(d, i)
      /\ DOMAIN look.pos = mine \cup {Tmp} /\ look.pos[Tmp] = 2 * p
      /\ \A j \in mine : look.pos[j] = d.pos[j]
      /\ On(look, mine)
      /\ mine = (mine \cup {Tmp}) \ {Tmp}
  BY <1>2, LookingFacts
<1>4. /\ look.size = d.size
      /\ \A i \in 0..n - 1 : look.mem[2 * i] = d.mem[2 * i] /\ look.mem[2 * i + 1] = d.mem[2 * i + 1]
  <2>1. \A i \in 0..n - 1 : 2 * i \in 0..d.size - 1 /\ 2 * i + 1 \in 0..d.size - 1  BY <1>1
  <2> QED BY <1>3, <2>1 DEF SameEntries
<1> HIDE DEF look
<1>5. CASE Find(d, k).found
  <2>1. p \in 0..n - 1  BY <1>1, <1>2, <1>5 DEF Sought
  <2>2. PICK l \in Replaced(look, Tmp, v) : d' = Unregister(l, Tmp)
    BY <1>5 DEF DictSet, Done, look
  <2>3. \A j \in mine : d.pos[j] <= 2 * p
    <3>1. NoneBehind(Tmp, 2 * p)  BY <1>2, <1>5 DEF DictSet, Sought
    <3>2. Tmp \notin mine  BY <1>3
    <3> QED BY <3>1, <3>2 DEF NoneBehind, Orderly
  <2>4. \A j \in DOMAIN look.pos \ {Tmp} : look.pos[j] <= 2 * p  BY <1>3, <2>3
  <2>5. /\ Kept(Slots, l) /\ DOMAIN l.pos = DOMAIN look.pos /\ PairSet(l, look, p, v)
        /\ \A j \in DOMAIN look.pos : l.pos[j] = look.pos[j]
    <3>1. "replace" \notin Fails  BY DEF Orderly
    <3>2. p \in 0..Pairs(look) - 1  BY <1>3, <2>1
    <3>3. Tmp \in DOMAIN look.pos  BY <1>3
    <3> QED BY <1>3, <2>2, <2>4, <3>1, <3>2, <3>3, ReplacedFacts
  <2>6. PICK b : b = d'  OBVIOUS
  <2>7. /\ Kept(Slots, b) /\ b.mem = l.mem /\ b.size = l.size /\ DOMAIN b.pos = mine
        /\ \A j \in mine : b.pos[j] = l.pos[j]
    <3>1. b = Unregister(l, Tmp)  BY <2>2, <2>6
    <3>2. /\ Kept(Slots, b) /\ b.mem = l.mem /\ b.size = l.size
          /\ DOMAIN b.pos = DOMAIN l.pos \ {Tmp}
          /\ \A j \in DOMAIN l.pos \ {Tmp} : b.pos[j] = l.pos[j]
      BY <2>5, <3>1, Freed
    <3> QED BY <1>3, <2>5, <3>2
  <2>8. PairSet(b, d, p, v)
    <3>1. /\ b.size = look.size
          /\ \A i \in 0..n - 1 :
               /\ b.mem[2 * i] = look.mem[2 * i]
               /\ b.mem[2 * i + 1] = IF i = p THEN Val(v) ELSE look.mem[2 * i + 1]
      BY <1>3, <2>5, <2>7 DEF PairSet
    <3> QED BY <1>4, <3>1 DEF PairSet
  <2>9. \A j \in mine : b.pos[j] = d.pos[j]  BY <1>3, <2>5, <2>7
  <2>10. mine' = mine  BY <2>6, <2>7 DEF mine
  <2> QED BY <1>2, <1>5, <2>6, <2>7, <2>8, <2>9, <2>10 DEF SetDoes
<1>6. CASE ~Find(d, k).found
  <2>1. PICK l \in Added(look, Tmp, k, v) : d' = Unregister(l, Tmp)
    BY <1>6 DEF DictSet, Done, look
  <2>2. /\ Kept(Slots, l) /\ DOMAIN l.pos = DOMAIN look.pos
        /\ \/ PairIn(l, look, p, k, v) /\ PosIn(l, look, p, mine)
           \/ SameEntries(l, look) /\ \A j \in mine : l.pos[j] = look.pos[j]
    <3>1. Tmp \in DOMAIN look.pos /\ mine = DOMAIN look.pos \ {Tmp}  BY <1>3
    <3>2. On(look, DOMAIN look.pos \ {Tmp}) /\ p \in 0..Pairs(look)  BY <1>3, <3>1
    <3>3. QED
      <4>1. PICK a : a = look  OBVIOUS
      <4>2. PICK I : I = DOMAIN a.pos \ {Tmp} /\ I = mine  BY <3>1, <4>1
      <4>3. Flat(a) /\ a.pos[Tmp] = 2 * p /\ Tmp \in DOMAIN a.pos /\ p \in 0..Pairs(a)
        BY <1>3, <3>1, <3>2, <4>1
      <4>4. On(a, I) /\ l \in Added(a, Tmp, k, v)  BY <2>1, <3>2, <4>1, <4>2
      <4>5. /\ Kept(Slots, l) /\ DOMAIN l.pos = DOMAIN a.pos
            /\ \/ PairIn(l, a, p, k, v) /\ PosIn(l, a, p, I)
               \/ SameEntries(l, a) /\ \A j \in I : l.pos[j] = a.pos[j]
        BY <4>2, <4>3, <4>4, AddedFacts
      <4> QED BY <4>1, <4>2, <4>5
  <2>3. PICK b : b = d'  OBVIOUS
  <2>4. /\ Kept(Slots, b) /\ b.mem = l.mem /\ b.size = l.size /\ DOMAIN b.pos = mine
        /\ \A j \in mine : b.pos[j] = l.pos[j]
    <3>1. b = Unregister(l, Tmp)  BY <2>1, <2>3
    <3>2. /\ Kept(Slots, b) /\ b.mem = l.mem /\ b.size = l.size
          /\ DOMAIN b.pos = DOMAIN l.pos \ {Tmp}
          /\ \A j \in DOMAIN l.pos \ {Tmp} : b.pos[j] = l.pos[j]
      BY <2>2, <3>1, Freed
    <3> QED BY <1>3, <2>2, <3>2
  <2>5. mine' = mine  BY <2>3, <2>4 DEF mine
  <2>6. CASE PairIn(l, look, p, k, v) /\ PosIn(l, look, p, mine)
    <3>1. PairIn(b, d, p, k, v)
      <4>1. /\ b.size = d.size + 2
            /\ \A i \in 0..n :
                 /\ b.mem[2 * i] = IF i < p THEN look.mem[2 * i] ELSE IF i = p THEN Key(k)
                                   ELSE look.mem[2 * (i - 1)]
                 /\ b.mem[2 * i + 1] = IF i < p THEN look.mem[2 * i + 1]
                                       ELSE IF i = p THEN Val(v) ELSE look.mem[2 * (i - 1) + 1]
        BY <1>3, <1>4, <2>4, <2>6 DEF PairIn
      <4>2. ASSUME NEW i \in 0..n
            PROVE  /\ b.mem[2 * i] = IF i < p THEN d.mem[2 * i] ELSE IF i = p THEN Key(k)
                                   ELSE d.mem[2 * (i - 1)]
                   /\ b.mem[2 * i + 1] = IF i < p THEN d.mem[2 * i + 1]
                                         ELSE IF i = p THEN Val(v) ELSE d.mem[2 * (i - 1) + 1]
        <5>1. CASE i < p
          <6>1. i \in 0..n - 1  BY <1>1, <5>1
          <6>2. look.mem[2 * i] = d.mem[2 * i] /\ look.mem[2 * i + 1] = d.mem[2 * i + 1]
            BY <1>4, <6>1
          <6>3. b.mem[2 * i] = look.mem[2 * i] /\ b.mem[2 * i + 1] = look.mem[2 * i + 1]
            BY <4>1, <5>1
          <6> QED BY <5>1, <6>2, <6>3
        <5>2. CASE i = p
          <6>1. ~(i < p)  BY <5>2
          <6>2. b.mem[2 * i] = Key(k) /\ b.mem[2 * i + 1] = Val(v)  BY <4>1, <5>2, <6>1
          <6> QED BY <5>2, <6>1, <6>2
        <5>3. CASE i > p
          <6>1. i - 1 \in 0..n - 1 /\ ~(i < p) /\ i # p  BY <1>1, <5>3
          <6>2. PICK x \in 0..n - 1 : x = i - 1  BY <6>1
          <6>3. look.mem[2 * x] = d.mem[2 * x] /\ look.mem[2 * x + 1] = d.mem[2 * x + 1]
            BY <1>4
          <6>4. b.mem[2 * i] = look.mem[2 * x] /\ b.mem[2 * i + 1] = look.mem[2 * x + 1]
            BY <4>1, <6>1, <6>2
          <6>5. b.mem[2 * i] = d.mem[2 * x] /\ b.mem[2 * i + 1] = d.mem[2 * x + 1]
            BY <6>3, <6>4
          <6> QED BY <6>1, <6>2, <6>5
        <5> QED BY <1>1, <5>1, <5>2, <5>3
      <4> QED BY <4>1, <4>2 DEF PairIn
    <3>2. PosIn(b, d, p, mine)  BY <1>3, <2>4, <2>6 DEF PosIn
    <3> QED BY <1>2, <1>6, <2>3, <2>4, <2>5, <3>1, <3>2 DEF SetDoes
  <2>7. CASE SameEntries(l, look) /\ \A j \in mine : l.pos[j] = look.pos[j]
    <3>1. SameEntries(b, d)  BY <1>3, <1>4, <2>4, <2>7 DEF SameEntries
    <3>2. \A j \in mine : b.pos[j] = d.pos[j]  BY <1>3, <2>4, <2>7
    <3> QED BY <1>2, <2>3, <2>4, <2>5, <3>1, <3>2 DEF SetDoes
  <2> QED BY <2>2, <2>6, <2>7
<1> QED BY <1>5, <1>6

\* What a removal of pair p does to the list and to the iterators.
CutDoes(p) ==
  /\ Kept(Slots, d') /\ mine' = mine
  /\ PairOut(d', d, p) /\ PosOut(d', d, p, mine)

LEMMA DictRemoveDoes ==
  ASSUME IInv, NEW k \in Keys, DictRemove(k)
  PROVE  \/ ~Find(d, k).found /\ UNCHANGED d
         \/ \E p \in 0..Pairs(d) - 1 : KeyAt(d, p) = k /\ CutDoes(p)
<1> DEFINE n == Pairs(d)
           look == Looking(k)
<1>1. n \in Nat /\ d.size = 2 * n /\ Flat(d)  BY FlatFacts DEF IInv
<1>2. CASE ~Find(d, k).found  BY <1>2 DEF DictRemove
<1>3. CASE Find(d, k).found
  <2>1. PICK p \in 0..n : Sought(d, k, Find(d, k), p)  BY <1>1, FindFacts
  <2>2. p \in 0..n - 1 /\ KeyAt(d, p) = k  BY <1>1, <1>3, <2>1 DEF Sought
  <2>3. /\ Flat(look) /\ SameEntries(look, d) /\ Pairs(look) = n
        /\ DOMAIN look.pos = mine \cup {Tmp} /\ look.pos[Tmp] = 2 * p
        /\ \A j \in mine : look.pos[j] = d.pos[j]
        /\ On(look, mine)
        /\ mine = (mine \cup {Tmp}) \ {Tmp}
    BY <2>1, LookingFacts
  <2>4. d' = Unregister(Cut(look, Tmp), Tmp)  BY <1>3 DEF DictRemove, Done
  <2>5. PICK a, l : a = look /\ l = Cut(look, Tmp)  OBVIOUS
  <2> HIDE DEF look
  <2>6. Tmp \in DOMAIN a.pos /\ mine = DOMAIN a.pos \ {Tmp}  BY <2>3, <2>5
  <2>7. PICK O : O = mine  OBVIOUS
  <2>8. /\ Kept(Slots, l) /\ DOMAIN l.pos = DOMAIN a.pos /\ PairOut(l, a, p)
        /\ PosOut(l, a, p, O)
    <3>1. Flat(a) /\ p \in 0..Pairs(a) - 1 /\ a.pos[Tmp] = 2 * p  BY <2>2, <2>3, <2>5
    <3>2. O = DOMAIN a.pos \ {Tmp} /\ On(a, O)  BY <2>3, <2>5, <2>6, <2>7
    <3>3. l = Cut(a, Tmp)  BY <2>5
    <3> QED BY <2>6, <3>1, <3>2, <3>3, CutFacts
  <2>9. PICK b : b = d'  OBVIOUS
  <2>10. /\ Kept(Slots, b) /\ b.mem = l.mem /\ b.size = l.size /\ DOMAIN b.pos = mine
         /\ \A j \in mine : b.pos[j] = l.pos[j]
    <3>1. b = Unregister(l, Tmp)  BY <2>4, <2>5, <2>9
    <3>2. /\ Kept(Slots, b) /\ b.mem = l.mem /\ b.size = l.size
          /\ DOMAIN b.pos = DOMAIN l.pos \ {Tmp}
          /\ \A j \in DOMAIN l.pos \ {Tmp} : b.pos[j] = l.pos[j]
      BY <2>8, <3>1, Freed
    <3> QED BY <2>6, <2>8, <3>2
  <2>11. PairOut(b, d, p)
    <3>1. \A i \in 0..n - 1 : a.mem[2 * i] = d.mem[2 * i] /\ a.mem[2 * i + 1] = d.mem[2 * i + 1]
      <4>1. \A i \in 0..n - 1 : 2 * i \in 0..d.size - 1 /\ 2 * i + 1 \in 0..d.size - 1  BY <1>1
      <4> QED BY <2>3, <2>5, <4>1 DEF SameEntries
    <3>2. /\ b.size = d.size - 2
          /\ \A i \in 0..n - 2 :
               /\ b.mem[2 * i] = IF i < p THEN a.mem[2 * i] ELSE a.mem[2 * (i + 1)]
               /\ b.mem[2 * i + 1] = IF i < p THEN a.mem[2 * i + 1] ELSE a.mem[2 * (i + 1) + 1]
      BY <2>3, <2>5, <2>8, <2>10 DEF PairOut, SameEntries
    <3>3. ASSUME NEW i \in 0..n - 2
          PROVE  /\ b.mem[2 * i] = IF i < p THEN d.mem[2 * i] ELSE d.mem[2 * (i + 1)]
                 /\ b.mem[2 * i + 1] = IF i < p THEN d.mem[2 * i + 1] ELSE d.mem[2 * (i + 1) + 1]
      <4>1. PICK x \in 0..n - 1 : x = i  BY <1>1
      <4>2. PICK y \in 0..n - 1 : y = i + 1  BY <1>1
      <4>3. /\ a.mem[2 * x] = d.mem[2 * x] /\ a.mem[2 * x + 1] = d.mem[2 * x + 1]
            /\ a.mem[2 * y] = d.mem[2 * y] /\ a.mem[2 * y + 1] = d.mem[2 * y + 1]
        BY <3>1
      <4>4. /\ b.mem[2 * x] = IF x < p THEN a.mem[2 * x] ELSE a.mem[2 * y]
            /\ b.mem[2 * x + 1] = IF x < p THEN a.mem[2 * x + 1] ELSE a.mem[2 * y + 1]
        BY <3>2, <4>1, <4>2
      <4>5. /\ b.mem[2 * x] = IF x < p THEN d.mem[2 * x] ELSE d.mem[2 * y]
            /\ b.mem[2 * x + 1] = IF x < p THEN d.mem[2 * x + 1] ELSE d.mem[2 * y + 1]
        BY <4>3, <4>4
      <4> QED BY <4>1, <4>2, <4>5
    <3> QED BY <3>2, <3>3 DEF PairOut
  <2>12. PosOut(b, d, p, mine)  BY <2>3, <2>5, <2>7, <2>8, <2>10 DEF PosOut
  <2>13. mine' = mine  BY <2>9, <2>10 DEF mine
  <2> QED BY <2>2, <2>9, <2>10, <2>11, <2>12, <2>13 DEF CutDoes
<1> QED BY <1>2, <1>3

\* An iterator of the application that is valid stands on a pair.
LEMMA ValidOnPair ==
  ASSUME IInv, NEW it \in mine, Valid(d, it)
  PROVE  \E p \in 0..Pairs(d) - 1 : d.pos[it] = 2 * p
<1>1. Pairs(d) \in Nat /\ d.size = 2 * Pairs(d)  BY FlatFacts DEF IInv
<1>2. PICK p \in 0..Pairs(d) : d.pos[it] = 2 * p  BY DEF IInv, On, mine
<1>3. p \in 0..Pairs(d) - 1  BY <1>1, <1>2 DEF Valid
<1> QED BY <1>2, <1>3

LEMMA IterRemoveDoes ==
  ASSUME IInv, NEW it \in Its, IterRemove(it)
  PROVE  \/ ~Valid(d, it) /\ UNCHANGED d
         \/ \E p \in 0..Pairs(d) - 1 : Valid(d, it) /\ d.pos[it] = 2 * p /\ CutDoes(p)
<1>1. it \in mine /\ d' = Cut(d, it)  BY DEF IterRemove
<1>2. CASE ~Valid(d, it)  BY <1>1, <1>2 DEF Cut
<1>3. CASE Valid(d, it)
  <2>1. PICK p \in 0..Pairs(d) - 1 : d.pos[it] = 2 * p  BY <1>1, <1>3, ValidOnPair
  <2>2. PICK a, b : a = d /\ b = Cut(a, it)  OBVIOUS
  <2>3. Flat(a) /\ it \in DOMAIN a.pos /\ p \in 0..Pairs(a) - 1 /\ a.pos[it] = 2 * p
    BY <1>1, <2>1, <2>2 DEF IInv, mine
  <2>4. PICK O : O = DOMAIN a.pos \ {it}  OBVIOUS
  <2>5. On(a, O)  BY <2>2, <2>4 DEF IInv, On
  <2>6. /\ Kept(Slots, b) /\ DOMAIN b.pos = DOMAIN a.pos /\ PairOut(b, a, p)
        /\ b.pos[it] = 2 * p /\ PosOut(b, a, p, O)
    BY <2>2, <2>3, <2>4, <2>5, CutFacts
  <2>7. PosOut(b, a, p, DOMAIN a.pos)
    <3> SUFFICES ASSUME NEW j \in DOMAIN a.pos
                 PROVE  b.pos[j] = IF a.pos[j] > 2 * p THEN a.pos[j] - 2 ELSE a.pos[j]
      BY DEF PosOut
    <3>1. CASE j = it  BY <2>3, <2>6, <3>1
    <3>2. CASE j # it  BY <2>4, <2>6, <3>2 DEF PosOut
    <3> QED BY <3>1, <3>2
  <2>8. d' = b  BY <1>1, <2>2
  <2>9. CutDoes(p)  BY <2>2, <2>6, <2>7, <2>8 DEF CutDoes, mine
  <2> QED BY <1>3, <2>1, <2>9
<1> QED BY <1>2, <1>3

LEMMA IterSetDoes ==
  ASSUME IInv, Orderly, NEW it \in Its, NEW v \in Vals, IterSet(it, v)
  PROVE  /\ it \in mine /\ Valid(d, it)
         /\ \E p \in 0..Pairs(d) - 1 :
              /\ d.pos[it] = 2 * p /\ PairSet(d', d, p, v) /\ Kept(Slots, d') /\ mine' = mine
              /\ \A j \in mine : d'.pos[j] = d.pos[j]
<1>1. it \in mine /\ Valid(d, it) /\ d' \in Replaced(d, it, v)  BY DEF IterSet
<1>2. PICK p \in 0..Pairs(d) - 1 : d.pos[it] = 2 * p  BY <1>1, ValidOnPair
<1>3. \A j \in DOMAIN d.pos \ {it} : d.pos[j] <= 2 * p
  BY <1>2 DEF IterSet, NoneBehind, Orderly, mine
<1>4. PICK a, b : a = d /\ b = d'  OBVIOUS
<1>5. /\ Flat(a) /\ it \in DOMAIN a.pos /\ p \in 0..Pairs(a) - 1 /\ a.pos[it] = 2 * p
      /\ \A j \in DOMAIN a.pos \ {it} : a.pos[j] <= 2 * p
      /\ b \in Replaced(a, it, v)
  BY <1>1, <1>2, <1>3, <1>4 DEF IInv, mine
<1>6. "replace" \notin Fails  BY DEF Orderly
<1>7. /\ Kept(Slots, b) /\ DOMAIN b.pos = DOMAIN a.pos
      /\ PairSet(b, a, p, v) /\ \A j \in DOMAIN a.pos : b.pos[j] = a.pos[j]
  BY <1>5, <1>6, ReplacedFacts
<1> QED BY <1>1, <1>2, <1>4, <1>7 DEF mine

-----------------------------------------------------------------------------
\* The iterators stay on the pairs.
LEMMA OnIn ==
  ASSUME NEW a, NEW b, NEW I, NEW p \in 0..Pairs(a), Pairs(a) \in Nat,
         Pairs(b) = Pairs(a) + 1, On(a, I), PosIn(b, a, p, I)
  PROVE  On(b, I)
<1> SUFFICES ASSUME NEW j \in I PROVE \E q \in 0..Pairs(b) : b.pos[j] = 2 * q  BY DEF On
<1>1. PICK q \in 0..Pairs(a) : a.pos[j] = 2 * q  BY DEF On
<1>2. b.pos[j] = IF 2 * q > 2 * p THEN 2 * q + 2 ELSE 2 * q  BY <1>1 DEF PosIn
<1>3. CASE q > p
  <2>1. b.pos[j] = 2 * (q + 1) /\ q + 1 \in 0..Pairs(b)  BY <1>2, <1>3
  <2> QED BY <2>1
<1>4. CASE ~(q > p)
  <2>1. b.pos[j] = 2 * q /\ q \in 0..Pairs(b)  BY <1>2, <1>4
  <2> QED BY <2>1
<1> QED BY <1>3, <1>4

LEMMA OnOut ==
  ASSUME NEW a, NEW b, NEW I, NEW p \in 0..Pairs(a) - 1, Pairs(a) \in Nat,
         Pairs(b) = Pairs(a) - 1, On(a, I), PosOut(b, a, p, I)
  PROVE  On(b, I)
<1> SUFFICES ASSUME NEW j \in I PROVE \E q \in 0..Pairs(b) : b.pos[j] = 2 * q  BY DEF On
<1>1. PICK q \in 0..Pairs(a) : a.pos[j] = 2 * q  BY DEF On
<1>2. b.pos[j] = IF 2 * q > 2 * p THEN 2 * q - 2 ELSE 2 * q  BY <1>1 DEF PosOut
<1>3. CASE q > p
  <2>1. b.pos[j] = 2 * (q - 1) /\ q - 1 \in 0..Pairs(b)  BY <1>2, <1>3
  <2> QED BY <2>1
<1>4. CASE ~(q > p)
  <2>1. b.pos[j] = 2 * q /\ q \in 0..Pairs(b)  BY <1>2, <1>4
  <2> QED BY <2>1
<1> QED BY <1>3, <1>4

LEMMA OnSame ==
  ASSUME NEW a, NEW b, NEW I, Pairs(b) = Pairs(a), On(a, I), \A j \in I : b.pos[j] = a.pos[j]
  PROVE  On(b, I)
BY DEF On

-----------------------------------------------------------------------------
\* A step that moves one iterator, or adds or removes one, changes no entry.
QuietStep ==
  /\ Kept(Slots, d') /\ SameEntries(d', d)
  /\ DOMAIN d'.pos \subseteq Its /\ On(d', DOMAIN d'.pos)

LEMMA PlacedOnPair ==
  ASSUME IInv, NEW it \in mine, NEW q \in 0..Pairs(d), d' = At(d, it, 2 * q)
  PROVE  QuietStep
<1>1. Pairs(d) \in Nat /\ d.size = 2 * Pairs(d)  BY FlatFacts DEF IInv
<1>2. PICK a, b : a = d /\ b = At(d, it, 2 * q) /\ b = d'  OBVIOUS
<1>3. Kept(Slots, a) /\ it \in DOMAIN a.pos /\ 2 * q \in -1..a.size
  BY <1>1, <1>2 DEF IInv, Flat, mine
<1>4. /\ Kept(Slots, b) /\ b.mem = a.mem /\ b.size = a.size /\ DOMAIN b.pos = DOMAIN a.pos
      /\ b.pos[it] = 2 * q /\ \A j \in DOMAIN a.pos \ {it} : b.pos[j] = a.pos[j]
  <2>1. PICK x : x = 2 * q  OBVIOUS
  <2>2. b = At(a, it, x) /\ x \in -1..a.size  BY <1>2, <1>3, <2>1
  <2> QED BY <1>3, <2>1, <2>2, AtFacts
<1>5. SameEntries(b, a)  BY <1>4 DEF SameEntries
<1>6. On(b, DOMAIN b.pos)
  <2> SUFFICES ASSUME NEW j \in DOMAIN a.pos PROVE \E x \in 0..Pairs(b) : b.pos[j] = 2 * x
    BY <1>4 DEF On
  <2>1. Pairs(b) = Pairs(a)  BY <1>4 DEF Pairs
  <2>2. CASE j = it  BY <1>2, <1>4, <2>1, <2>2
  <2>3. CASE j # it
    <3>1. \E x \in 0..Pairs(a) : a.pos[j] = 2 * x  BY <1>2 DEF IInv, On
    <3> QED BY <1>4, <2>1, <2>3, <3>1
  <2> QED BY <2>2, <2>3
<1> QED BY <1>2, <1>4, <1>5, <1>6 DEF QuietStep, IInv

LEMMA IterStepDoes ==
  ASSUME IInv, NEW it \in Its, IterStep(it)
  PROVE  QuietStep
<1>1. it \in mine  BY DEF IterStep
<1>2. Pairs(d) \in Nat /\ d.size = 2 * Pairs(d) /\ Flat(d)  BY FlatFacts DEF IInv
<1>3. CASE d' = At(d, it, 0)
  <2>1. PICK q \in 0..Pairs(d) : q = 0  BY <1>2
  <2>2. d' = At(d, it, 2 * q)  BY <1>3, <2>1
  <2> QED BY <1>1, <2>2, PlacedOnPair
<1>4. CASE d' = Stepped(Stepped(d, it), it)
  <2>1. PICK q \in 0..Pairs(d) : d.pos[it] = 2 * q  BY <1>1 DEF IInv, On, mine
  <2>2. PICK x \in 0..d.size : x = After(d, 2 * q) /\ x = IF q < Pairs(d) THEN 2 * q + 1 ELSE 2 * q
    BY <1>2 DEF After
  <2>3. PICK a : a = At(d, it, x)  OBVIOUS
  <2>4. Stepped(d, it) = a  BY <2>1, <2>2, <2>3 DEF Stepped
  <2>5. Kept(Slots, d) /\ it \in DOMAIN d.pos /\ x \in -1..d.size
    BY <1>1, <1>2 DEF Flat, mine
  <2>6. a.size = d.size /\ a.pos[it] = x  BY <2>3, <2>5, AtFacts
  <2>7. PICK z \in 0..Pairs(d) : After(a, x) = 2 * z
    <3>1. CASE q < Pairs(d)
      <4>1. After(a, x) = 2 * (q + 1) /\ q + 1 \in 0..Pairs(d)  BY <1>2, <2>2, <2>6, <3>1 DEF After
      <4> QED BY <4>1
    <3>2. CASE ~(q < Pairs(d))
      <4>1. After(a, x) = 2 * q  BY <1>2, <2>2, <2>6, <3>2 DEF After
      <4> QED BY <4>1
    <3> QED BY <3>1, <3>2
  <2>8. d' = At(a, it, 2 * z)  BY <1>4, <2>4, <2>6, <2>7 DEF Stepped
  <2>9. At(a, it, 2 * z) = At(d, it, 2 * z)
    <3>1. d = [mem |-> d.mem, size |-> d.size, alloc |-> d.alloc, pos |-> d.pos]
      BY <2>5 DEF Kept, Record
    <3> DEFINE p1 == [d.pos EXCEPT ![it] = x]
               p2 == [d.pos EXCEPT ![it] = 2 * z]
    <3>2. a = [d EXCEPT !.pos = p1]
      BY <2>3, <3>1 DEF At
    <3>3. At(d, it, 2 * z) = [d EXCEPT !.pos = p2]  BY <3>1 DEF At
    <3>4. [p1 EXCEPT ![it] = 2 * z] = p2  OBVIOUS
    <3>5. a.pos = p1
      <4> HIDE DEF p1
      <4> QED BY <3>1, <3>2
    <3>6. At(a, it, 2 * z) = [a EXCEPT !.pos = [a.pos EXCEPT ![it] = 2 * z]]  BY DEF At
    <3>7. At(a, it, 2 * z) = [a EXCEPT !.pos = p2]  BY <3>4, <3>5, <3>6
    <3> HIDE DEF p1, p2
    <3> QED BY <3>1, <3>2, <3>3, <3>7
  <2>10. d' = At(d, it, 2 * z)  BY <2>8, <2>9
  <2> QED BY <1>1, <2>10, PlacedOnPair
<1>5. ASSUME NEW k \in Keys, d' = At(d, it, Find(d, k).pos) PROVE QuietStep
  <2>1. PICK q \in 0..Pairs(d) : Sought(d, k, Find(d, k), q)  BY <1>2, FindFacts
  <2>2. d' = At(d, it, 2 * q)  BY <1>5, <2>1 DEF Sought
  <2> QED BY <1>1, <2>2, PlacedOnPair
<1> QED BY <1>3, <1>4, <1>5 DEF IterStep

LEMMA GetIterDoes ==
  ASSUME IInv, NEW it \in Its, GetIter(it)
  PROVE  QuietStep
<1>1. Pairs(d) \in Nat  BY FlatFacts DEF IInv
<1>2. PICK a, b : a = d /\ b = Register(a, it) /\ b = d'  BY DEF GetIter
<1>3. Kept(Slots, a)  BY <1>2 DEF IInv, Flat
<1>4. /\ Kept(Slots, b) /\ b.mem = a.mem /\ b.size = a.size
      /\ DOMAIN b.pos = DOMAIN a.pos \cup {it}
      /\ b.pos[it] = 0 /\ \A j \in DOMAIN a.pos \ {it} : b.pos[j] = a.pos[j]
  <2>1. b = Register(a, it)  BY <1>2
  <2> QED BY <1>3, <2>1, RegisterFacts
<1>5. On(b, DOMAIN b.pos)
  <2> SUFFICES ASSUME NEW j \in DOMAIN b.pos PROVE \E x \in 0..Pairs(b) : b.pos[j] = 2 * x
    BY DEF On
  <2>1. Pairs(b) = Pairs(a)  BY <1>4 DEF Pairs
  <2>2. CASE j = it
    <3>1. 0 \in 0..Pairs(b) /\ b.pos[j] = 2 * 0  BY <1>1, <1>2, <1>4, <2>1, <2>2
    <3> QED BY <3>1
  <2>3. CASE j # it
    <3>1. \E x \in 0..Pairs(a) : a.pos[j] = 2 * x  BY <1>2, <1>4, <2>3 DEF IInv, On
    <3> QED BY <1>4, <2>1, <2>3, <3>1
  <2> QED BY <2>2, <2>3
<1>6. DOMAIN b.pos \subseteq Its  BY <1>2, <1>4 DEF IInv
<1>7. SameEntries(b, a)  BY <1>4 DEF SameEntries
<1> QED BY <1>2, <1>4, <1>5, <1>6, <1>7 DEF QuietStep

LEMMA DestroyIterDoes ==
  ASSUME IInv, NEW it \in Its, DestroyIter(it)
  PROVE  QuietStep
<1>1. PICK a, b : a = d /\ b = Unregister(a, it) /\ b = d'  BY DEF DestroyIter
<1>2. Kept(Slots, a)  BY <1>1 DEF IInv, Flat
<1>3. /\ Kept(Slots, b) /\ b.mem = a.mem /\ b.size = a.size
      /\ DOMAIN b.pos = DOMAIN a.pos \ {it}
      /\ \A j \in DOMAIN a.pos \ {it} : b.pos[j] = a.pos[j]
  <2>1. b = Unregister(a, it)  BY <1>1
  <2> QED BY <1>2, <2>1, Freed
<1>4. On(b, DOMAIN b.pos)
  <2>1. Pairs(b) = Pairs(a)  BY <1>3 DEF Pairs
  <2> QED BY <1>1, <1>3, <2>1 DEF IInv, On
<1>5. SameEntries(b, a)  BY <1>3 DEF SameEntries
<1> QED BY <1>1, <1>3, <1>4, <1>5 DEF QuietStep, IInv

\* The list that holds nothing.
EmptyStep ==
  /\ Kept(Slots, d') /\ d'.size = 0
  /\ DOMAIN d'.pos \subseteq mine /\ \A j \in DOMAIN d'.pos : d'.pos[j] = 0

LEMMA DictClearDoes ==
  ASSUME IInv, DictClear
  PROVE  EmptyStep
<1> DEFINE mem == [i \in {} |-> Junk]
           q == [j \in DOMAIN d.pos |-> 0]
           b == [d EXCEPT !.mem = mem, !.size = 0, !.alloc = 0, !.pos = q]
<1>1. d' = b  BY DEF DictClear, Clear
<1>2. d = [mem |-> d.mem, size |-> d.size, alloc |-> d.alloc, pos |-> d.pos]
  BY DEF IInv, Flat, Kept, Record
<1>3. DOMAIN mem = {} /\ mem = [i \in DOMAIN mem |-> mem[i]]  OBVIOUS
<1>4. q = [j \in DOMAIN q |-> q[j]] /\ DOMAIN q = DOMAIN d.pos /\ \A j \in DOMAIN q : q[j] = 0
  OBVIOUS
<1>b. b = [d EXCEPT !.mem = mem, !.size = 0, !.alloc = 0, !.pos = q]  OBVIOUS
<1> HIDE DEF mem, q, b
<1>5. b = [mem |-> mem, size |-> 0, alloc |-> 0, pos |-> q]  BY <1>2, <1>b
<1>6. b.mem = mem /\ b.size = 0 /\ b.alloc = 0 /\ b.pos = q  BY <1>5
<1>7. Record(b)  BY <1>3, <1>4, <1>5, <1>6 DEF Record
<1>8. 0..b.alloc - 1 = {} /\ 0..b.size - 1 = {}  BY <1>6
<1>9. Kept(Slots, b)  BY <1>3, <1>4, <1>6, <1>7, <1>8 DEF Kept
<1> QED BY <1>1, <1>4, <1>6, <1>9 DEF EmptyStep, mine

LEMMA EmptyFacts == Kept(Slots, EmptyList) /\ EmptyList.size = 0 /\ DOMAIN EmptyList.pos = {}
<1> DEFINE mem == [i \in {} |-> Junk]
           q == [i \in {} |-> 0]
           b == [mem |-> mem, size |-> 0, alloc |-> 0, pos |-> q]
<1>1. DOMAIN mem = {} /\ mem = [i \in DOMAIN mem |-> mem[i]]  OBVIOUS
<1>2. DOMAIN q = {} /\ q = [i \in DOMAIN q |-> q[i]]  OBVIOUS
<1>3. EmptyList = b  BY DEF EmptyList
<1> HIDE DEF mem, q
<1>4. b.mem = mem /\ b.size = 0 /\ b.alloc = 0 /\ b.pos = q  OBVIOUS
<1>5. Record(b)  BY <1>1, <1>2, <1>4 DEF Record
<1> HIDE DEF b
<1>6. 0..b.alloc - 1 = {} /\ 0..b.size - 1 = {}  BY <1>4
<1>7. Kept(Slots, b)  BY <1>1, <1>2, <1>4, <1>5, <1>6 DEF Kept
<1> QED BY <1>2, <1>3, <1>4, <1>7

LEMMA FlatEmpty ==
  ASSUME NEW b, Kept(Slots, b), b.size = 0
  PROVE  Flat(b) /\ Pairs(b) = 0
<1>1. Pairs(b) = 0  BY DEF Pairs
<1>2. 0..Pairs(b) - 1 = {}  BY <1>1
<1> QED BY <1>1, <1>2 DEF Flat

LEMMA DictFreeDoes ==
  ASSUME IInv, DictFree
  PROVE  EmptyStep
BY EmptyFacts DEF DictFree, EmptyStep

-----------------------------------------------------------------------------
\* The invariant after each kind of step.
LEMMA AfterQuiet ==
  ASSUME IInv, QuietStep, live' \in BOOLEAN
  PROVE  IInv'
<1>1. PICK a, b : a = d /\ b = d'  OBVIOUS
<1>2. Flat(b)
  <2>1. Flat(a) /\ Kept(Slots, b) /\ SameEntries(b, a)  BY <1>1 DEF IInv, QuietStep
  <2> QED BY <2>1, FlatSame
<1> QED BY <1>1, <1>2 DEF IInv, QuietStep

LEMMA AfterEmpty ==
  ASSUME IInv, EmptyStep, live' \in BOOLEAN
  PROVE  IInv'
<1>1. PICK b : b = d'  OBVIOUS
<1>2. Flat(b) /\ Pairs(b) = 0  BY <1>1, FlatEmpty DEF EmptyStep
<1>3. On(b, DOMAIN b.pos)
  <2>1. 0 \in 0..Pairs(b) /\ \A j \in DOMAIN b.pos : b.pos[j] = 2 * 0  BY <1>1, <1>2 DEF EmptyStep
  <2> QED BY <2>1 DEF On
<1> QED BY <1>1, <1>2, <1>3 DEF IInv, EmptyStep, mine

LEMMA AfterSame ==
  ASSUME IInv, Kept(Slots, d'), mine' = mine, SameEntries(d', d),
         \A j \in mine : d'.pos[j] = d.pos[j], live' \in BOOLEAN
  PROVE  IInv'
<1>1. PICK a, b : a = d /\ b = d'  OBVIOUS
<1>2. DOMAIN b.pos = DOMAIN a.pos /\ \A j \in DOMAIN a.pos : b.pos[j] = a.pos[j]
  BY <1>1 DEF mine
<1>3. Flat(b) /\ Pairs(b) = Pairs(a)
  <2>1. Flat(a) /\ Kept(Slots, b) /\ SameEntries(b, a)  BY <1>1 DEF IInv
  <2> QED BY <2>1, FlatSame
<1>4. On(b, DOMAIN b.pos)
  <2>1. On(a, DOMAIN a.pos)  BY <1>1 DEF IInv
  <2> QED BY <1>2, <1>3, <2>1, OnSame
<1> QED BY <1>1, <1>2, <1>3, <1>4 DEF IInv

LEMMA AfterPairSet ==
  ASSUME IInv, Kept(Slots, d'), mine' = mine, NEW p \in 0..Pairs(d) - 1, NEW v \in Vals,
         PairSet(d', d, p, v), \A j \in mine : d'.pos[j] = d.pos[j], live' \in BOOLEAN
  PROVE  IInv'
<1>1. PICK a, b : a = d /\ b = d'  OBVIOUS
<1>2. DOMAIN b.pos = DOMAIN a.pos /\ \A j \in DOMAIN a.pos : b.pos[j] = a.pos[j]
  BY <1>1 DEF mine
<1>3. Flat(b) /\ Pairs(b) = Pairs(a)
  <2>1. Flat(a) /\ Kept(Slots, b) /\ PairSet(b, a, p, v) /\ p \in 0..Pairs(a) - 1
    BY <1>1 DEF IInv
  <2> QED BY <2>1, PairSetFlat
<1>4. On(b, DOMAIN b.pos)
  <2>1. On(a, DOMAIN a.pos)  BY <1>1 DEF IInv
  <2> QED BY <1>2, <1>3, <2>1, OnSame
<1> QED BY <1>1, <1>2, <1>3, <1>4 DEF IInv

LEMMA AfterPairIn ==
  ASSUME IInv, Kept(Slots, d'), mine' = mine, NEW p \in 0..Pairs(d),
         NEW k \in Keys, NEW v \in Vals, Sought(d, k, Find(d, k), p), ~Find(d, k).found,
         PairIn(d', d, p, k, v), PosIn(d', d, p, mine), live' \in BOOLEAN
  PROVE  IInv'
<1>1. PICK a, b : a = d /\ b = d'  OBVIOUS
<1>2. DOMAIN b.pos = DOMAIN a.pos  BY <1>1 DEF mine
<1>3. Flat(b) /\ Pairs(b) = Pairs(a) + 1
  <2>1. Flat(a) /\ Kept(Slots, b) /\ PairIn(b, a, p, k, v) /\ p \in 0..Pairs(a)
    BY <1>1 DEF IInv
  <2>2. /\ \A i \in 0..Pairs(a) - 1 : i < p => KeyAt(a, i) < k
        /\ \A i \in 0..Pairs(a) - 1 : i >= p => KeyAt(a, i) > k
    BY <1>1 DEF Sought
  <2> QED BY <2>1, <2>2, PairInFlat
<1>4. On(b, DOMAIN b.pos)
  <2>1. On(a, DOMAIN a.pos) /\ PosIn(b, a, p, DOMAIN a.pos)  BY <1>1 DEF IInv, mine
  <2>2. Pairs(a) \in Nat /\ p \in 0..Pairs(a)  BY <1>1, FlatFacts DEF IInv
  <2> QED BY <1>2, <1>3, <2>1, <2>2, OnIn
<1> QED BY <1>1, <1>2, <1>3, <1>4 DEF IInv

LEMMA AfterCut ==
  ASSUME IInv, NEW p \in 0..Pairs(d) - 1, CutDoes(p), live' \in BOOLEAN
  PROVE  IInv'
<1>1. PICK a, b : a = d /\ b = d'  OBVIOUS
<1>2. DOMAIN b.pos = DOMAIN a.pos  BY <1>1 DEF CutDoes, mine
<1>3. Flat(b) /\ Pairs(b) = Pairs(a) - 1
  <2>1. Flat(a) /\ Kept(Slots, b) /\ PairOut(b, a, p) /\ p \in 0..Pairs(a) - 1
    BY <1>1 DEF IInv, CutDoes
  <2> QED BY <2>1, PairOutFlat
<1>4. On(b, DOMAIN b.pos)
  <2>1. On(a, DOMAIN a.pos) /\ PosOut(b, a, p, DOMAIN a.pos)  BY <1>1 DEF IInv, CutDoes, mine
  <2>2. Pairs(a) \in Nat /\ p \in 0..Pairs(a) - 1  BY <1>1, FlatFacts DEF IInv
  <2> QED BY <1>2, <1>3, <2>1, <2>2, OnOut
<1> QED BY <1>1, <1>2, <1>3, <1>4 DEF IInv

LEMMA StillLive == ASSUME IInv, Next PROVE live' \in BOOLEAN
BY DEF IInv, Next, DictClear, DictFree, DictRemove, DictSet, GetIter, DestroyIter, IterStep,
       IterRemove, IterSet

LEMMA InitIInv == Init => IInv
<1> SUFFICES ASSUME Init PROVE IInv  OBVIOUS
<1>1. d = EmptyList /\ live \in BOOLEAN  BY DEF Init
<1>2. Flat(d) /\ DOMAIN d.pos = {}  BY <1>1, EmptyFacts, FlatEmpty
<1> QED BY <1>1, <1>2 DEF IInv, On

LEMMA NextIInv == ASSUME IInv, Orderly, [Next]_vars PROVE IInv'
<1>1. CASE UNCHANGED vars  BY <1>1 DEF IInv, On, vars
<1>2. CASE Next
  <2>0. live' \in BOOLEAN  BY <1>2, StillLive
  <2>1. CASE DictClear  BY <2>0, <2>1, DictClearDoes, AfterEmpty
  <2>2. CASE DictFree  BY <2>0, <2>2, DictFreeDoes, AfterEmpty
  <2>3. ASSUME NEW k \in Keys, DictRemove(k) PROVE IInv'
    <3>1. CASE UNCHANGED d  BY <2>0, <3>1 DEF IInv, On
    <3>2. ASSUME NEW p \in 0..Pairs(d) - 1, CutDoes(p) PROVE IInv'  BY <2>0, <3>2, AfterCut
    <3> QED BY <2>3, <3>1, <3>2, DictRemoveDoes
  <2>4. ASSUME NEW k \in Keys, NEW v \in Vals, DictSet(k, v) PROVE IInv'
    <3>1. PICK p \in 0..Pairs(d) : SetDoes(k, v, p)  BY <2>4, DictSetDoes
    <3>2. Sought(d, k, Find(d, k), p) /\ Kept(Slots, d') /\ mine' = mine  BY <3>1 DEF SetDoes
    <3>3. CASE /\ Find(d, k).found /\ PairSet(d', d, p, v)
               /\ \A j \in mine : d'.pos[j] = d.pos[j]
      <4>1. p \in 0..Pairs(d) - 1
        <5>1. Pairs(d) \in Nat /\ p < Pairs(d)  BY <3>2, <3>3, FlatFacts DEF Sought, IInv
        <5> QED BY <5>1
      <4> QED BY <2>0, <3>2, <3>3, <4>1, AfterPairSet
    <3>4. CASE ~Find(d, k).found /\ PairIn(d', d, p, k, v) /\ PosIn(d', d, p, mine)
      BY <2>0, <3>2, <3>4, AfterPairIn
    <3>5. CASE SameEntries(d', d) /\ \A j \in mine : d'.pos[j] = d.pos[j]
      BY <2>0, <3>2, <3>5, AfterSame
    <3> QED BY <3>1, <3>3, <3>4, <3>5 DEF SetDoes
  <2>5. ASSUME NEW it \in Its, GetIter(it) PROVE IInv'  BY <2>0, <2>5, GetIterDoes, AfterQuiet
  <2>6. ASSUME NEW it \in Its, DestroyIter(it) PROVE IInv'
    BY <2>0, <2>6, DestroyIterDoes, AfterQuiet
  <2>7. ASSUME NEW it \in Its, IterStep(it) PROVE IInv'  BY <2>0, <2>7, IterStepDoes, AfterQuiet
  <2>8. ASSUME NEW it \in Its, IterRemove(it) PROVE IInv'
    <3>1. CASE UNCHANGED d  BY <2>0, <3>1 DEF IInv, On
    <3>2. ASSUME NEW p \in 0..Pairs(d) - 1, CutDoes(p) PROVE IInv'  BY <2>0, <3>2, AfterCut
    <3> QED BY <2>8, <3>1, <3>2, IterRemoveDoes
  <2>9. ASSUME NEW it \in Its, NEW v \in Vals, IterSet(it, v) PROVE IInv'
    <3>1. PICK p \in 0..Pairs(d) - 1 :
            /\ d.pos[it] = 2 * p /\ PairSet(d', d, p, v) /\ Kept(Slots, d') /\ mine' = mine
            /\ \A j \in mine : d'.pos[j] = d.pos[j]
      BY <2>9, IterSetDoes
    <3> QED BY <2>0, <3>1, AfterPairSet
  <2> QED BY <1>2, <2>1, <2>2, <2>3, <2>4, <2>5, <2>6, <2>7, <2>8, <2>9 DEF Next
<1> QED BY <1>1, <1>2

LEMMA Invariance == ASSUME Orderly PROVE Spec => []IInv
<1>1. IInv /\ [Next]_vars => IInv'  BY NextIInv
<1> QED BY InitIInv, <1>1, PTL DEF Spec

LEMMA IInvConsistent == IInv => Consistent
<1> SUFFICES ASSUME IInv PROVE Consistent  OBVIOUS
<1> DEFINE n == Pairs(d)
<1>1. n \in Nat /\ d.size = 2 * n  BY FlatFacts DEF IInv
<1>2. Kept(Slots, d) /\ d.size \in Nat /\ d.size <= d.alloc  BY DEF IInv, Flat, Kept
<1>3. ASSUME NEW it \in mine PROVE d.pos[it] \in 0..d.size /\ d.pos[it] % 2 = 0
  <2>1. PICK q \in 0..n : d.pos[it] = 2 * q  BY DEF IInv, On, mine
  <2> QED BY <1>1, <2>1
<1>4. TypeOK
  <2>1. DOMAIN d.mem = 0..d.alloc - 1 /\ \A i \in 0..d.size - 1 : d.mem[i] \in Slots
    BY <1>2 DEF Kept
  <2> QED BY <1>2, <1>3, <2>1 DEF TypeOK, IInv
<1>5. OnPairs  BY <1>3 DEF OnPairs
<1>6. d.size % 2 = 0  BY <1>1
<1>7. /\ \A i \in 0..n - 1 : d.mem[2 * i] \in [key : Keys] /\ d.mem[2 * i + 1] \in [val : Vals]
      /\ \A i, j \in 0..n - 1 : i < j => KeyAt(d, i) < KeyAt(d, j)
  BY DEF IInv, Flat
<1> QED BY <1>4, <1>5, <1>6, <1>7 DEF Consistent

\* The dictionary stays consistent, however it and its iterators are used and whenever
\* memory runs out for a new pair, if no value is replaced in front of an iterator and
\* memory is found for a value that is replaced (value.c:1697-1997).
THEOREM ConsistentCorrect == Orderly => (Spec => []Consistent)
<1> SUFFICES ASSUME Orderly PROVE Spec => []Consistent  OBVIOUS
<1>1. Spec => []IInv  BY Invariance
<1> QED BY <1>1, IInvConsistent, PTL

-----------------------------------------------------------------------------
\* The map that a flat list stands for.
MapOf(l) == [k \in KeysOf(l) |-> l.mem[PosOf(l, k) + 1].val]
Put(f, k, v) == [j \in DOMAIN f \cup {k} |-> IF j = k THEN v ELSE f[j]]
Without(f, k) == [j \in DOMAIN f \ {k} |-> f[j]]

\* A key has one place, that of its pair.
LEMMA PlaceOf ==
  ASSUME NEW l, Flat(l), NEW i \in 0..Pairs(l) - 1
  PROVE  PosOf(l, KeyAt(l, i)) = 2 * i /\ 2 * i \in 0..l.size - 1
<1> DEFINE n == Pairs(l)
           k == KeyAt(l, i)
           At1(p) == p \in 0..l.size - 1 /\ l.mem[p] = Key(k)
<1>1. n \in Nat /\ l.size = 2 * n  BY FlatFacts
<1>2. \A x \in 0..n - 1 : l.mem[2 * x] = Key(KeyAt(l, x))
  <2> SUFFICES ASSUME NEW x \in 0..n - 1 PROVE l.mem[2 * x] = Key(KeyAt(l, x))  OBVIOUS
  <2>1. l.mem[2 * x] \in [key : Keys]  BY DEF Flat
  <2> QED BY <2>1 DEF Key, KeyAt
<1>3. At1(2 * i)  BY <1>1, <1>2
<1>4. ASSUME NEW p \in 0..l.size - 1, l.mem[p] = Key(k) PROVE p = 2 * i
  <2>1. PICK x \in 0..n - 1 : p = 2 * x \/ p = 2 * x + 1
    <3>1. p \div 2 \in 0..n - 1 /\ (p = 2 * (p \div 2) \/ p = 2 * (p \div 2) + 1)  BY <1>1
    <3> QED BY <3>1
  <2>2. CASE p = 2 * x
    <3>1. Key(KeyAt(l, x)) = Key(k)  BY <1>2, <1>4, <2>2
    <3>2. KeyAt(l, x) = KeyAt(l, i)
      <4>1. Key(KeyAt(l, x)).key = KeyAt(l, x) /\ Key(k).key = k  BY DEF Key
      <4> QED BY <3>1, <4>1
    <3>3. \A y, z \in 0..n - 1 : y < z => KeyAt(l, y) < KeyAt(l, z)  BY FlatFacts
    <3>4. \A y \in 0..n - 1 : KeyAt(l, y) \in Nat  BY FlatFacts
    <3>5. ~(x < i) /\ ~(i < x)
      <4>1. PICK a \in Nat : a = KeyAt(l, x) /\ a = KeyAt(l, i)  BY <3>2, <3>4
      <4>2. ~(a < a)  OBVIOUS
      <4>3. x < i => a < a  BY <3>3, <4>1
      <4>4. i < x => a < a  BY <3>3, <4>1
      <4> QED BY <4>2, <4>3, <4>4
    <3> QED BY <1>1, <2>2, <3>5
  <2>3. CASE p = 2 * x + 1
    <3>1. l.mem[p] \in [val : Vals]  BY <2>3 DEF Flat
    <3>2. DOMAIN l.mem[p] = {"val"} /\ DOMAIN Key(k) = {"key"}  BY <3>1 DEF Key
    <3> QED BY <1>4, <3>2
  <2> QED BY <2>1, <2>2, <2>3
<1>5. PosOf(l, k) = 2 * i
  <2>1. \E p \in 0..l.size - 1 : l.mem[p] = Key(k)  BY <1>3
  <2>2. PosOf(l, k) \in 0..l.size - 1 /\ l.mem[PosOf(l, k)] = Key(k)  BY <2>1 DEF PosOf
  <2> QED BY <1>4, <2>2
<1> QED BY <1>3, <1>5

LEMMA MapFacts ==
  ASSUME NEW l, Flat(l)
  PROVE  /\ DOMAIN MapOf(l) = KeysOf(l)
         /\ MapOf(l) = [k \in DOMAIN MapOf(l) |-> MapOf(l)[k]]
         /\ KeysOf(l) \subseteq Keys
         /\ \A i \in 0..Pairs(l) - 1 : /\ KeyAt(l, i) \in KeysOf(l)
                                       /\ MapOf(l)[KeyAt(l, i)] = l.mem[2 * i + 1].val
         /\ \A k \in KeysOf(l) : \E i \in 0..Pairs(l) - 1 : k = KeyAt(l, i)
<1>1. DOMAIN MapOf(l) = KeysOf(l) /\ MapOf(l) = [k \in DOMAIN MapOf(l) |-> MapOf(l)[k]]
  BY DEF MapOf
<1>2. KeysOf(l) \subseteq Keys  BY FlatFacts DEF KeysOf
<1>3. ASSUME NEW i \in 0..Pairs(l) - 1
      PROVE  KeyAt(l, i) \in KeysOf(l) /\ MapOf(l)[KeyAt(l, i)] = l.mem[2 * i + 1].val
  <2>1. KeyAt(l, i) \in KeysOf(l)  BY DEF KeysOf
  <2>2. MapOf(l)[KeyAt(l, i)] = l.mem[PosOf(l, KeyAt(l, i)) + 1].val  BY <2>1 DEF MapOf
  <2>3. PosOf(l, KeyAt(l, i)) = 2 * i  BY PlaceOf
  <2> QED BY <2>1, <2>2, <2>3
<1>4. \A k \in KeysOf(l) : \E i \in 0..Pairs(l) - 1 : k = KeyAt(l, i)  BY DEF KeysOf
<1> QED BY <1>1, <1>2, <1>3, <1>4

\* Two maps with the same keys and values.
LEMMA SameMap ==
  ASSUME NEW f, NEW g, f = [k \in DOMAIN f |-> f[k]], g = [k \in DOMAIN g |-> g[k]],
         DOMAIN f = DOMAIN g, \A k \in DOMAIN g : f[k] = g[k]
  PROVE  f = g
OBVIOUS

LEMMA MapSame ==
  ASSUME NEW a, Flat(a), NEW b, Kept(Slots, b), SameEntries(b, a)
  PROVE  MapOf(b) = MapOf(a) /\ KeysOf(b) = KeysOf(a)
<1>1. Pairs(a) \in Nat /\ a.size = 2 * Pairs(a)  BY FlatFacts
<1>2. Flat(b) /\ Pairs(b) = Pairs(a) /\ \A i \in 0..Pairs(a) - 1 : KeyAt(b, i) = KeyAt(a, i)
  BY FlatSame
<1>3. KeysOf(b) = KeysOf(a)  BY <1>2 DEF KeysOf
<1>4. ASSUME NEW k \in KeysOf(a) PROVE MapOf(b)[k] = MapOf(a)[k]
  <2>1. PICK i \in 0..Pairs(a) - 1 : k = KeyAt(a, i)  BY MapFacts
  <2>2. MapOf(a)[k] = a.mem[2 * i + 1].val  BY <2>1, MapFacts
  <2>3. MapOf(b)[k] = b.mem[2 * i + 1].val
    <3>1. i \in 0..Pairs(b) - 1 /\ k = KeyAt(b, i)  BY <1>2, <2>1
    <3> QED BY <1>2, <3>1, MapFacts
  <2>4. 2 * i + 1 \in 0..a.size - 1  BY <1>1
  <2> QED BY <2>2, <2>3, <2>4 DEF SameEntries
<1>5. DOMAIN MapOf(a) = KeysOf(a) /\ MapOf(a) = [k \in DOMAIN MapOf(a) |-> MapOf(a)[k]]
  BY MapFacts
<1>6. DOMAIN MapOf(b) = KeysOf(b) /\ MapOf(b) = [k \in DOMAIN MapOf(b) |-> MapOf(b)[k]]
  BY <1>2, MapFacts
<1>7. MapOf(b) = MapOf(a)  BY <1>3, <1>4, <1>5, <1>6, SameMap
<1> QED BY <1>3, <1>7

LEMMA MapPairSet ==
  ASSUME NEW a, Flat(a), NEW p \in 0..Pairs(a) - 1, NEW v \in Vals,
         NEW b, Kept(Slots, b), PairSet(b, a, p, v), NEW k, k = KeyAt(a, p)
  PROVE  MapOf(b) = Put(MapOf(a), k, v) /\ KeysOf(b) = KeysOf(a)
<1> DEFINE g == Put(MapOf(a), k, v)
<1>1. Flat(b) /\ Pairs(b) = Pairs(a) /\ \A i \in 0..Pairs(a) - 1 : KeyAt(b, i) = KeyAt(a, i)
  BY PairSetFlat
<1>2. KeysOf(b) = KeysOf(a) /\ k \in KeysOf(a)  BY <1>1 DEF KeysOf
<1>3. DOMAIN MapOf(a) = KeysOf(a)  BY MapFacts
<1>4. /\ DOMAIN g = KeysOf(a) /\ g = [j \in DOMAIN g |-> g[j]]
      /\ \A j \in KeysOf(a) : g[j] = IF j = k THEN v ELSE MapOf(a)[j]
  BY <1>2, <1>3 DEF Put
<1>5. DOMAIN MapOf(b) = KeysOf(b) /\ MapOf(b) = [j \in DOMAIN MapOf(b) |-> MapOf(b)[j]]
  BY <1>1, MapFacts
<1>6. ASSUME NEW j \in KeysOf(a) PROVE MapOf(b)[j] = g[j]
  <2>1. PICK i \in 0..Pairs(a) - 1 : j = KeyAt(a, i)  BY MapFacts
  <2>2. MapOf(a)[j] = a.mem[2 * i + 1].val  BY <2>1, MapFacts
  <2>3. MapOf(b)[j] = b.mem[2 * i + 1].val
    <3>1. i \in 0..Pairs(b) - 1 /\ j = KeyAt(b, i)  BY <1>1, <2>1
    <3> QED BY <1>1, <3>1, MapFacts
  <2>4. i = p <=> j = k
    <3>1. \A x, y \in 0..Pairs(a) - 1 : x < y => KeyAt(a, x) < KeyAt(a, y)  BY FlatFacts
    <3>2. \A y \in 0..Pairs(a) - 1 : KeyAt(a, y) \in Nat  BY FlatFacts
    <3>3. i # p => KeyAt(a, i) # KeyAt(a, p)
      <4>1. CASE i < p
        <5>1. KeyAt(a, i) < KeyAt(a, p)  BY <3>1, <4>1
        <5> QED BY <3>2, <5>1
      <4>2. CASE p < i
        <5>1. KeyAt(a, p) < KeyAt(a, i)  BY <3>1, <4>2
        <5> QED BY <3>2, <5>1
      <4>3. Pairs(a) \in Nat  BY FlatFacts
      <4> QED BY <4>1, <4>2, <4>3
    <3> QED BY <2>1, <3>3
  <2>5. b.mem[2 * i + 1] = IF i = p THEN Val(v) ELSE a.mem[2 * i + 1]  BY DEF PairSet
  <2>6. Val(v).val = v  BY DEF Val
  <2> HIDE DEF g
  <2> QED BY <1>4, <2>2, <2>3, <2>4, <2>5, <2>6
<1> HIDE DEF g
<1>7. MapOf(b) = g  BY <1>2, <1>4, <1>5, <1>6, SameMap
<1> QED BY <1>2, <1>7 DEF g

LEMMA KeysApart ==
  ASSUME NEW a, Flat(a), NEW i \in 0..Pairs(a) - 1, NEW p \in 0..Pairs(a) - 1,
         KeyAt(a, i) = KeyAt(a, p)
  PROVE  i = p
<1>1. 2 * i = 2 * p
  <2>1. PosOf(a, KeyAt(a, i)) = 2 * i /\ PosOf(a, KeyAt(a, p)) = 2 * p  BY PlaceOf
  <2> QED BY <2>1
<1> QED BY <1>1

\* Where the pairs of a are in b, and which pair is new.
LEMMA PairInPlaces ==
  ASSUME NEW a, Flat(a), NEW p \in 0..Pairs(a), NEW k \in Keys, NEW v \in Vals,
         \A i \in 0..Pairs(a) - 1 : i < p => KeyAt(a, i) < k,
         \A i \in 0..Pairs(a) - 1 : i >= p => KeyAt(a, i) > k,
         NEW b, Kept(Slots, b), PairIn(b, a, p, k, v)
  PROVE  /\ Flat(b) /\ Pairs(b) = Pairs(a) + 1
         /\ KeyAt(b, p) = k /\ b.mem[2 * p + 1].val = v /\ k \notin KeysOf(a)
         /\ \A i \in 0..Pairs(a) - 1 :
              \E x \in 0..Pairs(b) - 1 :
                /\ x = (IF i < p THEN i ELSE i + 1) /\ x # p
                /\ KeyAt(b, x) = KeyAt(a, i) /\ b.mem[2 * x + 1] = a.mem[2 * i + 1]
         /\ \A x \in 0..Pairs(b) - 1 : x # p => \E i \in 0..Pairs(a) - 1 :
              /\ x = (IF i < p THEN i ELSE i + 1)
              /\ KeyAt(b, x) = KeyAt(a, i) /\ b.mem[2 * x + 1] = a.mem[2 * i + 1]
<1> DEFINE n == Pairs(a)
<1>1. n \in Nat /\ \A i \in 0..n - 1 : KeyAt(a, i) \in Nat  BY FlatFacts
<1>2. /\ Flat(b) /\ Pairs(b) = n + 1
      /\ \A i \in 0..n : KeyAt(b, i) = IF i < p THEN KeyAt(a, i) ELSE IF i = p THEN k
                                       ELSE KeyAt(a, i - 1)
  BY PairInFlat
<1>3. \A i \in 0..n : b.mem[2 * i + 1] = IF i < p THEN a.mem[2 * i + 1] ELSE IF i = p THEN Val(v)
                                         ELSE a.mem[2 * (i - 1) + 1]
  BY DEF PairIn
<1>4. KeyAt(b, p) = k /\ b.mem[2 * p + 1].val = v
  <2>1. ~(p < p)  BY <1>1
  <2>2. b.mem[2 * p + 1] = Val(v)  BY <1>3, <2>1
  <2> QED BY <1>2, <2>1, <2>2 DEF Val
<1>5. k \notin KeysOf(a)
  <2>1. k \in Nat  BY DictAssumption
  <2> SUFFICES ASSUME NEW i \in 0..n - 1 PROVE KeyAt(a, i) # k  BY DEF KeysOf
  <2>2. i < p \/ i >= p  BY <1>1
  <2> QED BY <1>1, <2>1, <2>2
<1>6. ASSUME NEW i \in 0..n - 1, NEW x \in 0..n, x = (IF i < p THEN i ELSE i + 1)
      PROVE  x # p /\ KeyAt(b, x) = KeyAt(a, i) /\ b.mem[2 * x + 1] = a.mem[2 * i + 1]
  <2>1. CASE i < p
    <3>1. x = i /\ x < p  BY <1>6, <2>1
    <3> QED BY <1>1, <1>2, <1>3, <3>1
  <2>2. CASE ~(i < p)
    <3>1. x = i + 1 /\ ~(x < p) /\ x # p /\ x - 1 = i  BY <1>1, <1>6, <2>2
    <3>2. KeyAt(b, x) = KeyAt(a, x - 1) /\ b.mem[2 * x + 1] = a.mem[2 * (x - 1) + 1]
      BY <1>2, <1>3, <3>1
    <3> QED BY <3>1, <3>2
  <2> QED BY <2>1, <2>2
<1>7. ASSUME NEW i \in 0..n - 1
      PROVE  \E x \in 0..n : /\ x = (IF i < p THEN i ELSE i + 1) /\ x # p
                             /\ KeyAt(b, x) = KeyAt(a, i) /\ b.mem[2 * x + 1] = a.mem[2 * i + 1]
  <2>1. PICK x \in 0..n : x = (IF i < p THEN i ELSE i + 1)  BY <1>1
  <2> QED BY <1>6, <2>1
<1>8. ASSUME NEW x \in 0..n, x # p
      PROVE  \E i \in 0..n - 1 : /\ x = (IF i < p THEN i ELSE i + 1)
                                 /\ KeyAt(b, x) = KeyAt(a, i) /\ b.mem[2 * x + 1] = a.mem[2 * i + 1]
  <2>1. PICK i \in 0..n - 1 : x = (IF i < p THEN i ELSE i + 1)
    <3>1. CASE x < p
      <4>1. x \in 0..n - 1 /\ x = (IF x < p THEN x ELSE x + 1)  BY <1>1, <3>1
      <4> QED BY <4>1
    <3>2. CASE x > p
      <4>1. x - 1 \in 0..n - 1 /\ x = (IF x - 1 < p THEN x - 1 ELSE (x - 1) + 1)  BY <1>1, <3>2
      <4> QED BY <4>1
    <3> QED BY <1>1, <1>8, <3>1, <3>2
  <2> QED BY <1>6, <2>1
<1>9. 0..Pairs(b) - 1 = 0..n  BY <1>1, <1>2
<1> QED BY <1>2, <1>4, <1>5, <1>7, <1>8, <1>9

LEMMA MapPairIn ==
  ASSUME NEW a, Flat(a), NEW p \in 0..Pairs(a), NEW k \in Keys, NEW v \in Vals,
         \A i \in 0..Pairs(a) - 1 : i < p => KeyAt(a, i) < k,
         \A i \in 0..Pairs(a) - 1 : i >= p => KeyAt(a, i) > k,
         NEW b, Kept(Slots, b), PairIn(b, a, p, k, v)
  PROVE  MapOf(b) = Put(MapOf(a), k, v)
<1> DEFINE g == Put(MapOf(a), k, v)
           n == Pairs(a)
<1>1. /\ Flat(b) /\ Pairs(b) = n + 1
      /\ KeyAt(b, p) = k /\ b.mem[2 * p + 1].val = v /\ k \notin KeysOf(a)
  BY PairInPlaces
<1>2. \A i \in 0..n - 1 :
        \E x \in 0..Pairs(b) - 1 :
          KeyAt(b, x) = KeyAt(a, i) /\ b.mem[2 * x + 1] = a.mem[2 * i + 1]
  BY PairInPlaces
<1>3. \A x \in 0..Pairs(b) - 1 : x # p => \E i \in 0..n - 1 : KeyAt(b, x) = KeyAt(a, i)
  BY PairInPlaces
<1>4. p \in 0..Pairs(b) - 1
  <2>1. n \in Nat  BY FlatFacts
  <2> QED BY <1>1, <2>1
<1>5. KeysOf(b) = KeysOf(a) \cup {k}
  <2>1. ASSUME NEW j \in KeysOf(b) PROVE j \in KeysOf(a) \cup {k}
    <3>1. PICK x \in 0..Pairs(b) - 1 : j = KeyAt(b, x)  BY DEF KeysOf
    <3> QED BY <1>1, <1>3, <3>1 DEF KeysOf
  <2>2. ASSUME NEW j \in KeysOf(a) PROVE j \in KeysOf(b)
    <3>1. PICK i \in 0..n - 1 : j = KeyAt(a, i)  BY DEF KeysOf
    <3> QED BY <1>2, <3>1 DEF KeysOf
  <2>3. k \in KeysOf(b)  BY <1>1, <1>4 DEF KeysOf
  <2> QED BY <2>1, <2>2, <2>3
<1>6. DOMAIN MapOf(a) = KeysOf(a)  BY MapFacts
<1>7. /\ DOMAIN g = KeysOf(b) /\ g = [j \in DOMAIN g |-> g[j]]
      /\ \A j \in KeysOf(b) : g[j] = IF j = k THEN v ELSE MapOf(a)[j]
  BY <1>5, <1>6 DEF Put
<1> HIDE DEF g
<1>8. DOMAIN MapOf(b) = KeysOf(b) /\ MapOf(b) = [j \in DOMAIN MapOf(b) |-> MapOf(b)[j]]
  BY <1>1, MapFacts
<1>9. ASSUME NEW j \in KeysOf(b) PROVE MapOf(b)[j] = g[j]
  <2>1. CASE j = k
    <3>1. MapOf(b)[KeyAt(b, p)] = b.mem[2 * p + 1].val  BY <1>1, <1>4, MapFacts
    <3> QED BY <1>1, <1>7, <2>1, <3>1
  <2>2. CASE j # k
    <3>1. j \in KeysOf(a)  BY <1>5, <2>2
    <3>2. PICK i \in 0..n - 1 : j = KeyAt(a, i)  BY <3>1 DEF KeysOf
    <3>3. PICK x \in 0..Pairs(b) - 1 :
            KeyAt(b, x) = KeyAt(a, i) /\ b.mem[2 * x + 1] = a.mem[2 * i + 1]
      BY <1>2
    <3>4. MapOf(b)[KeyAt(b, x)] = b.mem[2 * x + 1].val  BY <1>1, MapFacts
    <3>5. MapOf(a)[KeyAt(a, i)] = a.mem[2 * i + 1].val  BY MapFacts
    <3> QED BY <1>7, <2>2, <3>2, <3>3, <3>4, <3>5
  <2> QED BY <2>1, <2>2
<1>10. MapOf(b) = g  BY <1>7, <1>8, <1>9, SameMap
<1> QED BY <1>10 DEF g

LEMMA PairOutPlaces ==
  ASSUME NEW a, Flat(a), NEW p \in 0..Pairs(a) - 1, NEW b, Kept(Slots, b), PairOut(b, a, p)
  PROVE  /\ Flat(b) /\ Pairs(b) = Pairs(a) - 1
         /\ \A x \in 0..Pairs(b) - 1 :
              \E i \in 0..Pairs(a) - 1 :
                /\ i = (IF x < p THEN x ELSE x + 1) /\ i # p
                /\ KeyAt(b, x) = KeyAt(a, i) /\ b.mem[2 * x + 1] = a.mem[2 * i + 1]
         /\ \A i \in 0..Pairs(a) - 1 : i # p => \E x \in 0..Pairs(b) - 1 :
              /\ i = (IF x < p THEN x ELSE x + 1)
              /\ KeyAt(b, x) = KeyAt(a, i) /\ b.mem[2 * x + 1] = a.mem[2 * i + 1]
<1> DEFINE n == Pairs(a)
<1>1. n \in Nat  BY FlatFacts
<1>2. /\ Flat(b) /\ Pairs(b) = n - 1
      /\ \A i \in 0..n - 2 : KeyAt(b, i) = IF i < p THEN KeyAt(a, i) ELSE KeyAt(a, i + 1)
  BY PairOutFlat
<1>3. \A i \in 0..n - 2 : b.mem[2 * i + 1] = IF i < p THEN a.mem[2 * i + 1]
                                             ELSE a.mem[2 * (i + 1) + 1]
  BY DEF PairOut
<1>4. ASSUME NEW x \in 0..n - 2, NEW i \in 0..n - 1, i = (IF x < p THEN x ELSE x + 1)
      PROVE  i # p /\ KeyAt(b, x) = KeyAt(a, i) /\ b.mem[2 * x + 1] = a.mem[2 * i + 1]
  <2>1. CASE x < p
    <3>1. i = x /\ i # p  BY <1>1, <1>4, <2>1
    <3> QED BY <1>2, <1>3, <2>1, <3>1
  <2>2. CASE ~(x < p)
    <3>1. i = x + 1 /\ i # p  BY <1>1, <1>4, <2>2
    <3>2. KeyAt(b, x) = KeyAt(a, x + 1) /\ b.mem[2 * x + 1] = a.mem[2 * (x + 1) + 1]
      BY <1>2, <1>3, <2>2
    <3> QED BY <3>1, <3>2
  <2> QED BY <2>1, <2>2
<1>5. ASSUME NEW x \in 0..n - 2
      PROVE  \E i \in 0..n - 1 : /\ i = (IF x < p THEN x ELSE x + 1) /\ i # p
                                 /\ KeyAt(b, x) = KeyAt(a, i) /\ b.mem[2 * x + 1] = a.mem[2 * i + 1]
  <2>1. PICK i \in 0..n - 1 : i = (IF x < p THEN x ELSE x + 1)  BY <1>1
  <2> QED BY <1>4, <2>1
<1>6. ASSUME NEW i \in 0..n - 1, i # p
      PROVE  \E x \in 0..n - 2 : /\ i = (IF x < p THEN x ELSE x + 1)
                                 /\ KeyAt(b, x) = KeyAt(a, i) /\ b.mem[2 * x + 1] = a.mem[2 * i + 1]
  <2>1. PICK x \in 0..n - 2 : i = (IF x < p THEN x ELSE x + 1)
    <3>1. CASE i < p
      <4>1. i \in 0..n - 2 /\ i = (IF i < p THEN i ELSE i + 1)  BY <1>1, <3>1
      <4> QED BY <4>1
    <3>2. CASE i > p
      <4>1. i - 1 \in 0..n - 2 /\ i = (IF i - 1 < p THEN i - 1 ELSE (i - 1) + 1)  BY <1>1, <3>2
      <4> QED BY <4>1
    <3> QED BY <1>1, <1>6, <3>1, <3>2
  <2> QED BY <1>4, <2>1
<1>7. 0..Pairs(b) - 1 = 0..n - 2  BY <1>1, <1>2
<1> QED BY <1>2, <1>5, <1>6, <1>7

LEMMA MapPairOut ==
  ASSUME NEW a, Flat(a), NEW p \in 0..Pairs(a) - 1, NEW b, Kept(Slots, b), PairOut(b, a, p),
         NEW k, k = KeyAt(a, p)
  PROVE  MapOf(b) = Without(MapOf(a), k)
<1> DEFINE g == Without(MapOf(a), k)
           n == Pairs(a)
<1>1. Flat(b)  BY PairOutPlaces
<1>2. \A x \in 0..Pairs(b) - 1 : \E i \in 0..n - 1 :
        i # p /\ KeyAt(b, x) = KeyAt(a, i) /\ b.mem[2 * x + 1] = a.mem[2 * i + 1]
  BY PairOutPlaces
<1>3. \A i \in 0..n - 1 : i # p => \E x \in 0..Pairs(b) - 1 : KeyAt(b, x) = KeyAt(a, i)
  BY PairOutPlaces
<1>4. KeysOf(b) = KeysOf(a) \ {k}
  <2>1. ASSUME NEW j \in KeysOf(b) PROVE j \in KeysOf(a) \ {k}
    <3>1. PICK x \in 0..Pairs(b) - 1 : j = KeyAt(b, x)  BY DEF KeysOf
    <3>2. PICK i \in 0..n - 1 : i # p /\ KeyAt(b, x) = KeyAt(a, i)  BY <1>2
    <3>3. KeyAt(a, i) # k  BY <3>2, KeysApart
    <3> QED BY <3>1, <3>2, <3>3 DEF KeysOf
  <2>2. ASSUME NEW j \in KeysOf(a) \ {k} PROVE j \in KeysOf(b)
    <3>1. PICK i \in 0..n - 1 : j = KeyAt(a, i)  BY DEF KeysOf
    <3>2. i # p  BY <2>2, <3>1
    <3> QED BY <1>3, <3>1, <3>2 DEF KeysOf
  <2> QED BY <2>1, <2>2
<1>5. DOMAIN MapOf(a) = KeysOf(a)  BY MapFacts
<1>6. /\ DOMAIN g = KeysOf(b) /\ g = [j \in DOMAIN g |-> g[j]]
      /\ \A j \in KeysOf(b) : g[j] = MapOf(a)[j]
  BY <1>4, <1>5 DEF Without
<1> HIDE DEF g
<1>7. DOMAIN MapOf(b) = KeysOf(b) /\ MapOf(b) = [j \in DOMAIN MapOf(b) |-> MapOf(b)[j]]
  BY <1>1, MapFacts
<1>8. ASSUME NEW j \in KeysOf(b) PROVE MapOf(b)[j] = g[j]
  <2>1. PICK x \in 0..Pairs(b) - 1 : j = KeyAt(b, x)  BY DEF KeysOf
  <2>2. PICK i \in 0..n - 1 : KeyAt(b, x) = KeyAt(a, i) /\ b.mem[2 * x + 1] = a.mem[2 * i + 1]
    BY <1>2
  <2>3. MapOf(b)[KeyAt(b, x)] = b.mem[2 * x + 1].val  BY <1>1, MapFacts
  <2>4. MapOf(a)[KeyAt(a, i)] = a.mem[2 * i + 1].val  BY MapFacts
  <2> QED BY <1>6, <2>1, <2>2, <2>3, <2>4
<1>9. MapOf(b) = g  BY <1>6, <1>7, <1>8, SameMap
<1> QED BY <1>9 DEF g

-----------------------------------------------------------------------------
\* What each step does to the map.
LEMMA QuietMap ==
  ASSUME IInv, QuietStep
  PROVE  MapOf(d') = MapOf(d)
BY MapSame DEF IInv, QuietStep

LEMMA DictSetMap ==
  ASSUME IInv, Orderly, NEW k \in Keys, NEW v \in Vals, DictSet(k, v)
  PROVE  MapOf(d') = Put(MapOf(d), k, v) \/ MapOf(d') = MapOf(d)
<1>1. PICK p \in 0..Pairs(d) : SetDoes(k, v, p)  BY DictSetDoes
<1>2. PICK a, b : a = d /\ b = d'  OBVIOUS
<1>3. Flat(a) /\ Kept(Slots, b) /\ Sought(a, k, Find(a, k), p) /\ p \in 0..Pairs(a)
  BY <1>1, <1>2 DEF SetDoes, IInv
<1>4. CASE Find(a, k).found /\ PairSet(b, a, p, v)
  <2>1. Pairs(a) \in Nat  BY <1>3, FlatFacts
  <2>2. p \in 0..Pairs(a) - 1 /\ k = KeyAt(a, p)  BY <1>3, <1>4, <2>1 DEF Sought
  <2>3. MapOf(b) = Put(MapOf(a), k, v)  BY <1>3, <1>4, <2>2, MapPairSet
  <2> QED BY <1>2, <2>3
<1>5. CASE ~Find(a, k).found /\ PairIn(b, a, p, k, v)
  <2>1. /\ \A i \in 0..Pairs(a) - 1 : i < p => KeyAt(a, i) < k
        /\ \A i \in 0..Pairs(a) - 1 : i >= p => KeyAt(a, i) > k
    BY <1>3, <1>5 DEF Sought
  <2>2. MapOf(b) = Put(MapOf(a), k, v)  BY <1>3, <1>5, <2>1, MapPairIn
  <2> QED BY <1>2, <2>2
<1>6. CASE SameEntries(b, a)
  <2>1. MapOf(b) = MapOf(a)  BY <1>3, <1>6, MapSame
  <2> QED BY <1>2, <2>1
<1> QED BY <1>1, <1>2, <1>4, <1>5, <1>6 DEF SetDoes

LEMMA CutMap ==
  ASSUME IInv, NEW p \in 0..Pairs(d) - 1, CutDoes(p)
  PROVE  MapOf(d') = Without(MapOf(d), KeyAt(d, p))
<1>1. PICK a, b : a = d /\ b = d'  OBVIOUS
<1>2. Flat(a) /\ Kept(Slots, b) /\ PairOut(b, a, p) /\ p \in 0..Pairs(a) - 1
  BY <1>1 DEF CutDoes, IInv
<1>3. PICK k : k = KeyAt(a, p)  OBVIOUS
<1>4. MapOf(b) = Without(MapOf(a), k)  BY <1>2, <1>3, MapPairOut
<1> QED BY <1>1, <1>3, <1>4

LEMMA DictRemoveMap ==
  ASSUME IInv, NEW k \in Keys, DictRemove(k)
  PROVE  MapOf(d') = Without(MapOf(d), k)
<1>1. CASE ~Find(d, k).found /\ UNCHANGED d
  <2>1. Flat(d)  BY DEF IInv
  <2>2. PICK p \in 0..Pairs(d) : Sought(d, k, Find(d, k), p)  BY <2>1, FindFacts
  <2>3. k \notin KeysOf(d)
    <3> SUFFICES ASSUME NEW i \in 0..Pairs(d) - 1 PROVE KeyAt(d, i) # k  BY DEF KeysOf
    <3>1. KeyAt(d, i) \in Nat /\ k \in Nat /\ Pairs(d) \in Nat  BY <2>1, FlatFacts, DictAssumption
    <3>2. i < p \/ i >= p  BY <3>1
    <3>3. KeyAt(d, i) < k \/ KeyAt(d, i) > k  BY <1>1, <2>2, <3>2 DEF Sought
    <3> QED BY <3>1, <3>3
  <2>4. DOMAIN MapOf(d) = KeysOf(d) /\ MapOf(d) = [j \in DOMAIN MapOf(d) |-> MapOf(d)[j]]
    BY <2>1, MapFacts
  <2>5. DOMAIN MapOf(d) \ {k} = DOMAIN MapOf(d)  BY <2>3, <2>4
  <2>6. Without(MapOf(d), k) = MapOf(d)  BY <2>4, <2>5 DEF Without
  <2> QED BY <1>1, <2>6
<1>2. ASSUME NEW p \in 0..Pairs(d) - 1, KeyAt(d, p) = k, CutDoes(p)
      PROVE  MapOf(d') = Without(MapOf(d), k)
  BY <1>2, CutMap
<1> QED BY <1>1, <1>2, DictRemoveDoes

LEMMA IterSetMap ==
  ASSUME IInv, Orderly, NEW it \in Its, NEW v \in Vals, IterSet(it, v),
         NEW k \in Keys, d.mem[d.pos[it]] = Key(k)
  PROVE  MapOf(d') = Put(MapOf(d), k, v)
<1>1. PICK p \in 0..Pairs(d) - 1 : d.pos[it] = 2 * p /\ PairSet(d', d, p, v) /\ Kept(Slots, d')
  BY IterSetDoes
<1>2. PICK a, b : a = d /\ b = d'  OBVIOUS
<1>3. k = KeyAt(a, p)  BY <1>1, <1>2 DEF Key, KeyAt
<1>4. MapOf(b) = Put(MapOf(a), k, v)
  <2>1. Flat(a) /\ Kept(Slots, b) /\ PairSet(b, a, p, v) /\ p \in 0..Pairs(a) - 1
    BY <1>1, <1>2 DEF IInv
  <2> QED BY <1>3, <2>1, MapPairSet
<1> QED BY <1>2, <1>4

\* The key of the pair on which a valid iterator stands.
LEMMA KeyThere ==
  ASSUME IInv, NEW p \in 0..Pairs(d) - 1
  PROVE  KeyAt(d, p) \in Keys /\ d.mem[2 * p] = Key(KeyAt(d, p))
<1>1. d.mem[2 * p] \in [key : Keys]  BY DEF IInv, Flat
<1> QED BY <1>1 DEF Key, KeyAt

LEMMA EmptyMap ==
  ASSUME NEW b, Kept(Slots, b), b.size = 0
  PROVE  MapOf(b) = [k \in {} |-> 0]
<1>1. Flat(b) /\ Pairs(b) = 0  BY FlatEmpty
<1>2. KeysOf(b) = {}
  <2>1. 0..Pairs(b) - 1 = {}  BY <1>1
  <2> QED BY <2>1 DEF KeysOf
<1> QED BY <1>2 DEF MapOf

-----------------------------------------------------------------------------
\* Each step of the dictionary is a step of the map, or none.
LEMMA AbstractOps ==
  /\ \A k, v : AsMap!MSet(k, v) <=> MapOf(d)' = Put(MapOf(d), k, v)
  /\ \A k : AsMap!MRemove(k) <=> MapOf(d)' = Without(MapOf(d), k)
  /\ AsMap!MClear <=> MapOf(d)' = [k \in {} |-> 0]
  /\ AsMap!MSame <=> MapOf(d)' = MapOf(d)
  /\ AsMap!MInit <=> MapOf(d) = [k \in {} |-> 0]
BY DEF AsMap!MSet, AsMap!MRemove, AsMap!MClear, AsMap!MSame, AsMap!MInit, AsMap!Restrict,
       MapOf, Put, Without

LEMMA EachAsNamed ==
  ASSUME IInv, Orderly
  PROVE  \A k \in Keys :
           /\ DictRemove(k) => AsMap!MRemove(k)
           /\ \A v \in Vals : DictSet(k, v) => AsMap!MSet(k, v) \/ AsMap!MSame
           /\ \A it \in mine : Valid(d, it) /\ d.mem[d.pos[it]] = Key(k) =>
                /\ IterRemove(it) => AsMap!MRemove(k)
                /\ \A v \in Vals : IterSet(it, v) => AsMap!MSet(k, v)
<1> SUFFICES ASSUME NEW k \in Keys
             PROVE  /\ DictRemove(k) => AsMap!MRemove(k)
                    /\ \A v \in Vals : DictSet(k, v) => AsMap!MSet(k, v) \/ AsMap!MSame
                    /\ \A it \in mine : Valid(d, it) /\ d.mem[d.pos[it]] = Key(k) =>
                         /\ IterRemove(it) => AsMap!MRemove(k)
                         /\ \A v \in Vals : IterSet(it, v) => AsMap!MSet(k, v)
  OBVIOUS
<1>0. MapOf(d)' = MapOf(d')  BY DEF MapOf, KeysOf, PosOf, Pairs, KeyAt
<1>1. DictRemove(k) => AsMap!MRemove(k)  BY <1>0, DictRemoveMap, AbstractOps
<1>2. ASSUME NEW v \in Vals, DictSet(k, v) PROVE AsMap!MSet(k, v) \/ AsMap!MSame
  BY <1>0, <1>2, DictSetMap, AbstractOps
<1>3. ASSUME NEW it \in mine, Valid(d, it), d.mem[d.pos[it]] = Key(k)
      PROVE  /\ IterRemove(it) => AsMap!MRemove(k)
             /\ \A v \in Vals : IterSet(it, v) => AsMap!MSet(k, v)
  <2>1. it \in Its  BY DEF IInv, mine
  <2>2. ASSUME IterRemove(it) PROVE AsMap!MRemove(k)
    <3>1. PICK p \in 0..Pairs(d) - 1 : d.pos[it] = 2 * p /\ CutDoes(p)
      BY <1>3, <2>1, <2>2, IterRemoveDoes
    <3>2. KeyAt(d, p) = k  BY <1>3, <3>1 DEF Key, KeyAt
    <3> QED BY <1>0, <3>1, <3>2, CutMap, AbstractOps
  <2>3. ASSUME NEW v \in Vals, IterSet(it, v) PROVE AsMap!MSet(k, v)
    BY <1>0, <1>3, <2>1, <2>3, IterSetMap, AbstractOps
  <2> QED BY <2>2, <2>3
<1> QED BY <1>1, <1>2, <1>3

LEMMA NextAsMap ==
  ASSUME IInv, Orderly, [Next]_vars
  PROVE  AsMap!MNext \/ AsMap!MSame
<1>0. MapOf(d)' = MapOf(d')  BY DEF MapOf, KeysOf, PosOf, Pairs, KeyAt
<1>s. ASSUME MapOf(d') = MapOf(d) PROVE AsMap!MSame  BY <1>0, <1>s, AbstractOps
<1>u. ASSUME UNCHANGED d PROVE AsMap!MSame
  <2>1. MapOf(d') = MapOf(d)  BY <1>u
  <2> QED BY <2>1, <1>s
<1>e. ASSUME EmptyStep PROVE AsMap!MNext
  <2>1. PICK b : b = d'  OBVIOUS
  <2>2. MapOf(b) = [k \in {} |-> 0]  BY <1>e, <2>1, EmptyMap DEF EmptyStep
  <2>3. AsMap!MClear  BY <1>0, <2>1, <2>2, AbstractOps
  <2> QED BY <2>3 DEF AsMap!MNext
<1>q. ASSUME QuietStep PROVE AsMap!MSame  BY <1>q, <1>s, QuietMap
<1>1. CASE UNCHANGED vars  BY <1>1, <1>u DEF vars
<1>2. CASE Next
  <2>1. CASE DictClear  BY <2>1, <1>e, DictClearDoes
  <2>2. CASE DictFree  BY <2>2, <1>e, DictFreeDoes
  <2>3. ASSUME NEW k \in Keys, DictRemove(k) PROVE AsMap!MNext
    BY <2>3, EachAsNamed DEF AsMap!MNext
  <2>4. ASSUME NEW k \in Keys, NEW v \in Vals, DictSet(k, v) PROVE AsMap!MNext \/ AsMap!MSame
    BY <2>4, EachAsNamed DEF AsMap!MNext
  <2>5. ASSUME NEW it \in Its, GetIter(it) PROVE AsMap!MSame  BY <2>5, <1>q, GetIterDoes
  <2>6. ASSUME NEW it \in Its, DestroyIter(it) PROVE AsMap!MSame  BY <2>6, <1>q, DestroyIterDoes
  <2>7. ASSUME NEW it \in Its, IterStep(it) PROVE AsMap!MSame  BY <2>7, <1>q, IterStepDoes
  <2>8. ASSUME NEW it \in Its, IterRemove(it) PROVE AsMap!MNext \/ AsMap!MSame
    <3>1. CASE UNCHANGED d  BY <1>u, <3>1
    <3>2. ASSUME NEW p \in 0..Pairs(d) - 1, Valid(d, it), d.pos[it] = 2 * p, CutDoes(p)
          PROVE  AsMap!MNext
      <4>1. PICK k \in Keys : k = KeyAt(d, p)  BY KeyThere
      <4>2. AsMap!MRemove(k)  BY <1>0, <3>2, <4>1, CutMap, AbstractOps
      <4> QED BY <4>2 DEF AsMap!MNext
    <3> QED BY <2>8, <3>1, <3>2, IterRemoveDoes
  <2>9. ASSUME NEW it \in Its, NEW v \in Vals, IterSet(it, v) PROVE AsMap!MNext
    <3>1. it \in mine /\ Valid(d, it)  BY <2>9 DEF IterSet
    <3>2. PICK p \in 0..Pairs(d) - 1 : d.pos[it] = 2 * p  BY <3>1, ValidOnPair
    <3>3. PICK k \in Keys : d.mem[d.pos[it]] = Key(k)
      <4>1. KeyAt(d, p) \in Keys /\ d.mem[2 * p] = Key(KeyAt(d, p))  BY KeyThere
      <4> QED BY <3>2, <4>1
    <3>4. AsMap!MSet(k, v)  BY <2>9, <3>1, <3>3, EachAsNamed
    <3> QED BY <3>4 DEF AsMap!MNext
  <2> QED BY <1>2, <2>1, <2>2, <2>3, <2>4, <2>5, <2>6, <2>7, <2>8, <2>9 DEF Next
<1> QED BY <1>1, <1>2

LEMMA InitAsMap == Init => AsMap!MInit
<1> SUFFICES ASSUME Init PROVE AsMap!MInit  OBVIOUS
<1>1. MapOf(EmptyList) = [k \in {} |-> 0]  BY EmptyFacts, EmptyMap
<1>2. d = EmptyList  BY DEF Init
<1>3. MapOf(d) = [k \in {} |-> 0]  BY <1>1, <1>2
<1> QED BY <1>3, AbstractOps

\* The flat list implements a map, and each function changes the entry of the key that
\* it is called for and no other, whether through the dictionary or through an iterator
\* (value.c:1697-1997).
THEOREM ImplementsMap == Orderly => (Spec => Implements)
<1> SUFFICES ASSUME Orderly PROVE Spec => Implements  OBVIOUS
<1>1. Spec => []IInv  BY Invariance
<1>2. IInv /\ [Next]_vars => AsMap!MNext \/ AsMap!MSame  BY NextAsMap
<1>3. IInv /\ [Next]_vars =>
        \A k \in Keys :
          /\ DictRemove(k) => AsMap!MRemove(k)
          /\ \A v \in Vals : DictSet(k, v) => AsMap!MSet(k, v) \/ AsMap!MSame
          /\ \A it \in mine : Valid(d, it) /\ d.mem[d.pos[it]] = Key(k) =>
               /\ IterRemove(it) => AsMap!MRemove(k)
               /\ \A v \in Vals : IterSet(it, v) => AsMap!MSet(k, v)
  BY EachAsNamed
<1> QED BY <1>1, <1>2, <1>3, InitAsMap, PTL DEF Spec, Implements, AsMap!MSpec, AsMap!MSame

-----------------------------------------------------------------------------
\* Where a key that stays is, and where an iterator is, before and after.
LEMMA SkipIn ==
  ASSUME NEW a, Flat(a), NEW p \in 0..Pairs(a), NEW k \in Keys, NEW v \in Vals,
         \A i \in 0..Pairs(a) - 1 : i < p => KeyAt(a, i) < k,
         \A i \in 0..Pairs(a) - 1 : i >= p => KeyAt(a, i) > k,
         NEW b, Kept(Slots, b), PairIn(b, a, p, k, v),
         NEW it, PosIn(b, a, p, {it}), On(a, {it}), NEW j \in KeysOf(a)
  PROVE  PosOf(a, j) >= a.pos[it] <=> PosOf(b, j) >= b.pos[it]
<1>1. Pairs(a) \in Nat  BY FlatFacts
<1>2. PICK i \in 0..Pairs(a) - 1 : j = KeyAt(a, i)  BY DEF KeysOf
<1>3. Flat(b)  BY PairInPlaces
<1>4. PICK x \in 0..Pairs(b) - 1 : x = (IF i < p THEN i ELSE i + 1) /\ KeyAt(b, x) = KeyAt(a, i)
  BY PairInPlaces
<1>5. PosOf(a, j) = 2 * i  BY <1>2, PlaceOf
<1>6. PosOf(b, j) = 2 * x
  <2>1. PosOf(b, KeyAt(b, x)) = 2 * x  BY <1>3, PlaceOf
  <2> QED BY <1>2, <1>4, <2>1
<1>7. PICK q \in 0..Pairs(a) : a.pos[it] = 2 * q  BY DEF On
<1>8. b.pos[it] = IF 2 * q > 2 * p THEN 2 * q + 2 ELSE 2 * q  BY <1>7 DEF PosIn
<1>9. CASE i < p  BY <1>1, <1>4, <1>5, <1>6, <1>7, <1>8, <1>9
<1>10. CASE ~(i < p)  BY <1>1, <1>4, <1>5, <1>6, <1>7, <1>8, <1>10
<1> QED BY <1>9, <1>10

LEMMA SkipOut ==
  ASSUME NEW a, Flat(a), NEW p \in 0..Pairs(a) - 1, NEW b, Kept(Slots, b), PairOut(b, a, p),
         NEW it, PosOut(b, a, p, {it}), On(a, {it}), NEW j \in KeysOf(a) \cap KeysOf(b)
  PROVE  PosOf(a, j) >= a.pos[it] <=> PosOf(b, j) >= b.pos[it]
<1>1. Pairs(a) \in Nat  BY FlatFacts
<1>2. PICK x \in 0..Pairs(b) - 1 : j = KeyAt(b, x)  BY DEF KeysOf
<1>3. Flat(b)  BY PairOutPlaces
<1>4. PICK i \in 0..Pairs(a) - 1 :
        i = (IF x < p THEN x ELSE x + 1) /\ i # p /\ KeyAt(b, x) = KeyAt(a, i)
  BY PairOutPlaces
<1>5. PosOf(b, j) = 2 * x  BY <1>2, <1>3, PlaceOf
<1>6. PosOf(a, j) = 2 * i
  <2>1. PosOf(a, KeyAt(a, i)) = 2 * i  BY PlaceOf
  <2> QED BY <1>2, <1>4, <2>1
<1>7. PICK q \in 0..Pairs(a) : a.pos[it] = 2 * q  BY DEF On
<1>8. b.pos[it] = IF 2 * q > 2 * p THEN 2 * q - 2 ELSE 2 * q  BY <1>7 DEF PosOut
<1>9. CASE x < p  BY <1>1, <1>4, <1>5, <1>6, <1>7, <1>8, <1>9
<1>10. CASE ~(x < p)  BY <1>1, <1>4, <1>5, <1>6, <1>7, <1>8, <1>10
<1> QED BY <1>9, <1>10

LEMMA SkipSet ==
  ASSUME NEW a, Flat(a), NEW p \in 0..Pairs(a) - 1, NEW v \in Vals,
         NEW b, Kept(Slots, b), PairSet(b, a, p, v), NEW j \in KeysOf(a)
  PROVE  PosOf(a, j) = PosOf(b, j)
<1>1. PICK i \in 0..Pairs(a) - 1 : j = KeyAt(a, i)  BY DEF KeysOf
<1>2. Flat(b) /\ i \in 0..Pairs(b) - 1 /\ j = KeyAt(b, i)  BY <1>1, PairSetFlat
<1>3. PosOf(a, KeyAt(a, i)) = 2 * i /\ PosOf(b, KeyAt(b, i)) = 2 * i  BY <1>2, PlaceOf
<1> QED BY <1>1, <1>2, <1>3

LEMMA SameContents ==
  ASSUME NEW a, NEW b, SameEntries(b, a), a.size \in Nat
  PROVE  Contents(b) = Contents(a)
<1>1. \A i \in 1..a.size : b.mem[i - 1] = a.mem[i - 1]
  <2>1. \A i \in 1..a.size : i - 1 \in 0..a.size - 1  OBVIOUS
  <2> QED BY <2>1 DEF SameEntries
<1> QED BY <1>1 DEF Contents, SameEntries

\* What is still to come for iterator it stays to come.
StillToCome(it) ==
  \A k \in KeysOf(d) \cap KeysOf(d') :
    PosOf(d, k) >= d.pos[it] <=> PosOf(d', k) >= d'.pos[it]

LEMMA NextNoSkip ==
  ASSUME IInv, Orderly, Next, Contents(d') # Contents(d), NEW it \in mine \cap mine'
  PROVE  StillToCome(it)
<1>0. PICK a, b : a = d /\ b = d'  OBVIOUS
<1>1. Flat(a) /\ a.size \in Nat /\ On(a, {it})  BY <1>0 DEF IInv, Flat, Kept, On, mine
<1>2. ~SameEntries(b, a)  BY <1>0, <1>1, SameContents
<1>c. ASSUME NEW p \in 0..Pairs(d) - 1, CutDoes(p) PROVE StillToCome(it)
  <2>1. /\ p \in 0..Pairs(a) - 1 /\ Kept(Slots, b) /\ PairOut(b, a, p) /\ PosOut(b, a, p, {it})
    BY <1>0, <1>c DEF CutDoes, PosOut
  <2>2. \A k \in KeysOf(a) \cap KeysOf(b) :
          PosOf(a, k) >= a.pos[it] <=> PosOf(b, k) >= b.pos[it]
    BY <1>1, <2>1, SkipOut
  <2> QED BY <1>0, <2>2 DEF StillToCome
<1>p. ASSUME NEW p \in 0..Pairs(d) - 1, NEW v \in Vals, PairSet(d', d, p, v), Kept(Slots, d'),
             d'.pos[it] = d.pos[it]
      PROVE  StillToCome(it)
  <2>1. p \in 0..Pairs(a) - 1 /\ Kept(Slots, b) /\ PairSet(b, a, p, v)  BY <1>0, <1>p
  <2>2. \A k \in KeysOf(a) \cap KeysOf(b) : PosOf(a, k) = PosOf(b, k)  BY <1>1, <2>1, SkipSet
  <2> QED BY <1>0, <1>p, <2>2 DEF StillToCome
<1>e. ASSUME EmptyStep PROVE StillToCome(it)
  <2>1. Pairs(b) = 0  BY <1>0, <1>e, FlatEmpty DEF EmptyStep
  <2>2. KeysOf(b) = {}
    <3>1. 0..Pairs(b) - 1 = {}  BY <2>1
    <3> QED BY <3>1 DEF KeysOf
  <2> QED BY <1>0, <2>2 DEF StillToCome
<1>q. ASSUME QuietStep PROVE FALSE  BY <1>0, <1>2, <1>q DEF QuietStep
<1>u. ASSUME UNCHANGED d PROVE FALSE  BY <1>0, <1>2, <1>u DEF SameEntries
<1>3. CASE DictClear  BY <1>3, <1>e, DictClearDoes
<1>4. CASE DictFree  BY <1>4, <1>e, DictFreeDoes
<1>5. ASSUME NEW k \in Keys, DictRemove(k) PROVE StillToCome(it)
  BY <1>5, <1>c, <1>u, DictRemoveDoes
<1>6. ASSUME NEW k \in Keys, NEW v \in Vals, DictSet(k, v) PROVE StillToCome(it)
  <2>1. PICK p \in 0..Pairs(d) : SetDoes(k, v, p)  BY <1>6, DictSetDoes
  <2>2. Sought(a, k, Find(a, k), p) /\ Kept(Slots, b) /\ p \in 0..Pairs(a)
    BY <1>0, <2>1 DEF SetDoes
  <2>3. CASE /\ Find(d, k).found /\ PairSet(d', d, p, v)
             /\ \A j \in mine : d'.pos[j] = d.pos[j]
    <3>1. Pairs(a) \in Nat  BY <1>1, FlatFacts
    <3>2. p \in 0..Pairs(d) - 1  BY <1>0, <2>2, <2>3, <3>1 DEF Sought
    <3>3. d'.pos[it] = d.pos[it] /\ Kept(Slots, d')  BY <1>0, <2>2, <2>3
    <3> QED BY <1>p, <2>3, <3>2, <3>3
  <2>4. CASE ~Find(d, k).found /\ PairIn(d', d, p, k, v) /\ PosIn(d', d, p, mine)
    <3>1. /\ \A i \in 0..Pairs(a) - 1 : i < p => KeyAt(a, i) < k
          /\ \A i \in 0..Pairs(a) - 1 : i >= p => KeyAt(a, i) > k
      BY <1>0, <2>2, <2>4 DEF Sought
    <3>2. PairIn(b, a, p, k, v) /\ PosIn(b, a, p, {it})  BY <1>0, <2>4 DEF PosIn
    <3>3. \A j \in KeysOf(a) : PosOf(a, j) >= a.pos[it] <=> PosOf(b, j) >= b.pos[it]
      BY <1>1, <2>2, <3>1, <3>2, SkipIn
    <3> QED BY <1>0, <3>3 DEF StillToCome
  <2>5. CASE SameEntries(d', d)  BY <1>0, <1>2, <2>5
  <2> QED BY <2>1, <2>3, <2>4, <2>5 DEF SetDoes
<1>7. ASSUME NEW i \in Its, GetIter(i) PROVE FALSE  BY <1>7, <1>q, GetIterDoes
<1>8. ASSUME NEW i \in Its, DestroyIter(i) PROVE FALSE  BY <1>8, <1>q, DestroyIterDoes
<1>9. ASSUME NEW i \in Its, IterStep(i) PROVE FALSE  BY <1>9, <1>q, IterStepDoes
<1>10. ASSUME NEW i \in Its, IterRemove(i) PROVE StillToCome(it)
  BY <1>10, <1>c, <1>u, IterRemoveDoes
<1>11. ASSUME NEW i \in Its, NEW v \in Vals, IterSet(i, v) PROVE StillToCome(it)
  <2>1. PICK p \in 0..Pairs(d) - 1 :
          PairSet(d', d, p, v) /\ Kept(Slots, d') /\ \A j \in mine : d'.pos[j] = d.pos[j]
    BY <1>11, IterSetDoes
  <2>2. d'.pos[it] = d.pos[it]  BY <2>1
  <2> QED BY <1>p, <2>1, <2>2
<1> QED BY <1>3, <1>4, <1>5, <1>6, <1>7, <1>8, <1>9, <1>10, <1>11 DEF Next

\* A loop over the dictionary neither skips nor repeats a key when pairs are put in or
\* taken out on the way (value.c:1063-1079, 1697-1997).
THEOREM NoSkipCorrect == Orderly => (Spec => NoSkip)
<1> SUFFICES ASSUME Orderly PROVE Spec => NoSkip  OBVIOUS
<1>1. Spec => []IInv  BY Invariance
<1>2. IInv /\ [Next]_vars =>
        [\A it \in mine \cap mine' : Contents(d') # Contents(d) =>
           \A k \in KeysOf(d) \cap KeysOf(d') :
             PosOf(d, k) >= d.pos[it] <=> PosOf(d', k) >= d'.pos[it]]_vars
  BY NextNoSkip DEF StillToCome
<1> QED BY <1>1, <1>2, PTL DEF Spec, NoSkip
=============================================================================
