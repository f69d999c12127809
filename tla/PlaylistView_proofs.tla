------------------------ MODULE PlaylistView_proofs ------------------------
(***************************************************************************)
(* Theorems about PlaylistView for every value of its constants: the       *)
(* mirror follows the server's list, the table view raises no exception,   *)
(* and a row that is deleted is the entry the user saw.                    *)
(***************************************************************************)
EXTENDS PlaylistView, SequenceFacts, FiniteSetTheorems

-----------------------------------------------------------------------------
\* The fold of FoldLeft over the members of s, from the left: h has the results for
\* every set of indices, of which those for 1..n are of use.
FoldAt(h, b, s, t) == IF t = {} THEN b ELSE Mirrored(h[t \ {Max(t)}], s[Max(t)])
Folds(h, b, s, n)  == h = [t \in SUBSET (1..n) |-> FoldAt(h, b, s, t)]

LEMMA MaxIs ==
  ASSUME NEW n \in Nat, NEW t \in SUBSET (1..n), n \in t
  PROVE  Max(t) = n
<1>1. n \in t /\ \A y \in t : n >= y
  OBVIOUS
<1>2. \A x \in t : (\A y \in t : x >= y) => x = n
  OBVIOUS
<1> QED
  BY <1>1, <1>2 DEF Max

LEMMA FoldsExists ==
  ASSUME NEW b, NEW s
  PROVE  \A n \in Nat : \E h : Folds(h, b, s, n)
<1> DEFINE T == {n \in Nat : \E h : Folds(h, b, s, n)}
<1>1. 0 \in T
  <2> DEFINE h == [t \in SUBSET (1..0) |-> b]
  <2>1. \A t \in SUBSET (1..0) : t = {}
    OBVIOUS
  <2>2. \A t \in SUBSET (1..0) : FoldAt(h, b, s, t) = b
    BY <2>1 DEF FoldAt
  <2>3. Folds(h, b, s, 0)
    BY <2>2 DEF Folds
  <2> QED
    BY <2>3
<1>2. ASSUME NEW n \in Nat, n \in T PROVE n + 1 \in T
  <2>1. PICK g : Folds(g, b, s, n)
    BY <1>2
  <2> DEFINE Old(t) == t \in SUBSET (1..n)
             h == [t \in SUBSET (1..n + 1) |->
                     IF n + 1 \in t THEN Mirrored(g[t \ {n + 1}], s[n + 1]) ELSE g[t]]
  <2>2. \A t \in SUBSET (1..n) : h[t] = g[t] /\ g[t] = FoldAt(g, b, s, t)
    <3>1. \A t \in SUBSET (1..n) : t \in SUBSET (1..n + 1) /\ n + 1 \notin t
      OBVIOUS
    <3>2. \A t \in SUBSET (1..n) : g[t] = FoldAt(g, b, s, t)
      BY <2>1 DEF Folds
    <3> QED
      BY <3>1, <3>2
  <2>3. ASSUME NEW t \in SUBSET (1..n + 1) PROVE h[t] = FoldAt(h, b, s, t)
    <3>1. CASE n + 1 \in t
      <4>1. t \ {n + 1} \in SUBSET (1..n)
        OBVIOUS
      <4>2. Max(t) = n + 1
        <5>1. PICK k \in Nat : k = n + 1
          OBVIOUS
        <5> QED
          BY <3>1, <5>1, MaxIs
      <4>3. h[t] = Mirrored(g[t \ {n + 1}], s[n + 1])
        BY <3>1
      <4> HIDE DEF h
      <4>4. h[t \ {n + 1}] = g[t \ {n + 1}]
        BY <2>2, <4>1
      <4> QED
        BY <3>1, <4>2, <4>3, <4>4 DEF FoldAt
    <3>2. CASE n + 1 \notin t
      <4>1. t \in SUBSET (1..n) /\ t \ {Max(t)} \in SUBSET (1..n)
        <5>1. \A i \in t : i \in 1..n + 1 /\ i # n + 1
          BY <3>2
        <5>2. \A i \in t : i \in 1..n
          BY <5>1
        <5> HIDE DEF h
        <5> QED
          BY <5>2
      <4> HIDE DEF h
      <4> QED
        BY <2>2, <4>1 DEF FoldAt
    <3> QED
      BY <3>1, <3>2
  <2>4. Folds(h, b, s, n + 1)
    <3>1. h = [t \in SUBSET (1..n + 1) |-> h[t]]
      OBVIOUS
    <3> HIDE DEF h
    <3> QED
      BY <2>3, <3>1 DEF Folds
  <2> HIDE DEF h
  <2> QED
    BY <2>4
<1> HIDE DEF T
<1>3. \A n \in Nat : n \in T
  BY <1>1, <1>2, NatInd
<1> QED
  BY <1>3 DEF T

Folded(b, s) == FoldLeft(Mirrored, b, s)

\* FoldLeft is the last of the results that are made from the left.
LEMMA FoldIs ==
  ASSUME NEW b, NEW s, NEW n \in Nat, DOMAIN s = 1..n, NEW g,
         g[0] = b, \A i \in 1..n : g[i] = Mirrored(g[i - 1], s[i])
  PROVE  Folded(b, s) = g[n]
<1> DEFINE f == CHOOSE h : h = [t \in SUBSET DOMAIN s |->
                             IF t = {} THEN b ELSE Mirrored(h[t \ {Max(t)}], s[Max(t)])]
<1>1. Folded(b, s) = f[DOMAIN s]
  BY DEF Folded, FoldLeft, MapThenFoldSet
<1>2. f = CHOOSE h : Folds(h, b, s, n)
  BY DEF Folds, FoldAt
<1> HIDE DEF f
<1>3. Folds(f, b, s, n)
  BY <1>2, FoldsExists
<1>4. \A t \in SUBSET (1..n) : f[t] = FoldAt(f, b, s, t)
  BY <1>3 DEF Folds
<1> DEFINE T == {i \in Nat : i <= n => f[1..i] = g[i]}
<1>5. 0 \in T
  <2>1. 1..0 = {} /\ 1..0 \in SUBSET (1..n)
    OBVIOUS
  <2>2. f[1..0] = b
    BY <1>4, <2>1 DEF FoldAt
  <2> QED
    BY <2>2
<1>6. ASSUME NEW i \in Nat, i \in T PROVE i + 1 \in T
  <2> SUFFICES ASSUME i + 1 <= n PROVE f[1..i + 1] = g[i + 1]
    OBVIOUS
  <2>1. PICK k \in 1..n : k = i + 1 /\ k \in Nat /\ k - 1 = i
    OBVIOUS
  <2>2. 1..k \in SUBSET (1..n) /\ 1..k # {} /\ k \in 1..k /\ (1..k) \ {k} = 1..i
    <3>1. \A j : j \in 1..k => j \in 1..n
      BY <2>1
    <3>2. k \in 1..k
      BY <2>1
    <3>3. \A j : (j \in 1..k /\ j # k) <=> j \in 1..i
      BY <2>1
    <3> QED
      BY <3>1, <3>2, <3>3
  <2>3. Max(1..k) = k
    BY <2>1, <2>2, MaxIs
  <2>4. f[1..k] = Mirrored(f[1..i], s[k])
    BY <1>4, <2>2, <2>3 DEF FoldAt
  <2>5. f[1..i] = g[i]
    BY <1>6
  <2>6. g[k] = Mirrored(g[i], s[k])
    BY <2>1
  <2> QED
    BY <2>1, <2>4, <2>5, <2>6
<1> HIDE DEF T
<1>7. \A i \in Nat : i \in T
  BY <1>5, <1>6, NatInd
<1>8. f[1..n] = g[n]
  BY <1>7 DEF T
<1> QED
  BY <1>1, <1>8

-----------------------------------------------------------------------------
\* How many members of s are in T.
Hits(s, T)  == {i \in DOMAIN s : s[i] \in T}
Count(s, T) == Cardinality(Hits(s, T))

LEMMA CountFacts ==
  ASSUME NEW S, NEW s \in Seq(S), NEW T
  PROVE  /\ IsFiniteSet(Hits(s, T)) /\ Count(s, T) \in Nat
         /\ Hits(s, T) = {i \in 1..Len(s) : s[i] \in T}
         /\ (\E i \in 1..Len(s) : s[i] \in T) <=> Count(s, T) >= 1
<1>1. Len(s) \in Nat /\ DOMAIN s = 1..Len(s)
  BY LenProperties
<1>2. Hits(s, T) = {i \in 1..Len(s) : s[i] \in T}
  BY <1>1 DEF Hits
<1>3. IsFiniteSet(1..Len(s))
  BY <1>1, FS_Interval
<1>4. IsFiniteSet(Hits(s, T))
  BY <1>2, <1>3, FS_Subset
<1>5. Cardinality(Hits(s, T)) \in Nat
  BY <1>4, FS_CardinalityType
<1>6. Cardinality(Hits(s, T)) = 0 <=> Hits(s, T) = {}
  BY <1>4, FS_EmptySet
<1> QED
  BY <1>2, <1>4, <1>5, <1>6 DEF Count

LEMMA CountEmpty == ASSUME NEW T PROVE Count(<<>>, T) = 0
<1>1. Hits(<<>>, T) = {}
  BY DEF Hits
<1> QED
  BY <1>1, FS_EmptySet DEF Count

LEMMA CountAppend ==
  ASSUME NEW S, NEW s \in Seq(S), NEW x \in S, NEW T
  PROVE  Count(Append(s, x), T) = Count(s, T) + (IF x \in T THEN 1 ELSE 0)
<1> DEFINE t == Append(s, x)
           n == Len(s) + 1
<1>1. /\ Len(s) \in Nat /\ t \in Seq(S) /\ Len(t) = n /\ t[n] = x
      /\ \A i \in 1..Len(s) : t[i] = s[i]
  BY LenProperties, AppendProperties
<1> HIDE DEF t
<1>2. /\ Hits(s, T) = {i \in 1..Len(s) : s[i] \in T} /\ IsFiniteSet(Hits(s, T))
      /\ Count(s, T) \in Nat /\ Hits(t, T) = {i \in 1..Len(t) : t[i] \in T}
  BY <1>1, CountFacts
<1>3. n \notin Hits(s, T) /\ 1..n = (1..Len(s)) \cup {n}
  BY <1>1, <1>2
<1>4. Hits(t, T) = IF x \in T THEN Hits(s, T) \cup {n} ELSE Hits(s, T)
  BY <1>1, <1>2, <1>3
<1>5. Cardinality(Hits(s, T) \cup {n}) = Cardinality(Hits(s, T)) + 1
  BY <1>2, <1>3, FS_AddElement
<1>6. Count(t, T) = Count(s, T) + (IF x \in T THEN 1 ELSE 0)
  <2>1. CASE x \in T
    BY <1>4, <1>5, <2>1 DEF Count
  <2>2. CASE x \notin T
    <3>1. Count(t, T) = Count(s, T)
      BY <1>4, <2>2 DEF Count
    <3> QED
      BY <1>2, <2>2, <3>1
  <2> QED
    BY <2>1, <2>2
<1> QED
  BY <1>6 DEF t

LEMMA CountTail ==
  ASSUME NEW S, NEW s \in Seq(S), s # <<>>, NEW T
  PROVE  Count(s, T) = Count(Tail(s), T) + (IF s[1] \in T THEN 1 ELSE 0)
<1>1. PICK t \in Seq(S) : t = Tail(s)
  BY HeadTailProperties
<1>2. /\ Len(s) \in Nat /\ Len(s) >= 1 /\ Len(t) = Len(s) - 1
      /\ \A i \in 1..Len(s) - 1 : t[i] = s[i + 1]
  BY <1>1, EmptySeq, LenProperties, HeadTailProperties
<1> DEFINE A == Hits(t, T)
           B == {i \in 2..Len(s) : s[i] \in T}
           f == [i \in A |-> i + 1]
<1>3. /\ Hits(s, T) = {i \in 1..Len(s) : s[i] \in T}
      /\ A = {i \in 1..Len(s) - 1 : s[i + 1] \in T} /\ IsFiniteSet(A) /\ Count(t, T) \in Nat
  <2>1. A = {i \in 1..Len(t) : t[i] \in T} /\ IsFiniteSet(A) /\ Count(t, T) \in Nat
    BY CountFacts
  <2> HIDE DEF A
  <2>2. A = {i \in 1..Len(s) - 1 : s[i + 1] \in T}
    BY <1>2, <2>1
  <2> QED
    BY <2>1, <2>2, CountFacts
<1> HIDE DEF A
<1>4. f \in Bijection(A, B)
  <2>1. f \in [A -> B]
    <3>1. \A i \in A : i + 1 \in B
      BY <1>2, <1>3
    <3> QED
      BY <3>1
  <2>2. \A i, j \in A : f[i] = f[j] => i = j
    BY <1>2, <1>3
  <2>3. \A j \in B : \E i \in A : f[i] = j
    <3>1. ASSUME NEW j \in B PROVE j - 1 \in A /\ f[j - 1] = j
      <4>1. j - 1 \in 1..Len(s) - 1 /\ (j - 1) + 1 = j
        BY <1>2
      <4> QED
        BY <1>3, <4>1
    <3> QED
      BY <3>1
  <2> QED
    BY <2>1, <2>2, <2>3 DEF Bijection, Injection, Surjection, IsInjective
<1>5. 1 \notin B
  OBVIOUS
<1>6. Hits(s, T) = IF s[1] \in T THEN B \cup {1} ELSE B
  <2>1. 1..Len(s) = (2..Len(s)) \cup {1}
    BY <1>2
  <2> QED
    BY <1>3, <2>1
<1> HIDE DEF f, B
<1>7. IsFiniteSet(B) /\ Cardinality(B) = Cardinality(A)
  BY <1>3, <1>4, FS_Bijection DEF ExistsBijection
<1>8. Cardinality(B \cup {1}) = Cardinality(B) + 1
  BY <1>5, <1>7, FS_AddElement
<1>9. Count(s, T) = Count(t, T) + (IF s[1] \in T THEN 1 ELSE 0)
  <2>1. Count(t, T) = Cardinality(A)
    BY DEF Count, A
  <2>2. CASE s[1] \in T
    BY <1>6, <1>7, <1>8, <2>1, <2>2 DEF Count
  <2>3. CASE s[1] \notin T
    <3>1. Count(s, T) = Count(t, T)
      BY <1>6, <1>7, <2>1, <2>3 DEF Count
    <3> QED
      BY <1>3, <2>3, <3>1
  <2> QED
    BY <2>2, <2>3
<1> QED
  BY <1>1, <1>9

-----------------------------------------------------------------------------
\* Messages, and what they do to a list.
Messages ==
  [type : {"add"}, id : Songs, version : Nat]
  \cup [type : {"insert"}, pos : Nat, id : Songs, version : Nat]
  \cup [type : {"remove"}, pos : Nat, version : Nat]
  \cup [type : {"move"}, pos : Nat, new : Nat, version : Nat]
  \cup [type : {"clear", "reorder"}, version : Nat]
  \cup [type : {"entries"}, list : Seq(Songs), version : Nat]

LEMMA MessageFacts ==
  ASSUME NEW m \in Messages
  PROVE  /\ m.type \in {"add", "insert", "remove", "move", "clear", "reorder", "entries"}
         /\ m.version \in Nat
         /\ m.type \in {"add", "insert"} => m.id \in Songs
         /\ m.type \in {"insert", "remove", "move"} => m.pos \in Nat
         /\ m.type = "move" => m.new \in Nat
         /\ m.type = "entries" => m.list \in Seq(Songs)
  BY DEF Messages

\* The length of a list of length n after message m.
Size(n, m) ==
  CASE m.type = "entries" -> IF m.list = <<>> THEN n ELSE Len(m.list)
    [] m.type \in {"add", "insert"} -> n + 1
    [] m.type = "remove" -> n - 1
    [] m.type = "move" -> n
    [] OTHER -> 0

\* An entry is moved: the places in between move by one.
LEMMA MovedFacts ==
  ASSUME NEW s \in Seq(Songs), NEW pos \in Nat, NEW new \in Nat, pos < Len(s), new < Len(s)
  PROVE  /\ Moved(s, pos, new) \in Seq(Songs) /\ Len(Moved(s, pos, new)) = Len(s)
         /\ Moved(s, pos, new) =
              [i \in DOMAIN s |->
                 IF i = new + 1 THEN s[pos + 1]
                 ELSE IF i > pos /\ i <= new THEN s[i + 1]
                 ELSE IF i <= pos + 1 /\ i > new + 1 THEN s[i - 1]
                 ELSE s[i]]
<1>1. /\ Len(s) \in Nat /\ DOMAIN s = 1..Len(s)
      /\ \A i \in 1..Len(s) : s[i] \in Songs
  BY LenProperties, ElementOfSeq
<1>2. PICK p \in 1..Len(s), q \in 1..Len(s) : p = pos + 1 /\ q = new + 1
  BY <1>1
<1>3. RemovedAt(RemoveAt(s, p), Songs, s, p)
  BY RemoveAtPlaces
<1>4. PICK r : r = RemoveAt(s, p)
  OBVIOUS
<1>5. /\ r \in Seq(Songs) /\ Len(r) = Len(s) - 1
      /\ \A i \in 1..Len(s) - 1 : r[i] = IF i < p THEN s[i] ELSE s[i + 1]
  BY <1>3, <1>4 DEF RemovedAt
<1>6. PICK x \in Songs : x = s[p]
  BY <1>1
<1>7. PICK t : t = InsertAt(r, q, x)
  OBVIOUS
<1>8. InsertedAt(t, Songs, r, q, x)
  <2>1. q \in 1..Len(r) + 1
    BY <1>1, <1>5
  <2> QED
    BY <1>5, <1>7, <2>1, InsertAtPlaces
<1>9. /\ t \in Seq(Songs) /\ Len(t) = Len(s)
      /\ \A i \in 1..Len(s) : t[i] = IF i < q THEN r[i] ELSE IF i = q THEN x ELSE r[i - 1]
  <2>1. Len(r) + 1 = Len(s)
    BY <1>1, <1>5
  <2> QED
    BY <1>8, <2>1 DEF InsertedAt
<1>10. Moved(s, pos, new) = t
  BY <1>2, <1>4, <1>6, <1>7 DEF Moved
<1> DEFINE u == [i \in DOMAIN s |->
                   IF i = new + 1 THEN s[pos + 1]
                   ELSE IF i > pos /\ i <= new THEN s[i + 1]
                   ELSE IF i <= pos + 1 /\ i > new + 1 THEN s[i - 1]
                   ELSE s[i]]
<1>11. ASSUME NEW i \in 1..Len(s) PROVE t[i] = u[i]
  <2>1. u[i] = IF i = q THEN x ELSE IF i >= p /\ i < q THEN s[i + 1]
               ELSE IF i <= p /\ i > q THEN s[i - 1] ELSE s[i]
    BY <1>1, <1>2, <1>6
  <2> HIDE DEF u
  <2>2. CASE i < q
    <3>1. t[i] = r[i] /\ i \in 1..Len(s) - 1
      BY <1>1, <1>9, <2>2
    <3> QED
      BY <1>1, <1>5, <2>1, <2>2, <3>1
  <2>3. CASE i = q
    BY <1>1, <1>9, <2>1, <2>3
  <2>4. CASE i > q
    <3>1. t[i] = r[i - 1] /\ i - 1 \in 1..Len(s) - 1 /\ (i - 1) + 1 = i
      BY <1>1, <1>9, <2>4
    <3>2. r[i - 1] = IF i - 1 < p THEN s[i - 1] ELSE s[i]
      BY <1>5, <3>1
    <3> QED
      BY <1>1, <2>1, <2>4, <3>1, <3>2
  <2> QED
    BY <1>1, <2>2, <2>3, <2>4
<1>12. t = u
  <2>1. DOMAIN t = 1..Len(s) /\ DOMAIN u = 1..Len(s)
    BY <1>1, <1>9, LenProperties
  <2>2. t = [i \in 1..Len(s) |-> t[i]] /\ u = [i \in 1..Len(s) |-> u[i]]
    BY <1>9, <2>1
  <2> HIDE DEF u
  <2> QED
    BY <1>11, <2>2
<1> QED
  BY <1>9, <1>10, <1>12

-----------------------------------------------------------------------------
\* A message that is in bounds makes a list of the expected length.
LEMMA MirroredFacts ==
  ASSUME NEW s \in Seq(Songs), NEW m \in Messages, InBounds(s, m)
  PROVE  Mirrored(s, m) \in Seq(Songs) /\ Len(Mirrored(s, m)) = Size(Len(s), m)
<1>1. Len(s) \in Nat
  BY LenProperties
<1>2. CASE m.type = "entries"
  BY <1>2, MessageFacts DEF Mirrored, Size
<1>3. CASE m.type = "add"
  BY <1>3, MessageFacts, AppendProperties DEF Mirrored, Size
<1>4. CASE m.type = "insert"
  <2>1. m.pos \in Nat /\ m.pos <= Len(s) /\ m.id \in Songs
    BY <1>4, MessageFacts DEF InBounds
  <2>2. m.pos + 1 \in 1..Len(s) + 1
    BY <1>1, <2>1
  <2>3. InsertedAt(InsertAt(s, m.pos + 1, m.id), Songs, s, m.pos + 1, m.id)
    BY <2>1, <2>2, InsertAtPlaces
  <2>4. Mirrored(s, m) = InsertAt(s, m.pos + 1, m.id) /\ Size(Len(s), m) = Len(s) + 1
    BY <1>4 DEF Mirrored, Inserted, Size
  <2> QED
    BY <2>3, <2>4 DEF InsertedAt
<1>5. CASE m.type = "remove"
  <2>1. m.pos \in Nat /\ m.pos < Len(s)
    BY <1>5, MessageFacts DEF InBounds
  <2>2. m.pos + 1 \in 1..Len(s)
    BY <1>1, <2>1
  <2>3. RemovedAt(RemoveAt(s, m.pos + 1), Songs, s, m.pos + 1)
    BY <2>2, RemoveAtPlaces
  <2>4. Mirrored(s, m) = RemoveAt(s, m.pos + 1) /\ Size(Len(s), m) = Len(s) - 1
    BY <1>5 DEF Mirrored, Size
  <2> QED
    BY <2>3, <2>4 DEF RemovedAt
<1>6. CASE m.type = "move"
  <2>1. m.pos \in Nat /\ m.new \in Nat /\ m.pos < Len(s) /\ m.new < Len(s)
    BY <1>6, MessageFacts DEF InBounds
  <2>2. Mirrored(s, m) = Moved(s, m.pos, m.new) /\ Size(Len(s), m) = Len(s)
    BY <1>6 DEF Mirrored, Size
  <2> QED
    BY <2>1, <2>2, MovedFacts
<1>7. CASE m.type \in {"clear", "reorder"}
  BY <1>7 DEF Mirrored, Emptied, Size
<1> QED
  BY <1>2, <1>3, <1>4, <1>5, <1>6, <1>7, MessageFacts

\* The message can be applied to the list: the entries only to an empty one.
Applies(list, m) == InBounds(list, m) /\ (m.type = "entries" => list = <<>>)

\* The rows stay songs, and are as many as the data source has.
LEMMA RowsFacts ==
  ASSUME mirror \in Seq(Songs), shown \in Seq(Songs), Len(shown) = Len(mirror),
         NEW m \in Messages, InBounds(mirror, m)
  PROVE  /\ Rows(m) \in Seq(Songs)
         /\ Applies(mirror, m) => RowsAgree(m)
<1>1. Len(shown) \in Nat
  BY LenProperties
<1>2. Len(Mirrored(mirror, m)) = Size(Len(shown), m)
  BY MirroredFacts
<1>3. CASE m.type = "entries"
  <2>1. m.list \in Seq(Songs)
    BY <1>3, MessageFacts
  <2>2. Rows(m) = m.list \o shown
    BY <1>3 DEF Rows
  <2>3. m.list \o shown \in Seq(Songs) /\ Len(m.list \o shown) = Len(m.list) + Len(shown)
    BY <2>1, ConcatProperties
  <2>4. ASSUME Applies(mirror, m) PROVE Len(m.list \o shown) = Size(Len(shown), m)
    <3>1. Len(shown) = 0
      BY <2>4, <1>3 DEF Applies
    <3>2. Len(m.list) \in Nat /\ (m.list = <<>> => Len(m.list) = 0)
      BY <2>1, LenProperties
    <3>3. Size(Len(shown), m) = Len(m.list)
      BY <1>3, <3>1, <3>2 DEF Size
    <3> QED
      BY <2>3, <3>1, <3>2, <3>3
  <2> QED
    BY <1>2, <2>2, <2>3, <2>4 DEF RowsAgree
<1>4. CASE m.type = "add"
  <2>1. Rows(m) = Append(shown, m.id) /\ m.id \in Songs /\ Size(Len(shown), m) = Len(shown) + 1
    BY <1>4, MessageFacts DEF Rows, RowAdded, Size
  <2> QED
    BY <1>2, <2>1, AppendProperties DEF RowsAgree
<1>5. CASE m.type = "insert"
  <2>1. m.pos \in Nat /\ m.pos <= Len(shown) /\ m.id \in Songs
    BY <1>5, MessageFacts DEF InBounds
  <2>2. m.pos + 1 \in 1..Len(shown) + 1
    BY <1>1, <2>1
  <2>3. InsertedAt(InsertAt(shown, m.pos + 1, m.id), Songs, shown, m.pos + 1, m.id)
    BY <2>1, <2>2, InsertAtPlaces
  <2>4. Rows(m) = InsertAt(shown, m.pos + 1, m.id) /\ Size(Len(shown), m) = Len(shown) + 1
    BY <1>5 DEF Rows, Size
  <2> QED
    BY <1>2, <2>3, <2>4 DEF InsertedAt, RowsAgree
<1>6. CASE m.type = "remove"
  <2>1. m.pos \in Nat /\ m.pos < Len(shown)
    BY <1>6, MessageFacts DEF InBounds
  <2>2. m.pos + 1 \in 1..Len(shown)
    BY <1>1, <2>1
  <2>3. RemovedAt(RemoveAt(shown, m.pos + 1), Songs, shown, m.pos + 1)
    BY <2>2, RemoveAtPlaces
  <2>4. Rows(m) = RemoveAt(shown, m.pos + 1) /\ Size(Len(shown), m) = Len(shown) - 1
    BY <1>6 DEF Rows, Size
  <2> QED
    BY <1>2, <2>3, <2>4 DEF RemovedAt, RowsAgree
<1>7. CASE m.type = "move"
  BY <1>2, <1>7 DEF Rows, Size, RowsAgree
<1>8. CASE m.type \in {"clear", "reorder"}
  <2>1. Rows(m) = SubSeq(shown, Len(shown) + 1, Len(shown)) /\ Size(Len(shown), m) = 0
    BY <1>8 DEF Rows, Size
  <2>2. Rows(m) = <<>>
    BY <1>1, <2>1, SubSeqEmpty
  <2>3. Len(Rows(m)) = 0
    BY <2>2
  <2> QED
    BY <1>2, <2>1, <2>2, <2>3 DEF RowsAgree
<1> QED
  BY <1>3, <1>4, <1>5, <1>6, <1>7, <1>8, MessageFacts

\* Equal sequences, place by place.
LEMMA SamePlaces ==
  ASSUME NEW s \in Seq(Songs), NEW t \in Seq(Songs), NEW n, Len(s) = n, Len(t) = n,
         \A i \in 1..n : s[i] = t[i]
  PROVE  s = t
BY SeqEqual

\* The server's list without the place after pos, and with an entry after pos.
LEMMA ServerRemoved ==
  ASSUME NEW s \in Seq(Songs), NEW pos \in 0..Len(s) - 1
  PROVE  SubSeq(s, 1, pos) \o SubSeq(s, pos + 2, Len(s)) = RemoveAt(s, pos + 1)
<1>1. (pos + 1) - 1 = pos /\ (pos + 1) + 1 = pos + 2
  OBVIOUS
<1> QED
  BY <1>1 DEF RemoveAt

LEMMA ServerInserted ==
  ASSUME NEW s \in Seq(Songs), NEW pos \in 0..Len(s), NEW e \in Songs
  PROVE  SubSeq(s, 1, pos) \o <<e>> \o SubSeq(s, pos + 1, Len(s)) = InsertAt(s, pos + 1, e)
<1>1. (pos + 1) - 1 = pos
  OBVIOUS
<1> QED
  BY <1>1 DEF InsertAt

\* What a change of the server is announced as, and what it makes of the list.
Announces(s, m, w, n) ==
  /\ w \in Messages /\ w.type = m.type /\ w.version = n
  /\ w.type # "entries"
  /\ InBounds(s, w)
  /\ m.type = "reorder" \/ \A t \in Changed(s, m) : t = Mirrored(s, w)
  /\ m.type \in {"reorder", "clear"} => \A list : Mirrored(list, w) = <<>> /\ InBounds(list, w)

LEMMA AnnouncesAdd ==
  ASSUME NEW s \in Seq(Songs), NEW id \in Songs, NEW n \in Nat,
         NEW m, m = [type |-> "add", id |-> id]
  PROVE  Announces(s, m, Numbered(m, n), n)
<1>1. m.type = "add" /\ m.id = id /\ DOMAIN m = {"type", "id"} /\ m["type"] = "add" /\ m["id"] = id
  OBVIOUS
<1>2. Numbered(m, n) = [type |-> "add", id |-> id, version |-> n]
  BY <1>1 DEF Numbered
<1> DEFINE w == [type |-> "add", id |-> id, version |-> n]
<1>3. w \in Messages /\ w.type = "add" /\ w.id = id /\ w.version = n
  BY DEF Messages
<1> HIDE DEF w
<1>4. Changed(s, m) = {s \o <<id>>}
  BY <1>1 DEF Changed
<1>5. Mirrored(s, w) = Append(s, id)
  BY <1>3 DEF Mirrored
<1>6. s \o <<id>> = Append(s, id)
  BY AppendIsConcat
<1>7. Announces(s, m, w, n)
  BY <1>1, <1>3, <1>4, <1>5, <1>6 DEF Announces, InBounds
<1> QED
  BY <1>2, <1>7 DEF w

LEMMA AnnouncesInsert ==
  ASSUME NEW s \in Seq(Songs), NEW pos \in 0..Len(s), NEW id \in Songs, NEW n \in Nat,
         NEW m, m = [type |-> "insert", pos |-> pos, id |-> id]
  PROVE  Announces(s, m, Numbered(m, n), n)
<1>1. /\ m.type = "insert" /\ m.pos = pos /\ m.id = id /\ DOMAIN m = {"type", "pos", "id"}
      /\ m["type"] = "insert" /\ m["pos"] = pos /\ m["id"] = id
  OBVIOUS
<1>2. Numbered(m, n) = [type |-> "insert", pos |-> pos, id |-> id, version |-> n]
  BY <1>1 DEF Numbered
<1>a. pos \in Nat /\ pos <= Len(s)
  BY LenProperties
<1> DEFINE w == [type |-> "insert", pos |-> pos, id |-> id, version |-> n]
<1>3. w \in Messages /\ w.type = "insert" /\ w.pos = pos /\ w.id = id /\ w.version = n
  BY <1>a DEF Messages
<1> HIDE DEF w
<1>4. Changed(s, m) = {SubSeq(s, 1, pos) \o <<id>> \o SubSeq(s, pos + 1, Len(s))}
  BY <1>1 DEF Changed
<1>5. Mirrored(s, w) = InsertAt(s, pos + 1, id)
  BY <1>3 DEF Mirrored, Inserted
<1>6. \A t \in Changed(s, m) : t = Mirrored(s, w)
  BY <1>4, <1>5, ServerInserted
<1>7. Announces(s, m, w, n)
  BY <1>1, <1>a, <1>3, <1>6 DEF Announces, InBounds
<1> QED
  BY <1>2, <1>7 DEF w

LEMMA AnnouncesRemove ==
  ASSUME NEW s \in Seq(Songs), NEW pos \in 0..Len(s) - 1, NEW n \in Nat,
         NEW m, m = [type |-> "remove", pos |-> pos]
  PROVE  Announces(s, m, Numbered(m, n), n)
<1>1. /\ m.type = "remove" /\ m.pos = pos /\ DOMAIN m = {"type", "pos"}
      /\ m["type"] = "remove" /\ m["pos"] = pos
  OBVIOUS
<1>2. Numbered(m, n) = [type |-> "remove", pos |-> pos, version |-> n]
  BY <1>1 DEF Numbered
<1>a. pos \in Nat /\ pos < Len(s)
  BY LenProperties
<1> DEFINE w == [type |-> "remove", pos |-> pos, version |-> n]
<1>3. w \in Messages /\ w.type = "remove" /\ w.pos = pos /\ w.version = n
  BY <1>a DEF Messages
<1> HIDE DEF w
<1>4. Changed(s, m) = {SubSeq(s, 1, pos) \o SubSeq(s, pos + 2, Len(s))}
  BY <1>1 DEF Changed
<1>5. Mirrored(s, w) = RemoveAt(s, pos + 1)
  BY <1>3 DEF Mirrored
<1>6. \A t \in Changed(s, m) : t = Mirrored(s, w)
  BY <1>4, <1>5, ServerRemoved
<1>7. Announces(s, m, w, n)
  BY <1>1, <1>a, <1>3, <1>6 DEF Announces, InBounds
<1> QED
  BY <1>2, <1>7 DEF w

LEMMA AnnouncesMove ==
  ASSUME NEW s \in Seq(Songs), NEW pos \in 0..Len(s) - 1, NEW new \in 0..Len(s) - 1,
         NEW n \in Nat, NEW m, m = [type |-> "move", pos |-> pos, new |-> new]
  PROVE  Announces(s, m, Numbered(m, n), n)
<1>1. /\ m.type = "move" /\ m.pos = pos /\ m.new = new /\ DOMAIN m = {"type", "pos", "new"}
      /\ m["type"] = "move" /\ m["pos"] = pos /\ m["new"] = new
  OBVIOUS
<1>2. Numbered(m, n) = [type |-> "move", pos |-> pos, new |-> new, version |-> n]
  BY <1>1 DEF Numbered
<1>a. pos \in Nat /\ pos < Len(s) /\ new \in Nat /\ new < Len(s)
  BY LenProperties
<1> DEFINE w == [type |-> "move", pos |-> pos, new |-> new, version |-> n]
<1>3. w \in Messages /\ w.type = "move" /\ w.pos = pos /\ w.new = new /\ w.version = n
  BY <1>a DEF Messages
<1> HIDE DEF w
<1>5. Mirrored(s, w) = Moved(s, pos, new)
  BY <1>3 DEF Mirrored
<1>4. Changed(s, m) =
        {[i \in DOMAIN s |->
            IF i = new + 1 THEN s[pos + 1]
            ELSE IF i > pos /\ i <= new THEN s[i + 1]
            ELSE IF i <= pos + 1 /\ i > new + 1 THEN s[i - 1]
            ELSE s[i]]}
  BY <1>1 DEF Changed
<1>6. \A t \in Changed(s, m) : t = Moved(s, pos, new)
  BY <1>a, <1>4, MovedFacts
<1>7. Announces(s, m, w, n)
  BY <1>1, <1>a, <1>3, <1>5, <1>6 DEF Announces, InBounds
<1> QED
  BY <1>2, <1>7 DEF w

LEMMA AnnouncesEmptied ==
  ASSUME NEW s \in Seq(Songs), NEW type \in {"clear", "reorder"}, NEW n \in Nat,
         NEW m, m = [type |-> type]
  PROVE  Announces(s, m, Numbered(m, n), n)
<1>1. m.type = type /\ DOMAIN m = {"type"} /\ m["type"] = type
  OBVIOUS
<1>2. Numbered(m, n) = [type |-> type, version |-> n]
  BY <1>1 DEF Numbered
<1> DEFINE w == [type |-> type, version |-> n]
<1>3. w \in Messages /\ w.type = type /\ w.version = n
  BY DEF Messages
<1> HIDE DEF w
<1>5. \A list : Mirrored(list, w) = <<>> /\ InBounds(list, w)
  BY <1>3 DEF Mirrored, Emptied, InBounds
<1>6. type = "clear" => \A t \in Changed(s, m) : t = <<>>
  BY <1>1 DEF Changed
<1>7. Announces(s, m, w, n)
  BY <1>1, <1>3, <1>5, <1>6 DEF Announces
<1> QED
  BY <1>2, <1>7 DEF w

\* A change the server can make: how it is announced, and the list it makes.
LEMMA ChangeFacts ==
  ASSUME NEW s \in Seq(Songs), Len(s) <= MaxLen, NEW m \in Changes(s), NEW n \in Nat
  PROVE  /\ Announces(s, m, Numbered(m, n), n)
         /\ \A t \in Changed(s, m) : t \in Seq(Songs) /\ Len(t) <= MaxLen
<1>1. Len(s) \in Nat /\ MaxLen \in Nat /\ DOMAIN s = 1..Len(s)
  BY LenProperties, PlaylistAssumption
<1>a. Len(s) # MaxLen => Len(s) + 1 <= MaxLen
  <2>1. \A i, j \in Nat : i <= j /\ i # j => i + 1 <= j
    OBVIOUS
  <2>2. PICK i \in Nat, j \in Nat : i = Len(s) /\ j = MaxLen
    BY <1>1
  <2>3. i <= j /\ (i # j => i + 1 <= j)
    BY <2>1, <2>2
  <2> QED
    BY <2>2, <2>3
<1>2. \/ Len(s) # MaxLen /\ m \in [type : {"add"}, id : Songs]
      \/ Len(s) # MaxLen /\ m \in [type : {"insert"}, pos : 0..Len(s), id : Songs]
      \/ m \in [type : {"remove"}, pos : 0..Len(s) - 1]
      \/ m \in [type : {"move"}, pos : 0..Len(s) - 1, new : 0..Len(s) - 1]
      \/ m \in [type : {"clear", "reorder"}]
  BY DEF Changes
<1> DEFINE w == Numbered(m, n)
<1>3. ASSUME Announces(s, m, w, n), m.type # "reorder", Size(Len(s), w) <= MaxLen
      PROVE \A t \in Changed(s, m) : t \in Seq(Songs) /\ Len(t) <= MaxLen
  <2> HIDE DEF w
  <2> QED
    BY <1>3, MirroredFacts DEF Announces
<1> HIDE DEF w
<1>4. CASE Len(s) # MaxLen /\ m \in [type : {"add"}, id : Songs]
  <2>1. m.id \in Songs /\ m = [type |-> "add", id |-> m.id]
    BY <1>4
  <2>2. Announces(s, m, w, n) /\ m.type = "add"
    BY <2>1, AnnouncesAdd DEF w
  <2>3. Size(Len(s), w) = Len(s) + 1
    BY <2>2 DEF Announces, Size
  <2>4. Len(s) + 1 <= MaxLen
    BY <1>a, <1>4
  <2> QED
    BY <1>3, <2>2, <2>3, <2>4 DEF w
<1>5. CASE Len(s) # MaxLen /\ m \in [type : {"insert"}, pos : 0..Len(s), id : Songs]
  <2>1. m.pos \in 0..Len(s) /\ m.id \in Songs /\ m = [type |-> "insert", pos |-> m.pos, id |-> m.id]
    BY <1>5
  <2>2. Announces(s, m, w, n) /\ m.type = "insert"
    BY <2>1, AnnouncesInsert DEF w
  <2>3. Size(Len(s), w) = Len(s) + 1
    BY <2>2 DEF Announces, Size
  <2>4. Len(s) + 1 <= MaxLen
    BY <1>a, <1>5
  <2> QED
    BY <1>3, <2>2, <2>3, <2>4 DEF w
<1>6. CASE m \in [type : {"remove"}, pos : 0..Len(s) - 1]
  <2>1. m.pos \in 0..Len(s) - 1 /\ m = [type |-> "remove", pos |-> m.pos]
    BY <1>6
  <2>2. Announces(s, m, w, n) /\ m.type = "remove"
    BY <2>1, AnnouncesRemove DEF w
  <2>3. Size(Len(s), w) = Len(s) - 1
    BY <2>2 DEF Announces, Size
  <2>4. Len(s) - 1 <= MaxLen
    BY <1>1
  <2> QED
    BY <1>3, <2>2, <2>3, <2>4 DEF w
<1>7. CASE m \in [type : {"move"}, pos : 0..Len(s) - 1, new : 0..Len(s) - 1]
  <2>1. /\ m.pos \in 0..Len(s) - 1 /\ m.new \in 0..Len(s) - 1
        /\ m = [type |-> "move", pos |-> m.pos, new |-> m.new]
    BY <1>7
  <2>2. Announces(s, m, w, n) /\ m.type = "move"
    BY <2>1, AnnouncesMove DEF w
  <2>3. Size(Len(s), w) = Len(s)
    BY <2>2 DEF Announces, Size
  <2> QED
    BY <1>3, <2>2, <2>3 DEF w
<1>8. CASE m \in [type : {"clear", "reorder"}]
  <2>1. m.type \in {"clear", "reorder"} /\ m = [type |-> m.type]
    BY <1>8
  <2>2. Announces(s, m, w, n)
    BY <2>1, AnnouncesEmptied DEF w
  <2>3. CASE m.type = "clear"
    <3>1. Size(Len(s), w) = 0
      BY <2>2, <2>3 DEF Announces, Size
    <3> QED
      BY <1>1, <1>3, <2>2, <2>3, <3>1 DEF w
  <2>4. CASE m.type = "reorder"
    <3>1. ASSUME NEW t \in Changed(s, m) PROVE t \in Seq(Songs) /\ Len(t) <= MaxLen
      <4>1. t \in [1..Len(s) -> ToSet(s)]
        BY <1>1, <2>4, <3>1 DEF Changed, Reordered
      <4>2. \A x \in ToSet(s) : x \in Songs
        BY <1>1, ElementOfSeq DEF ToSet
      <4>3. t \in [1..Len(s) -> Songs]
        BY <4>1, <4>2
      <4>4. t \in Seq(Songs) /\ Len(t) = Len(s)
        BY <1>1, <4>3, SeqDef, LenProperties
      <4> QED
        BY <4>4
    <3> QED
      BY <2>2, <3>1 DEF w
  <2> QED
    BY <2>1, <2>3, <2>4
<1> QED
  BY <1>2, <1>4, <1>5, <1>6, <1>7, <1>8

-----------------------------------------------------------------------------
\* The messages s, applied one after the other to list b, make list r of it, and
\* each of them can be applied.
ReplayBy(g, b, s) ==
  /\ g \in [0..Len(s) -> Seq(Songs)] /\ g[0] = b
  /\ \A i \in 1..Len(s) : Applies(g[i - 1], s[i]) /\ g[i] = Mirrored(g[i - 1], s[i])
Replays(b, s, r) == \E g : ReplayBy(g, b, s) /\ g[Len(s)] = r

LEMMA ReplaysEmpty == ASSUME NEW b \in Seq(Songs) PROVE Replays(b, <<>>, b)
<1>1. PICK g : g = [i \in 0..0 |-> b]
  OBVIOUS
<1>2. Len(<<>>) = 0 /\ 1..0 = {} /\ g \in [0..0 -> Seq(Songs)] /\ g[0] = b
  BY <1>1
<1>3. ReplayBy(g, b, <<>>) /\ g[Len(<<>>)] = b
  BY <1>2 DEF ReplayBy
<1> QED
  BY <1>3 DEF Replays

LEMMA ReplaysAppend ==
  ASSUME NEW b, NEW s \in Seq(Messages), NEW r, Replays(b, s, r),
         NEW x \in Messages, Applies(r, x)
  PROVE  r \in Seq(Songs) /\ Replays(b, Append(s, x), Mirrored(r, x))
<1>1. PICK g : ReplayBy(g, b, s) /\ g[Len(s)] = r
  BY DEF Replays
<1>2. PICK n \in Nat : n = Len(s)
  BY LenProperties
<1>3. /\ g \in [0..n -> Seq(Songs)] /\ g[0] = b /\ g[n] = r
      /\ \A i \in 1..n : Applies(g[i - 1], s[i]) /\ g[i] = Mirrored(g[i - 1], s[i])
  BY <1>1, <1>2 DEF ReplayBy
<1>4. r \in Seq(Songs) /\ Mirrored(r, x) \in Seq(Songs)
  <2>1. r \in Seq(Songs)
    BY <1>2, <1>3
  <2> QED
    BY <2>1, MirroredFacts DEF Applies
<1>5. PICK t : t = Append(s, x)
  OBVIOUS
<1>6. Len(t) = n + 1 /\ t[n + 1] = x /\ \A i \in 1..n : t[i] = s[i]
  BY <1>2, <1>5, AppendProperties
<1>7. PICK q \in Seq(Songs) : q = Mirrored(r, x)
  BY <1>4
<1>8. PICK h : h = [i \in 0..n + 1 |-> IF i = n + 1 THEN q ELSE g[i]]
  OBVIOUS
<1>9. /\ h \in [0..n + 1 -> Seq(Songs)] /\ h[0] = b /\ h[n + 1] = q
      /\ \A i \in 0..n : h[i] = g[i]
  BY <1>3, <1>8
<1>10. ASSUME NEW i \in 1..n + 1
       PROVE Applies(h[i - 1], t[i]) /\ h[i] = Mirrored(h[i - 1], t[i])
  <2>1. CASE i = n + 1
    <3>1. i - 1 = n /\ h[i - 1] = r /\ t[i] = x /\ h[i] = q
      BY <1>3, <1>6, <1>9, <2>1
    <3> QED
      BY <1>7, <3>1
  <2>2. CASE i # n + 1
    <3>1. i \in 1..n /\ i - 1 \in 0..n /\ i \in 0..n
      BY <2>2
    <3>2. h[i - 1] = g[i - 1] /\ h[i] = g[i] /\ t[i] = s[i]
      BY <1>6, <1>9, <3>1
    <3> QED
      BY <1>3, <3>1, <3>2
  <2> QED
    BY <2>1, <2>2
<1>11. ReplayBy(h, b, t) /\ h[Len(t)] = q
  BY <1>6, <1>9, <1>10 DEF ReplayBy
<1> QED
  BY <1>4, <1>5, <1>7, <1>11 DEF Replays

LEMMA ReplaysTail ==
  ASSUME NEW b, NEW s \in Seq(Messages), s # <<>>, NEW r, Replays(b, s, r)
  PROVE  Applies(b, s[1]) /\ Replays(Mirrored(b, s[1]), Tail(s), r)
<1>1. PICK g : ReplayBy(g, b, s) /\ g[Len(s)] = r
  BY DEF Replays
<1>2. PICK t \in Seq(Messages) : t = Tail(s)
  BY HeadTailProperties
<1>3. PICK n \in Nat : Len(s) = n + 1 /\ Len(t) = n /\ \A i \in 1..n : t[i] = s[i + 1]
  <2>1. /\ Len(s) \in Nat /\ Len(s) >= 1 /\ Len(t) = Len(s) - 1
        /\ \A i \in 1..Len(s) - 1 : t[i] = s[i + 1]
    BY <1>2, EmptySeq, LenProperties, HeadTailProperties
  <2>2. PICK n \in Nat : n = Len(s) - 1
    BY <2>1
  <2>3. Len(s) = n + 1
    BY <2>1, <2>2
  <2> QED
    BY <2>1, <2>2, <2>3
<1>4. /\ g \in [0..n + 1 -> Seq(Songs)] /\ g[0] = b /\ g[n + 1] = r
      /\ \A i \in 1..n + 1 : Applies(g[i - 1], s[i]) /\ g[i] = Mirrored(g[i - 1], s[i])
  BY <1>1, <1>3 DEF ReplayBy
<1>5. Applies(b, s[1]) /\ g[1] = Mirrored(b, s[1])
  <2>1. PICK k \in 1..n + 1 : k = 1 /\ k - 1 = 0
    OBVIOUS
  <2>2. Applies(g[k - 1], s[k]) /\ g[k] = Mirrored(g[k - 1], s[k])
    BY <1>4
  <2> QED
    BY <1>4, <2>1, <2>2
<1>6. PICK h : h = [i \in 0..n |-> g[i + 1]]
  OBVIOUS
<1>7. /\ h \in [0..n -> Seq(Songs)] /\ h[0] = g[1] /\ h[n] = r
      /\ \A i \in 0..n : h[i] = g[i + 1]
  <2>1. \A i \in 0..n : i + 1 \in 0..n + 1
    OBVIOUS
  <2> QED
    BY <1>4, <1>6, <2>1
<1>8. ASSUME NEW i \in 1..n PROVE Applies(h[i - 1], t[i]) /\ h[i] = Mirrored(h[i - 1], t[i])
  <2>1. PICK k \in 1..n + 1 : k = i + 1 /\ k - 1 = i
    OBVIOUS
  <2>2. Applies(g[k - 1], s[k]) /\ g[k] = Mirrored(g[k - 1], s[k])
    BY <1>4
  <2>3. i - 1 \in 0..n /\ i \in 0..n /\ (i - 1) + 1 = i
    OBVIOUS
  <2>4. h[i - 1] = g[i] /\ h[i] = g[i + 1] /\ t[i] = s[i + 1]
    BY <1>3, <1>7, <2>3
  <2> QED
    BY <2>1, <2>2, <2>4
<1>9. ReplayBy(h, g[1], t) /\ h[Len(t)] = r
  BY <1>3, <1>7, <1>8 DEF ReplayBy
<1> QED
  BY <1>2, <1>5, <1>9 DEF Replays

\* The result is the fold over the messages.
LEMMA ReplaysFold ==
  ASSUME NEW b, NEW s \in Seq(Messages), NEW r, Replays(b, s, r)
  PROVE  Folded(b, s) = r
<1>1. PICK g : ReplayBy(g, b, s) /\ g[Len(s)] = r
  BY DEF Replays
<1>2. PICK n \in Nat : n = Len(s) /\ DOMAIN s = 1..n
  BY LenProperties
<1>3. g[0] = b /\ g[n] = r /\ \A i \in 1..n : g[i] = Mirrored(g[i - 1], s[i])
  BY <1>1, <1>2 DEF ReplayBy
<1>4. Folded(b, s) = g[n]
  BY <1>2, <1>3, FoldIs
<1> QED
  BY <1>3, <1>4

-----------------------------------------------------------------------------
\* The invariant.  The commands that ask for the entries, the user's own, and the
\* messages that make the view ask again.
Lists    == {c \in Commands : c.cmd = "list"}
Own      == {c \in Commands : c.cmd \notin {"broadcast", "list"}}
Reorders == {m \in Messages : m.type = "reorder"}

\* Types, and as many rows as the data source has.
Types ==
  /\ server \in Seq(Songs) /\ Len(server) <= MaxLen
  /\ up \in Seq(Commands) /\ down \in Seq(Messages)
  /\ mirror \in Seq(Songs) /\ shown \in Seq(Songs) /\ Len(shown) = Len(mirror)
  /\ {subscribed, crashed, overtaken, misled} \subseteq BOOLEAN

\* Every change was made below the bound or by a command of the user.
Numbers ==
  /\ version \in Nat /\ changes \in Nat /\ commands \in Nat
  /\ version <= changes /\ commands <= MaxUser
  /\ \A i \in 1..Len(down) : down[i].version <= changes
  /\ Count(up, Own) <= commands
  /\ changes + Count(up, Own) <= MaxChanges + commands

\* The first two commands are on their way in this order.
Waits ==
  ~subscribed => /\ Len(up) >= 2 /\ up[1].cmd = "broadcast" /\ up[2].cmd = "list"
                 /\ down = <<>>

\* At most one reply with the entries is due.  The messages on their way make the
\* server's list of the mirror, or the empty list as long as a reply is due.
Due == Count(up, Lists) + Count(down, Reorders)
Follows ==
  ~overtaken => /\ ~crashed /\ Due <= 1
                /\ Replays(mirror, down, IF Due = 0 THEN server ELSE <<>>)

IInv == Types /\ Numbers /\ Waits /\ Follows

LEMMA OwedIsDue ==
  ASSUME up \in Seq(Commands), down \in Seq(Messages)
  PROVE  Owed = Due /\ Due \in Nat
<1>1. {i \in DOMAIN up : up[i].cmd = "list"} = Hits(up, Lists)
  <2>1. \A i \in DOMAIN up : up[i] \in Commands
    BY LenProperties, ElementOfSeq
  <2> QED
    BY <2>1 DEF Hits, Lists
<1>2. {i \in DOMAIN down : down[i].type = "reorder"} = Hits(down, Reorders)
  <2>1. \A i \in DOMAIN down : down[i] \in Messages
    BY LenProperties, ElementOfSeq
  <2> QED
    BY <2>1 DEF Hits, Reorders
<1>3. Count(up, Lists) \in Nat /\ Count(down, Reorders) \in Nat
  BY CountFacts
<1>4. Owed = Cardinality(Hits(up, Lists)) + Cardinality(Hits(down, Reorders))
  BY <1>1, <1>2 DEF Owed
<1>5. Due = Cardinality(Hits(up, Lists)) + Cardinality(Hits(down, Reorders))
  BY DEF Due, Count
<1>6. Due \in Nat
  BY <1>3 DEF Due
<1> QED
  BY <1>4, <1>5, <1>6

LEMMA InitInv == Init => IInv
<1> SUFFICES ASSUME Init PROVE IInv
  OBVIOUS
<1>1. server \in Seq(Songs) /\ Len(server) <= MaxLen
  <2>1. PICK k \in 0..MaxLen - 1 : server \in [1..k -> Songs]
    BY DEF Init, ListsUpTo
  <2>2. k \in Nat /\ k <= MaxLen
    BY <2>1, PlaylistAssumption
  <2>3. server \in Seq(Songs) /\ Len(server) = k
    BY <2>1, <2>2, SeqDef, LenProperties
  <2> QED
    BY <2>2, <2>3
<1> DEFINE first == [cmd |-> "broadcast"]
           second == [cmd |-> "list"]
<1>2. first \in Commands /\ second \in Commands /\ first.cmd = "broadcast" /\ second.cmd = "list"
  BY DEF Commands
<1>3. up = <<first, second>> /\ down = <<>>
  BY DEF Init
<1> HIDE DEF first, second
<1>4. up \in Seq(Commands) /\ Len(up) = 2 /\ up[1] = first /\ up[2] = second
  BY <1>2, <1>3
<1>5. Types
  <2>1. mirror = <<>> /\ shown = <<>> /\ down \in Seq(Messages)
    BY <1>3 DEF Init
  <2>2. subscribed \in BOOLEAN /\ crashed \in BOOLEAN /\ overtaken \in BOOLEAN /\ misled \in BOOLEAN
    BY DEF Init
  <2> QED
    BY <1>1, <1>4, <2>1, <2>2 DEF Types
<1>6. Count(up, Own) = 0
  <2>1. \A i \in 1..Len(up) : up[i] \notin Own
    BY <1>2, <1>4 DEF Own
  <2>2. Count(up, Own) \in Nat /\ ~(Count(up, Own) >= 1)
    BY <1>4, <2>1, CountFacts
  <2> QED
    BY <2>2
<1>7. Numbers
  BY <1>3, <1>6, PlaylistAssumption DEF Numbers, Init
<1>8. Waits
  BY <1>2, <1>3, <1>4 DEF Waits
<1>9. Due = 1
  <2>0. <<first>> \in Seq(Commands)
    BY <1>2
  <2>1. PICK t : t = <<first>> /\ t \in Seq(Commands)
    BY <2>0
  <2>2. up = Append(t, second)
    BY <1>3, <2>1
  <2>3. first \notin Lists /\ second \in Lists
    BY <1>2 DEF Lists
  <2>4. Count(up, Lists) = Count(t, Lists) + 1
    BY <1>2, <2>1, <2>2, <2>3, CountAppend
  <2>5. Count(t, Lists) = 0
    <3>1. Len(t) = 1 /\ t[1] = first
      BY <2>1
    <3>2. \A i \in 1..Len(t) : t[i] \notin Lists
      BY <2>3, <3>1
    <3>3. Count(t, Lists) \in Nat /\ ~(Count(t, Lists) >= 1)
      BY <2>1, <3>2, CountFacts
    <3> QED
      BY <3>3
  <2>6. Count(down, Reorders) = 0
    BY <1>3, CountEmpty
  <2> QED
    BY <2>4, <2>5, <2>6 DEF Due
<1>10. Replays(mirror, down, <<>>)
  <2>1. mirror = <<>> /\ mirror \in Seq(Songs)
    BY DEF Init
  <2> QED
    BY <1>3, <2>1, ReplaysEmpty
<1>11. Follows
  BY <1>9, <1>10 DEF Follows, Init
<1> QED
  BY <1>5, <1>7, <1>8, <1>11 DEF IInv

-----------------------------------------------------------------------------
\* The server makes a change.
LEMMA ChangeFollows ==
  ASSUME NEW b, NEW d \in Seq(Messages), NEW s \in Seq(Songs), NEW due \in 0..1,
         NEW m, NEW w, NEW n, Announces(s, m, w, n), NEW t \in Changed(s, m),
         Replays(b, d, IF due = 0 THEN s ELSE <<>>), due = 0 \/ m.type = "clear"
  PROVE  Replays(b, Append(d, w), IF m.type = "reorder" \/ due # 0 THEN <<>> ELSE t)
<1>1. w \in Messages /\ w.type # "entries" /\ w.type = m.type /\ InBounds(s, w)
  BY DEF Announces
<1>2. CASE due = 0
  <2>1. Replays(b, d, s) /\ Applies(s, w)
    BY <1>1, <1>2 DEF Applies
  <2>2. Replays(b, Append(d, w), Mirrored(s, w))
    BY <1>1, <2>1, ReplaysAppend
  <2>3. m.type = "reorder" => Mirrored(s, w) = <<>>
    BY DEF Announces
  <2>4. m.type # "reorder" => Mirrored(s, w) = t
    BY DEF Announces
  <2> QED
    BY <1>2, <2>2, <2>3, <2>4
<1>3. CASE due # 0
  <2>1. Mirrored(<<>>, w) = <<>> /\ InBounds(<<>>, w)
    BY <1>3 DEF Announces
  <2>2. Replays(b, d, <<>>) /\ Applies(<<>>, w)
    BY <1>1, <1>3, <2>1 DEF Applies
  <2>3. Replays(b, Append(d, w), Mirrored(<<>>, w))
    BY <1>1, <2>2, ReplaysAppend
  <2> QED
    BY <1>3, <2>1, <2>3
<1> QED
  BY <1>2, <1>3

LEMMA ChangeStep ==
  ASSUME IInv, NEW m \in Changes(server), Change(m), UNCHANGED <<subscribed, viewVars>>,
         up' \in Seq(Commands), Count(up', Lists) = Count(up, Lists), misled' \in BOOLEAN,
         commands' = commands, Count(up', Own) <= commands,
         changes + 1 + Count(up', Own) <= MaxChanges + commands,
         ~subscribed => up' = up
  PROVE  IInv'
<1>1. /\ server \in Seq(Songs) /\ Len(server) <= MaxLen
      /\ up \in Seq(Commands) /\ down \in Seq(Messages)
      /\ changes \in Nat /\ commands \in Nat /\ version \in Nat /\ version <= changes
      /\ \A i \in 1..Len(down) : down[i].version <= changes
      /\ overtaken \in BOOLEAN
  BY DEF IInv, Types, Numbers
<1>2. PICK n \in Nat : n = changes' /\ n = changes + 1
  BY <1>1 DEF Change
<1>3. PICK w : w = Numbered(m, n)
  OBVIOUS
<1>4. Announces(server, m, w, n) /\ \A t \in Changed(server, m) : t \in Seq(Songs) /\ Len(t) <= MaxLen
  BY <1>1, <1>2, <1>3, ChangeFacts
<1>5. PICK t \in Changed(server, m) : t = server' /\ t \in Seq(Songs) /\ Len(t) <= MaxLen
  BY <1>4 DEF Change
<1>6. w \in Messages /\ w.version = n /\ w.type = m.type
  BY <1>4 DEF Announces
<1>7. PICK d : d = down' /\ d = IF subscribed THEN Append(down, w) ELSE down
  BY <1>2, <1>3 DEF Change
<1>8. d \in Seq(Messages) /\ \A i \in 1..Len(d) : d[i].version <= n
  <2>1. CASE subscribed
    <3>1. d \in Seq(Messages) /\ Len(d) = Len(down) + 1 /\ d[Len(down) + 1] = w
          /\ \A i \in 1..Len(down) : d[i] = down[i]
      BY <1>1, <1>6, <1>7, <2>1, AppendProperties
    <3>2. Len(down) \in Nat
      BY <1>1, LenProperties
    <3>3. ASSUME NEW i \in 1..Len(d) PROVE d[i].version <= n
      <4>1. CASE i = Len(down) + 1
        BY <1>2, <1>6, <3>1, <4>1
      <4>2. CASE i # Len(down) + 1
        <5>1. i \in 1..Len(down) /\ d[i] = down[i] /\ down[i] \in Messages
          BY <1>1, <3>1, <3>2, <4>2, ElementOfSeq
        <5>2. down[i].version \in Nat /\ down[i].version <= changes
          BY <1>1, <5>1, MessageFacts
        <5> QED
          BY <1>1, <1>2, <5>1, <5>2
      <4> QED
        BY <4>1, <4>2
    <3> QED
      BY <3>1, <3>3
  <2>2. CASE ~subscribed
    <3>1. ASSUME NEW i \in 1..Len(down) PROVE down[i].version <= n
      <4>1. down[i] \in Messages
        BY <1>1, ElementOfSeq
      <4>2. down[i].version \in Nat /\ down[i].version <= changes
        BY <1>1, <4>1, MessageFacts
      <4> QED
        BY <1>1, <1>2, <4>2
    <3> QED
      BY <1>1, <1>7, <2>2, <3>1
  <2> QED
    BY <2>1, <2>2
<1>9. overtaken' = (overtaken \/ (subscribed /\ Owed > 0 /\ m.type # "clear"))
  BY DEF Change
<1>10. Types'
  BY <1>5, <1>7, <1>8, <1>9 DEF IInv, Types, viewVars
<1>11. Numbers'
  <2>1. version' = version /\ version <= n
    BY <1>1, <1>2 DEF viewVars
  <2> QED
    BY <1>1, <1>2, <1>7, <1>8, <2>1 DEF IInv, Numbers
<1>12. Waits'
  BY <1>7 DEF IInv, Waits
<1>13. Follows'
  <2> SUFFICES ASSUME ~overtaken'
               PROVE  ~crashed' /\ Due' <= 1
                      /\ Replays(mirror', down', IF Due' = 0 THEN server' ELSE <<>>)
    BY DEF Follows
  <2>1. Owed = Due /\ Due \in Nat
    BY <1>1, OwedIsDue
  <2>2. /\ ~overtaken /\ ~crashed /\ Due <= 1
        /\ Replays(mirror, down, IF Due = 0 THEN server ELSE <<>>)
    BY <1>9 DEF IInv, Follows
  <2>3. mirror' = mirror /\ crashed' = crashed
    BY DEF viewVars
  <2>4. CASE ~subscribed
    <3>1. d = down /\ Due' = Due
      BY <1>7, <2>4 DEF Due
    <3>2. Due # 0
      <4>1. Len(up) >= 2 /\ up[2].cmd = "list"
        BY <2>4 DEF IInv, Waits
      <4>2. PICK k \in 1..Len(up) : up[k].cmd = "list" /\ up[k] \in Commands
        <5>1. 2 \in 1..Len(up)
          BY <1>1, <4>1, LenProperties
        <5> QED
          BY <1>1, <4>1, <5>1, ElementOfSeq
      <4>3. Count(up, Lists) >= 1 /\ Count(up, Lists) \in Nat
        <5>1. \E k1 \in 1..Len(up) : up[k1] \in Lists
          BY <4>2 DEF Lists
        <5> QED
          BY <1>1, <5>1, CountFacts
      <4>4. Count(down, Reorders) \in Nat
        BY <1>1, CountFacts
      <4> QED
        BY <4>3, <4>4 DEF Due
    <3> QED
      BY <1>7, <2>2, <2>3, <3>1, <3>2
  <2>5. CASE subscribed
    <3>1. PICK due \in 0..1 : due = Due
      BY <2>1, <2>2
    <3>2. due = 0 \/ m.type = "clear"
      <4>1. ~(Owed > 0) \/ m.type = "clear"
        BY <1>9, <2>5
      <4>2. Owed = due
        BY <2>1, <3>1
      <4>3. CASE ~(Owed > 0)
        BY <4>2, <4>3
      <4> QED
        BY <4>1, <4>3
    <3>3. Replays(mirror, down, IF due = 0 THEN server ELSE <<>>)
      BY <2>2, <3>1
    <3>4. Replays(mirror, Append(down, w), IF m.type = "reorder" \/ due # 0 THEN <<>> ELSE t)
      BY <1>1, <1>4, <3>2, <3>3, ChangeFollows
    <3>5. d = Append(down, w)
      BY <1>7, <2>5
    <3>6. Count(d, Reorders) = Count(down, Reorders) + (IF m.type = "reorder" THEN 1 ELSE 0)
      <4>1. w \in Reorders <=> m.type = "reorder"
        BY <1>6 DEF Reorders
      <4> QED
        BY <1>1, <1>6, <3>5, <4>1, CountAppend
    <3>7. Due' = Count(up, Lists) + Count(d, Reorders) /\ Due = Count(up, Lists) + Count(down, Reorders)
      BY <1>7 DEF Due
    <3>8. Count(up, Lists) \in Nat /\ Count(down, Reorders) \in Nat
      BY <1>1, CountFacts
    <3>9. Due' = due + (IF m.type = "reorder" THEN 1 ELSE 0)
      <4>1. CASE m.type = "reorder"
        BY <3>1, <3>6, <3>7, <3>8, <4>1
      <4>2. CASE m.type # "reorder"
        BY <3>1, <3>6, <3>7, <3>8, <4>2
      <4> QED
        BY <4>1, <4>2
    <3>10. Due' <= 1 /\ (Due' = 0 <=> ~(m.type = "reorder" \/ due # 0))
      <4>1. CASE m.type = "reorder"
        <5>1. due = 0
          BY <3>2, <4>1
        <5> QED
          BY <3>9, <4>1, <5>1
      <4>2. CASE m.type # "reorder"
        BY <3>9, <4>2
      <4> QED
        BY <4>1, <4>2
    <3> QED
      BY <1>5, <1>7, <2>2, <2>3, <3>4, <3>5, <3>10
  <2> QED
    BY <2>4, <2>5
<1> QED
  BY <1>10, <1>11, <1>12, <1>13 DEF IInv

-----------------------------------------------------------------------------
\* Somebody else changes the list, or another playlist.
LEMMA OtherStep ==
  ASSUME IInv, NEW m \in Changes(server), Other(m)
  PROVE  IInv'
<1>1. /\ changes \in Nat /\ commands \in Nat /\ changes < MaxChanges
      /\ up \in Seq(Commands) /\ misled \in BOOLEAN
  BY DEF IInv, Types, Numbers, Other
<1>2. up' = up /\ commands' = commands /\ Change(m) /\ UNCHANGED <<subscribed, viewVars>>
  BY DEF Other
<1>3. Count(up, Own) \in Nat /\ Count(up, Own) <= commands
  BY <1>1, CountFacts DEF IInv, Numbers
<1>4. changes + 1 + Count(up, Own) <= MaxChanges + commands
  <2>1. MaxChanges \in Nat /\ changes + 1 <= MaxChanges
    BY <1>1, PlaylistAssumption
  <2> QED
    BY <1>1, <1>3, <2>1
<1>5. misled' \in BOOLEAN
  BY DEF Other
<1> QED
  BY <1>1, <1>2, <1>3, <1>4, <1>5, ChangeStep

LEMMA OtherPlaylistStep ==
  ASSUME IInv, NEW m \in Changes(server), OtherPlaylist(m)
  PROVE  IInv'
<1>1. /\ changes \in Nat /\ down \in Seq(Messages) /\ server \in Seq(Songs) /\ Len(server) <= MaxLen
      /\ \A i \in 1..Len(down) : down[i].version <= changes
  BY DEF IInv, Types, Numbers
<1>2. PICK w : w = Numbered(m, changes)
  OBVIOUS
<1>3. w \in Messages /\ w.version = changes
  BY <1>1, <1>2, ChangeFacts DEF Announces
<1>4. /\ down' = Append(down, w) /\ overtaken' = TRUE /\ subscribed
      /\ UNCHANGED <<server, subscribed, changes, up, viewVars, commands, misled>>
  BY <1>2 DEF OtherPlaylist
<1>5. PICK d : d = Append(down, w)
  OBVIOUS
<1>6. /\ d \in Seq(Messages) /\ Len(d) = Len(down) + 1 /\ d[Len(down) + 1] = w
      /\ \A i \in 1..Len(down) : d[i] = down[i]
      /\ Len(down) \in Nat
  BY <1>1, <1>3, <1>5, AppendProperties, LenProperties
<1>7. ASSUME NEW i \in 1..Len(d) PROVE d[i].version <= changes
  <2>1. CASE i = Len(down) + 1
    BY <1>1, <1>3, <1>6, <2>1
  <2>2. CASE i # Len(down) + 1
    <3>1. i \in 1..Len(down)
      BY <1>6, <2>2
    <3> QED
      BY <1>1, <1>6, <3>1
  <2> QED
    BY <2>1, <2>2
<1>8. Types'
  BY <1>4, <1>5, <1>6 DEF IInv, Types, viewVars
<1>9. Numbers'
  BY <1>4, <1>5, <1>7 DEF IInv, Numbers, viewVars
<1>10. Waits'
  BY <1>4 DEF Waits
<1>11. Follows'
  BY <1>4 DEF Follows
<1> QED
  BY <1>8, <1>9, <1>10, <1>11 DEF IInv

-----------------------------------------------------------------------------
\* A command of the client arrives.
LEMMA CommandFacts ==
  ASSUME IInv, Command
  PROVE  /\ up[1] \in Commands /\ up[1] = Head(up) /\ up' \in Seq(Commands)
         /\ Count(up, Lists) = Count(up', Lists) + (IF up[1].cmd = "list" THEN 1 ELSE 0)
         /\ Count(up, Own) =
              Count(up', Own) + (IF up[1].cmd \notin {"broadcast", "list"} THEN 1 ELSE 0)
         /\ \A T : Count(up', T) \in Nat
         /\ ~subscribed => up[1].cmd = "broadcast"
         /\ UNCHANGED <<viewVars, commands>>
<1>1. up # <<>> /\ up \in Seq(Commands) /\ up' = Tail(up) /\ UNCHANGED <<viewVars, commands>>
  BY DEF IInv, Types, Command
<1>2. PICK t \in Seq(Commands) : t = Tail(up)
  BY <1>1, HeadTailProperties
<1>3. Head(up) = up[1] /\ up[1] \in Commands
  <2>1. 1 \in 1..Len(up)
    BY <1>1, LenProperties, EmptySeq
  <2> QED
    BY <1>1, <2>1, ElementOfSeq
<1>4. \A T : Count(up, T) = Count(t, T) + (IF up[1] \in T THEN 1 ELSE 0)
  BY <1>1, <1>2, CountTail
<1>5. \A T : Count(t, T) \in Nat
  BY CountFacts
<1>6. (up[1] \in Lists <=> up[1].cmd = "list") /\ (up[1] \in Own <=> up[1].cmd \notin {"broadcast", "list"})
  BY <1>3 DEF Lists, Own
<1>7. ~subscribed => up[1].cmd = "broadcast"
  BY DEF IInv, Waits
<1>8. /\ Count(up, Lists) = Count(t, Lists) + (IF up[1].cmd = "list" THEN 1 ELSE 0)
      /\ Count(up, Own) = Count(t, Own) + (IF up[1].cmd \notin {"broadcast", "list"} THEN 1 ELSE 0)
  BY <1>4, <1>6
<1> QED
  BY <1>1, <1>2, <1>3, <1>5, <1>7, <1>8

\* A command of the user makes a change.
LEMMA OwnChange ==
  ASSUME IInv, Command, Head(up).cmd \notin {"broadcast", "list"},
         NEW m \in Changes(server), Change(m), subscribed' = subscribed, misled' \in BOOLEAN
  PROVE  IInv'
<1>1. /\ changes \in Nat /\ commands \in Nat /\ Count(up, Own) <= commands
      /\ changes + Count(up, Own) <= MaxChanges + commands /\ MaxChanges \in Nat
  BY PlaylistAssumption DEF IInv, Numbers
<1>2. PICK k \in Nat : k = Count(up', Own)
  BY CommandFacts
<1>3. /\ Count(up, Own) = k + 1 /\ Count(up', Lists) = Count(up, Lists) /\ subscribed
      /\ up' \in Seq(Commands) /\ UNCHANGED <<viewVars, commands>>
  <2>1. up[1].cmd \notin {"broadcast", "list"}
    BY CommandFacts
  <2>2. Count(up, Own) = k + 1
    BY <1>2, <2>1, CommandFacts
  <2>3. Count(up', Lists) \in Nat /\ Count(up, Lists) = Count(up', Lists) + 0
    BY <2>1, CommandFacts
  <2>4. Count(up', Lists) = Count(up, Lists)
    BY <2>3
  <2>5. subscribed
    BY <2>1, CommandFacts
  <2> QED
    BY <2>2, <2>4, <2>5, CommandFacts
<1>4. k <= commands /\ changes + 1 + k <= MaxChanges + commands
  BY <1>1, <1>2, <1>3
<1>5. Count(up', Own) <= commands /\ changes + 1 + Count(up', Own) <= MaxChanges + commands
  BY <1>2, <1>4
<1> QED
  BY <1>3, <1>5, ChangeStep

\* A command of the user that does nothing, and the one for the broadcast.
LEMMA NoChange ==
  ASSUME IInv, Command, Head(up).cmd # "list", subscribed', misled' \in BOOLEAN,
         subscribed' \in BOOLEAN, UNCHANGED <<server, changes, overtaken, down>>
  PROVE  IInv'
<1>1. /\ changes \in Nat /\ commands \in Nat /\ Count(up, Own) <= commands
      /\ changes + Count(up, Own) <= MaxChanges + commands /\ MaxChanges \in Nat
  BY PlaylistAssumption DEF IInv, Numbers
<1>2. PICK k \in Nat : k = Count(up', Own)
  BY CommandFacts
<1>3. up' \in Seq(Commands) /\ UNCHANGED <<viewVars, commands>>
  BY CommandFacts
<1>4. Count(up', Lists) = Count(up, Lists)
  <2>1. Count(up', Lists) \in Nat /\ Count(up, Lists) = Count(up', Lists) + 0
    BY CommandFacts
  <2> QED
    BY <2>1
<1>5. Count(up, Own) = k \/ Count(up, Own) = k + 1
  <2>1. Count(up, Own) = k + 0 \/ Count(up, Own) = k + 1
    BY <1>2, CommandFacts
  <2> QED
    BY <2>1
<1>6. k <= commands /\ changes + k <= MaxChanges + commands
  BY <1>1, <1>2, <1>5
<1>7. Types'
  BY <1>3 DEF IInv, Types, viewVars
<1>8. Numbers'
  <2>1. Count(up', Own) <= commands /\ changes + Count(up', Own) <= MaxChanges + commands
    BY <1>2, <1>6
  <2> QED
    BY <1>3, <2>1 DEF IInv, Numbers, viewVars
<1>9. Waits'
  BY DEF Waits
<1>10. Due' = Due
  BY <1>4 DEF Due
<1>11. Follows'
  BY <1>3, <1>10 DEF IInv, Follows, viewVars
<1> QED
  BY <1>7, <1>8, <1>9, <1>11 DEF IInv

\* The server answers with the entries.
LEMMA ListStep ==
  ASSUME IInv, ServerList
  PROVE  IInv'
<1>1. /\ Command /\ up[1].cmd = "list" /\ UNCHANGED <<serverVars, misled>>
      /\ down' = Append(down, [type |-> "entries", list |-> server, version |-> changes])
  BY CommandFacts DEF ServerList
<1>2. /\ server \in Seq(Songs) /\ down \in Seq(Messages) /\ changes \in Nat /\ commands \in Nat
      /\ \A i \in 1..Len(down) : down[i].version <= changes
      /\ up \in Seq(Commands)
  BY DEF IInv, Types, Numbers
<1>3. PICK w : w = [type |-> "entries", list |-> server, version |-> changes]
  OBVIOUS
<1>4. w \in Messages /\ w.type = "entries" /\ w.list = server /\ w.version = changes
  BY <1>2, <1>3 DEF Messages
<1>5. PICK d : d = Append(down, w) /\ d = down'
  BY <1>1, <1>3
<1>6. /\ d \in Seq(Messages) /\ Len(d) = Len(down) + 1 /\ d[Len(down) + 1] = w
      /\ \A i \in 1..Len(down) : d[i] = down[i]
      /\ Len(down) \in Nat
  <2>1. Len(down) \in Nat /\ d = Append(down, w)
    BY <1>2, <1>5, LenProperties
  <2>2. down \in Seq(Messages) /\ w \in Messages
    BY <1>2, <1>4
  <2> QED
    BY <2>1, <2>2, AppendProperties
<1>7. ASSUME NEW i \in 1..Len(d) PROVE d[i].version <= changes
  <2>1. CASE i = Len(down) + 1
    BY <1>2, <1>4, <1>6, <2>1
  <2>2. CASE i # Len(down) + 1
    <3>1. i \in 1..Len(down)
      BY <1>6, <2>2
    <3> QED
      BY <1>2, <1>6, <3>1
  <2> QED
    BY <2>1, <2>2
<1>8. up' \in Seq(Commands) /\ UNCHANGED <<viewVars, commands>> /\ subscribed
  BY <1>1, CommandFacts
<1>9. PICK j \in Nat, k \in Nat : /\ j = Count(up', Lists) /\ Count(up, Lists) = j + 1
                                  /\ k = Count(down, Reorders) /\ Count(d, Reorders) = k
  <2>1. Count(up', Lists) \in Nat /\ Count(up, Lists) = Count(up', Lists) + 1
    BY <1>1, CommandFacts
  <2>2. Count(down, Reorders) \in Nat
    BY <1>2, CountFacts
  <2>3. w \notin Reorders
    BY <1>4 DEF Reorders
  <2>4. Count(d, Reorders) = Count(down, Reorders) + 0
    BY <1>2, <1>4, <1>5, <2>3, CountAppend
  <2> QED
    BY <2>1, <2>2, <2>4
<1>10. Types'
  BY <1>1, <1>5, <1>6, <1>8 DEF IInv, Types, viewVars, serverVars
<1>11. Numbers'
  <2>1. Count(up', Own) \in Nat /\ Count(up, Own) = Count(up', Own) + 0
    BY <1>1, CommandFacts
  <2>2. Count(up', Own) = Count(up, Own)
    BY <2>1
  <2> QED
    BY <1>1, <1>5, <1>7, <1>8, <2>2 DEF IInv, Numbers, viewVars, serverVars
<1>12. Waits'
  BY <1>1, <1>8 DEF Waits, serverVars
<1>13. Follows'
  <2> SUFFICES ASSUME ~overtaken'
               PROVE  ~crashed' /\ Due' <= 1
                      /\ Replays(mirror', down', IF Due' = 0 THEN server' ELSE <<>>)
    BY DEF Follows
  <2>1. /\ ~crashed /\ Due <= 1
        /\ Replays(mirror, down, IF Due = 0 THEN server ELSE <<>>)
    BY <1>1 DEF IInv, Follows, serverVars
  <2>2. Due = j + 1 + k /\ Due' = j + k
    BY <1>5, <1>9 DEF Due
  <2>3. Due # 0 /\ Due' = 0
    BY <2>1, <2>2
  <2>4. Replays(mirror, down, <<>>) /\ Applies(<<>>, w)
    BY <1>4, <2>1, <2>3 DEF Applies, InBounds
  <2>5. Replays(mirror, d, Mirrored(<<>>, w))
    BY <1>2, <1>4, <1>5, <2>4, ReplaysAppend
  <2>6. Mirrored(<<>>, w) = server
    BY <1>4 DEF Mirrored
  <2> QED
    BY <1>1, <1>5, <1>8, <2>1, <2>3, <2>5, <2>6 DEF viewVars, serverVars
<1> QED
  BY <1>10, <1>11, <1>12, <1>13 DEF IInv

LEMMA ServerStepInv ==
  ASSUME IInv, ServerStep
  PROVE  IInv'
<1>1. misled \in BOOLEAN /\ subscribed \in BOOLEAN
  BY DEF IInv, Types
<1>2. CASE ServerSubscribe
  BY <1>1, <1>2, NoChange DEF ServerSubscribe
<1>3. CASE ServerList
  BY <1>3, ListStep
<1>4. CASE ServerRemove
  <2>1. /\ Command /\ Head(up).cmd = "remove" /\ subscribed' = subscribed /\ misled' = misled
    BY <1>4 DEF ServerRemove
  <2>2. \/ \E m \in Changes(server) : Change(m)
        \/ UNCHANGED <<serverVars, down>>
    BY <1>4 DEF ServerRemove
  <2>3. subscribed
    BY <2>1, CommandFacts
  <2>4. CASE UNCHANGED <<serverVars, down>>
    BY <1>1, <2>1, <2>3, <2>4, NoChange DEF serverVars
  <2> QED
    BY <1>1, <2>1, <2>2, <2>4, OwnChange
<1>5. CASE ServerMove
  <2>1. /\ Command /\ Head(up).cmd = "move" /\ subscribed' = subscribed /\ misled' \in BOOLEAN
    BY <1>5 DEF ServerMove
  <2>2. \/ \E m \in Changes(server) : Change(m)
        \/ UNCHANGED <<serverVars, down>>
    BY <1>5 DEF ServerMove
  <2>3. subscribed
    BY <2>1, CommandFacts
  <2>4. CASE UNCHANGED <<serverVars, down>>
    BY <1>1, <2>1, <2>3, <2>4, NoChange DEF serverVars
  <2> QED
    BY <2>1, <2>2, <2>4, OwnChange
<1>6. CASE ServerClear
  <2>1. /\ Command /\ Head(up).cmd \in {"clear", "shuffle"}
        /\ subscribed' = subscribed /\ misled' = misled
    BY <1>6 DEF ServerClear
  <2>2. \E m \in Changes(server) : Change(m)
    <3>1. [type |-> "clear"] \in Changes(server) /\ [type |-> "reorder"] \in Changes(server)
      BY DEF Changes
    <3> QED
      BY <1>6, <3>1 DEF ServerClear
  <2> QED
    BY <1>1, <2>1, <2>2, OwnChange
<1> QED
  BY <1>2, <1>3, <1>4, <1>5, <1>6 DEF ServerStep

-----------------------------------------------------------------------------
\* A message arrives.
LEMMA ReceiveStep ==
  ASSUME IInv, Receive
  PROVE  IInv'
<1>1. /\ server \in Seq(Songs) /\ up \in Seq(Commands) /\ down \in Seq(Messages)
      /\ mirror \in Seq(Songs) /\ shown \in Seq(Songs) /\ Len(shown) = Len(mirror)
      /\ changes \in Nat /\ commands \in Nat
      /\ \A i \in 1..Len(down) : down[i].version <= changes
  BY DEF IInv, Types, Numbers
<1>2. PICK m : m = Head(down)
  OBVIOUS
<1>3. /\ down # <<>> /\ ~crashed /\ version' = m.version /\ up' = Asked(m) /\ down' = Tail(down)
      /\ UNCHANGED <<serverVars, commands, misled>>
      /\ \/ /\ InBounds(mirror, m) /\ RowsAgree(m)
            /\ mirror' = Mirrored(mirror, m) /\ shown' = Rows(m) /\ crashed' = crashed
         \/ /\ ~(InBounds(mirror, m) /\ RowsAgree(m))
            /\ crashed' = TRUE /\ UNCHANGED <<mirror, shown>>
  BY <1>2 DEF Receive
<1>4. PICK d \in Seq(Messages) : d = Tail(down) /\ d = down'
  BY <1>1, <1>3, HeadTailProperties
<1>5. /\ Len(down) \in Nat /\ Len(down) >= 1 /\ m = down[1] /\ m \in Messages
      /\ Len(d) = Len(down) - 1 /\ \A i \in 1..Len(down) - 1 : d[i] = down[i + 1]
  <2>1. Len(down) \in Nat /\ Len(down) >= 1
    BY <1>1, <1>3, EmptySeq, LenProperties
  <2>2. 1 \in 1..Len(down)
    BY <2>1
  <2>3. m = down[1] /\ m \in Messages
    BY <1>1, <1>2, <1>3, <2>2, ElementOfSeq
  <2> QED
    BY <1>1, <1>3, <1>4, <2>1, <2>3, HeadTailProperties
<1>6. \A i \in 1..Len(d) : d[i].version <= changes
  <2>1. ASSUME NEW i \in 1..Len(d) PROVE d[i].version <= changes
    <3>1. i \in 1..Len(down) - 1 /\ i + 1 \in 1..Len(down)
      BY <1>5
    <3> QED
      BY <1>1, <1>5, <3>1
  <2> QED
    BY <2>1
<1>7. m.version \in Nat /\ m.version <= changes
  <2>1. 1 \in 1..Len(down)
    BY <1>5
  <2> QED
    BY <1>1, <1>5, <2>1, MessageFacts
<1>8. PICK c : c = [cmd |-> "list"] /\ c \in Commands /\ c \in Lists /\ c \notin Own
  <2>1. [cmd |-> "list"] \in Commands /\ [cmd |-> "list"].cmd = "list"
    BY DEF Commands
  <2> QED
    BY <2>1 DEF Lists, Own
<1>9. PICK u : u = up' /\ u = IF m.type = "reorder" THEN Append(up, c) ELSE up
  BY <1>3, <1>8 DEF Asked
<1>10. /\ u \in Seq(Commands) /\ Count(u, Own) = Count(up, Own)
       /\ Count(u, Lists) = Count(up, Lists) + (IF m.type = "reorder" THEN 1 ELSE 0)
  <2>1. Count(up, Own) \in Nat /\ Count(up, Lists) \in Nat
    BY <1>1, CountFacts
  <2>2. CASE m.type = "reorder"
    <3>1. u = Append(up, c) /\ u \in Seq(Commands)
      BY <1>1, <1>8, <1>9, <2>2, AppendProperties
    <3>2. Count(u, Own) = Count(up, Own) + 0 /\ Count(u, Lists) = Count(up, Lists) + 1
      BY <1>1, <1>8, <3>1, CountAppend
    <3> QED
      BY <2>1, <2>2, <3>1, <3>2
  <2>3. CASE m.type # "reorder"
    BY <1>1, <1>9, <2>1, <2>3
  <2> QED
    BY <2>2, <2>3
<1>11. Count(down, Reorders) = Count(d, Reorders) + (IF m.type = "reorder" THEN 1 ELSE 0)
  <2>1. m \in Reorders <=> m.type = "reorder"
    BY <1>5 DEF Reorders
  <2>2. Count(down, Reorders) = Count(d, Reorders) + (IF down[1] \in Reorders THEN 1 ELSE 0)
    BY <1>1, <1>3, <1>4, CountTail
  <2> QED
    BY <1>5, <2>1, <2>2
<1>12. Types'
  <2>1. ASSUME InBounds(mirror, m), RowsAgree(m), mirror' = Mirrored(mirror, m), shown' = Rows(m)
        PROVE  mirror' \in Seq(Songs) /\ shown' \in Seq(Songs) /\ Len(shown') = Len(mirror')
    BY <1>1, <1>5, <2>1, MirroredFacts, RowsFacts DEF RowsAgree
  <2>2. mirror' \in Seq(Songs) /\ shown' \in Seq(Songs) /\ Len(shown') = Len(mirror')
    BY <1>1, <1>3, <2>1
  <2>3. crashed' \in BOOLEAN
    BY <1>3 DEF IInv, Types
  <2> QED
    BY <1>3, <1>4, <1>9, <1>10, <2>2, <2>3 DEF IInv, Types, serverVars
<1>13. Numbers'
  BY <1>3, <1>4, <1>6, <1>7, <1>9, <1>10 DEF IInv, Numbers, serverVars
<1>14. Waits'
  BY <1>3 DEF IInv, Waits, serverVars
<1>15. Follows'
  <2> SUFFICES ASSUME ~overtaken'
               PROVE  ~crashed' /\ Due' <= 1
                      /\ Replays(mirror', down', IF Due' = 0 THEN server' ELSE <<>>)
    BY DEF Follows
  <2>1. PICK r : /\ Due <= 1 /\ r = (IF Due = 0 THEN server ELSE <<>>)
                 /\ Replays(mirror, down, r)
    BY <1>3 DEF IInv, Follows, serverVars
  <2>2. Applies(mirror, m) /\ Replays(Mirrored(mirror, m), d, r)
    BY <1>1, <1>3, <1>4, <1>5, <2>1, ReplaysTail
  <2>3. InBounds(mirror, m) /\ RowsAgree(m)
    BY <1>1, <1>5, <2>2, RowsFacts DEF Applies
  <2>4. mirror' = Mirrored(mirror, m) /\ ~crashed'
    BY <1>3, <2>3
  <2>5. Due' = Due
    <3>1. Count(up, Lists) \in Nat /\ Count(d, Reorders) \in Nat
      BY <1>1, CountFacts
    <3>2. Due = Count(up, Lists) + Count(down, Reorders) /\ Due' = Count(u, Lists) + Count(d, Reorders)
      BY <1>4, <1>9 DEF Due
    <3>3. CASE m.type = "reorder"
      BY <1>10, <1>11, <3>1, <3>2, <3>3
    <3>4. CASE m.type # "reorder"
      BY <1>10, <1>11, <3>1, <3>2, <3>4
    <3> QED
      BY <3>3, <3>4
  <2> QED
    BY <1>3, <1>4, <2>1, <2>2, <2>4, <2>5 DEF serverVars
<1> QED
  BY <1>12, <1>13, <1>14, <1>15 DEF IInv

-----------------------------------------------------------------------------
\* The user sends a command.
LEMMA AheadIsNat ==
  ASSUME Types, version \in Nat
  PROVE  Ahead \in Nat
<1>1. Len(up) \in Nat /\ Len(down) \in Nat /\ DOMAIN up = 1..Len(up) /\ DOMAIN down = 1..Len(down)
  BY LenProperties DEF Types
<1> DEFINE A == {i \in DOMAIN up : up[i].cmd = "move"}
           B == {i \in DOMAIN down : down[i].type = "move"}
<1>2. IsFiniteSet(1..Len(up)) /\ IsFiniteSet(1..Len(down))
  BY <1>1, FS_Interval
<1>3. A \subseteq 1..Len(up) /\ B \subseteq 1..Len(down)
  BY <1>1
<1> HIDE DEF A, B
<1>4. Cardinality(A) \in Nat /\ Cardinality(B) \in Nat
  BY <1>2, <1>3, FS_Subset, FS_CardinalityType
<1>5. Ahead = version + Cardinality(A) + Cardinality(B)
  BY DEF Ahead, A, B
<1> QED
  BY <1>4, <1>5

LEMMA UserStep ==
  ASSUME IInv, NEW c \in Commands, c.cmd \notin {"broadcast", "list"}, UserSends(c),
         shown' \in Seq(Songs), Len(shown') = Len(shown)
  PROVE  IInv'
<1>1. /\ up \in Seq(Commands) /\ changes \in Nat /\ commands \in Nat /\ MaxChanges \in Nat
      /\ Len(up) \in Nat /\ MaxUser \in Nat
  BY PlaylistAssumption, LenProperties DEF IInv, Types, Numbers
<1>2. /\ commands < MaxUser /\ commands' = commands + 1 /\ up' = Append(up, c)
      /\ UNCHANGED <<serverVars, mirror, crashed, version, down, misled>>
  BY DEF UserSends
<1>3. PICK u : u = up'
  OBVIOUS
<1>4. /\ u \in Seq(Commands) /\ Len(u) = Len(up) + 1
      /\ \A i \in 1..Len(up) : u[i] = up[i]
  BY <1>1, <1>2, <1>3, AppendProperties
<1>5. Count(u, Lists) = Count(up, Lists) /\ Count(u, Own) = Count(up, Own) + 1
      /\ Count(up, Own) \in Nat
  <2>1. c \notin Lists /\ c \in Own
    BY DEF Lists, Own
  <2>2. Count(u, Lists) = Count(up, Lists) + 0 /\ Count(u, Own) = Count(up, Own) + 1
    BY <1>1, <1>2, <1>3, <2>1, CountAppend
  <2>3. Count(up, Lists) \in Nat /\ Count(up, Own) \in Nat
    BY <1>1, CountFacts
  <2> QED
    BY <2>2, <2>3
<1>6. Types'
  BY <1>2, <1>3, <1>4 DEF IInv, Types, serverVars
<1>7. Numbers'
  <2>1. Count(up, Own) <= commands /\ changes + Count(up, Own) <= MaxChanges + commands
    BY DEF IInv, Numbers
  <2>2. Count(u, Own) <= commands + 1 /\ commands + 1 <= MaxUser
        /\ changes + Count(u, Own) <= MaxChanges + (commands + 1)
    BY <1>1, <1>2, <1>5, <2>1
  <2> QED
    BY <1>1, <1>2, <1>3, <2>2 DEF IInv, Numbers, serverVars
<1>8. Waits'
  <2> SUFFICES ASSUME ~subscribed PROVE Len(u) >= 2 /\ u[1].cmd = "broadcast" /\ u[2].cmd = "list" /\ down = <<>>
    BY <1>2, <1>3 DEF Waits, serverVars
  <2>1. Len(up) >= 2 /\ up[1].cmd = "broadcast" /\ up[2].cmd = "list" /\ down = <<>>
    BY DEF IInv, Waits
  <2>2. 1 \in 1..Len(up) /\ 2 \in 1..Len(up)
    BY <1>1, <2>1
  <2> QED
    BY <1>1, <1>4, <2>1, <2>2
<1>9. Follows'
  <2>1. Due' = Due
    BY <1>2, <1>3, <1>5 DEF Due
  <2> QED
    BY <1>2, <2>1 DEF IInv, Follows, serverVars
<1> QED
  BY <1>6, <1>7, <1>8, <1>9 DEF IInv

LEMMA SwipeStep ==
  ASSUME IInv, NEW row \in DOMAIN shown, Swipe(row)
  PROVE  IInv'
<1>1. shown \in Seq(Songs) /\ row \in 1..Len(shown) /\ Len(shown) \in Nat /\ Ahead \in Nat
  BY LenProperties, AheadIsNat DEF IInv, Types, Numbers
<1>2. PICK c : c = [cmd |-> "remove", pos |-> Position(row), song |-> shown[row], since |-> Ahead]
  OBVIOUS
<1>3. row - 1 \in Nat /\ shown[row] \in Songs
  BY <1>1, ElementOfSeq
<1>4. c \in Commands /\ c.cmd = "remove"
  BY <1>1, <1>2, <1>3 DEF Commands, Position
<1> QED
  BY <1>1, <1>2, <1>4, UserStep DEF Swipe

LEMMA DragStep ==
  ASSUME IInv, NEW row \in DOMAIN shown, NEW to \in DOMAIN shown, Drag(row, to)
  PROVE  IInv'
<1>1. /\ shown \in Seq(Songs) /\ row \in 1..Len(shown) /\ to \in 1..Len(shown)
      /\ Len(shown) \in Nat /\ Ahead \in Nat
  BY LenProperties, AheadIsNat DEF IInv, Types, Numbers
<1>2. PICK c : c = [cmd |-> "move", pos |-> Position(row), new |-> Position(to), since |-> Ahead]
  OBVIOUS
<1>3. row - 1 \in Nat /\ to - 1 \in Nat /\ shown[row] \in Songs
  BY <1>1, ElementOfSeq
<1>4. c \in Commands /\ c.cmd = "move"
  BY <1>1, <1>2, <1>3 DEF Commands, Position
<1>5. PICK r : r = RemoveAt(shown, row)
  OBVIOUS
<1>6. r \in Seq(Songs) /\ Len(r) = Len(shown) - 1
  BY <1>1, <1>5, RemoveAtPlaces DEF RemovedAt
<1>7. PICK t : t = InsertAt(r, to, shown[row])
  OBVIOUS
<1>8. t \in Seq(Songs) /\ Len(t) = Len(shown)
  <2>1. Len(r) + 1 = Len(shown) /\ to \in 1..Len(r) + 1
    BY <1>1, <1>6
  <2>2. InsertedAt(t, Songs, r, to, shown[row])
    BY <1>3, <1>6, <1>7, <2>1, InsertAtPlaces
  <2> QED
    BY <2>1, <2>2 DEF InsertedAt
<1>9. UserSends(c) /\ shown' = t
  BY <1>2, <1>5, <1>7 DEF Drag
<1> QED
  BY <1>4, <1>8, <1>9, UserStep

LEMMA ChooseStep ==
  ASSUME IInv, NEW button \in {"clear", "shuffle"}, Choose(button)
  PROVE  IInv'
<1>1. shown \in Seq(Songs)
  BY DEF IInv, Types
<1>2. PICK c : c = [cmd |-> button]
  OBVIOUS
<1>3. c \in Commands /\ c.cmd = button
  BY <1>2 DEF Commands
<1> QED
  BY <1>1, <1>2, <1>3, UserStep DEF Choose

LEMMA NextInv == IInv /\ [Next]_vars => IInv'
<1> SUFFICES ASSUME IInv, [Next]_vars PROVE IInv'
  OBVIOUS
<1>1. CASE Receive
  BY <1>1, ReceiveStep
<1>2. CASE ServerStep
  BY <1>2, ServerStepInv
<1>3. ASSUME NEW m \in Changes(server), Other(m) PROVE IInv'
  BY <1>3, OtherStep
<1>4. ASSUME NEW m \in Changes(server), OtherPlaylist(m) PROVE IInv'
  BY <1>4, OtherPlaylistStep
<1>5. ASSUME NEW row \in DOMAIN shown, Swipe(row) PROVE IInv'
  BY <1>5, SwipeStep
<1>6. ASSUME NEW row \in DOMAIN shown, NEW to \in DOMAIN shown, Drag(row, to) PROVE IInv'
  BY <1>6, DragStep
<1>7. ASSUME NEW button \in {"clear", "shuffle"}, Choose(button) PROVE IInv'
  BY <1>7, ChooseStep
<1>8. CASE UNCHANGED vars
  <2>1. UNCHANGED <<server, subscribed, changes, overtaken, mirror, shown, crashed, version,
                    up, down, commands, misled>>
    BY <1>8 DEF vars, serverVars, viewVars
  <2>2. Due' = Due
    BY <2>1 DEF Due
  <2>3. Types' /\ Numbers' /\ Waits'
    BY <2>1 DEF IInv, Types, Numbers, Waits
  <2>4. Follows'
    BY <2>1, <2>2 DEF IInv, Follows
  <2> QED
    BY <2>3, <2>4 DEF IInv
<1> QED
  BY <1>1, <1>2, <1>3, <1>4, <1>5, <1>6, <1>7, <1>8 DEF Next

\* The invariant holds in every state of every behaviour.
THEOREM ViewCorrect == FairSpec => []IInv
BY InitInv, NextInv, PTL DEF FairSpec

\* The mirror with the messages on their way is the server's list whenever no reply
\* with the entries is due and no broadcast came that was not made for the mirror
\* (playlist_changed, playlist_list_entries of PlaylistViewController.m): FoldIs
\* makes the sequence of lists of the invariant the fold that InStep speaks of.
THEOREM InStepCorrect == FairSpec => []InStep
<1>1. IInv => InStep
  <2> SUFFICES ASSUME IInv PROVE InStep
    OBVIOUS
  <2>1. server \in ListsUpTo(MaxLen)
    <3>1. PICK k \in Nat : k = Len(server) /\ k <= MaxLen
      BY LenProperties DEF IInv, Types
    <3>2. server \in [1..k -> Songs]
      BY <3>1, LenProperties, ElementOfSeq DEF IInv, Types
    <3>3. k \in 0..MaxLen
      BY <3>1, PlaylistAssumption
    <3> QED
      BY <3>2, <3>3 DEF ListsUpTo
  <2>2. changes \in 0..MaxChanges + MaxUser
    <3>1. Count(up, Own) \in Nat
      BY CountFacts DEF IInv, Types
    <3>2. /\ changes \in Nat /\ commands \in Nat /\ commands <= MaxUser
          /\ changes + Count(up, Own) <= MaxChanges + commands
          /\ MaxChanges \in Nat /\ MaxUser \in Nat
      BY PlaylistAssumption DEF IInv, Numbers
    <3> QED
      BY <3>1, <3>2
  <2>3. version \in 0..changes
    BY DEF IInv, Numbers
  <2>4. TypeOK
    BY <2>1, <2>2, <2>3 DEF TypeOK, IInv, Types
  <2>5. ASSUME ~overtaken, Owed = 0 PROVE FoldLeft(Mirrored, mirror, down) = server
    <3>1. Due = 0 /\ down \in Seq(Messages)
      BY <2>5, OwedIsDue DEF IInv, Types
    <3>2. Replays(mirror, down, server)
      BY <2>5, <3>1 DEF IInv, Follows
    <3>3. Folded(mirror, down) = server
      BY <3>1, <3>2, ReplaysFold
    <3> QED
      BY <3>3 DEF Folded
  <2> QED
    BY <2>4, <2>5 DEF InStep
<1> QED
  BY <1>1, ViewCorrect, PTL

\* No exception is raised in the callbacks unless such a broadcast came: the index
\* is in the range of the array, and the table view is told of as many rows as the
\* data source has.
THEOREM NoExceptionCorrect == FairSpec => []NoException
<1>1. IInv => NoException
  BY DEF IInv, Follows, NoException
<1> QED
  BY <1>1, ViewCorrect, PTL

-----------------------------------------------------------------------------
\* What the commands on their way will do, as long as the server makes no other
\* change: before command k, b[k - 1] changes have been made and the list is
\* s[k - 1].  The list after a move is told only if the number the user saw is the
\* one the command will meet.
Moves == {c \in Commands : c.cmd = "move"}
Aimed == {"remove", "move"}

\* The moves among the first n commands meet the list the user saw, and so does
\* command k and every move before it.
Good(u, b, n)  == \A j \in 1..n : u[j].cmd = "move" => u[j].since = b[j - 1]
Fresh(u, b, k) == u[k].cmd \in Aimed /\ u[k].since = b[k - 1] /\ Good(u, b, k - 1)

Future(u, n, l, b, s) ==
  /\ b \in [0..Len(u) -> Nat] /\ b[0] = n /\ s[0] = l
  /\ b[Len(u)] = n + Count(u, Moves)
  /\ \A i \in 1..Len(u) :
       /\ u[i].cmd = "move" => b[i] = b[i - 1] + 1
       /\ u[i].cmd # "move" => b[i] = b[i - 1] /\ s[i] = s[i - 1]
       /\ u[i].cmd = "move" /\ u[i].since = b[i - 1] => s[i] = Moved(s[i - 1], u[i].pos, u[i].new)
       /\ u[i].cmd \in Aimed => u[i].since <= b[i - 1]

\* What the user saw is in the list: the row that is deleted, the row that is moved
\* and its new place.
Meets(c, l) ==
  /\ c.pos < Len(l)
  /\ c.cmd = "remove" => l[c.pos + 1] = c.song
  /\ c.cmd = "move" => c.new < Len(l) /\ c.pos # c.new
Fits(u, b, s) == \A k \in 1..Len(u) : Fresh(u, b, k) => Meets(u[k], s[k - 1])

LEMMA CommandTypes ==
  ASSUME NEW c \in Commands
  PROVE  /\ c.cmd \in Aimed => c.pos \in Nat /\ c.since \in Nat
         /\ c.cmd = "move" => c.new \in Nat
         /\ c \in Moves <=> c.cmd = "move"
BY DEF Commands, Aimed, Moves

\* A command is sent.
LEMMA FutureAppend ==
  ASSUME NEW u \in Seq(Commands), NEW n \in Nat, NEW l, NEW b, NEW s, Future(u, n, l, b, s),
         Fits(u, b, s), NEW c \in Commands, c.cmd \in Aimed => c.since <= b[Len(u)],
         c.cmd \in Aimed /\ c.since = b[Len(u)] /\ Good(u, b, Len(u)) => Meets(c, s[Len(u)])
  PROVE  \E b2, s2 :
           /\ Future(Append(u, c), n, l, b2, s2) /\ Fits(Append(u, c), b2, s2)
           /\ s2[Len(Append(u, c))] = IF c.cmd = "move" THEN Moved(s[Len(u)], c.pos, c.new) ELSE s[Len(u)]
           /\ \A k \in 1..Len(Append(u, c)) : Fresh(Append(u, c), b2, k) =>
                \/ k \in 1..Len(u) /\ Fresh(u, b, k)
                \/ c.cmd \in Aimed /\ c.since = b[Len(u)] /\ Good(u, b, Len(u))
           /\ Good(Append(u, c), b2, Len(Append(u, c))) => Good(u, b, Len(u)) /\ (c.cmd = "move" => c.since = b[Len(u)])
<1>0. PICK t : t = Append(u, c)
  OBVIOUS
<1>1. PICK m \in Nat : m = Len(u)
  BY LenProperties
<1>2. t \in Seq(Commands) /\ Len(t) = m + 1 /\ t[m + 1] = c /\ \A i \in 1..m : t[i] = u[i]
  BY <1>0, <1>1, AppendProperties
<1>3. PICK y \in Nat : y = b[m] + (IF c.cmd = "move" THEN 1 ELSE 0)
  BY <1>1 DEF Future
<1>4. PICK z : z = IF c.cmd = "move" THEN Moved(s[m], c.pos, c.new) ELSE s[m]
  OBVIOUS
<1>5. PICK b2 : b2 = [i \in 0..m + 1 |-> IF i = m + 1 THEN y ELSE b[i]]
  OBVIOUS
<1>6. PICK s2 : s2 = [i \in 0..m + 1 |-> IF i = m + 1 THEN z ELSE s[i]]
  OBVIOUS
<1>7. /\ b2 \in [0..m + 1 -> Nat] /\ b2[m + 1] = y /\ s2[m + 1] = z
      /\ \A i \in 0..m : b2[i] = b[i] /\ s2[i] = s[i]
  <2>1. b \in [0..m -> Nat]
    BY <1>1 DEF Future
  <2>2. \A i \in 0..m : i \in 0..m + 1 /\ i # m + 1
    OBVIOUS
  <2>3. \A i \in 0..m + 1 : i = m + 1 \/ i \in 0..m
    OBVIOUS
  <2> QED
    BY <1>5, <1>6, <2>1, <2>2, <2>3
<1>8. /\ b[0] = n /\ s[0] = l /\ b[m] = n + Count(u, Moves)
      /\ \A i \in 1..m :
           /\ u[i].cmd = "move" => b[i] = b[i - 1] + 1
           /\ u[i].cmd # "move" => b[i] = b[i - 1] /\ s[i] = s[i - 1]
           /\ u[i].cmd = "move" /\ u[i].since = b[i - 1] => s[i] = Moved(s[i - 1], u[i].pos, u[i].new)
           /\ u[i].cmd \in Aimed => u[i].since <= b[i - 1]
  BY <1>1 DEF Future
<1>9. b2[0] = n /\ s2[0] = l /\ b2[m + 1] = n + Count(t, Moves)
  <2>1. Count(t, Moves) = Count(u, Moves) + (IF c \in Moves THEN 1 ELSE 0)
    <3>1. Count(Append(u, c), Moves) = Count(u, Moves) + (IF c \in Moves THEN 1 ELSE 0)
      BY CountAppend
    <3> QED
      BY <1>0, <3>1
  <2>2. Count(u, Moves) \in Nat
    BY CountFacts
  <2>3. c \in Moves <=> c.cmd = "move"
    BY CommandTypes
  <2>4. 0 \in 0..m
    OBVIOUS
  <2>5. CASE c.cmd = "move"
    BY <1>3, <1>7, <1>8, <2>1, <2>2, <2>3, <2>4, <2>5
  <2>6. CASE c.cmd # "move"
    <3>1. Count(t, Moves) = Count(u, Moves)
      BY <2>1, <2>2, <2>3, <2>6
    <3>2. b[m] \in Nat /\ y = b[m] + 0
      BY <1>3, <1>8, <2>2, <2>6
    <3> QED
      BY <1>7, <1>8, <2>4, <3>1, <3>2
  <2> QED
    BY <2>5, <2>6
<1>10. ASSUME NEW i \in 1..m + 1
       PROVE  /\ t[i].cmd = "move" => b2[i] = b2[i - 1] + 1
              /\ t[i].cmd # "move" => b2[i] = b2[i - 1] /\ s2[i] = s2[i - 1]
              /\ t[i].cmd = "move" /\ t[i].since = b2[i - 1] =>
                   s2[i] = Moved(s2[i - 1], t[i].pos, t[i].new)
              /\ t[i].cmd \in Aimed => t[i].since <= b2[i - 1]
  <2>1. CASE i = m + 1
    <3>1. i - 1 = m /\ m \in 0..m /\ t[i] = c /\ b2[i] = y /\ s2[i] = z
          /\ b2[i - 1] = b[m] /\ s2[i - 1] = s[m]
      BY <1>2, <1>7, <2>1
    <3>2. c.cmd \in Aimed => c.since <= b[m]
      BY <1>1
    <3>3. b[m] \in Nat
      BY <1>7
    <3> QED
      BY <1>3, <1>4, <3>1, <3>2, <3>3
  <2>2. CASE i # m + 1
    <3>1. i \in 1..m /\ i - 1 \in 0..m /\ i \in 0..m
      BY <2>2
    <3>2. t[i] = u[i] /\ b2[i] = b[i] /\ s2[i] = s[i] /\ b2[i - 1] = b[i - 1] /\ s2[i - 1] = s[i - 1]
      BY <1>2, <1>7, <3>1
    <3> QED
      BY <1>8, <3>1, <3>2
  <2> QED
    BY <2>1, <2>2
<1>11. Future(t, n, l, b2, s2)
  BY <1>2, <1>7, <1>9, <1>10 DEF Future
<1>12. ASSUME NEW k \in 0..m, NEW j \in k..m + 1, Good(t, b2, j) PROVE Good(u, b, k)
  <2> SUFFICES ASSUME NEW i \in 1..k, u[i].cmd = "move" PROVE u[i].since = b[i - 1]
    BY DEF Good
  <2>1. i \in 1..j /\ i \in 1..m /\ i - 1 \in 0..m
    OBVIOUS
  <2>2. t[i] = u[i] /\ b2[i - 1] = b[i - 1]
    BY <1>2, <1>7, <2>1
  <2> QED
    BY <1>12, <2>1, <2>2 DEF Good
<1>13. ASSUME NEW k \in 1..m + 1, Fresh(t, b2, k)
       PROVE  /\ \/ k \in 1..m /\ Fresh(u, b, k) /\ t[k] = u[k] /\ s2[k - 1] = s[k - 1]
                 \/ /\ c.cmd \in Aimed /\ c.since = b[m] /\ Good(u, b, m)
                    /\ t[k] = c /\ s2[k - 1] = s[m]
  <2>1. t[k].cmd \in Aimed /\ t[k].since = b2[k - 1] /\ Good(t, b2, k - 1)
    BY <1>13 DEF Fresh
  <2>2. k - 1 \in 0..m /\ k - 1 \in (k - 1)..m + 1
    OBVIOUS
  <2>3. Good(u, b, k - 1)
    BY <1>12, <2>1, <2>2
  <2>4. b2[k - 1] = b[k - 1] /\ s2[k - 1] = s[k - 1]
    BY <1>7, <2>2
  <2>5. CASE k = m + 1
    <3>1. t[k] = c /\ k - 1 = m
      BY <1>2, <2>5
    <3> QED
      BY <2>1, <2>3, <2>4, <3>1
  <2>6. CASE k # m + 1
    <3>1. k \in 1..m
      BY <2>6
    <3>2. t[k] = u[k]
      BY <1>2, <3>1
    <3> QED
      BY <2>1, <2>3, <2>4, <3>1, <3>2 DEF Fresh
  <2> QED
    BY <2>5, <2>6
<1>14. Fits(t, b2, s2)
  <2>1. \A k \in 1..m : Fresh(u, b, k) => Meets(u[k], s[k - 1])
    BY <1>1 DEF Fits
  <2>2. c.cmd \in Aimed /\ c.since = b[m] /\ Good(u, b, m) => Meets(c, s[m])
    BY <1>1
  <2>3. ASSUME NEW k \in 1..m + 1, Fresh(t, b2, k) PROVE Meets(t[k], s2[k - 1])
    <3>1. CASE k \in 1..m /\ Fresh(u, b, k) /\ t[k] = u[k] /\ s2[k - 1] = s[k - 1]
      BY <2>1, <3>1
    <3>2. CASE c.cmd \in Aimed /\ c.since = b[m] /\ Good(u, b, m) /\ t[k] = c /\ s2[k - 1] = s[m]
      BY <2>2, <3>2
    <3> QED
      BY <1>13, <2>3, <3>1, <3>2
  <2> QED
    BY <1>2, <2>3 DEF Fits
<1>15. Good(t, b2, m + 1) => Good(u, b, m) /\ (c.cmd = "move" => c.since = b[m])
  <2> SUFFICES ASSUME Good(t, b2, m + 1) PROVE Good(u, b, m) /\ (c.cmd = "move" => c.since = b[m])
    OBVIOUS
  <2>1. m \in 0..m /\ m + 1 \in m..m + 1 /\ m + 1 \in 1..m + 1 /\ (m + 1) - 1 = m
    OBVIOUS
  <2>2. Good(u, b, m)
    BY <1>12, <2>1
  <2>3. t[m + 1].cmd = "move" => t[m + 1].since = b2[m]
    BY <2>1 DEF Good
  <2> QED
    BY <1>2, <1>7, <2>1, <2>2, <2>3
<1>16. \A k \in 1..m + 1 : Fresh(t, b2, k) =>
         \/ k \in 1..m /\ Fresh(u, b, k)
         \/ c.cmd \in Aimed /\ c.since = b[m] /\ Good(u, b, m)
  BY <1>13
<1>17. /\ Future(t, n, l, b2, s2) /\ Fits(t, b2, s2)
       /\ s2[Len(t)] = IF c.cmd = "move" THEN Moved(s[Len(u)], c.pos, c.new) ELSE s[Len(u)]
       /\ \A k \in 1..Len(t) : Fresh(t, b2, k) =>
            \/ k \in 1..Len(u) /\ Fresh(u, b, k)
            \/ c.cmd \in Aimed /\ c.since = b[Len(u)] /\ Good(u, b, Len(u))
       /\ Good(t, b2, Len(t)) => Good(u, b, Len(u)) /\ (c.cmd = "move" => c.since = b[Len(u)])
  BY <1>1, <1>2, <1>4, <1>7, <1>11, <1>14, <1>15, <1>16
<1> QED
  BY <1>0, <1>17

\* The first command has arrived: it was no move, or one that met the list it was
\* made for.
LEMMA FutureTail ==
  ASSUME NEW u \in Seq(Commands), u # <<>>, NEW n \in Nat, NEW l, NEW b, NEW s,
         Future(u, n, l, b, s), Fits(u, b, s), Good(u, b, 1)
  PROVE  \E b2, s2 :
           /\ Future(Tail(u), b[1], s[1], b2, s2) /\ Fits(Tail(u), b2, s2)
           /\ s2[Len(Tail(u))] = s[Len(u)]
           /\ \A k \in 1..Len(Tail(u)) : Fresh(Tail(u), b2, k) => Fresh(u, b, k + 1)
           /\ Good(Tail(u), b2, Len(Tail(u))) => Good(u, b, Len(u))
<1>0. PICK t : t = Tail(u)
  OBVIOUS
<1>1. PICK m \in Nat : /\ Len(u) = m + 1 /\ Len(t) = m /\ \A i \in 1..m : t[i] = u[i + 1]
                       /\ t \in Seq(Commands)
  <2>1. /\ Len(u) \in Nat /\ Len(u) >= 1 /\ Len(t) = Len(u) - 1 /\ t \in Seq(Commands)
        /\ \A i \in 1..Len(u) - 1 : t[i] = u[i + 1]
    BY <1>0, EmptySeq, LenProperties, HeadTailProperties
  <2>2. PICK k \in Nat : k = Len(u) /\ k >= 1
    BY ONLY <2>1
  <2>3. PICK m \in Nat : k = m + 1 /\ k - 1 = m
    <3>1. k - 1 \in Nat /\ k = (k - 1) + 1
      BY ONLY <2>2
    <3> QED
      BY ONLY <3>1
  <2> QED
    BY <2>1, <2>2, <2>3
<1>2. /\ b \in [0..m + 1 -> Nat] /\ b[0] = n /\ s[0] = l /\ b[m + 1] = n + Count(u, Moves)
      /\ \A i \in 1..m + 1 :
           /\ u[i].cmd = "move" => b[i] = b[i - 1] + 1
           /\ u[i].cmd # "move" => b[i] = b[i - 1] /\ s[i] = s[i - 1]
           /\ u[i].cmd = "move" /\ u[i].since = b[i - 1] => s[i] = Moved(s[i - 1], u[i].pos, u[i].new)
           /\ u[i].cmd \in Aimed => u[i].since <= b[i - 1]
  BY <1>1 DEF Future
<1>3. PICK b2 : b2 = [i \in 0..m |-> b[i + 1]]
  OBVIOUS
<1>4. PICK s2 : s2 = [i \in 0..m |-> s[i + 1]]
  OBVIOUS
<1>5. b2 \in [0..m -> Nat] /\ \A i \in 0..m : b2[i] = b[i + 1] /\ s2[i] = s[i + 1]
  <2>1. \A i \in 0..m : i + 1 \in 0..m + 1
    OBVIOUS
  <2> QED
    BY <1>2, <1>3, <1>4, <2>1
<1>6. b2[0] = b[1] /\ s2[0] = s[1] /\ s2[m] = s[m + 1] /\ b2[m] = b[1] + Count(t, Moves)
  <2>1. 0 \in 0..m /\ m \in 0..m
    OBVIOUS
  <2>2. Count(u, Moves) = Count(t, Moves) + (IF u[1] \in Moves THEN 1 ELSE 0)
    BY <1>0, CountTail
  <2>3. Count(t, Moves) \in Nat
    BY <1>1, CountFacts
  <2>4. u[1] \in Moves <=> u[1].cmd = "move"
    <3>1. 1 \in 1..Len(u)
      BY <1>1
    <3>2. u[1] \in Commands
      BY <3>1, ElementOfSeq
    <3> QED
      BY <3>2, CommandTypes
  <2>5. (u[1].cmd = "move" => b[1] = n + 1) /\ (u[1].cmd # "move" => b[1] = n)
    <3>1. PICK i \in 1..m + 1 : i = 1 /\ i - 1 = 0
      OBVIOUS
    <3> QED
      BY <1>2, <3>1
  <2>6. CASE u[1].cmd = "move"
    BY <1>2, <1>5, <2>1, <2>2, <2>3, <2>4, <2>5, <2>6
  <2>7. CASE u[1].cmd # "move"
    BY <1>2, <1>5, <2>1, <2>2, <2>3, <2>4, <2>5, <2>7
  <2> QED
    BY <2>6, <2>7
<1>7. ASSUME NEW i \in 1..m
      PROVE  /\ t[i].cmd = "move" => b2[i] = b2[i - 1] + 1
             /\ t[i].cmd # "move" => b2[i] = b2[i - 1] /\ s2[i] = s2[i - 1]
             /\ t[i].cmd = "move" /\ t[i].since = b2[i - 1] =>
                  s2[i] = Moved(s2[i - 1], t[i].pos, t[i].new)
             /\ t[i].cmd \in Aimed => t[i].since <= b2[i - 1]
  <2>1. PICK k \in 1..m + 1 : k = i + 1 /\ k - 1 = i
    OBVIOUS
  <2>2. i \in 0..m /\ i - 1 \in 0..m /\ (i - 1) + 1 = i
    OBVIOUS
  <2>3. t[i] = u[k] /\ b2[i] = b[k] /\ s2[i] = s[k] /\ b2[i - 1] = b[k - 1] /\ s2[i - 1] = s[k - 1]
    BY <1>1, <1>5, <2>1, <2>2
  <2> QED
    BY <1>2, <2>3
<1>8. Future(t, b[1], s[1], b2, s2)
  BY <1>1, <1>5, <1>6, <1>7 DEF Future
<1>9. ASSUME NEW k \in 0..m, Good(t, b2, k) PROVE Good(u, b, k + 1)
  <2> SUFFICES ASSUME NEW i \in 1..k + 1, u[i].cmd = "move" PROVE u[i].since = b[i - 1]
    BY DEF Good
  <2>1. CASE i = 1
    <3>1. 1 \in 1..1
      OBVIOUS
    <3> QED
      BY <2>1, <3>1 DEF Good
  <2>2. CASE i # 1
    <3>1. PICK j \in 1..k : j = i - 1 /\ j + 1 = i
      BY <2>2
    <3>2. j \in 1..m /\ j - 1 \in 0..m /\ (j - 1) + 1 = i - 1
      BY <3>1
    <3>3. t[j] = u[i] /\ b2[j - 1] = b[i - 1]
      BY <1>1, <1>5, <3>1, <3>2
    <3> QED
      BY <1>9, <3>3 DEF Good
  <2> QED
    BY <2>1, <2>2
<1>10. ASSUME NEW k \in 1..m, Fresh(t, b2, k)
       PROVE  Fresh(u, b, k + 1) /\ t[k] = u[k + 1] /\ s2[k - 1] = s[k]
  <2>1. t[k].cmd \in Aimed /\ t[k].since = b2[k - 1] /\ Good(t, b2, k - 1)
    BY <1>10 DEF Fresh
  <2>2. k - 1 \in 0..m /\ (k - 1) + 1 = k /\ (k + 1) - 1 = k
    OBVIOUS
  <2>3. Good(u, b, k)
    BY <1>9, <2>1, <2>2
  <2>4. t[k] = u[k + 1] /\ b2[k - 1] = b[k] /\ s2[k - 1] = s[k]
    BY <1>1, <1>5, <2>2
  <2> QED
    BY <2>1, <2>2, <2>3, <2>4 DEF Fresh
<1>11. Fits(t, b2, s2)
  <2>1. ASSUME NEW k \in 1..m, Fresh(t, b2, k) PROVE Meets(t[k], s2[k - 1])
    <3>1. PICK i \in 1..m + 1 : i = k + 1 /\ i - 1 = k
      OBVIOUS
    <3>2. Fresh(u, b, i) /\ t[k] = u[i] /\ s2[k - 1] = s[i - 1]
      BY <1>10, <2>1, <3>1
    <3> QED
      BY <1>1, <3>2 DEF Fits
  <2> QED
    BY <1>1, <2>1 DEF Fits
<1>12. Good(t, b2, m) => Good(u, b, m + 1)
  <2>1. m \in 0..m
    OBVIOUS
  <2> QED
    BY <1>9, <2>1
<1>13. \A k \in 1..m : Fresh(t, b2, k) => Fresh(u, b, k + 1)
  BY <1>10
<1>14. /\ Future(t, b[1], s[1], b2, s2) /\ Fits(t, b2, s2)
       /\ s2[Len(t)] = s[Len(u)]
       /\ \A k \in 1..Len(t) : Fresh(t, b2, k) => Fresh(u, b, k + 1)
       /\ Good(t, b2, Len(t)) => Good(u, b, Len(u))
  BY <1>1, <1>6, <1>8, <1>11, <1>12, <1>13
<1> QED
  BY <1>0, <1>14

\* A move that meets the list after moves that do so is fresh.
LEMMA GoodIsFresh ==
  ASSUME NEW u, NEW b, NEW n \in Nat, Good(u, b, n), NEW j \in 1..n, u[j].cmd = "move"
  PROVE  Fresh(u, b, j)
<1>1. u[j].cmd \in Aimed /\ u[j].since = b[j - 1]
  BY DEF Aimed, Good
<1>2. \A i \in 1..j - 1 : i \in 1..n
  OBVIOUS
<1>3. Good(u, b, j - 1)
  BY <1>2 DEF Good
<1> QED
  BY <1>1, <1>3 DEF Fresh

\* Without moves the list stays.
LEMMA FutureStays ==
  ASSUME NEW u \in Seq(Commands), NEW n, NEW l, NEW b, NEW s, Future(u, n, l, b, s),
         \A i \in 1..Len(u) : u[i].cmd # "move"
  PROVE  s[Len(u)] = l
<1>1. PICK m \in Nat : m = Len(u)
  BY LenProperties
<1>2. s[0] = l /\ \A i \in 1..m : s[i] = s[i - 1]
  BY <1>1 DEF Future
<1> DEFINE T == {i \in Nat : i <= m => s[i] = l}
<1>3. 0 \in T
  BY <1>2
<1>4. ASSUME NEW i \in Nat, i \in T PROVE i + 1 \in T
  <2> SUFFICES ASSUME i + 1 <= m PROVE s[i + 1] = l
    OBVIOUS
  <2>1. PICK k \in 1..m : k = i + 1 /\ k - 1 = i
    OBVIOUS
  <2>2. s[k] = s[k - 1]
    BY <1>2
  <2>3. s[i] = l
    BY <1>4, <2>1
  <2> QED
    BY <2>1, <2>2, <2>3
<1> HIDE DEF T
<1>5. \A i \in Nat : i \in T
  BY <1>3, <1>4, NatInd
<1>6. \A i \in Nat : i <= m => s[i] = l
  BY <1>5 DEF T
<1> QED
  BY <1>1, <1>6

\* Another change is made: no command meets the list the user saw.
LEMMA FutureSpoilt ==
  ASSUME NEW u \in Seq(Commands), NEW n \in Nat, NEW l, NEW b, NEW s, Future(u, n, l, b, s),
         NEW l2
  PROVE  \E b2, s2 :
           /\ Future(u, n + 1, l2, b2, s2) /\ Fits(u, b2, s2)
           /\ \A k \in 1..Len(u) : ~Fresh(u, b2, k)
<1>1. PICK m \in Nat : m = Len(u)
  BY LenProperties
<1>2. /\ b \in [0..m -> Nat] /\ b[0] = n /\ s[0] = l /\ b[m] = n + Count(u, Moves)
      /\ \A i \in 1..m :
           /\ u[i].cmd = "move" => b[i] = b[i - 1] + 1
           /\ u[i].cmd # "move" => b[i] = b[i - 1] /\ s[i] = s[i - 1]
           /\ u[i].cmd \in Aimed => u[i].since <= b[i - 1]
  BY <1>1 DEF Future
<1>3. PICK b2 : b2 = [i \in 0..m |-> b[i] + 1]
  OBVIOUS
<1>4. PICK s2 : s2 = [i \in 0..m |-> l2]
  OBVIOUS
<1>5. b2 \in [0..m -> Nat] /\ \A i \in 0..m : b2[i] = b[i] + 1 /\ s2[i] = l2 /\ b[i] \in Nat
  <2>1. \A i \in 0..m : b[i] \in Nat /\ b[i] + 1 \in Nat
    BY <1>2
  <2>2. b2 \in [0..m -> Nat]
    BY <1>3, <2>1
  <2>3. \A i \in 0..m : b2[i] = b[i] + 1 /\ s2[i] = l2
    BY <1>3, <1>4
  <2> QED
    BY <2>1, <2>2, <2>3
<1>6. b2[0] = n + 1 /\ s2[0] = l2 /\ b2[m] = (n + 1) + Count(u, Moves)
  <2>1. 0 \in 0..m /\ m \in 0..m /\ Count(u, Moves) \in Nat
    BY CountFacts
  <2> QED
    BY <1>2, <1>5, <2>1
<1>7. ASSUME NEW i \in 1..m
      PROVE  /\ u[i].cmd = "move" => b2[i] = b2[i - 1] + 1
             /\ u[i].cmd # "move" => b2[i] = b2[i - 1] /\ s2[i] = s2[i - 1]
             /\ u[i].cmd \in Aimed => u[i].since <= b2[i - 1] /\ u[i].since # b2[i - 1]
  <2>1. i \in 0..m /\ i - 1 \in 0..m
    OBVIOUS
  <2>2. /\ b2[i] = b[i] + 1 /\ b2[i - 1] = b[i - 1] + 1 /\ s2[i] = l2 /\ s2[i - 1] = l2
        /\ b[i] \in Nat /\ b[i - 1] \in Nat
    BY <1>5, <2>1
  <2>3. u[i].cmd \in Aimed => u[i].since \in Nat
    <3>1. u[i] \in Commands
      BY <1>1, ElementOfSeq
    <3> QED
      BY <3>1, CommandTypes
  <2> QED
    BY <1>2, <2>2, <2>3
<1>8. "move" \in Aimed
  BY DEF Aimed
<1>9. Future(u, n + 1, l2, b2, s2)
  BY <1>1, <1>5, <1>6, <1>7, <1>8 DEF Future
<1>10. \A k \in 1..m : ~Fresh(u, b2, k)
  BY <1>7 DEF Fresh
<1> QED
  BY <1>1, <1>9, <1>10 DEF Fits

-----------------------------------------------------------------------------
\* What is on its way to the view.  While a reply with the entries is due the rows
\* are empty, and nothing that is on its way before it fills them.  When no command
\* asks for the entries, the messages after the last reply have the last numbers.
Asking(u) == \E i \in 1..Len(u) : u[i].cmd = "list"
Number(d, v, i) == IF i = 0 THEN v ELSE d[i].version
Arrives(u, d, x, v, n) ==
  /\ Asking(u) => x = <<>> /\ \A i \in 1..Len(d) : d[i].type = "clear"
  /\ \A i \in 1..Len(d) : \A j \in i + 1..Len(d) : d[i].type = "reorder" => d[j].type = "clear"
  /\ \A j \in 1..Len(d) :
       d[j].type = "entries" => x = <<>> /\ \A i \in 1..j - 1 : d[i].type = "clear"
  /\ ~Asking(u) => \A i \in 0..Len(d) :
       (\A j \in i + 1..Len(d) : d[j].type # "entries") => Number(d, v, i) + Len(d) = n + i

LEMMA AskingCount ==
  ASSUME NEW u \in Seq(Commands)
  PROVE  Asking(u) <=> Count(u, Lists) >= 1
<1>1. \A i \in 1..Len(u) : u[i] \in Lists <=> u[i].cmd = "list"
  BY ElementOfSeq DEF Lists
<1>2. (\E i \in 1..Len(u) : u[i] \in Lists) <=> Count(u, Lists) >= 1
  BY CountFacts
<1> QED
  BY <1>1, <1>2 DEF Asking

LEMMA ReorderCount ==
  ASSUME NEW d \in Seq(Messages)
  PROVE  (\E i \in 1..Len(d) : d[i].type = "reorder") <=> Count(d, Reorders) >= 1
<1>1. \A i \in 1..Len(d) : d[i] \in Reorders <=> d[i].type = "reorder"
  BY ElementOfSeq DEF Reorders
<1>2. (\E i \in 1..Len(d) : d[i] \in Reorders) <=> Count(d, Reorders) >= 1
  BY CountFacts
<1> QED
  BY <1>1, <1>2

\* A message is sent to the view.
LEMMA ArrivesAppend ==
  ASSUME NEW u, NEW d \in Seq(Messages), NEW x, NEW v \in Nat, NEW n \in Nat, NEW n2 \in Nat,
         Arrives(u, d, x, v, n), NEW u2, NEW w \in Messages,
         NEW e, e = Append(d, w), w.version = n2,
         \/ /\ n2 = n + 1 /\ (Asking(u2) <=> Asking(u))
            /\ w.type # "entries"
            /\ (Asking(u) \/ \E i \in 1..Len(d) : d[i].type = "reorder") => w.type = "clear"
         \/ n2 = n /\ Asking(u) /\ ~Asking(u2) /\ w.type = "entries"
  PROVE  Arrives(u2, e, x, v, n2)
<1>1. PICK m \in Nat : m = Len(d)
  BY LenProperties
<1>2. e \in Seq(Messages) /\ Len(e) = m + 1 /\ e[m + 1] = w /\ \A i \in 1..m : e[i] = d[i]
  BY <1>1, AppendProperties
<1>3. /\ Asking(u) => x = <<>> /\ \A i \in 1..m : d[i].type = "clear"
      /\ \A i \in 1..m : \A j \in i + 1..m : d[i].type = "reorder" => d[j].type = "clear"
      /\ \A j \in 1..m :
           d[j].type = "entries" => x = <<>> /\ \A i \in 1..j - 1 : d[i].type = "clear"
      /\ ~Asking(u) => \A i \in 0..m :
           (\A j \in i + 1..m : d[j].type # "entries") => Number(d, v, i) + m = n + i
  BY <1>1 DEF Arrives
<1>4. /\ w.type # "entries" => n2 = n + 1 /\ (Asking(u2) <=> Asking(u))
                               /\ ((Asking(u) \/ \E i \in 1..m : d[i].type = "reorder") => w.type = "clear")
      /\ w.type = "entries" => n2 = n /\ Asking(u) /\ ~Asking(u2)
  BY <1>1
<1>5. Asking(u2) => x = <<>> /\ \A i \in 1..m + 1 : e[i].type = "clear"
  <2> SUFFICES ASSUME Asking(u2) PROVE x = <<>> /\ \A i \in 1..m + 1 : e[i].type = "clear"
    OBVIOUS
  <2>1. Asking(u) /\ w.type = "clear"
    BY <1>4
  <2>2. ASSUME NEW i \in 1..m + 1 PROVE e[i].type = "clear"
    <3>1. i = m + 1 \/ i \in 1..m
      OBVIOUS
    <3> QED
      BY <1>2, <1>3, <2>1, <3>1
  <2> QED
    BY <1>3, <2>1, <2>2
<1>6. ASSUME NEW i \in 1..m + 1, NEW j \in i + 1..m + 1, e[i].type = "reorder" PROVE e[j].type = "clear"
  <2>1. i \in 1..m /\ e[i] = d[i]
    BY <1>2
  <2>2. CASE j = m + 1
    <3>1. w.type # "entries"
      BY <1>3, <1>4, <1>6, <2>1
    <3> QED
      BY <1>2, <1>4, <1>6, <2>1, <2>2, <3>1
  <2>3. CASE j # m + 1
    <3>1. j \in i + 1..m /\ j \in 1..m
      BY <2>3
    <3> QED
      BY <1>2, <1>3, <1>6, <2>1, <3>1
  <2> QED
    BY <2>2, <2>3
<1>7. ASSUME NEW j \in 1..m + 1, e[j].type = "entries"
      PROVE  x = <<>> /\ \A i \in 1..j - 1 : e[i].type = "clear"
  <2>1. CASE j = m + 1
    <3>1. Asking(u)
      BY <1>2, <1>4, <1>7, <2>1
    <3>2. \A i \in 1..j - 1 : i \in 1..m
      BY <2>1
    <3> QED
      BY <1>2, <1>3, <3>1, <3>2
  <2>2. CASE j # m + 1
    <3>1. j \in 1..m /\ \A i \in 1..j - 1 : i \in 1..m
      BY <2>2
    <3> QED
      BY <1>2, <1>3, <1>7, <3>1
  <2> QED
    BY <2>1, <2>2
<1>8. ASSUME ~Asking(u2), NEW i \in 0..m + 1, \A j \in i + 1..m + 1 : e[j].type # "entries"
      PROVE  Number(e, v, i) + (m + 1) = n2 + i
  <2>1. CASE i = m + 1
    <3>1. Number(e, v, i) = n2
      BY <1>2, <2>1 DEF Number
    <3> QED
      BY <2>1, <3>1
  <2>2. CASE i # m + 1
    <3>1. i \in 0..m /\ m + 1 \in i + 1..m + 1 /\ \A j \in i + 1..m : j \in i + 1..m + 1 /\ j \in 1..m
      BY <2>2
    <3>2. w.type # "entries"
      BY <1>2, <1>8, <3>1
    <3>3. \A j \in i + 1..m : d[j].type # "entries"
      BY <1>2, <1>8, <3>1
    <3>4. Number(d, v, i) + m = n + i /\ n2 = n + 1
      BY <1>3, <1>4, <1>8, <3>1, <3>2, <3>3
    <3>5. Number(e, v, i) = Number(d, v, i)
      <4>1. CASE i = 0
        BY <4>1 DEF Number
      <4>2. CASE i # 0
        <5>1. i \in 1..m
          BY <3>1, <4>2
        <5> QED
          BY <1>2, <4>2, <5>1 DEF Number
      <4> QED
        BY <4>1, <4>2
    <3>6. Number(d, v, i) \in Nat
      <4>1. CASE i = 0
        BY <4>1 DEF Number
      <4>2. CASE i # 0
        <5>1. i \in 1..Len(d)
          BY <1>1, <3>1, <4>2
        <5>2. d[i] \in Messages
          BY <5>1, ElementOfSeq
        <5> QED
          BY <4>2, <5>2, MessageFacts DEF Number
      <4> QED
        BY <4>1, <4>2
    <3>7. PICK a \in Nat : a = Number(d, v, i)
      BY <3>6
    <3>8. a + m = n + i /\ n2 = n + 1
      BY <3>4, <3>7
    <3>9. i \in Nat
      OBVIOUS
    <3>10. a + (m + 1) = n2 + i
      BY ONLY <3>8, <3>9, a \in Nat, m \in Nat, n \in Nat
    <3> QED
      BY ONLY <3>5, <3>7, <3>10
  <2> QED
    BY <2>1, <2>2
<1> QED
  BY <1>2, <1>5, <1>6, <1>7, <1>8 DEF Arrives

\* A message has arrived at the view.
LEMMA ArrivesTail ==
  ASSUME NEW u, NEW d \in Seq(Messages), d # <<>>, NEW x, NEW v, NEW n \in Nat,
         Arrives(u, d, x, v, n), NEW u2, NEW x2, NEW e, e = Tail(d),
         Asking(u2) <=> Asking(u) \/ d[1].type = "reorder",
         d[1].type \in {"clear", "reorder"} => x2 = <<>>
  PROVE  Arrives(u2, e, x2, d[1].version, n)
<1>1. PICK m \in Nat : Len(d) = m + 1 /\ Len(e) = m /\ \A i \in 1..m : e[i] = d[i + 1]
  <2>1. /\ Len(d) \in Nat /\ Len(d) >= 1 /\ Len(e) = Len(d) - 1
        /\ \A i \in 1..Len(d) - 1 : e[i] = d[i + 1]
    BY EmptySeq, LenProperties, HeadTailProperties
  <2>2. PICK k \in Nat : k = Len(d) /\ k >= 1
    BY ONLY <2>1
  <2>3. PICK m \in Nat : k = m + 1 /\ k - 1 = m
    <3>1. k - 1 \in Nat /\ k = (k - 1) + 1
      BY ONLY <2>2
    <3> QED
      BY ONLY <3>1
  <2> QED
    BY <2>1, <2>2, <2>3
<1>2. /\ Asking(u) => x = <<>> /\ \A i \in 1..m + 1 : d[i].type = "clear"
      /\ \A i \in 1..m + 1 : \A j \in i + 1..m + 1 : d[i].type = "reorder" => d[j].type = "clear"
      /\ \A j \in 1..m + 1 :
           d[j].type = "entries" => x = <<>> /\ \A i \in 1..j - 1 : d[i].type = "clear"
      /\ ~Asking(u) => \A i \in 0..m + 1 :
           (\A j \in i + 1..m + 1 : d[j].type # "entries") => Number(d, v, i) + (m + 1) = n + i
  BY <1>1 DEF Arrives
<1>3. 1 \in 1..m + 1 /\ \A i \in 1..m : i + 1 \in 1..m + 1 /\ i + 1 \in 1 + 1..m + 1
  OBVIOUS
<1>4. Asking(u2) => x2 = <<>> /\ \A i \in 1..m : e[i].type = "clear"
  <2>1. CASE d[1].type = "reorder"
    BY <1>1, <1>2, <1>3, <2>1
  <2>2. CASE Asking(u)
    BY <1>1, <1>2, <1>3, <2>2
  <2> QED
    BY <2>1, <2>2
<1>5. ASSUME NEW i \in 1..m, NEW j \in i + 1..m, e[i].type = "reorder" PROVE e[j].type = "clear"
  <2>1. j \in 1..m /\ j + 1 \in (i + 1) + 1..m + 1
    OBVIOUS
  <2> QED
    BY <1>1, <1>2, <1>3, <1>5, <2>1
<1>6. ASSUME NEW j \in 1..m, e[j].type = "entries"
      PROVE  x2 = <<>> /\ \A i \in 1..j - 1 : e[i].type = "clear"
  <2>1. PICK k \in 1..m + 1 : k = j + 1 /\ e[j] = d[k]
    BY <1>1, <1>3
  <2>2. \A i \in 1..k - 1 : d[i].type = "clear"
    BY <1>2, <1>6, <2>1
  <2>3. 1 \in 1..k - 1 /\ \A i \in 1..j - 1 : i + 1 \in 1..k - 1 /\ i \in 1..m
    BY <2>1
  <2> QED
    BY <1>1, <2>2, <2>3
<1>7. ASSUME ~Asking(u2), NEW i \in 0..m, \A j \in i + 1..m : e[j].type # "entries"
      PROVE  Number(e, d[1].version, i) + m = n + i
  <2>1. PICK k \in 0..m + 1 : k = i + 1 /\ k # 0
    OBVIOUS
  <2>2. ASSUME NEW j \in k + 1..m + 1 PROVE d[j].type # "entries"
    <3>1. PICK a \in i + 1..m : a + 1 = j /\ a \in 1..m
      <4>1. j - 1 \in i + 1..m /\ (j - 1) + 1 = j /\ j - 1 \in 1..m
        BY <2>1
      <4> QED
        BY <4>1
    <3> QED
      BY <1>1, <1>7, <3>1
  <2>3. Number(d, v, k) + (m + 1) = n + k
    BY <1>2, <1>7, <2>2
  <2>4. Number(e, d[1].version, i) = Number(d, v, k)
    <3>1. Number(d, v, k) = d[i + 1].version
      BY <2>1 DEF Number
    <3>2. CASE i = 0
      BY <3>1, <3>2 DEF Number
    <3>3. CASE i # 0
      <4>1. i \in 1..m
        BY <3>3
      <4> QED
        BY <1>1, <3>1, <3>3, <4>1 DEF Number
    <3> QED
      BY <3>2, <3>3
  <2>5. Number(d, v, k) \in Nat
    <3>1. k \in 1..Len(d)
      BY <1>1, <2>1
    <3>2. d[k] \in Messages
      BY <3>1, ElementOfSeq
    <3> QED
      BY <2>1, <3>2, MessageFacts DEF Number
  <2> QED
    BY <2>1, <2>3, <2>4, <2>5
<1> QED
  BY <1>1, <1>4, <1>5, <1>6, <1>7 DEF Arrives

Seen == ~overtaken => Arrives(up, down, shown, version, changes)

LEMMA SeenChange ==
  ASSUME IInv, Seen, NEW m \in Changes(server), Change(m), UNCHANGED <<subscribed, viewVars>>,
         up' \in Seq(Commands), Count(up', Lists) = Count(up, Lists)
  PROVE  Seen'
<1> SUFFICES ASSUME ~overtaken' PROVE Arrives(up', down', shown', version', changes')
  BY DEF Seen
<1>1. /\ server \in Seq(Songs) /\ Len(server) <= MaxLen
      /\ up \in Seq(Commands) /\ down \in Seq(Messages)
      /\ changes \in Nat /\ version \in Nat
  BY DEF IInv, Types, Numbers
<1>2. PICK n \in Nat : n = changes' /\ n = changes + 1
  BY <1>1 DEF Change
<1>3. PICK w : w = Numbered(m, n)
  OBVIOUS
<1>4. w \in Messages /\ w.version = n /\ w.type = m.type
  BY <1>1, <1>2, <1>3, ChangeFacts DEF Announces
<1>5. w.type # "entries"
  <2>1. m.type # "entries"
    BY DEF Changes
  <2> QED
    BY <1>4, <2>1
<1>6. PICK d : d = down' /\ d = IF subscribed THEN Append(down, w) ELSE down
  BY <1>2, <1>3 DEF Change
<1>7. ~overtaken /\ ~(subscribed /\ Owed > 0 /\ m.type # "clear")
  BY DEF Change
<1>8. Arrives(up, down, shown, version, changes)
  BY <1>7 DEF Seen
<1>9. shown' = shown /\ version' = version
  BY DEF viewVars
<1>10. PICK u \in Seq(Commands) : u = up'
  OBVIOUS
<1>11. Asking(u) <=> Asking(up)
  BY <1>1, <1>10, AskingCount
<1>12. Owed = Due /\ Due \in Nat /\ Count(up, Lists) \in Nat /\ Count(down, Reorders) \in Nat
  BY <1>1, OwedIsDue, CountFacts
<1>13. CASE subscribed
  <2>1. (Asking(up) \/ \E i \in 1..Len(down) : down[i].type = "reorder") => w.type = "clear"
    <3> SUFFICES ASSUME Asking(up) \/ \E i \in 1..Len(down) : down[i].type = "reorder"
                 PROVE  w.type = "clear"
      OBVIOUS
    <3>1. Count(up, Lists) >= 1 \/ Count(down, Reorders) >= 1
      BY <1>1, AskingCount, ReorderCount
    <3>2. Owed > 0
      BY <1>12, <3>1 DEF Due
    <3> QED
      BY <1>4, <1>7, <1>13, <3>2
  <2>2. d = Append(down, w)
    BY <1>6, <1>13
  <2>3. Arrives(u, d, shown, version, n)
    BY <1>1, <1>2, <1>4, <1>5, <1>8, <1>11, <2>1, <2>2, ArrivesAppend
  <2> QED
    BY <1>2, <1>6, <1>9, <1>10, <2>3
<1>14. CASE ~subscribed
  <2>1. Asking(up)
    <3>1. Len(up) >= 2 /\ up[2].cmd = "list" /\ Len(up) \in Nat
      BY <1>1, <1>14, LenProperties DEF IInv, Waits
    <3>2. 2 \in 1..Len(up)
      BY <3>1
    <3> QED
      BY <3>1, <3>2 DEF Asking
  <2>2. Arrives(u, down, shown, version, n)
    BY <1>8, <1>11, <2>1 DEF Arrives
  <2> QED
    BY <1>2, <1>6, <1>9, <1>10, <1>14, <2>2
<1> QED
  BY <1>13, <1>14

LEMMA SeenSame ==
  ASSUME IInv, Seen, up' \in Seq(Commands), Count(up', Lists) = Count(up, Lists),
         UNCHANGED <<down, version, changes, overtaken>>, shown = <<>> => shown' = <<>>
  PROVE  Seen'
<1>1. up \in Seq(Commands)
  BY DEF IInv, Types
<1>2. PICK u \in Seq(Commands) : u = up'
  OBVIOUS
<1>3. Asking(u) <=> Asking(up)
  BY <1>1, <1>2, AskingCount
<1>4. ASSUME NEW x, shown = <<>> => x = <<>>, Arrives(up, down, shown, version, changes)
      PROVE Arrives(u, down, x, version, changes)
  BY <1>3, <1>4 DEF Arrives
<1> QED
  BY <1>2, <1>4 DEF Seen

LEMMA SeenList ==
  ASSUME IInv, Seen, ServerList
  PROVE  Seen'
<1> SUFFICES ASSUME ~overtaken' PROVE Arrives(up', down', shown', version', changes')
  BY DEF Seen
<1>1. /\ Command /\ up[1].cmd = "list" /\ UNCHANGED <<serverVars, misled>>
      /\ down' = Append(down, [type |-> "entries", list |-> server, version |-> changes])
  BY CommandFacts DEF ServerList
<1>2. /\ server \in Seq(Songs) /\ down \in Seq(Messages) /\ changes \in Nat /\ version \in Nat
      /\ up \in Seq(Commands)
  BY DEF IInv, Types, Numbers
<1>3. PICK w : w = [type |-> "entries", list |-> server, version |-> changes]
  OBVIOUS
<1>4. w \in Messages /\ w.type = "entries" /\ w.version = changes
  BY <1>2, <1>3 DEF Messages
<1>5. PICK u \in Seq(Commands) : u = up'
  BY <1>1, CommandFacts
<1>6. ~overtaken /\ changes' = changes /\ shown' = shown /\ version' = version
  BY <1>1, CommandFacts DEF serverVars, viewVars
<1>7. Count(up, Lists) = Count(u, Lists) + 1 /\ Count(u, Lists) \in Nat
  BY <1>1, <1>5, CommandFacts
<1>8. Asking(up) /\ ~Asking(u)
  <2>1. Due <= 1 /\ Count(down, Reorders) \in Nat
    BY <1>2, <1>6, CountFacts DEF IInv, Follows
  <2>2. Count(up, Lists) >= 1 /\ ~(Count(u, Lists) >= 1)
    BY <1>7, <2>1 DEF Due
  <2> QED
    BY <1>2, <2>2, AskingCount
<1>9. PICK d : d = down' /\ d = Append(down, w)
  BY <1>1, <1>3
<1>10. Arrives(up, down, shown, version, changes)
  BY <1>6 DEF Seen
<1>11. Arrives(u, d, shown, version, changes)
  BY <1>2, <1>4, <1>8, <1>9, <1>10, ArrivesAppend
<1> QED
  BY <1>5, <1>6, <1>9, <1>11

\* The rows after a message that empties the list.
LEMMA RowsGone ==
  ASSUME Types, NEW m, m.type \in {"clear", "reorder"}
  PROVE  Rows(m) = <<>>
<1>1. shown \in Seq(Songs) /\ Len(shown) = Len(mirror) /\ Len(shown) \in Nat
  BY LenProperties DEF Types
<1>2. Rows(m) = SubSeq(shown, Len(shown) + 1, Len(shown))
  BY <1>1 DEF Rows
<1> QED
  BY <1>1, <1>2, SubSeqEmpty

\* What is known when a message arrives that the view can make sense of.
LEMMA ReceiveFacts ==
  ASSUME IInv, Receive, ~overtaken
  PROVE  /\ down # <<>> /\ down[1] \in Messages /\ down' = Tail(down)
         /\ Applies(mirror, down[1]) /\ mirror' = Mirrored(mirror, down[1]) /\ shown' = Rows(down[1])
         /\ version' = down[1].version /\ UNCHANGED <<server, changes, overtaken, misled>>
         /\ up' = IF down[1].type = "reorder" THEN Append(up, [cmd |-> "list"]) ELSE up
         /\ up' \in Seq(Commands)
         /\ Asking(up') <=> Asking(up) \/ down[1].type = "reorder"
<1>1. /\ up \in Seq(Commands) /\ down \in Seq(Messages)
      /\ mirror \in Seq(Songs) /\ shown \in Seq(Songs) /\ Len(shown) = Len(mirror)
  BY DEF IInv, Types
<1>2. PICK m : m = Head(down)
  OBVIOUS
<1>3. /\ down # <<>> /\ version' = m.version /\ up' = Asked(m) /\ down' = Tail(down)
      /\ UNCHANGED <<serverVars, commands, misled>>
      /\ \/ /\ InBounds(mirror, m) /\ RowsAgree(m)
            /\ mirror' = Mirrored(mirror, m) /\ shown' = Rows(m)
         \/ ~(InBounds(mirror, m) /\ RowsAgree(m))
  BY <1>2 DEF Receive
<1>4. m = down[1] /\ m \in Messages
  <2>1. 1 \in 1..Len(down)
    BY <1>1, <1>3, EmptySeq, LenProperties
  <2> QED
    BY <1>1, <1>2, <1>3, <2>1, ElementOfSeq
<1>5. PICK r : Replays(mirror, down, r)
  BY DEF IInv, Follows
<1>6. Applies(mirror, m)
  BY <1>1, <1>3, <1>4, <1>5, ReplaysTail
<1>7. InBounds(mirror, m) /\ RowsAgree(m)
  BY <1>1, <1>4, <1>6, RowsFacts DEF Applies
<1>8. up' = IF m.type = "reorder" THEN Append(up, [cmd |-> "list"]) ELSE up
  BY <1>3 DEF Asked
<1>9. up' \in Seq(Commands) /\ (Asking(up') <=> Asking(up) \/ m.type = "reorder")
  <2>1. PICK u : u = up'
    OBVIOUS
  <2>2. CASE m.type = "reorder"
    <3>1. PICK c : c = [cmd |-> "list"]
      OBVIOUS
    <3>2. c \in Commands /\ c.cmd = "list"
      BY <3>1 DEF Commands
    <3>3. u = Append(up, c)
      BY <1>8, <2>1, <2>2, <3>1
    <3>4. u \in Seq(Commands) /\ Len(u) = Len(up) + 1 /\ u[Len(up) + 1] = c
      BY <1>1, <3>2, <3>3, AppendProperties
    <3>5. Len(up) + 1 \in 1..Len(u)
      BY <1>1, <3>4, LenProperties
    <3>6. Asking(u)
      BY <3>2, <3>4, <3>5 DEF Asking
    <3> QED
      BY <2>1, <2>2, <3>4, <3>6
  <2>3. CASE m.type # "reorder"
    BY <1>1, <1>8, <2>3
  <2> QED
    BY <2>2, <2>3
<1> QED
  BY <1>3, <1>4, <1>6, <1>7, <1>8, <1>9 DEF serverVars

LEMMA SeenReceive ==
  ASSUME IInv, Seen, Receive
  PROVE  Seen'
<1> SUFFICES ASSUME ~overtaken' PROVE Arrives(up', down', shown', version', changes')
  BY DEF Seen
<1>1. ~overtaken
  BY DEF Receive, serverVars
<1>2. Arrives(up, down, shown, version, changes)
  BY <1>1 DEF Seen
<1>3. /\ down # <<>> /\ down[1] \in Messages /\ down' = Tail(down) /\ shown' = Rows(down[1])
      /\ version' = down[1].version /\ changes' = changes
      /\ Asking(up') <=> Asking(up) \/ down[1].type = "reorder"
  BY <1>1, ReceiveFacts
<1>4. down \in Seq(Messages) /\ changes \in Nat /\ Types
  BY DEF IInv, Types, Numbers
<1>5. PICK u, x, d : u = up' /\ x = shown' /\ d = down'
  OBVIOUS
<1>6. d = Tail(down) /\ (Asking(u) <=> Asking(up) \/ down[1].type = "reorder")
  BY <1>3, <1>5
<1>7. down[1].type \in {"clear", "reorder"} => x = <<>>
  BY <1>3, <1>4, <1>5, RowsGone
<1>8. Arrives(u, d, x, down[1].version, changes)
  BY <1>2, <1>3, <1>4, <1>6, <1>7, ArrivesTail
<1> QED
  BY <1>3, <1>5, <1>8

-----------------------------------------------------------------------------
\* The messages on their way begin with p moves, and there is no other.
Leads(d, p) == p \in 0..Len(d) /\ \A i \in 1..Len(d) : d[i].type = "move" <=> i <= p

\* The rows x and the list: with no move on its way to the server the rows are the
\* mirror after the moves that come back.  If all that comes is moves of the user,
\* and those on their way meet the list he saw, the rows are the list to be.
Agrees(u, d, x, b, s, g, p) ==
  /\ \A k \in 1..Len(u) : Fresh(u, b, k) => p = Len(d) /\ ~Asking(u)
  /\ (\A i \in 1..Len(u) : u[i].cmd # "move") => x = g[p]
  /\ Good(u, b, Len(u)) /\ ~Asking(u) /\ p = Len(d) => x = s[Len(u)]

Foresees(u, n, l, d, x, g) ==
  \E b, s, p : Leads(d, p) /\ Future(u, n, l, b, s) /\ Fits(u, b, s) /\ Agrees(u, d, x, b, s, g, p)

\* Two ways to replay the same messages are one.
Along(g, s, n) == \A i \in 1..n : g[i] = Mirrored(g[i - 1], s[i])

LEMMA SamePath ==
  ASSUME NEW n \in Nat, NEW g, NEW h, NEW s, Along(g, s, n), Along(h, s, n), g[0] = h[0]
  PROVE  \A i \in 0..n : g[i] = h[i]
<1> DEFINE T == {i \in Nat : i <= n => g[i] = h[i]}
<1>1. 0 \in T
  OBVIOUS
<1>2. ASSUME NEW i \in Nat, i \in T PROVE i + 1 \in T
  <2> SUFFICES ASSUME i + 1 <= n PROVE g[i + 1] = h[i + 1]
    OBVIOUS
  <2>1. PICK k \in 1..n : k = i + 1 /\ k - 1 = i
    OBVIOUS
  <2>2. g[k] = Mirrored(g[k - 1], s[k]) /\ h[k] = Mirrored(h[k - 1], s[k])
    BY DEF Along
  <2>3. g[i] = h[i]
    BY <1>2, <2>1
  <2> QED
    BY <2>1, <2>2, <2>3
<1> HIDE DEF T
<1>3. \A i \in Nat : i \in T
  BY <1>1, <1>2, NatInd
<1> QED
  BY <1>3 DEF T

LEMMA PathAppend ==
  ASSUME NEW b, NEW d \in Seq(Messages), NEW w \in Messages,
         NEW g, ReplayBy(g, b, d), NEW h, ReplayBy(h, b, Append(d, w))
  PROVE  \A i \in 0..Len(d) : h[i] = g[i]
<1>0. PICK e : e = Append(d, w)
  OBVIOUS
<1>1. PICK m \in Nat : m = Len(d)
  BY LenProperties
<1>2. Len(e) = m + 1 /\ \A i \in 1..m : e[i] = d[i]
  BY <1>0, <1>1, AppendProperties
<1>3. g[0] = h[0] /\ \A i \in 1..m : g[i] = Mirrored(g[i - 1], d[i])
  BY <1>1 DEF ReplayBy
<1>4. \A i \in 1..m + 1 : h[i] = Mirrored(h[i - 1], e[i])
  BY <1>0, <1>2 DEF ReplayBy
<1>5. \A i \in 1..m : i \in 1..m + 1
  OBVIOUS
<1>6. Along(g, d, m) /\ Along(h, d, m)
  BY <1>2, <1>3, <1>4, <1>5 DEF Along
<1>7. \A i \in 0..m : g[i] = h[i]
  BY <1>3, <1>6, SamePath
<1> QED
  BY <1>1, <1>7

LEMMA PathTail ==
  ASSUME NEW b, NEW d \in Seq(Messages), d # <<>>,
         NEW g, ReplayBy(g, b, d), NEW h, ReplayBy(h, Mirrored(b, d[1]), Tail(d))
  PROVE  \A i \in 0..Len(Tail(d)) : h[i] = g[i + 1]
<1>0. PICK e : e = Tail(d)
  OBVIOUS
<1>1. PICK m \in Nat : Len(d) = m + 1 /\ Len(e) = m /\ \A i \in 1..m : e[i] = d[i + 1]
  <2>1. /\ Len(d) \in Nat /\ Len(d) >= 1 /\ Len(e) = Len(d) - 1
        /\ \A i \in 1..Len(d) - 1 : e[i] = d[i + 1]
    BY <1>0, EmptySeq, LenProperties, HeadTailProperties
  <2>2. PICK k \in Nat : k = Len(d) /\ k >= 1
    BY ONLY <2>1
  <2>3. PICK m \in Nat : k = m + 1 /\ k - 1 = m
    <3>1. k - 1 \in Nat /\ k = (k - 1) + 1
      BY ONLY <2>2
    <3> QED
      BY ONLY <3>1
  <2> QED
    BY <2>1, <2>2, <2>3
<1>2. g[0] = b /\ \A i \in 1..m + 1 : g[i] = Mirrored(g[i - 1], d[i])
  BY <1>1 DEF ReplayBy
<1>3. h[0] = Mirrored(b, d[1]) /\ \A i \in 1..m : h[i] = Mirrored(h[i - 1], e[i])
  BY <1>0, <1>1 DEF ReplayBy
<1>4. PICK f : f = [i \in 0..m |-> g[i + 1]]
  OBVIOUS
<1>5. \A i \in 0..m : f[i] = g[i + 1]
  BY <1>4
<1>6. f[0] = h[0]
  <2>1. PICK k \in 1..m + 1 : k = 1 /\ k - 1 = 0
    OBVIOUS
  <2>2. g[k] = Mirrored(g[k - 1], d[k])
    BY <1>2
  <2>3. 0 \in 0..m
    OBVIOUS
  <2> QED
    BY <1>2, <1>3, <1>5, <2>1, <2>2, <2>3
<1>7. ASSUME NEW i \in 1..m PROVE f[i] = Mirrored(f[i - 1], e[i])
  <2>1. PICK k \in 1..m + 1 : k = i + 1 /\ k - 1 = i
    OBVIOUS
  <2>2. i \in 0..m /\ i - 1 \in 0..m /\ (i - 1) + 1 = i
    OBVIOUS
  <2>3. g[k] = Mirrored(g[k - 1], d[k])
    BY <1>2
  <2> QED
    BY <1>1, <1>5, <2>1, <2>2, <2>3
<1>8. Along(f, e, m) /\ Along(h, e, m)
  BY <1>3, <1>7 DEF Along
<1>9. \A i \in 0..m : f[i] = h[i]
  BY <1>6, <1>8, SamePath
<1>10. \A i \in 0..Len(e) : h[i] = g[i + 1]
  BY <1>1, <1>5, <1>9
<1> QED
  BY <1>0, <1>10

\* A command arrives that asks for no list and moves nothing.
LEMMA ForeseesTail ==
  ASSUME NEW u \in Seq(Commands), u # <<>>, NEW n \in Nat, NEW l, NEW d, NEW x, NEW g,
         Foresees(u, n, l, d, x, g), u[1].cmd \notin {"list", "move"}, NEW t, t = Tail(u),
         Asking(t) <=> Asking(u)
  PROVE  Foresees(t, n, l, d, x, g)
<1>1. PICK b, s, p : /\ Leads(d, p) /\ Future(u, n, l, b, s) /\ Fits(u, b, s)
                     /\ Agrees(u, d, x, b, s, g, p)
  BY DEF Foresees
<1>2. 1 \in 1..Len(u) /\ Len(u) \in Nat /\ Len(t) = Len(u) - 1
      /\ \A i \in 1..Len(u) - 1 : t[i] = u[i + 1]
  BY EmptySeq, LenProperties, HeadTailProperties
<1>3. Good(u, b, 1)
  BY DEF Good
<1>4. b[1] = n /\ s[1] = l
  <2>1. PICK i \in 1..Len(u) : i = 1 /\ i - 1 = 0
    BY <1>2
  <2>2. b[i] = b[i - 1] /\ s[i] = s[i - 1] /\ b[0] = n /\ s[0] = l
    BY <1>1, <2>1 DEF Future
  <2> QED
    BY <2>1, <2>2
<1>5. PICK b2, s2 :
        /\ Future(Tail(u), b[1], s[1], b2, s2) /\ Fits(Tail(u), b2, s2)
        /\ s2[Len(Tail(u))] = s[Len(u)]
        /\ \A k \in 1..Len(Tail(u)) : Fresh(Tail(u), b2, k) => Fresh(u, b, k + 1)
        /\ Good(Tail(u), b2, Len(Tail(u))) => Good(u, b, Len(u))
  BY <1>1, <1>3, FutureTail
<1>a. Future(t, n, l, b2, s2)
  BY <1>4, <1>5
<1>6. ASSUME \A i \in 1..Len(t) : t[i].cmd # "move" PROVE \A i \in 1..Len(u) : u[i].cmd # "move"
  <2> SUFFICES ASSUME NEW i \in 1..Len(u) PROVE u[i].cmd # "move"
    OBVIOUS
  <2>1. CASE i = 1
    BY <2>1
  <2>2. CASE i # 1
    <3>1. i - 1 \in 1..Len(t) /\ (i - 1) + 1 = i /\ i - 1 \in 1..Len(u) - 1
      BY <1>2, <2>2
    <3> QED
      BY <1>2, <1>6, <3>1
  <2> QED
    BY <2>1, <2>2
<1>7. \A k \in 1..Len(t) : k + 1 \in 1..Len(u)
  BY <1>2
<1>8. Agrees(t, d, x, b2, s2, g, p)
  <2>1. \A k \in 1..Len(t) : Fresh(t, b2, k) => p = Len(d) /\ ~Asking(t)
    BY <1>1, <1>5, <1>7 DEF Agrees
  <2>2. (\A i \in 1..Len(t) : t[i].cmd # "move") => x = g[p]
    BY <1>1, <1>6 DEF Agrees
  <2>3. Good(t, b2, Len(t)) /\ ~Asking(t) /\ p = Len(d) => x = s2[Len(t)]
    BY <1>1, <1>5 DEF Agrees
  <2> QED
    BY <2>1, <2>2, <2>3 DEF Agrees
<1> QED
  BY <1>1, <1>5, <1>a, <1>8 DEF Foresees

\* Another change is made and announced.
LEMMA LeadsAppend ==
  ASSUME NEW d \in Seq(Messages), NEW p, Leads(d, p), NEW w \in Messages, NEW e, e = Append(d, w)
  PROVE  /\ w.type # "move" => Leads(e, p) /\ p # Len(e)
         /\ w.type = "move" /\ p = Len(d) => Leads(e, Len(e))
         /\ p \in 0..Len(d) /\ Len(e) = Len(d) + 1 /\ Len(d) \in Nat
<1>1. PICK m \in Nat : m = Len(d)
  BY LenProperties
<1>2. Len(e) = m + 1 /\ e[m + 1] = w /\ \A i \in 1..m : e[i] = d[i]
  BY <1>1, AppendProperties
<1>3. p \in 0..m /\ \A i \in 1..m : d[i].type = "move" <=> i <= p
  BY <1>1 DEF Leads
<1>4. \A i \in 1..m + 1 : i = m + 1 \/ i \in 1..m
  OBVIOUS
<1>5. ASSUME w.type # "move" PROVE Leads(e, p) /\ p # m + 1
  <2>1. p \in 0..m + 1 /\ p # m + 1 /\ ~(m + 1 <= p)
    BY <1>3
  <2>2. \A i \in 1..m + 1 : e[i].type = "move" <=> i <= p
    BY <1>2, <1>3, <1>4, <1>5, <2>1
  <2> QED
    BY <1>2, <2>1, <2>2 DEF Leads
<1>6. ASSUME w.type = "move", p = m PROVE Leads(e, m + 1)
  <2>1. \A i \in 1..m + 1 : e[i].type = "move" <=> i <= m + 1
    BY <1>2, <1>3, <1>4, <1>6
  <2> QED
    BY <1>2, <2>1 DEF Leads
<1> QED
  BY <1>1, <1>2, <1>3, <1>5, <1>6

LEMMA ForeseesSpoilt ==
  ASSUME NEW u \in Seq(Commands), NEW n \in Nat, NEW l, NEW d \in Seq(Messages), NEW x, NEW g,
         Foresees(u, n, l, d, x, g), NEW l2, NEW w \in Messages, w.type # "move",
         NEW e, e = Append(d, w), NEW h, \A i \in 0..Len(d) : h[i] = g[i]
  PROVE  /\ Foresees(u, n + 1, l2, e, x, h)
         /\ Asking(u) => Foresees(u, n + 1, l2, d, x, h)
<1>1. PICK b, s, p : /\ Leads(d, p) /\ Future(u, n, l, b, s) /\ Fits(u, b, s)
                     /\ Agrees(u, d, x, b, s, g, p)
  BY DEF Foresees
<1>2. PICK b2, s2 : /\ Future(u, n + 1, l2, b2, s2) /\ Fits(u, b2, s2)
                    /\ \A k \in 1..Len(u) : ~Fresh(u, b2, k)
  BY <1>1, FutureSpoilt
<1>3. Leads(e, p) /\ p # Len(e) /\ p \in 0..Len(d)
  BY <1>1, LeadsAppend
<1>4. (\A i \in 1..Len(u) : u[i].cmd # "move") => x = h[p]
  BY <1>1, <1>3 DEF Agrees
<1>5. Agrees(u, e, x, b2, s2, h, p)
  BY <1>2, <1>3, <1>4 DEF Agrees
<1>6. Asking(u) => Agrees(u, d, x, b2, s2, h, p)
  BY <1>2, <1>4 DEF Agrees
<1> QED
  BY <1>1, <1>2, <1>3, <1>5, <1>6 DEF Foresees

LEMMA PathSame ==
  ASSUME NEW b, NEW d \in Seq(Messages), NEW g, ReplayBy(g, b, d), NEW h, ReplayBy(h, b, d)
  PROVE  \A i \in 0..Len(d) : h[i] = g[i]
<1>1. PICK m \in Nat : m = Len(d)
  BY LenProperties
<1>2. Along(g, d, m) /\ Along(h, d, m) /\ g[0] = h[0]
  BY <1>1 DEF Along, ReplayBy
<1>3. \A i \in 0..m : g[i] = h[i]
  BY <1>2, SamePath
<1> QED
  BY <1>1, <1>3

-----------------------------------------------------------------------------
\* The lists that the messages on their way make of the mirror; and what the user
\* saw is foreseen.
Paths(g) == ReplayBy(g, mirror, down) /\ g[Len(down)] = IF Due = 0 THEN server ELSE <<>>
Foreseen == ~overtaken /\ ~misled => \E g : Paths(g) /\ Foresees(up, changes, server, down, shown, g)

LEMMA PathExists ==
  ASSUME IInv, ~overtaken
  PROVE  \E g : Paths(g)
BY DEF IInv, Follows, Replays, Paths

LEMMA ForeseenInit == Init => Foreseen
<1> SUFFICES ASSUME Init PROVE \E g : Paths(g) /\ Foresees(up, changes, server, down, shown, g)
  BY DEF Foreseen
<1>1. IInv
  BY InitInv
<1>2. PICK g : Paths(g)
  BY <1>1, PathExists DEF Init
<1> DEFINE first == [cmd |-> "broadcast"]
           second == [cmd |-> "list"]
<1>3. first \in Commands /\ second \in Commands /\ first.cmd = "broadcast" /\ second.cmd = "list"
  BY DEF Commands
<1>4. up = <<first, second>> /\ down = <<>> /\ changes = 0 /\ mirror = <<>> /\ shown = <<>>
  BY DEF Init
<1> HIDE DEF first, second
<1>5. up \in Seq(Commands) /\ Len(up) = 2 /\ up[1] = first /\ up[2] = second /\ Len(down) = 0
  BY <1>3, <1>4
<1>6. \A i \in 1..2 : i = 1 \/ i = 2
  OBVIOUS
<1>7. \A i \in 1..Len(up) : up[i].cmd # "move" /\ up[i].cmd \notin Aimed
  BY <1>3, <1>5, <1>6 DEF Aimed
<1>8. PICK b, s : b = [i \in 0..2 |-> 0] /\ s = [i \in 0..2 |-> server]
  OBVIOUS
<1>9. b \in [0..2 -> Nat] /\ \A i \in 0..2 : b[i] = 0 /\ s[i] = server
  BY <1>8
<1>10. Count(up, Moves) = 0
  <2>1. \A i \in 1..Len(up) : up[i] \notin Moves
    BY <1>7 DEF Moves
  <2>2. Count(up, Moves) \in Nat /\ ~(Count(up, Moves) >= 1)
    BY <1>5, <2>1, CountFacts
  <2> QED
    BY <2>2
<1>11. \A i \in 1..2 : i - 1 \in 0..2 /\ i \in 0..2
  OBVIOUS
<1>12. Future(up, changes, server, b, s)
  <2>1. 0 \in 0..2 /\ 2 \in 0..2
    OBVIOUS
  <2>2. \A i \in 1..Len(up) : b[i] = b[i - 1] /\ s[i] = s[i - 1]
    BY <1>5, <1>9, <1>11
  <2> QED
    BY <1>4, <1>5, <1>7, <1>9, <1>10, <2>1, <2>2 DEF Future
<1>13. \A k \in 1..Len(up) : ~Fresh(up, b, k)
  BY <1>7 DEF Fresh
<1>14. Leads(down, 0)
  BY <1>4 DEF Leads
<1>15. Asking(up)
  <2>1. 2 \in 1..Len(up)
    BY <1>5
  <2> QED
    BY <1>3, <1>5, <2>1 DEF Asking
<1>16. shown = g[0]
  BY <1>2, <1>4 DEF Paths, ReplayBy
<1>17. Agrees(up, down, shown, b, s, g, 0)
  BY <1>13, <1>15, <1>16 DEF Agrees
<1> QED
  BY <1>2, <1>12, <1>13, <1>14, <1>17 DEF Foresees, Fits

\* A command of the client that moves nothing has arrived.
LEMMA CommandForesees ==
  ASSUME IInv, NEW n \in Nat, NEW l, NEW d, NEW x, NEW g, Foresees(up, n, l, d, x, g),
         Command, Head(up).cmd \notin {"list", "move"}
  PROVE  Foresees(up', n, l, d, x, g)
<1>1. /\ up[1] = Head(up) /\ up' \in Seq(Commands) /\ Count(up', Lists) \in Nat
      /\ Count(up, Lists) = Count(up', Lists) + (IF up[1].cmd = "list" THEN 1 ELSE 0)
  BY CommandFacts
<1>2. up # <<>> /\ up \in Seq(Commands) /\ up' = Tail(up)
  BY DEF IInv, Types, Command
<1>3. PICK t \in Seq(Commands) : t = up' /\ t = Tail(up)
  BY <1>1, <1>2
<1>4. Count(t, Lists) = Count(up, Lists)
  BY <1>1, <1>3
<1>5. Asking(t) <=> Asking(up)
  BY <1>2, <1>4, AskingCount
<1>6. up[1].cmd \notin {"list", "move"}
  BY <1>1
<1>7. Foresees(t, n, l, d, x, g)
  BY <1>2, <1>3, <1>5, <1>6, ForeseesTail
<1> QED
  BY <1>3, <1>7

LEMMA ForeseenTail ==
  ASSUME IInv, Foreseen, Command, Head(up).cmd \notin {"list", "move"},
         UNCHANGED <<server, changes, overtaken, misled, down>>
  PROVE  Foreseen'
<1> SUFFICES ASSUME ~overtaken', ~misled'
             PROVE  \E g : Paths(g)' /\ Foresees(up', changes', server', down', shown', g)
  BY DEF Foreseen
<1>1. PICK g : Paths(g) /\ Foresees(up, changes, server, down, shown, g)
  BY DEF Foreseen
<1>2. mirror' = mirror /\ shown' = shown
  BY CommandFacts DEF viewVars
<1>3. Due' = Due
  <2>1. Count(up', Lists) \in Nat /\ Count(up, Lists) = Count(up', Lists) + 0
    BY CommandFacts
  <2>2. Count(up', Lists) = Count(up, Lists)
    BY <2>1
  <2> QED
    BY <2>2 DEF Due
<1>4. Paths(g)'
  BY <1>1, <1>2, <1>3 DEF Paths
<1>5. changes \in Nat
  BY DEF IInv, Numbers
<1>6. Foresees(up', changes, server, down, shown, g)
  BY <1>1, <1>5, CommandForesees
<1> QED
  BY <1>2, <1>4, <1>6

\* The list is changed by another change than the user's moves.
LEMMA ForeseenChange ==
  ASSUME IInv, IInv', Foreseen, NEW m \in Changes(server), Change(m), m.type # "move",
         UNCHANGED <<subscribed, viewVars, misled>>,
         up' = up \/ (Command /\ Head(up).cmd \notin {"broadcast", "list", "move"})
  PROVE  Foreseen'
<1> SUFFICES ASSUME ~overtaken', ~misled'
             PROVE  \E g : Paths(g)' /\ Foresees(up', changes', server', down', shown', g)
  BY DEF Foreseen
<1>1. /\ server \in Seq(Songs) /\ Len(server) <= MaxLen
      /\ up \in Seq(Commands) /\ down \in Seq(Messages) /\ changes \in Nat
  BY DEF IInv, Types, Numbers
<1>2. ~overtaken /\ ~misled /\ mirror' = mirror /\ shown' = shown
  BY DEF Change, viewVars
<1>3. PICK g : Paths(g) /\ Foresees(up, changes, server, down, shown, g)
  BY <1>2 DEF Foreseen
<1>4. PICK n \in Nat : n = changes' /\ n = changes + 1
  BY <1>1 DEF Change
<1>5. PICK w : w = Numbered(m, n)
  OBVIOUS
<1>6. w \in Messages /\ w.type = m.type
  BY <1>1, <1>4, <1>5, ChangeFacts DEF Announces
<1>7. PICK d : d = down' /\ d = IF subscribed THEN Append(down, w) ELSE down
  BY <1>4, <1>5 DEF Change
<1>8. PICK u \in Seq(Commands) : u = up' /\ Foresees(u, changes, server, down, shown, g)
  <2>1. CASE up' = up
    BY <1>1, <1>3, <2>1
  <2>2. CASE Command /\ Head(up).cmd \notin {"broadcast", "list", "move"}
    <3>1. up' \in Seq(Commands)
      BY <2>2, CommandFacts
    <3>2. Foresees(up', changes, server, down, shown, g)
      BY <1>1, <1>3, <2>2, CommandForesees
    <3> QED
      BY <3>1, <3>2
  <2> QED
    BY <2>1, <2>2
<1>9. PICK h : Paths(h)'
  <2>1. \E h : ReplayBy(h, mirror', down') /\ h[Len(down')] = IF Due' = 0 THEN server' ELSE <<>>
    BY DEF IInv, Follows, Replays
  <2> QED
    BY <2>1 DEF Paths
<1>10. ReplayBy(g, mirror, down) /\ ReplayBy(h, mirror, d)
  BY <1>2, <1>3, <1>7, <1>9 DEF Paths
<1>11. PICK l : l = server'
  OBVIOUS
<1>12. PICK e : e = Append(down, w)
  OBVIOUS
<1>13. CASE subscribed
  <2>1. d = e
    BY <1>7, <1>12, <1>13
  <2>a. ReplayBy(g, mirror, down) /\ ReplayBy(h, mirror, Append(down, w))
    BY <1>10, <1>12, <2>1
  <2>2. \A i \in 0..Len(down) : h[i] = g[i]
    BY ONLY <1>1, <1>6, <2>a, PathAppend
  <2>9. w.type # "move"
    BY <1>6
  <2>3. Foresees(u, changes + 1, l, e, shown, h)
    BY ONLY <1>1, <1>6, <1>8, <1>12, <2>2, <2>9, ForeseesSpoilt
  <2> QED
    BY <1>2, <1>4, <1>7, <1>8, <1>9, <1>11, <2>1, <2>3
<1>14. CASE ~subscribed
  <2>1. u = up
    BY <1>8, <1>14, CommandFacts
  <2>2. Asking(u)
    <3>1. Len(up) >= 2 /\ up[2].cmd = "list" /\ Len(up) \in Nat
      BY <1>1, <1>14, LenProperties DEF IInv, Waits
    <3>2. 2 \in 1..Len(up)
      BY <3>1
    <3> QED
      BY <2>1, <3>1, <3>2 DEF Asking
  <2>3. d = down
    BY <1>7, <1>14
  <2>4. \A i \in 0..Len(down) : h[i] = g[i]
    BY <1>1, <1>10, <2>3, PathSame
  <2>5. Foresees(u, changes + 1, l, down, shown, h)
    BY <1>1, <1>6, <1>8, <1>12, <2>2, <2>4, ForeseesSpoilt
  <2> QED
    BY <1>2, <1>4, <1>7, <1>8, <1>9, <1>11, <2>3, <2>5
<1> QED
  BY <1>13, <1>14

-----------------------------------------------------------------------------
\* The entries are sent: no command met the list while they were asked for.
LEMMA TailFacts ==
  ASSUME NEW u \in Seq(Commands), u # <<>>
  PROVE  /\ Len(u) \in Nat /\ Len(Tail(u)) = Len(u) - 1 /\ Len(u) >= 1 /\ Tail(u) \in Seq(Commands)
         /\ \A k \in 1..Len(Tail(u)) : k + 1 \in 1..Len(u) /\ Tail(u)[k] = u[k + 1]
         /\ \A i \in 2..Len(u) : i - 1 \in 1..Len(Tail(u)) /\ Tail(u)[i - 1] = u[i]
         /\ Asking(u) <=> u[1].cmd = "list" \/ Asking(Tail(u))
<1>0. PICK t : t = Tail(u)
  OBVIOUS
<1>1. /\ Len(u) \in Nat /\ Len(t) = Len(u) - 1 /\ Len(u) >= 1 /\ t \in Seq(Commands)
      /\ \A i \in 1..Len(u) - 1 : t[i] = u[i + 1]
  BY <1>0, EmptySeq, LenProperties, HeadTailProperties
<1>2. \A k \in 1..Len(t) : k + 1 \in 1..Len(u) /\ t[k] = u[k + 1]
  BY <1>1
<1>3. ASSUME NEW i \in 2..Len(u) PROVE i - 1 \in 1..Len(t) /\ t[i - 1] = u[i]
  <2>1. i - 1 \in 1..Len(t) /\ (i - 1) + 1 = i
    BY <1>1
  <2> QED
    BY <1>2, <2>1
<1>4. Asking(u) <=> u[1].cmd = "list" \/ Asking(t)
  <2>1. ASSUME Asking(u) PROVE u[1].cmd = "list" \/ Asking(t)
    <3>1. PICK i \in 1..Len(u) : u[i].cmd = "list"
      BY <2>1 DEF Asking
    <3>2. CASE i = 1
      BY <3>1, <3>2
    <3>3. CASE i # 1
      <4>1. i \in 2..Len(u)
        BY <3>3
      <4> QED
        BY <1>3, <3>1, <4>1 DEF Asking
    <3> QED
      BY <3>2, <3>3
  <2>2. ASSUME Asking(t) PROVE Asking(u)
    <3>1. PICK k \in 1..Len(t) : t[k].cmd = "list"
      BY <2>2 DEF Asking
    <3> QED
      BY <1>2, <3>1 DEF Asking
  <2>3. ASSUME u[1].cmd = "list" PROVE Asking(u)
    <3>1. 1 \in 1..Len(u)
      BY <1>1
    <3> QED
      BY <2>3, <3>1 DEF Asking
  <2> QED
    BY <2>1, <2>2, <2>3
<1>5. \A i \in 2..Len(u) : i - 1 \in 1..Len(t) /\ t[i - 1] = u[i]
  BY <1>3
<1> QED
  BY <1>0, <1>1, <1>2, <1>4, <1>5

LEMMA ForeseesEntries ==
  ASSUME NEW u \in Seq(Commands), u # <<>>, u[1].cmd = "list", NEW n \in Nat, NEW l,
         NEW d \in Seq(Messages), NEW x, NEW g, Foresees(u, n, l, d, x, g),
         NEW w \in Messages, w.type # "move",
         NEW h, \A i \in 0..Len(d) : h[i] = g[i]
  PROVE  Foresees(Tail(u), n, l, Append(d, w), x, h)
<1>1. PICK b, s, p : /\ Leads(d, p) /\ Future(u, n, l, b, s) /\ Fits(u, b, s)
                     /\ Agrees(u, d, x, b, s, g, p)
  BY DEF Foresees
<1>2. PICK e : e = Append(d, w)
  OBVIOUS
<1>3. Leads(e, p) /\ p # Len(e) /\ p \in 0..Len(d)
  BY <1>1, <1>2, LeadsAppend
<1>4. Good(u, b, 1)
  BY DEF Good
<1>5. Asking(u) /\ \A k \in 1..Len(Tail(u)) : k + 1 \in 1..Len(u) /\ Tail(u)[k] = u[k + 1]
  BY TailFacts
<1>6. b[1] = n /\ s[1] = l
  <2>1. PICK i \in 1..Len(u) : i = 1 /\ i - 1 = 0
    BY TailFacts
  <2>2. b[i] = b[i - 1] /\ s[i] = s[i - 1] /\ b[0] = n /\ s[0] = l
    BY <1>1, <2>1 DEF Future
  <2> QED
    BY <2>1, <2>2
<1>7. PICK b2, s2 :
        /\ Future(Tail(u), b[1], s[1], b2, s2) /\ Fits(Tail(u), b2, s2)
        /\ s2[Len(Tail(u))] = s[Len(u)]
        /\ \A k \in 1..Len(Tail(u)) : Fresh(Tail(u), b2, k) => Fresh(u, b, k + 1)
        /\ Good(Tail(u), b2, Len(Tail(u))) => Good(u, b, Len(u))
  BY <1>1, <1>4, FutureTail
<1>8. PICK t : t = Tail(u)
  OBVIOUS
<1>9. \A k \in 1..Len(t) : ~Fresh(t, b2, k)
  BY <1>1, <1>5, <1>7, <1>8 DEF Agrees
<1>10. (\A i \in 1..Len(t) : t[i].cmd # "move") => x = h[p]
  <2> SUFFICES ASSUME \A i \in 1..Len(t) : t[i].cmd # "move" PROVE x = h[p]
    OBVIOUS
  <2>1. ASSUME NEW i \in 1..Len(u) PROVE u[i].cmd # "move"
    <3>1. CASE i = 1
      BY <3>1
    <3>2. CASE i # 1
      <4>1. i \in 2..Len(u)
        BY <3>2
      <4>2. i - 1 \in 1..Len(t) /\ t[i - 1] = u[i]
        BY <1>8, <4>1, TailFacts
      <4> QED
        BY <4>2
    <3> QED
      BY <3>1, <3>2
  <2> QED
    BY <1>1, <1>3, <2>1 DEF Agrees
<1>11. Agrees(t, e, x, b2, s2, h, p)
  BY <1>3, <1>9, <1>10 DEF Agrees
<1>12. Future(t, n, l, b2, s2) /\ Fits(t, b2, s2)
  BY <1>6, <1>7, <1>8
<1>13. Foresees(t, n, l, e, x, h)
  BY <1>3, <1>11, <1>12 DEF Foresees
<1> QED
  BY <1>2, <1>8, <1>13

\* A move arrives that meets the list the user saw: it is in the range of the list,
\* and nothing else is on its way but moves.
LEMMA MoveMeets ==
  ASSUME NEW u \in Seq(Commands), u # <<>>, u[1].cmd \in Aimed, NEW n \in Nat, NEW l, u[1].since = n,
         NEW d, NEW x, NEW g, Foresees(u, n, l, d, x, g)
  PROVE  Meets(u[1], l) /\ ~Asking(u) /\ Leads(d, Len(d))
<1>1. PICK b, s, p : /\ Leads(d, p) /\ Future(u, n, l, b, s) /\ Fits(u, b, s)
                     /\ Agrees(u, d, x, b, s, g, p)
  BY DEF Foresees
<1>2. PICK k \in 1..Len(u) : k = 1 /\ k - 1 = 0
  BY TailFacts
<1>3. b[0] = n /\ s[0] = l
  BY <1>1 DEF Future
<1>4. Good(u, b, 0)
  BY DEF Good
<1>5. Fresh(u, b, k)
  BY <1>2, <1>3, <1>4 DEF Fresh
<1>6. Meets(u[k], s[k - 1])
  BY <1>1, <1>5 DEF Fits
<1>7. p = Len(d) /\ ~Asking(u)
  BY <1>1, <1>5 DEF Agrees
<1> QED
  BY <1>1, <1>2, <1>3, <1>6, <1>7

LEMMA ForeseesMove ==
  ASSUME NEW u \in Seq(Commands), u # <<>>, u[1].cmd = "move", NEW n \in Nat, NEW l, u[1].since = n,
         NEW d \in Seq(Messages), NEW x, NEW g, Foresees(u, n, l, d, x, g),
         NEW w \in Messages, w.type = "move",
         NEW h, h[Len(d) + 1] = Moved(l, u[1].pos, u[1].new)
  PROVE  Foresees(Tail(u), n + 1, Moved(l, u[1].pos, u[1].new), Append(d, w), x, h)
<1>1. PICK b, s, p : /\ Leads(d, p) /\ Future(u, n, l, b, s) /\ Fits(u, b, s)
                     /\ Agrees(u, d, x, b, s, g, p)
  BY DEF Foresees
<1>2. PICK k \in 1..Len(u) : k = 1 /\ k - 1 = 0
  BY TailFacts
<1>3. b[0] = n /\ s[0] = l
  BY <1>1 DEF Future
<1>4. "move" \in Aimed
  BY DEF Aimed
<1>5. Fresh(u, b, k) /\ Good(u, b, 1)
  <2>1. Good(u, b, 0)
    BY DEF Good
  <2>2. \A j \in 1..1 : j = 1 /\ j - 1 = 0
    OBVIOUS
  <2>3. Good(u, b, 1)
    BY <1>3, <2>2 DEF Good
  <2> QED
    BY <1>2, <1>3, <1>4, <2>1, <2>3 DEF Fresh
<1>6. p = Len(d) /\ ~Asking(u)
  BY <1>1, <1>5 DEF Agrees
<1>7. PICK e : e = Append(d, w)
  OBVIOUS
<1>8. Leads(e, Len(e)) /\ Len(e) = Len(d) + 1
  BY <1>1, <1>6, <1>7, LeadsAppend
<1>9. PICK l2 : l2 = Moved(l, u[1].pos, u[1].new)
  OBVIOUS
<1>10. b[1] = n + 1 /\ s[1] = l2
  <2>1. /\ u[k].cmd = "move" => b[k] = b[k - 1] + 1
        /\ u[k].cmd = "move" /\ u[k].since = b[k - 1] => s[k] = Moved(s[k - 1], u[k].pos, u[k].new)
    BY <1>1 DEF Future
  <2> QED
    BY <1>2, <1>3, <1>9, <2>1
<1>11. PICK b2, s2 :
        /\ Future(Tail(u), b[1], s[1], b2, s2) /\ Fits(Tail(u), b2, s2)
        /\ s2[Len(Tail(u))] = s[Len(u)]
        /\ \A k1 \in 1..Len(Tail(u)) : Fresh(Tail(u), b2, k1) => Fresh(u, b, k1 + 1)
        /\ Good(Tail(u), b2, Len(Tail(u))) => Good(u, b, Len(u))
  BY <1>1, <1>5, FutureTail
<1>12. PICK t \in Seq(Commands) : t = Tail(u)
  BY TailFacts
<1>13. Future(t, n + 1, l2, b2, s2) /\ Fits(t, b2, s2) /\ s2[Len(t)] = s[Len(u)]
  BY <1>10, <1>11, <1>12
<1>14. ~Asking(t)
  BY <1>6, <1>12, TailFacts
<1>15. ASSUME \A i \in 1..Len(t) : t[i].cmd # "move" PROVE x = h[Len(e)]
  <2>1. ASSUME NEW i \in 1..Len(u), u[i].cmd = "move" PROVE u[i].since = b[i - 1]
    <3>1. CASE i = 1
      <4>1. i - 1 = 0
        BY <3>1
      <4> QED
        BY <1>3, <3>1, <4>1
    <3>2. CASE i # 1
      <4>1. i \in 2..Len(u)
        BY <3>2
      <4>2. i - 1 \in 1..Len(t) /\ t[i - 1] = u[i]
        BY <1>12, <4>1, TailFacts
      <4> QED
        BY <1>15, <2>1, <4>2
    <3> QED
      BY <3>1, <3>2
  <2>2. Good(u, b, Len(u))
    BY <2>1 DEF Good
  <2>3. x = s[Len(u)]
    BY <1>1, <1>6, <2>2 DEF Agrees
  <2>4. s2[Len(t)] = l2
    BY <1>13, <1>15, FutureStays
  <2> QED
    BY <1>8, <1>9, <1>13, <2>3, <2>4
<1>16. Good(t, b2, Len(t)) => x = s2[Len(t)]
  BY <1>1, <1>6, <1>11, <1>12, <1>13 DEF Agrees
<1>17. Agrees(t, e, x, b2, s2, h, Len(e))
  BY <1>14, <1>15, <1>16 DEF Agrees
<1>18. Foresees(t, n + 1, l2, e, x, h)
  BY <1>8, <1>13, <1>17 DEF Foresees
<1> QED
  BY <1>7, <1>9, <1>12, <1>18

\* A message arrives at the view: a move of the user that comes back, or another one.
LEMMA ForeseesEcho ==
  ASSUME NEW u, NEW n, NEW l, NEW d \in Seq(Messages), d # <<>>, d[1].type = "move", NEW x, NEW g,
         Foresees(u, n, l, d, x, g), NEW h, \A i \in 0..Len(Tail(d)) : h[i] = g[i + 1]
  PROVE  Foresees(u, n, l, Tail(d), x, h)
<1>1. PICK b, s, p : /\ Leads(d, p) /\ Future(u, n, l, b, s) /\ Fits(u, b, s)
                     /\ Agrees(u, d, x, b, s, g, p)
  BY DEF Foresees
<1>2. PICK e : e = Tail(d)
  OBVIOUS
<1>3. PICK m \in Nat : Len(d) = m + 1 /\ Len(e) = m /\ \A i \in 1..m : e[i] = d[i + 1]
  <2>1. /\ Len(d) \in Nat /\ Len(d) >= 1 /\ Len(e) = Len(d) - 1
        /\ \A i \in 1..Len(d) - 1 : e[i] = d[i + 1]
    BY <1>2, EmptySeq, LenProperties, HeadTailProperties
  <2>2. PICK k \in Nat : k = Len(d) /\ k >= 1
    BY ONLY <2>1
  <2>3. PICK m \in Nat : k = m + 1 /\ k - 1 = m
    <3>1. k - 1 \in Nat /\ k = (k - 1) + 1
      BY ONLY <2>2
    <3> QED
      BY ONLY <3>1
  <2> QED
    BY <2>1, <2>2, <2>3
<1>4. p \in 0..m + 1 /\ \A i \in 1..m + 1 : d[i].type = "move" <=> i <= p
  BY <1>1, <1>3 DEF Leads
<1>5. PICK q \in 0..m : q + 1 = p
  <2>1. 1 \in 1..m + 1
    OBVIOUS
  <2>2. 1 <= p
    BY <1>4, <2>1
  <2>3. p - 1 \in 0..m /\ (p - 1) + 1 = p
    BY <1>4, <2>2
  <2> QED
    BY <2>3
<1>6. ASSUME NEW i \in 1..m PROVE e[i].type = "move" <=> i <= q
  <2>1. PICK j \in 1..m + 1 : j = i + 1
    OBVIOUS
  <2>2. j <= p <=> i <= q
    BY <1>5, <2>1
  <2> QED
    BY <1>3, <1>4, <2>1, <2>2
<1>7. Leads(e, q) /\ h[q] = g[p] /\ (q = Len(e) <=> p = Len(d))
  BY <1>2, <1>3, <1>5, <1>6 DEF Leads
<1>8. Agrees(u, e, x, b, s, h, q)
  BY <1>1, <1>7 DEF Agrees
<1>9. Foresees(u, n, l, e, x, h)
  BY <1>1, <1>7, <1>8 DEF Foresees
<1> QED
  BY <1>2, <1>9

LEMMA ForeseesMessage ==
  ASSUME NEW u \in Seq(Commands), NEW n \in Nat, NEW l, NEW d \in Seq(Messages), d # <<>>,
         d[1].type # "move", NEW x, NEW g, Foresees(u, n, l, d, x, g), NEW h, NEW x2, NEW c \in Commands,
         c.cmd = "list", NEW u2, u2 = IF d[1].type = "reorder" THEN Append(u, c) ELSE u,
         x = g[0] => x2 = h[0], ~Asking(u2) /\ Len(Tail(d)) = 0 => h[0] = l,
         Asking(u2) <=> Asking(u) \/ d[1].type = "reorder"
  PROVE  Foresees(u2, n, l, Tail(d), x2, h)
<1>1. PICK b, s, p : /\ Leads(d, p) /\ Future(u, n, l, b, s) /\ Fits(u, b, s)
                     /\ Agrees(u, d, x, b, s, g, p)
  BY DEF Foresees
<1>2. PICK e : e = Tail(d)
  OBVIOUS
<1>3. /\ Len(d) \in Nat /\ Len(d) >= 1 /\ Len(e) = Len(d) - 1
      /\ \A i \in 1..Len(d) - 1 : e[i] = d[i + 1]
  BY <1>2, EmptySeq, LenProperties, HeadTailProperties
<1>4. p = 0 /\ \A i \in 1..Len(d) : d[i].type # "move"
  <2>1. p \in 0..Len(d) /\ \A i \in 1..Len(d) : d[i].type = "move" <=> i <= p
    BY <1>1 DEF Leads
  <2>2. 1 \in 1..Len(d)
    BY <1>3
  <2>3. ~(1 <= p)
    BY <2>1, <2>2
  <2>4. p = 0
    BY <1>3, <2>1, <2>3
  <2> QED
    BY <2>1, <2>4
<1>5. Leads(e, 0)
  <2>1. \A i \in 1..Len(e) : e[i].type # "move" /\ ~(i <= 0)
    BY <1>3, <1>4
  <2> QED
    BY <1>3, <2>1 DEF Leads
<1>6. \A k \in 1..Len(u) : ~Fresh(u, b, k)
  BY <1>1, <1>3, <1>4 DEF Agrees
<1>7. Len(u) \in Nat
  BY LenProperties
<1>8. Good(u, b, Len(u)) => \A i \in 1..Len(u) : u[i].cmd # "move"
  BY <1>6, <1>7, GoodIsFresh
<1>9. (\A i \in 1..Len(u) : u[i].cmd # "move") => x2 = h[0]
  BY <1>1, <1>4 DEF Agrees
<1>10. CASE d[1].type = "reorder"
  <2>1. u2 = Append(u, c) /\ Asking(u2)
    BY <1>10
  <2>2. c.cmd \notin Aimed
    BY DEF Aimed
  <2>3. PICK b2, s2 :
       /\ Future(Append(u, c), n, l, b2, s2) /\ Fits(Append(u, c), b2, s2)
       /\ s2[Len(Append(u, c))] = IF c.cmd = "move" THEN Moved(s[Len(u)], c.pos, c.new) ELSE s[Len(u)]
       /\ \A k \in 1..Len(Append(u, c)) : Fresh(Append(u, c), b2, k) =>
            \/ k \in 1..Len(u) /\ Fresh(u, b, k)
            \/ c.cmd \in Aimed /\ c.since = b[Len(u)] /\ Good(u, b, Len(u))
       /\ Good(Append(u, c), b2, Len(Append(u, c))) =>
            Good(u, b, Len(u)) /\ (c.cmd = "move" => c.since = b[Len(u)])
    BY <1>1, <2>2, FutureAppend
  <2>4. \A k \in 1..Len(u2) : ~Fresh(u2, b2, k)
    BY <1>6, <2>1, <2>2, <2>3
  <2>5. (\A i \in 1..Len(u2) : u2[i].cmd # "move") => x2 = h[0]
    <3>1. \A i \in 1..Len(u) : i \in 1..Len(u2) /\ u2[i] = u[i]
      BY <1>7, <2>1, AppendProperties
    <3> QED
      BY <1>9, <3>1
  <2>6. Agrees(u2, e, x2, b2, s2, h, 0)
    BY <2>1, <2>4, <2>5 DEF Agrees
  <2>7. Foresees(u2, n, l, e, x2, h)
    BY <1>5, <2>1, <2>3, <2>6 DEF Foresees
  <2> QED
    BY <1>2, <2>7
<1>11. CASE d[1].type # "reorder"
  <2>1. u2 = u
    BY <1>11
  <2>2. Good(u, b, Len(u)) /\ ~Asking(u) /\ 0 = Len(e) => x2 = s[Len(u)]
    <3> SUFFICES ASSUME Good(u, b, Len(u)), ~Asking(u), Len(e) = 0 PROVE x2 = s[Len(u)]
      OBVIOUS
    <3>1. \A i \in 1..Len(u) : u[i].cmd # "move"
      BY <1>8
    <3>2. s[Len(u)] = l
      BY <1>1, <3>1, FutureStays
    <3>3. x2 = h[0] /\ h[0] = l
      BY <1>2, <1>9, <2>1, <3>1
    <3> QED
      BY <3>2, <3>3
  <2>3. Agrees(u, e, x2, b, s, h, 0)
    BY <1>6, <1>9, <2>2 DEF Agrees
  <2>4. Foresees(u2, n, l, e, x2, h)
    BY <1>1, <1>5, <2>1, <2>3 DEF Foresees
  <2> QED
    BY <1>2, <2>4
<1> QED
  BY <1>10, <1>11

\* The user sends a command.
Echoes == {m \in Messages : m.type = "move"}

LEMMA LeadsCount ==
  ASSUME NEW d \in Seq(Messages), NEW p, Leads(d, p)
  PROVE  Count(d, Echoes) = p
<1>1. Len(d) \in Nat /\ p \in 0..Len(d) /\ \A i \in 1..Len(d) : d[i].type = "move" <=> i <= p
  BY LenProperties DEF Leads
<1>2. \A i \in 1..Len(d) : d[i] \in Echoes <=> i <= p
  BY <1>1, ElementOfSeq DEF Echoes
<1>3. Hits(d, Echoes) = {i \in 1..Len(d) : d[i] \in Echoes}
  BY CountFacts
<1>4. Hits(d, Echoes) = 1..p
  BY <1>1, <1>2, <1>3
<1>5. Cardinality(1..p) = p
  BY <1>1, FS_Interval
<1> QED
  BY <1>4, <1>5 DEF Count

LEMMA ForeseesSend ==
  ASSUME NEW u \in Seq(Commands), NEW n \in Nat, NEW l, NEW d \in Seq(Messages), NEW x, NEW g,
         Foresees(u, n, l, d, x, g), NEW v \in Nat, Arrives(u, d, x, v, n),
         NEW c \in Commands, c.cmd # "list",
         c.cmd \in Aimed => /\ x # <<>> /\ Meets(c, x)
                            /\ c.since = v + Count(u, Moves) + Count(d, Echoes),
         NEW x2, x2 = IF c.cmd = "move" THEN Moved(x, c.pos, c.new) ELSE x,
         NEW t, t = Append(u, c)
  PROVE  Foresees(t, n, l, d, x2, g)
<1>1. PICK b, s, p : /\ Leads(d, p) /\ Future(u, n, l, b, s) /\ Fits(u, b, s)
                     /\ Agrees(u, d, x, b, s, g, p)
  BY DEF Foresees
<1>2. /\ Len(u) \in Nat /\ Len(d) \in Nat /\ p \in 0..Len(d)
      /\ Count(u, Moves) \in Nat /\ Count(d, Echoes) = p
  BY <1>1, LenProperties, CountFacts, LeadsCount DEF Leads
<1>3. b[Len(u)] = n + Count(u, Moves)
  BY <1>1 DEF Future
<1>4. ASSUME c.cmd \in Aimed
      PROVE  c.since <= b[Len(u)] /\ (c.since = b[Len(u)] => p = Len(d)) /\ ~Asking(u)
  <2>1. ~Asking(u) /\ \A j \in 1..Len(d) : d[j].type # "entries"
    BY <1>4 DEF Arrives
  <2>2. PICK k \in 0..Len(d) : k = 0
    BY <1>2
  <2>3. \A j \in k + 1..Len(d) : d[j].type # "entries"
    BY <2>1, <2>2
  <2>4. Number(d, v, k) + Len(d) = n + k
    BY <2>1, <2>3 DEF Arrives
  <2>5. v + Len(d) = n
    BY <2>2, <2>4 DEF Number
  <2>6. c.since = v + Count(u, Moves) + p
    BY <1>2, <1>4
  <2> QED
    BY <1>2, <1>3, <2>1, <2>5, <2>6
<1>5. c.cmd \in Aimed /\ c.since = b[Len(u)] /\ Good(u, b, Len(u)) => Meets(c, s[Len(u)])
  <2> SUFFICES ASSUME c.cmd \in Aimed, c.since = b[Len(u)], Good(u, b, Len(u)) PROVE Meets(c, s[Len(u)])
    OBVIOUS
  <2>1. x = s[Len(u)]
    BY <1>1, <1>4 DEF Agrees
  <2> QED
    BY <2>1
<1>6. c.cmd \in Aimed => c.since <= b[Len(u)]
  BY <1>4
<1>7. PICK b2, s2 :
     /\ Future(Append(u, c), n, l, b2, s2) /\ Fits(Append(u, c), b2, s2)
     /\ s2[Len(Append(u, c))] = IF c.cmd = "move" THEN Moved(s[Len(u)], c.pos, c.new) ELSE s[Len(u)]
     /\ \A k \in 1..Len(Append(u, c)) : Fresh(Append(u, c), b2, k) =>
          \/ k \in 1..Len(u) /\ Fresh(u, b, k)
          \/ c.cmd \in Aimed /\ c.since = b[Len(u)] /\ Good(u, b, Len(u))
     /\ Good(Append(u, c), b2, Len(Append(u, c))) =>
          Good(u, b, Len(u)) /\ (c.cmd = "move" => c.since = b[Len(u)])
  BY <1>1, <1>5, <1>6, FutureAppend
<1>8. /\ Len(t) = Len(u) + 1 /\ t[Len(u) + 1] = c /\ Len(u) + 1 \in 1..Len(t)
      /\ \A i \in 1..Len(u) : i \in 1..Len(t) /\ t[i] = u[i]
  BY <1>2, AppendProperties
<1>9. ~Asking(u) <=> ~Asking(t)
  <2>1. \A i \in 1..Len(t) : i \in 1..Len(u) \/ i = Len(u) + 1
    BY <1>2, <1>8
  <2> QED
    BY <1>8, <2>1 DEF Asking
<1>10. \A k \in 1..Len(t) : Fresh(t, b2, k) => p = Len(d) /\ ~Asking(t)
  BY <1>1, <1>4, <1>7, <1>9 DEF Agrees
<1>11. (\A i \in 1..Len(t) : t[i].cmd # "move") => x2 = g[p]
  BY <1>1, <1>8 DEF Agrees
<1>12. ASSUME Good(t, b2, Len(t)), ~Asking(t), p = Len(d) PROVE x2 = s2[Len(t)]
  <2>1. x = s[Len(u)]
    BY <1>1, <1>7, <1>9, <1>12 DEF Agrees
  <2> QED
    BY <1>7, <2>1
<1>13. Agrees(t, d, x2, b2, s2, g, p)
  BY <1>10, <1>11, <1>12 DEF Agrees
<1> QED
  BY <1>1, <1>7, <1>13 DEF Foresees

-----------------------------------------------------------------------------
\* The steps.
LEMMA ForeseenList ==
  ASSUME IInv, IInv', Foreseen, ServerList
  PROVE  Foreseen'
<1> SUFFICES ASSUME ~overtaken', ~misled'
             PROVE  \E g : Paths(g)' /\ Foresees(up', changes', server', down', shown', g)
  BY DEF Foreseen
<1>1. /\ Command /\ up[1].cmd = "list" /\ UNCHANGED <<serverVars, misled>>
      /\ down' = Append(down, [type |-> "entries", list |-> server, version |-> changes])
  BY CommandFacts DEF ServerList
<1>2. /\ server \in Seq(Songs) /\ down \in Seq(Messages) /\ changes \in Nat
      /\ up \in Seq(Commands) /\ up # <<>> /\ up' = Tail(up)
  BY <1>1 DEF IInv, Types, Numbers, Command
<1>3. PICK w : w = [type |-> "entries", list |-> server, version |-> changes]
  OBVIOUS
<1>4. w \in Messages /\ w.type # "move"
  BY <1>2, <1>3 DEF Messages
<1>5. /\ ~overtaken /\ ~misled /\ changes' = changes /\ server' = server
      /\ mirror' = mirror /\ shown' = shown /\ down' = Append(down, w)
  BY <1>1, <1>3, CommandFacts DEF serverVars, viewVars
<1>6. PICK g : Paths(g) /\ Foresees(up, changes, server, down, shown, g)
  BY <1>5 DEF Foreseen
<1>7. PICK h : Paths(h)'
  <2>1. \E h : ReplayBy(h, mirror', down') /\ h[Len(down')] = IF Due' = 0 THEN server' ELSE <<>>
    BY DEF IInv, Follows, Replays
  <2> QED
    BY <2>1 DEF Paths
<1>8. ReplayBy(g, mirror, down) /\ ReplayBy(h, mirror, Append(down, w))
  BY <1>5, <1>6, <1>7 DEF Paths
<1>9. \A i \in 0..Len(down) : h[i] = g[i]
  BY ONLY <1>2, <1>4, <1>8, PathAppend
<1>10. Foresees(Tail(up), changes, server, Append(down, w), shown, h)
  BY ONLY <1>1, <1>2, <1>4, <1>6, <1>9, ForeseesEntries
<1> QED
  BY <1>2, <1>5, <1>7, <1>10

LEMMA ForeseenMove ==
  ASSUME IInv, IInv', Foreseen, ServerMove
  PROVE  Foreseen'
<1> SUFFICES ASSUME ~overtaken', ~misled'
             PROVE  \E g : Paths(g)' /\ Foresees(up', changes', server', down', shown', g)
  BY DEF Foreseen
<1>1. /\ server \in Seq(Songs) /\ Len(server) <= MaxLen /\ down \in Seq(Messages)
      /\ changes \in Nat /\ up \in Seq(Commands)
  BY DEF IInv, Types, Numbers
<1>2. Command /\ up # <<>> /\ up' = Tail(up) /\ up[1] = Head(up) /\ up[1] \in Commands
  BY CommandFacts DEF ServerMove, Command
<1>3. PICK c \in Commands : c = up[1] /\ c.cmd = "move" /\ c.since = changes
  BY <1>2 DEF ServerMove
<1>4. c.pos \in Nat /\ c.new \in Nat
  BY <1>3, CommandTypes DEF Aimed
<1>5. PICK m : m = [type |-> "move", pos |-> c.pos, new |-> c.new]
  OBVIOUS
<1>6. m.type = "move" /\ m.pos = c.pos /\ m.new = c.new
  BY <1>5
<1>7. \/ m \in Changes(server) /\ Change(m)
      \/ m \notin Changes(server) /\ UNCHANGED <<serverVars, down>>
  BY <1>2, <1>3, <1>5 DEF ServerMove
<1>8. ~overtaken /\ ~misled
  <2>1. misled' = (misled \/ Head(up).since # changes)
    BY DEF ServerMove
  <2>2. overtaken' = overtaken \/ (overtaken' = (overtaken \/ (subscribed /\ Owed > 0 /\ m.type # "clear")))
    BY <1>7 DEF Change, serverVars
  <2>3. ~misled
    BY <2>1, Zenon
  <2>4. ~overtaken
    BY <2>2, Zenon
  <2> QED
    BY <2>3, <2>4
<1>9. PICK g : Paths(g) /\ Foresees(up, changes, server, down, shown, g)
  BY <1>8 DEF Foreseen
<1>10. Meets(c, server) /\ ~Asking(up) /\ Leads(down, Len(down))
  <2>1. up[1].cmd \in Aimed /\ up[1].since = changes
    BY <1>3 DEF Aimed
  <2> QED
    BY <1>1, <1>2, <1>3, <1>9, <2>1, MoveMeets
<1>11. c.pos < Len(server) /\ c.new < Len(server) /\ c.pos # c.new /\ Len(server) \in Nat
  BY <1>1, <1>3, <1>10, LenProperties DEF Meets
<1>12. m \in Changes(server)
  <2>1. c.pos \in 0..Len(server) - 1 /\ c.new \in 0..Len(server) - 1
    BY <1>4, <1>11
  <2>2. m \in [type : {"move"}, pos : 0..Len(server) - 1, new : 0..Len(server) - 1]
    BY <1>5, <2>1
  <2> QED
    BY <1>6, <1>11, <2>2 DEF Changes
<1>13. Change(m)
  BY <1>7, <1>12
<1>14. subscribed
  BY <1>2, <1>3, CommandFacts
<1>15. PICK n \in Nat : n = changes' /\ n = changes + 1
  BY <1>1, <1>13 DEF Change
<1>16. PICK w : w = Numbered(m, n)
  OBVIOUS
<1>17. w \in Messages /\ w.type = "move"
  BY <1>1, <1>6, <1>12, <1>15, <1>16, ChangeFacts DEF Announces
<1>18. down' = Append(down, w)
  BY <1>13, <1>14, <1>15, <1>16 DEF Change
<1>19. server' = Moved(server, c.pos, c.new)
  <2>1. server' \in Changed(server, m)
    BY <1>13 DEF Change
  <2>2. server' = [i \in DOMAIN server |->
                     IF i = m.new + 1 THEN server[m.pos + 1]
                     ELSE IF i > m.pos /\ i <= m.new THEN server[i + 1]
                     ELSE IF i <= m.pos + 1 /\ i > m.new + 1 THEN server[i - 1]
                     ELSE server[i]]
    BY <1>6, <2>1 DEF Changed
  <2>3. PICK a, b : a = c.pos /\ b = c.new
    OBVIOUS
  <2>4. server' = [i \in DOMAIN server |->
                     IF i = b + 1 THEN server[a + 1]
                     ELSE IF i > a /\ i <= b THEN server[i + 1]
                     ELSE IF i <= a + 1 /\ i > b + 1 THEN server[i - 1]
                     ELSE server[i]]
    BY <1>6, <2>2, <2>3
  <2>5. a \in Nat /\ b \in Nat /\ a < Len(server) /\ b < Len(server)
    BY <1>4, <1>11, <2>3
  <2>6. Moved(server, a, b) =
          [i \in DOMAIN server |->
             IF i = b + 1 THEN server[a + 1]
             ELSE IF i > a /\ i <= b THEN server[i + 1]
             ELSE IF i <= a + 1 /\ i > b + 1 THEN server[i - 1]
             ELSE server[i]]
    BY <1>1, <2>5, MovedFacts
  <2> QED
    BY <2>3, <2>4, <2>6
<1>20. PICK h : Paths(h)'
  <2>1. \E h : ReplayBy(h, mirror', down') /\ h[Len(down')] = IF Due' = 0 THEN server' ELSE <<>>
    BY DEF IInv, Follows, Replays
  <2> QED
    BY <2>1 DEF Paths
<1>21. PICK d \in Seq(Messages) : d = down' /\ d = Append(down, w) /\ Len(d) = Len(down) + 1
  BY <1>1, <1>17, <1>18, AppendProperties
<1>22. Due' = 0
  <2>1. ~(Count(up, Lists) >= 1)
    BY <1>1, <1>10, AskingCount
  <2>2. Count(up', Lists) \in Nat /\ Count(up, Lists) = Count(up', Lists) + 0
    BY <1>2, <1>3, CommandFacts
  <2>3. Count(up', Lists) = 0
    <3>1. PICK k \in Nat : k = Count(up', Lists) /\ Count(up, Lists) = k
      BY <2>2
    <3> QED
      BY <2>1, <3>1
  <2>4. \A i \in 1..Len(d) : d[i].type # "reorder"
    <3>1. Leads(d, Len(d))
      BY <1>1, <1>10, <1>17, <1>21, LeadsAppend
    <3>2. \A i \in 1..Len(d) : d[i].type = "move" <=> i <= Len(d)
      BY <3>1 DEF Leads
    <3> QED
      BY <3>2
  <2>5. Count(d, Reorders) \in Nat /\ ~(Count(d, Reorders) >= 1)
    BY <2>4, ReorderCount, CountFacts
  <2>6. Count(d, Reorders) = 0
    BY <2>5
  <2> QED
    BY <1>21, <2>3, <2>6 DEF Due
<1>23. h[Len(down) + 1] = Moved(server, up[1].pos, up[1].new)
  BY <1>3, <1>19, <1>20, <1>21, <1>22 DEF Paths
<1>24. Foresees(Tail(up), changes + 1, Moved(server, up[1].pos, up[1].new), Append(down, w), shown, h)
  <2>1. up[1].cmd = "move" /\ up[1].since = changes
    BY <1>3
  <2> QED
    BY ONLY <1>1, <1>2, <1>9, <1>17, <1>23, <2>1, ForeseesMove
<1>25. shown' = shown
  BY <1>2, CommandFacts DEF viewVars
<1> QED
  BY <1>2, <1>3, <1>15, <1>18, <1>19, <1>20, <1>24, <1>25

\* Rows that show the mirror show it after a message.
LEMMA RowsMirror ==
  ASSUME Types, shown = mirror, NEW m \in Messages, Applies(mirror, m), m.type # "move"
  PROVE  Rows(m) = Mirrored(mirror, m)
<1>1. mirror \in Seq(Songs)
  BY DEF Types
<1>2. CASE m.type = "entries"
  <2>1. m.list \in Seq(Songs) /\ mirror = <<>>
    BY <1>2, MessageFacts DEF Applies
  <2>2. m.list \o <<>> = m.list
    BY <2>1, ConcatEmptySeq
  <2>3. Rows(m) = m.list
    BY <1>2, <2>1, <2>2 DEF Rows
  <2>4. Mirrored(mirror, m) = m.list
    BY <1>2, <2>1 DEF Mirrored
  <2> QED
    BY <2>3, <2>4
<1>3. CASE m.type = "add"
  BY <1>3 DEF Rows, RowAdded, Mirrored
<1>4. CASE m.type = "insert"
  BY <1>4 DEF Rows, Mirrored, Inserted
<1>5. CASE m.type = "remove"
  BY <1>5 DEF Rows, Mirrored
<1>6. CASE m.type \in {"clear", "reorder"}
  <2>1. Rows(m) = <<>>
    BY <1>6, RowsGone
  <2> QED
    BY <1>6, <2>1 DEF Mirrored, Emptied
<1> QED
  BY <1>2, <1>3, <1>4, <1>5, <1>6, MessageFacts

LEMMA ForeseenReceive ==
  ASSUME IInv, IInv', Foreseen, Receive
  PROVE  Foreseen'
<1> SUFFICES ASSUME ~overtaken', ~misled'
             PROVE  \E g : Paths(g)' /\ Foresees(up', changes', server', down', shown', g)
  BY DEF Foreseen
<1>1. /\ server \in Seq(Songs) /\ down \in Seq(Messages) /\ changes \in Nat
      /\ up \in Seq(Commands) /\ Types /\ Types'
  BY DEF IInv, Types, Numbers
<1>2. ~overtaken /\ ~misled
  BY DEF Receive, serverVars
<1>3. PICK g : Paths(g) /\ Foresees(up, changes, server, down, shown, g)
  BY <1>2 DEF Foreseen
<1>4. PICK m \in Messages : m = down[1]
  BY <1>2, ReceiveFacts
<1>5. /\ down # <<>> /\ down' = Tail(down)
      /\ Applies(mirror, m) /\ mirror' = Mirrored(mirror, m) /\ shown' = Rows(m)
      /\ changes' = changes /\ server' = server
      /\ up' = IF m.type = "reorder" THEN Append(up, [cmd |-> "list"]) ELSE up
      /\ up' \in Seq(Commands)
      /\ Asking(up') <=> Asking(up) \/ m.type = "reorder"
  BY <1>2, <1>4, ReceiveFacts
<1>6. PICK h : Paths(h)'
  <2>1. \E h : ReplayBy(h, mirror', down') /\ h[Len(down')] = IF Due' = 0 THEN server' ELSE <<>>
    BY DEF IInv, Follows, Replays
  <2> QED
    BY <2>1 DEF Paths
<1>7. ReplayBy(g, mirror, down) /\ ReplayBy(h, Mirrored(mirror, down[1]), Tail(down))
  BY <1>3, <1>4, <1>5, <1>6 DEF Paths
<1>8. \A i \in 0..Len(Tail(down)) : h[i] = g[i + 1]
  BY ONLY <1>1, <1>5, <1>7, PathTail
<1>9. CASE m.type = "move"
  <2>1. Foresees(up, changes, server, Tail(down), shown, h)
    <3>1. down[1].type = "move"
      BY <1>4, <1>9
    <3> QED
      BY ONLY <1>1, <1>3, <1>5, <1>8, <3>1, ForeseesEcho
  <2>2. shown' = shown /\ up' = up
    BY <1>5, <1>9 DEF Rows
  <2> QED
    BY <1>5, <1>6, <2>1, <2>2
<1>10. CASE m.type # "move"
  <2>1. PICK c : c = [cmd |-> "list"]
    OBVIOUS
  <2>2. c \in Commands /\ c.cmd = "list"
    BY <2>1 DEF Commands
  <2>3. PICK u \in Seq(Commands) : u = up'
    BY <1>5
  <2>10. PICK x : x = shown'
    OBVIOUS
  <2>4. u = IF down[1].type = "reorder" THEN Append(up, c) ELSE up
    BY <1>4, <1>5, <2>1, <2>3
  <2>5. h[0] = Mirrored(mirror, m) /\ g[0] = mirror
    BY <1>4, <1>7 DEF ReplayBy
  <2>6. shown = g[0] => x = h[0]
    BY <1>1, <1>5, <1>10, <2>10, <2>5, RowsMirror
  <2>7. ~Asking(u) /\ Len(Tail(down)) = 0 => h[0] = server
    <3> SUFFICES ASSUME ~Asking(u), Len(Tail(down)) = 0 PROVE h[0] = server
      OBVIOUS
    <3>6. PICK d : d = Tail(down)
      OBVIOUS
    <3>7. d \in Seq(Messages) /\ Len(d) = 0 /\ d = down'
      BY <1>1, <1>5, <3>6, HeadTailProperties
    <3>1. d \in Seq(Messages) /\ Len(d) = 0 /\ d = down'
      BY <3>7
    <3>2. ~(Count(u, Lists) >= 1)
      BY AskingCount
    <3>3. ~(Count(d, Reorders) >= 1)
      <4>1. ~ \E i \in 1..Len(d) : d[i].type = "reorder"
        BY <3>1
      <4> QED
        BY ONLY <3>1, <4>1, ReorderCount
    <3>4. Count(u, Lists) \in Nat /\ Count(d, Reorders) \in Nat
      BY ONLY <3>1, u \in Seq(Commands), CountFacts
    <3>5. Due' = 0
      <4>1. Count(u, Lists) = 0 /\ Count(d, Reorders) = 0
        BY <3>2, <3>3, <3>4
      <4> QED
        BY <2>3, <3>1, <4>1 DEF Due
    <3> QED
      BY <1>5, <1>6, <3>1, <3>5 DEF Paths
  <2>8. down[1].type # "move" /\ (Asking(u) <=> Asking(up) \/ down[1].type = "reorder")
    BY <1>4, <1>5, <1>10, <2>3
  <2>9. Foresees(u, changes, server, Tail(down), x, h)
    BY ONLY <1>1, <1>3, <1>5, <2>2, <2>4, <2>6, <2>7, <2>8, ForeseesMessage
  <2> QED
    BY <1>5, <1>6, <2>3, <2>9, <2>10
<1> QED
  BY <1>9, <1>10

\* The number the user sees.
LEMMA AheadIs ==
  ASSUME IInv
  PROVE  Ahead = version + Count(up, Moves) + Count(down, Echoes)
<1>1. up \in Seq(Commands) /\ down \in Seq(Messages)
  BY DEF IInv, Types
<1>2. {i \in DOMAIN up : up[i].cmd = "move"} = Hits(up, Moves)
  <2>1. \A i \in DOMAIN up : up[i] \in Commands
    BY <1>1, LenProperties, ElementOfSeq
  <2> QED
    BY <2>1 DEF Hits, Moves
<1>3. {i \in DOMAIN down : down[i].type = "move"} = Hits(down, Echoes)
  <2>1. \A i \in DOMAIN down : down[i] \in Messages
    BY <1>1, LenProperties, ElementOfSeq
  <2> QED
    BY <2>1 DEF Hits, Echoes
<1> QED
  BY <1>2, <1>3 DEF Ahead, Count

LEMMA ForeseenSend ==
  ASSUME IInv, Seen, Foreseen, NEW c \in Commands, c.cmd \notin {"broadcast", "list"}, UserSends(c),
         c.cmd \in Aimed => shown # <<>> /\ Meets(c, shown) /\ c.since = Ahead,
         shown' = IF c.cmd = "move" THEN Moved(shown, c.pos, c.new) ELSE shown
  PROVE  Foreseen'
<1> SUFFICES ASSUME ~overtaken', ~misled'
             PROVE  \E g : Paths(g)' /\ Foresees(up', changes', server', down', shown', g)
  BY DEF Foreseen
<1>1. /\ server \in Seq(Songs) /\ down \in Seq(Messages) /\ changes \in Nat
      /\ up \in Seq(Commands) /\ version \in Nat
  BY DEF IInv, Types, Numbers
<1>2. /\ up' = Append(up, c) /\ ~overtaken /\ ~misled
      /\ UNCHANGED <<server, changes, mirror, down>>
  BY DEF UserSends, serverVars
<1>3. PICK g : Paths(g) /\ Foresees(up, changes, server, down, shown, g)
  BY <1>2 DEF Foreseen
<1>4. Due' = Due
  <2>1. c \notin Lists
    BY DEF Lists
  <2>2. Count(Append(up, c), Lists) = Count(up, Lists) + 0 /\ Count(up, Lists) \in Nat
    BY <1>1, <2>1, CountAppend, CountFacts
  <2>3. Count(up', Lists) = Count(up, Lists)
    BY <1>2, <2>2
  <2> QED
    BY <1>2, <2>3 DEF Due
<1>5. Paths(g)'
  BY <1>2, <1>3, <1>4 DEF Paths
<1>6. Arrives(up, down, shown, version, changes)
  BY <1>2 DEF Seen
<1>7. PICK x : x = IF c.cmd = "move" THEN Moved(shown, c.pos, c.new) ELSE shown
  OBVIOUS
<1>8. PICK t : t = Append(up, c)
  OBVIOUS
<1>9. c.cmd # "list"
  OBVIOUS
<1>10. c.cmd \in Aimed => /\ shown # <<>> /\ Meets(c, shown)
                          /\ c.since = version + Count(up, Moves) + Count(down, Echoes)
  BY AheadIs
<1>11. Foresees(t, changes, server, down, x, g)
  BY <1>1, <1>3, <1>6, <1>7, <1>8, <1>9, <1>10, ForeseesSend
<1> QED
  BY <1>2, <1>5, <1>7, <1>8, <1>11

LEMMA ForeseenSwipe ==
  ASSUME IInv, Seen, Foreseen, NEW row \in DOMAIN shown, Swipe(row)
  PROVE  Foreseen' /\ Seen'
<1>1. /\ shown \in Seq(Songs) /\ row \in 1..Len(shown) /\ Len(shown) \in Nat /\ Ahead \in Nat
      /\ up \in Seq(Commands)
  BY LenProperties, AheadIsNat DEF IInv, Types, Numbers
<1>2. PICK c : c = [cmd |-> "remove", pos |-> Position(row), song |-> shown[row], since |-> Ahead]
  OBVIOUS
<1>3. row - 1 \in Nat /\ shown[row] \in Songs /\ row - 1 < Len(shown) /\ (row - 1) + 1 = row
  BY <1>1, ElementOfSeq
<1>4. c \in Commands /\ c.cmd = "remove" /\ c.pos = row - 1 /\ c.song = shown[row] /\ c.since = Ahead
  BY <1>1, <1>2, <1>3 DEF Commands, Position
<1>5. shown # <<>>
  <2>1. Len(shown) # 0
    BY <1>1
  <2> QED
    BY <2>1
<1>6. Meets(c, shown)
  BY <1>3, <1>4 DEF Meets
<1>7. UserSends(c) /\ shown' = shown
  BY <1>2 DEF Swipe
<1>8. Foreseen'
  BY <1>4, <1>5, <1>6, <1>7, ForeseenSend
<1>9. Seen'
  <2>1. c \notin Lists /\ up' = Append(up, c)
    BY <1>4, <1>7 DEF Lists, UserSends
  <2>2. Count(Append(up, c), Lists) = Count(up, Lists) + 0 /\ Count(up, Lists) \in Nat
        /\ Append(up, c) \in Seq(Commands)
    BY <1>1, <1>4, <2>1, CountAppend, CountFacts, AppendProperties
  <2>3. up' \in Seq(Commands) /\ Count(up', Lists) = Count(up, Lists)
    BY <2>1, <2>2
  <2> QED
    BY <1>7, <2>3, SeenSame DEF UserSends, serverVars
<1> QED
  BY <1>8, <1>9

LEMMA ForeseenDrag ==
  ASSUME IInv, Seen, Foreseen, NEW row \in DOMAIN shown, NEW to \in DOMAIN shown, Drag(row, to)
  PROVE  Foreseen' /\ Seen'
<1>1. /\ shown \in Seq(Songs) /\ row \in 1..Len(shown) /\ to \in 1..Len(shown)
      /\ Len(shown) \in Nat /\ Ahead \in Nat /\ up \in Seq(Commands)
  BY LenProperties, AheadIsNat DEF IInv, Types, Numbers
<1>2. PICK c : c = [cmd |-> "move", pos |-> Position(row), new |-> Position(to), since |-> Ahead]
  OBVIOUS
<1>3. /\ row - 1 \in Nat /\ to - 1 \in Nat /\ row - 1 < Len(shown) /\ to - 1 < Len(shown)
      /\ (row - 1) + 1 = row /\ (to - 1) + 1 = to
  BY <1>1
<1>4. c \in Commands /\ c.cmd = "move" /\ c.pos = row - 1 /\ c.new = to - 1 /\ c.since = Ahead
  BY <1>1, <1>2, <1>3 DEF Commands, Position
<1>5. shown # <<>>
  <2>1. Len(shown) # 0
    BY <1>1
  <2> QED
    BY <2>1
<1>6. Meets(c, shown)
  <2>1. row # to
    BY DEF Drag
  <2>2. row - 1 # to - 1
    BY <1>1, <2>1
  <2> QED
    BY <1>3, <1>4, <2>2 DEF Meets
<1>7. UserSends(c) /\ shown' = Moved(shown, c.pos, c.new)
  <2>1. UserSends(c) /\ shown' = InsertAt(RemoveAt(shown, row), to, shown[row])
    BY <1>2 DEF Drag
  <2>2. c.pos + 1 = row /\ c.new + 1 = to
    BY <1>3, <1>4
  <2> QED
    BY <2>1, <2>2 DEF Moved
<1>8. Foreseen'
  BY <1>4, <1>5, <1>6, <1>7, ForeseenSend
<1>9. Seen'
  <2>1. c \notin Lists /\ up' = Append(up, c)
    BY <1>4, <1>7 DEF Lists, UserSends
  <2>2. Count(Append(up, c), Lists) = Count(up, Lists) + 0 /\ Count(up, Lists) \in Nat
        /\ Append(up, c) \in Seq(Commands)
    BY <1>1, <1>4, <2>1, CountAppend, CountFacts, AppendProperties
  <2>3. up' \in Seq(Commands) /\ Count(up', Lists) = Count(up, Lists)
    BY <2>1, <2>2
  <2>4. shown = <<>> => shown' = <<>>
    BY <1>5
  <2> QED
    BY <1>7, <2>3, <2>4, SeenSame DEF UserSends, serverVars
<1> QED
  BY <1>8, <1>9

LEMMA ForeseenChoose ==
  ASSUME IInv, Seen, Foreseen, NEW button \in {"clear", "shuffle"}, Choose(button)
  PROVE  Foreseen' /\ Seen'
<1>1. up \in Seq(Commands)
  BY DEF IInv, Types
<1>2. PICK c : c = [cmd |-> button]
  OBVIOUS
<1>3. c \in Commands /\ c.cmd = button
  BY <1>2 DEF Commands
<1>4. c.cmd \notin Aimed /\ c.cmd # "move"
  BY <1>3 DEF Aimed
<1>5. UserSends(c) /\ shown' = shown
  BY <1>2 DEF Choose
<1>6. Foreseen'
  BY <1>3, <1>4, <1>5, ForeseenSend
<1>7. Seen'
  <2>1. c \notin Lists /\ up' = Append(up, c)
    BY <1>3, <1>5 DEF Lists, UserSends
  <2>2. Count(Append(up, c), Lists) = Count(up, Lists) + 0 /\ Count(up, Lists) \in Nat
        /\ Append(up, c) \in Seq(Commands)
    BY <1>1, <1>3, <2>1, CountAppend, CountFacts, AppendProperties
  <2>3. up' \in Seq(Commands) /\ Count(up', Lists) = Count(up, Lists)
    BY <2>1, <2>2
  <2> QED
    BY <1>5, <2>3, SeenSame DEF UserSends, serverVars
<1> QED
  BY <1>6, <1>7

-----------------------------------------------------------------------------
\* A command that arrives leaves the number of commands for the entries, unless it
\* is one.
LEMMA ListsStay ==
  ASSUME IInv, Command, Head(up).cmd # "list"
  PROVE  up' \in Seq(Commands) /\ Count(up', Lists) = Count(up, Lists)
<1>1. Count(up', Lists) \in Nat /\ Count(up, Lists) = Count(up', Lists) + 0
  BY CommandFacts
<1>2. Count(up', Lists) = Count(up, Lists)
  BY <1>1
<1> QED
  BY <1>2, CommandFacts

\* A command of the user changes the list in another way than by a move.
LEMMA OwnForeseen ==
  ASSUME IInv, IInv', Seen, Foreseen, Command, Head(up).cmd \notin {"broadcast", "list", "move"},
         NEW m \in Changes(server), Change(m), m.type # "move", UNCHANGED <<subscribed, misled>>
  PROVE  Seen' /\ Foreseen'
<1>1. UNCHANGED viewVars
  BY CommandFacts
<1>2. up' \in Seq(Commands) /\ Count(up', Lists) = Count(up, Lists)
  BY ListsStay
<1>3. UNCHANGED <<subscribed, viewVars>> /\ UNCHANGED <<subscribed, viewVars, misled>>
  BY <1>1
<1> QED
  BY <1>2, <1>3, SeenChange, ForeseenChange

\* A command without an effect.
LEMMA IdleForeseen ==
  ASSUME IInv, Seen, Foreseen, Command, Head(up).cmd \notin {"list", "move"},
         UNCHANGED <<server, changes, overtaken, misled, down>>
  PROVE  Seen' /\ Foreseen'
<1>1. UNCHANGED <<down, version, changes, overtaken>> /\ shown' = shown
  BY CommandFacts DEF viewVars
<1>2. up' \in Seq(Commands) /\ Count(up', Lists) = Count(up, Lists)
  BY ListsStay
<1>3. Seen'
  BY <1>1, <1>2, SeenSame
<1> QED
  BY <1>3, ForeseenTail

LEMMA SeenMove ==
  ASSUME IInv, Seen, ServerMove
  PROVE  Seen'
<1>1. Command /\ Head(up).cmd # "list" /\ subscribed' = subscribed
  BY DEF ServerMove
<1>2. up' \in Seq(Commands) /\ Count(up', Lists) = Count(up, Lists) /\ UNCHANGED viewVars
  BY <1>1, ListsStay, CommandFacts
<1>3. \/ \E m \in Changes(server) : Change(m)
      \/ UNCHANGED <<serverVars, down>>
  BY DEF ServerMove
<1>4. CASE \E m \in Changes(server) : Change(m)
  <2>1. UNCHANGED <<subscribed, viewVars>>
    BY <1>1, <1>2
  <2> QED
    BY <1>2, <1>4, <2>1, SeenChange
<1>5. CASE UNCHANGED <<serverVars, down>>
  <2>1. UNCHANGED <<down, version, changes, overtaken>> /\ shown' = shown
    BY <1>2, <1>5 DEF serverVars, viewVars
  <2> QED
    BY <1>2, <2>1, SeenSame
<1> QED
  BY <1>3, <1>4, <1>5

LEMMA ServerForeseen ==
  ASSUME IInv, IInv', Seen, Foreseen, ServerStep
  PROVE  Seen' /\ Foreseen'
<1>1. CASE ServerSubscribe
  <2>1. /\ Command /\ Head(up).cmd \notin {"list", "move"}
        /\ UNCHANGED <<server, changes, overtaken, misled, down>>
    BY <1>1 DEF ServerSubscribe
  <2> QED
    BY <2>1, IdleForeseen
<1>2. CASE ServerList
  BY <1>2, SeenList, ForeseenList
<1>3. CASE ServerRemove
  <2>1. /\ Command /\ Head(up).cmd = "remove" /\ UNCHANGED <<subscribed, misled>>
    BY <1>3 DEF ServerRemove
  <2>2. PICK m : m = [type |-> "remove", pos |-> Head(up).pos]
    OBVIOUS
  <2>3. m.type = "remove"
    BY <2>2
  <2>4. (m \in Changes(server) /\ Change(m)) \/ UNCHANGED <<serverVars, down>>
    BY <1>3, <2>2 DEF ServerRemove
  <2>5. CASE m \in Changes(server) /\ Change(m)
    BY <2>1, <2>3, <2>5, OwnForeseen
  <2>6. CASE UNCHANGED <<serverVars, down>>
    <3>1. UNCHANGED <<server, changes, overtaken, misled, down>>
      BY <2>1, <2>6 DEF serverVars
    <3> QED
      BY <2>1, <3>1, IdleForeseen
  <2> QED
    BY <2>4, <2>5, <2>6
<1>4. CASE ServerMove
  BY <1>4, SeenMove, ForeseenMove
<1>5. CASE ServerClear
  <2>1. /\ Command /\ Head(up).cmd \in {"clear", "shuffle"} /\ UNCHANGED <<subscribed, misled>>
    BY <1>5 DEF ServerClear
  <2>2. PICK m \in Changes(server) : Change(m) /\ m.type # "move"
    <3>1. [type |-> "clear"] \in Changes(server) /\ [type |-> "reorder"] \in Changes(server)
      BY DEF Changes
    <3> QED
      BY <1>5, <3>1 DEF ServerClear
  <2> QED
    BY <2>1, <2>2, OwnForeseen
<1> QED
  BY <1>1, <1>2, <1>3, <1>4, <1>5 DEF ServerStep

\* Somebody else changes the list: a move misleads the user.
LEMMA OtherForeseen ==
  ASSUME IInv, IInv', Seen, Foreseen, NEW m \in Changes(server), Other(m)
  PROVE  Seen' /\ Foreseen'
<1>1. /\ Change(m) /\ up' = up /\ UNCHANGED <<subscribed, viewVars>>
      /\ misled' = (misled \/ m.type = "move")
  BY DEF Other
<1>2. Seen'
  <2>1. up' \in Seq(Commands) /\ Count(up', Lists) = Count(up, Lists)
    BY <1>1 DEF IInv, Types
  <2> QED
    BY <1>1, <2>1, SeenChange
<1>3. CASE m.type = "move"
  <2>1. misled'
    BY <1>1, <1>3, Zenon
  <2> QED
    BY <1>2, <2>1 DEF Foreseen
<1>4. CASE m.type # "move"
  <2>1. misled' = misled
    <3>1. misled \in BOOLEAN
      BY DEF IInv, Types
    <3> QED
      BY <1>1, <1>4, <3>1
  <2>2. UNCHANGED <<subscribed, viewVars, misled>>
    BY <1>1, <2>1
  <2> QED
    BY <1>1, <1>2, <1>4, <2>2, ForeseenChange
<1> QED
  BY <1>3, <1>4

LEMMA NextForeseen == IInv /\ Seen /\ Foreseen /\ [Next]_vars => Seen' /\ Foreseen'
<1> SUFFICES ASSUME IInv, Seen, Foreseen, [Next]_vars PROVE Seen' /\ Foreseen'
  OBVIOUS
<1>0. IInv'
  BY NextInv
<1>1. CASE Receive
  BY <1>0, <1>1, SeenReceive, ForeseenReceive
<1>2. CASE ServerStep
  BY <1>0, <1>2, ServerForeseen
<1>3. ASSUME NEW m \in Changes(server), Other(m) PROVE Seen' /\ Foreseen'
  BY <1>0, <1>3, OtherForeseen
<1>4. ASSUME NEW m \in Changes(server), OtherPlaylist(m) PROVE Seen' /\ Foreseen'
  BY <1>4 DEF OtherPlaylist, Seen, Foreseen
<1>5. ASSUME NEW row \in DOMAIN shown, Swipe(row) PROVE Seen' /\ Foreseen'
  BY <1>5, ForeseenSwipe
<1>6. ASSUME NEW row \in DOMAIN shown, NEW to \in DOMAIN shown, Drag(row, to)
      PROVE  Seen' /\ Foreseen'
  BY <1>6, ForeseenDrag
<1>7. ASSUME NEW button \in {"clear", "shuffle"}, Choose(button) PROVE Seen' /\ Foreseen'
  BY <1>7, ForeseenChoose
<1>8. CASE UNCHANGED vars
  <2>1. UNCHANGED <<server, changes, overtaken, mirror, shown, version, up, down, misled>>
    BY <1>8 DEF vars, serverVars, viewVars
  <2>2. Due' = Due
    BY <2>1 DEF Due
  <2>3. Seen'
    BY <2>1 DEF Seen
  <2>4. ASSUME NEW g, Paths(g), Foresees(up, changes, server, down, shown, g)
        PROVE  Paths(g)' /\ Foresees(up', changes', server', down', shown', g)
    BY <2>1, <2>2, <2>4 DEF Paths
  <2>5. Foreseen'
    BY <2>1, <2>4 DEF Foreseen
  <2> QED
    BY <2>3, <2>5
<1> QED
  BY <1>1, <1>2, <1>3, <1>4, <1>5, <1>6, <1>7, <1>8 DEF Next

LEMMA SeenInit == Init => Seen
<1> SUFFICES ASSUME Init PROVE Arrives(up, down, shown, version, changes)
  BY DEF Seen
<1>1. down = <<>> /\ shown = <<>> /\ version = 0 /\ changes = 0 /\ Len(down) = 0
  BY DEF Init
<1> QED
  BY <1>1 DEF Arrives, Number, Asking

\* What the number of a command says: as long as the list is changed by nothing but
\* what the user sees coming, the list that a command will meet is the one its rows
\* showed.
THEOREM ViewForesees == FairSpec => [](IInv /\ Seen /\ Foreseen)
<1>1. Init => IInv /\ Seen /\ Foreseen
  BY InitInv, SeenInit, ForeseenInit
<1>2. IInv /\ Seen /\ Foreseen /\ [Next]_vars => (IInv /\ Seen /\ Foreseen)'
  BY NextInv, NextForeseen
<1> QED
  BY <1>1, <1>2, PTL DEF FairSpec

\* Deleting a row deletes the entry the user saw there (commitEditingStyle sends the
\* row's number, PlaylistViewController.m), unless the list has been changed by more
\* than the user's moves since then.
THEOREM DeletesSeenCorrect == FairSpec => DeletesSeen
<1> DEFINE c == Head(up)
           Deletes == ServerRemove /\ ~overtaken /\ ~misled /\ c.since = changes
                        => c.pos + 1 \in DOMAIN server /\ server[c.pos + 1] = c.song
<1>1. IInv /\ Seen /\ Foreseen => Deletes
  <2> SUFFICES ASSUME IInv, Foreseen, ServerRemove, ~overtaken, ~misled, c.since = changes
               PROVE  c.pos + 1 \in DOMAIN server /\ server[c.pos + 1] = c.song
    OBVIOUS
  <2>1. up \in Seq(Commands) /\ changes \in Nat /\ server \in Seq(Songs) /\ up # <<>>
    BY DEF IInv, Types, Numbers, ServerRemove, Command
  <2>2. up[1] = c /\ up[1].cmd = "remove" /\ up[1] \in Commands
    BY CommandFacts DEF ServerRemove
  <2>3. PICK g : Foresees(up, changes, server, down, shown, g)
    BY DEF Foreseen
  <2>4. up[1].cmd \in Aimed /\ up[1].since = changes
    BY <2>2 DEF Aimed
  <2>5. Meets(up[1], server)
    BY <2>1, <2>2, <2>3, <2>4, MoveMeets
  <2>6. PICK p \in Nat : p = c.pos
    BY <2>2, <2>4, CommandTypes
  <2>7. p < Len(server) /\ Len(server) \in Nat /\ server[p + 1] = c.song /\ DOMAIN server = 1..Len(server)
    BY <2>1, <2>2, <2>5, <2>6, LenProperties DEF Meets
  <2> QED
    BY <2>6, <2>7
<1>2. [](IInv /\ Seen /\ Foreseen) => [][Deletes]_vars
  BY <1>1, PTL
<1>3. FairSpec => [][Deletes]_vars
  BY <1>2, ViewForesees, PTL
<1> QED
  BY <1>3, Zenon DEF DeletesSeen
=============================================================================
