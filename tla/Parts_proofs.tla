---------------------------- MODULE Parts_proofs ----------------------------
(***************************************************************************)
(* Theorems about the five parts that MCParts runs side by side, for any   *)
(* number of collections, requests to connect, and data sets, and of       *)
(* everything else that the parts are made of.                             *)
(***************************************************************************)
EXTENDS MCParts, SequenceFacts, FiniteSetTheorems

-----------------------------------------------------------------------------
(* Coll: the reference counts of collections are right and nobody is left   *)
(* with a freed one.                                                        *)

\* The collection whose list is being changed stays in use: what is freed under
\* way is only what cannot be reached, so that the list is there at the end.
InUse == inside # None => Usable(inside)

CollInv == TypeOK /\ RefCount /\ InUse

-----------------------------------------------------------------------------
\* There are finitely many edges, and so into every collection.
LEMMA IntoFinite ==
  ASSUME TypeOK, NEW c PROVE IsFiniteSet(Into(c)) /\ Cardinality(Into(c)) \in Nat
<1>1. IsFiniteSet(Colls \X Colls)  BY CollAssumption, FS_Product
<1>2. Into(c) \subseteq Colls \X Colls  BY DEF TypeOK, Into
<1> QED BY <1>1, <1>2, FS_Subset, FS_CardinalityType

\* What the application owns and what an edge leads to is not freed.
LEMMA Kept ==
  ASSUME TypeOK, RefCount
  PROVE /\ \A c \in Colls : app[c] > 0 => ref[c] > 0
        /\ \A e \in edges : ref[e[2]] > 0
<1>1. ASSUME NEW c \in Colls, app[c] > 0 PROVE ref[c] > 0
  <2>1. ref[c] = app[c] + Cardinality(Into(c))  BY DEF RefCount
  <2>2. app[c] \in Nat  BY CollAssumption DEF TypeOK
  <2> QED BY <1>1, <2>1, <2>2, IntoFinite
<1>2. ASSUME NEW e \in edges PROVE ref[e[2]] > 0
  <2>1. e[2] \in Colls  BY DEF TypeOK
  <2>2. e \in Into(e[2])  BY DEF Into
  <2>3. Cardinality(Into(e[2])) # 0  BY <2>2, IntoFinite, FS_EmptySet
  <2>4. ref[e[2]] = app[e[2]] + Cardinality(Into(e[2]))  BY <2>1 DEF RefCount
  <2>5. app[e[2]] \in Nat  BY <2>1, CollAssumption DEF TypeOK
  <2> QED BY <2>3, <2>4, <2>5, IntoFinite
<1> QED BY <1>1, <1>2

\* What the application can reach is not freed.
LEMMA UsableKept ==
  ASSUME TypeOK, RefCount, NEW c \in Colls, Usable(c) PROVE ref[c] > 0
<1> DEFINE S == {d \in Colls : ref[d] > 0}
<1>1. S \in SUBSET Colls  OBVIOUS
<1>2. {d \in Colls : app[d] > 0} \subseteq S  BY Kept
<1>3. \A e \in edges : e[1] \in S => e[2] \in S  BY Kept DEF TypeOK
<1>4. c \in S  BY <1>1, <1>2, <1>3 DEF Usable
<1> QED BY <1>4

\* An edge more adds one to the edges into its operand and none elsewhere.
LEMMA IntoMore ==
  ASSUME TypeOK, NEW c \in Colls, NEW o \in Colls, <<c, o>> \notin edges,
         edges' = edges \cup {<<c, o>>}, NEW d \in Colls
  PROVE Cardinality(Into(d)') = Cardinality(Into(d)) + (IF d = o THEN 1 ELSE 0)
<1>1. CASE d = o
  <2>1. Into(d)' = Into(d) \cup {<<c, o>>}  BY <1>1 DEF Into
  <2>2. <<c, o>> \notin Into(d)  BY DEF Into
  <2> QED BY <1>1, <2>1, <2>2, IntoFinite, FS_AddElement
<1>2. CASE d # o
  <2>1. Into(d)' = Into(d)  BY <1>2 DEF Into
  <2> QED BY <1>2, <2>1, IntoFinite
<1> QED BY <1>1, <1>2

\* An edge less takes one away.
LEMMA IntoLess ==
  ASSUME TypeOK, NEW e \in edges, edges' = edges \ {e}, NEW d \in Colls
  PROVE Cardinality(Into(d)') = Cardinality(Into(d)) - (IF d = e[2] THEN 1 ELSE 0)
<1>1. CASE d = e[2]
  <2>1. Into(d)' = Into(d) \ {e}  BY <1>1 DEF Into
  <2>2. e \in Into(d)  BY <1>1 DEF Into
  <2>3. IsFiniteSet(Into(d))  BY IntoFinite
  <2>4. Cardinality(Into(d) \ {e}) = Cardinality(Into(d)) - 1  BY <2>2, <2>3, FS_RemoveElement
  <2> QED BY <1>1, <2>1, <2>4
<1>2. CASE d # e[2]
  <2>1. Into(d)' = Into(d)  BY <1>2 DEF Into
  <2> QED BY <1>2, <2>1, IntoFinite
<1> QED BY <1>1, <1>2

-----------------------------------------------------------------------------
LEMMA CollTypeStep == ASSUME TypeOK, RefCount, [Next]_vars PROVE TypeOK'
<1> USE DEF TypeOK
<1>1. ASSUME NEW c \in Colls, NEW initial \in SUBSET (Fields \X Texts), New(c, initial) PROVE TypeOK'
  BY <1>1, CollAssumption DEF New
<1>2. ASSUME NEW c \in Colls, Ref(c) PROVE TypeOK'
  BY <1>2, CollAssumption DEF Ref
<1>3. ASSUME NEW c \in Colls, Unref(c) PROVE TypeOK'
  <2>1. ref[c] > 0  BY <1>3, Kept DEF Unref
  <2> QED BY <1>3, <2>1, CollAssumption DEF Unref
<1>4. ASSUME NEW c \in Colls, NEW o \in Colls, AddOperand(c, o) PROVE TypeOK'
  BY <1>4 DEF AddOperand
<1>5. ASSUME NEW c \in Colls, NEW o \in Colls, RemoveOperand(c, o) PROVE TypeOK'
  <2>1. ref[o] > 0  BY <1>5, Kept DEF RemoveOperand
  <2> QED BY <1>5, <2>1 DEF RemoveOperand
<1>6. ASSUME NEW e \in edges, Release(e) PROVE TypeOK'
  <2>1. ref[e[2]] > 0 /\ e[2] \in Colls  BY Kept
  <2> QED BY <1>6, <2>1 DEF Release
<1>7. ASSUME NEW c \in Colls, NEW f \in Fields, NEW t \in Texts \cup {None}, AttributeSet(c, f, t)
      PROVE TypeOK'
  BY <1>7 DEF AttributeSet, Others
<1>8. ASSUME NEW c \in Colls, NEW f \in Fields, AttributeRemove(c, f) PROVE TypeOK'
  BY <1>8 DEF AttributeRemove, Others
<1>9. CASE RemoveReturns  BY <1>9 DEF RemoveReturns
<1>10. CASE UNCHANGED vars  BY <1>10 DEF vars
<1>11. ASSUME NEW c \in Colls, New(c, {}) \/ \E f \in Fields, t \in Texts : New(c, {<<f, t>>})
       PROVE TypeOK'
  <2>1. CASE New(c, {})
    <3>1. {} \in SUBSET (Fields \X Texts)  OBVIOUS
    <3> QED BY <1>1, <2>1, <3>1
  <2>2. ASSUME NEW f \in Fields, NEW t \in Texts, New(c, {<<f, t>>}) PROVE TypeOK'
    <3>1. {<<f, t>>} \in SUBSET (Fields \X Texts)  OBVIOUS
    <3> QED BY <1>1, <2>2, <3>1
  <2> QED BY <1>11, <2>1, <2>2
<1> QED BY <1>2, <1>3, <1>4, <1>5, <1>6, <1>7, <1>8, <1>9, <1>10, <1>11 DEF Next

\* No edge leads to a place that is not used.
LEMMA NoneInto ==
  ASSUME TypeOK, RefCount, NEW c \in Colls, ref[c] = 0 PROVE app[c] = 0 /\ Into(c) = {}
<1>1. app[c] \in Nat  BY CollAssumption DEF TypeOK
<1>2. app[c] = 0 /\ Cardinality(Into(c)) = 0  BY <1>1, IntoFinite DEF RefCount
<1> QED BY <1>2, IntoFinite, FS_EmptySet

LEMMA CollRefStep == ASSUME TypeOK, RefCount, [Next]_vars PROVE RefCount'
<1> SUFFICES ASSUME NEW d \in Colls PROVE ref'[d] = app'[d] + Cardinality(Into(d)')
  BY DEF RefCount
<1>1. ref[d] = app[d] + Cardinality(Into(d))  BY DEF RefCount
<1>2. ref[d] \in Nat /\ app[d] \in Nat /\ Cardinality(Into(d)) \in Nat
      /\ ref \in [Colls -> Nat] /\ DOMAIN app = Colls
  BY IntoFinite, CollAssumption DEF TypeOK
<1>3. UNCHANGED edges => Cardinality(Into(d)') = Cardinality(Into(d))  BY DEF Into
<1>4. ASSUME NEW c \in Colls, NEW initial, New(c, initial) PROVE ref'[d] = app'[d] + Cardinality(Into(d)')
  <2>1. app[c] = 0  BY <1>4, NoneInto DEF New
  <2> QED BY <1>1, <1>2, <1>3, <1>4, <2>1 DEF New
<1>5. ASSUME NEW c \in Colls, Ref(c) \/ Unref(c) PROVE ref'[d] = app'[d] + Cardinality(Into(d)')
  BY <1>1, <1>2, <1>3, <1>5 DEF Ref, Unref
<1>6. ASSUME NEW c \in Colls, NEW o \in Colls, AddOperand(c, o)
      PROVE ref'[d] = app'[d] + Cardinality(Into(d)')
  <2>1. Cardinality(Into(d)') = Cardinality(Into(d)) + (IF d = o THEN 1 ELSE 0)
    BY <1>6, IntoMore DEF AddOperand
  <2> QED BY <1>1, <1>2, <1>6, <2>1 DEF AddOperand
<1>7. ASSUME NEW c \in Colls, NEW o \in Colls, RemoveOperand(c, o)
      PROVE ref'[d] = app'[d] + Cardinality(Into(d)')
  <2>1. Cardinality(Into(d)') = Cardinality(Into(d)) - (IF d = <<c, o>>[2] THEN 1 ELSE 0)
    BY <1>7, IntoLess DEF RemoveOperand
  <2> QED BY <1>1, <1>2, <1>7, <2>1 DEF RemoveOperand
<1>8. ASSUME NEW e \in edges, Release(e) PROVE ref'[d] = app'[d] + Cardinality(Into(d)')
  <2>1. Cardinality(Into(d)') = Cardinality(Into(d)) - (IF d = e[2] THEN 1 ELSE 0)
    BY <1>8, IntoLess DEF Release
  <2>2. e[2] \in Colls  BY DEF TypeOK
  <2> QED BY <1>1, <1>2, <1>8, <2>1, <2>2 DEF Release
<1>9. ASSUME UNCHANGED <<ref, app, edges>> PROVE ref'[d] = app'[d] + Cardinality(Into(d)')
  BY <1>1, <1>3, <1>9
<1> QED BY <1>4, <1>5, <1>6, <1>7, <1>8, <1>9
      DEF Next, RemoveReturns, AttributeSet, AttributeRemove, vars

-----------------------------------------------------------------------------
\* What is in use stays so when a list that is being freed loses an entry: the list's
\* collection has no reference, so that no way leads through it.
LEMMA UsableRelease ==
  ASSUME TypeOK, RefCount, NEW e \in edges, Release(e), NEW c \in Colls, Usable(c)
  PROVE Usable(c)'
<1> SUFFICES ASSUME NEW S \in SUBSET Colls,
                    {d \in Colls : app'[d] > 0} \subseteq S,
                    \A x \in edges' : x[1] \in S => x[2] \in S
             PROVE c \in S
  BY DEF Usable
<1>1. ref[e[1]] = 0 /\ e[1] \in Colls  BY DEF Release, Dying, TypeOK
<1>2. app[e[1]] = 0 /\ Into(e[1]) = {}  BY <1>1, NoneInto
<1> DEFINE T == S \ {e[1]}
<1>3. T \in SUBSET Colls  OBVIOUS
<1>4. {d \in Colls : app[d] > 0} \subseteq T  BY <1>2 DEF Release
<1>5. \A x \in edges : x[1] \in T => x[2] \in T
  <2> SUFFICES ASSUME NEW x \in edges, x[1] \in T PROVE x[2] \in T  OBVIOUS
  <2>1. x \in edges'  BY DEF Release
  <2>2. x[2] # e[1]  BY <1>2 DEF Into
  <2> QED BY <2>1, <2>2
<1>6. c \in T  BY <1>3, <1>4, <1>5 DEF Usable
<1> QED BY <1>6

\* A collection is not in use through its own operands only.
LEMMA UsableRemove ==
  ASSUME NEW c \in Colls, NEW o \in Colls, RemoveOperand(c, o) PROVE Usable(c)'
<1> SUFFICES ASSUME NEW S \in SUBSET Colls,
                    {d \in Colls : app'[d] > 0} \subseteq S,
                    \A x \in edges' : x[1] \in S => x[2] \in S,
                    c \notin S
             PROVE FALSE
  BY DEF Usable
<1>1. {d \in Colls : app[d] > 0} \subseteq S  BY DEF RemoveOperand
<1>2. \A x \in edges : x[1] \in S => x[2] \in S
  <2> SUFFICES ASSUME NEW x \in edges, x[1] \in S PROVE x[2] \in S  OBVIOUS
  <2>1. x # <<c, o>>  OBVIOUS
  <2> QED BY <2>1 DEF RemoveOperand
<1>3. Usable(c)  BY DEF RemoveOperand
<1> QED BY <1>1, <1>2, <1>3 DEF Usable

LEMMA CollInUseStep == ASSUME TypeOK, RefCount, InUse, [Next]_vars PROVE InUse'
<1> SUFFICES ASSUME inside' # None PROVE Usable(inside)'  BY DEF InUse
<1>1. ASSUME NEW c \in Colls, NEW o \in Colls, RemoveOperand(c, o) PROVE Usable(inside)'
  <2>1. Usable(c)'  BY <1>1, UsableRemove
  <2>2. inside' = c  BY <1>1 DEF RemoveOperand
  <2> QED BY <2>1, <2>2
<1>2. ASSUME NEW e \in edges, Release(e) PROVE Usable(inside)'
  <2>1. inside' = inside /\ inside \in Colls  BY <1>2 DEF Release, TypeOK
  <2>2. Usable(inside)  BY <2>1 DEF InUse
  <2>3. PICK c \in Colls : c = inside  BY <2>1
  <2>4. Usable(c)'  BY <1>2, <2>2, <2>3, UsableRelease
  <2> QED BY <2>1, <2>3, <2>4
<1>3. ASSUME Idle, UNCHANGED inside PROVE Usable(inside)'  BY <1>3 DEF Idle
<1>4. CASE RemoveReturns  BY <1>4 DEF RemoveReturns
<1>5. ASSUME UNCHANGED vars PROVE Usable(inside)'
  BY <1>5 DEF InUse, Usable, vars
<1> QED BY <1>1, <1>2, <1>3, <1>4, <1>5
      DEF Next, New, Ref, Unref, AddOperand, AttributeSet, AttributeRemove

LEMMA CollInvStep == CollInv /\ [Next]_vars => CollInv'
BY CollTypeStep, CollRefStep, CollInUseStep DEF CollInv

LEMMA CollInvInit == Init => CollInv
<1> SUFFICES ASSUME Init PROVE CollInv  OBVIOUS
<1>1. TypeOK  BY CollAssumption DEF Init, TypeOK
<1>2. ASSUME NEW c \in Colls PROVE ref[c] = app[c] + Cardinality(Into(c))
  <2>1. Into(c) = {}  BY DEF Init, Into
  <2> QED BY <2>1, FS_EmptySet DEF Init
<1>3. InUse  BY DEF Init, InUse
<1> QED BY <1>1, <1>2, <1>3 DEF CollInv, RefCount

LEMMA CollInvKept == CollInv => NoneFreed
<1> SUFFICES ASSUME CollInv PROVE NoneFreed  OBVIOUS
<1>1. TypeOK /\ RefCount /\ InUse  BY DEF CollInv
<1>2. inside # None => ref[inside] > 0
  <2> SUFFICES ASSUME inside # None PROVE ref[inside] > 0  OBVIOUS
  <2>1. inside \in Colls /\ Usable(inside)  BY <1>1 DEF TypeOK, InUse
  <2> QED BY <1>1, <2>1, UsableKept
<1> QED BY <1>1, <1>2, Kept DEF NoneFreed

LEMMA CollInvAlways == Spec => []CollInv
BY CollInvInit, CollInvStep, PTL DEF Spec

\* The count of a collection is the number of its owners (xmmsv_coll_ref, _unref,
\* _add_operand and _remove_operand of coll.c), however many there are.
THEOREM CollRefCountCorrect == Spec => []RefCount
<1>1. CollInv => RefCount  BY DEF CollInv
<1> QED BY <1>1, CollInvAlways, PTL

\* Nobody is left with a freed collection, neither the application nor an operand
\* list nor xmmsv_coll_remove_operand while it goes on with the list of a collection.
THEOREM NoneFreedCorrect == Spec => []NoneFreed
BY CollInvKept, CollInvAlways, PTL

-----------------------------------------------------------------------------
\* What the application cannot reach hangs on a circle.
LEMMA BelowEdge ==
  ASSUME TypeOK, NEW e \in edges PROVE e[1] \in Colls /\ e[2] \in Colls /\ e[2] \in Below(e[1])
BY DEF TypeOK, Below

LEMMA BelowBelow ==
  ASSUME NEW c, NEW d \in Below(c), NEW x \in Below(d) PROVE x \in Below(c)
<1> SUFFICES ASSUME NEW S \in SUBSET Colls,
                    \A e \in edges : e[1] = c \/ e[1] \in S => e[2] \in S
             PROVE  x \in S
  BY DEF Below
<1>1. d \in S  BY DEF Below
<1>2. \A e \in edges : e[1] = d \/ e[1] \in S => e[2] \in S  BY <1>1
<1> QED BY <1>2 DEF Below

\* A collection that is kept although nobody can reach it is an operand of another
\* such one.
LEMMA KeptByLost ==
  ASSUME TypeOK, RefCount, Idle, NEW c \in Colls, ref[c] > 0, ~Usable(c)
  PROVE  \E d \in Colls : ref[d] > 0 /\ ~Usable(d) /\ c \in Below(d)
<1>1. app[c] \in Nat  BY CollAssumption DEF TypeOK
<1>2. ~(app[c] > 0)  BY DEF Usable
<1>3. Cardinality(Into(c)) # 0  BY <1>1, <1>2, IntoFinite DEF RefCount
<1>4. PICK e \in Into(c) : TRUE  BY <1>3, FS_EmptySet
<1>5. e \in edges /\ e[2] = c  BY DEF Into
<1>6. e[1] \in Colls /\ c \in Below(e[1])  BY <1>5, BelowEdge
<1>7. ref[e[1]] \in Nat /\ ref[e[1]] # 0  BY <1>5, <1>6 DEF Idle, Dying, TypeOK
<1>8. ~Usable(e[1])
  <2> SUFFICES ASSUME Usable(e[1]) PROVE Usable(c)  OBVIOUS
  <2> SUFFICES ASSUME NEW S \in SUBSET Colls,
                      {d \in Colls : app[d] > 0} \subseteq S,
                      \A x \in edges : x[1] \in S => x[2] \in S
               PROVE  c \in S
    BY DEF Usable
  <2>1. e[1] \in S  BY DEF Usable
  <2> QED BY <1>5, <2>1
<1> QED BY <1>6, <1>7, <1>8

\* Going up from one lost collection to the next must return to one that is above
\* itself: among those above a given one, take one with the fewest above it.
LEMMA LostHangOnCircle ==
  ASSUME TypeOK, RefCount, Idle, NEW c \in Colls, ref[c] > 0, ~Usable(c)
  PROVE  c \in Circular \/ \E d \in Circular : c \in Below(d)
<1> DEFINE Above(d) == {x \in Colls : d \in Below(x)}
           Lost == {d \in Colls : ref[d] > 0 /\ ~Usable(d) /\ (d = c \/ c \in Below(d))}
           Counts == {Cardinality(Above(d)) : d \in Lost}
<1>1. \A d : IsFiniteSet(Above(d)) /\ Cardinality(Above(d)) \in Nat
  <2> TAKE d
  <2>1. IsFiniteSet(Above(d))  BY CollAssumption, FS_Subset
  <2> QED BY <2>1, FS_CardinalityType
<1>2. Counts \in SUBSET Nat /\ c \in Lost  BY <1>1
<1>3. PICK m \in Counts : \A k \in Counts : m <= k
  <2>1. Cardinality(Above(c)) \in Counts  BY <1>2
  <2> HIDE DEF Counts
  <2> QED BY <1>2, <2>1, LeastNat
<1>4. PICK d \in Lost : m = Cardinality(Above(d))  BY <1>3
<1>5. PICK x \in Colls : ref[x] > 0 /\ ~Usable(x) /\ d \in Below(x)  BY KeptByLost
<1>6. c \in Below(x)  BY <1>5, BelowBelow
<1>7. x \in Lost /\ x \in Above(d)  BY <1>5, <1>6
<1>8. Above(x) \subseteq Above(d)  BY <1>5, BelowBelow
<1>9. x \in Above(x)
  <2> SUFFICES ASSUME x \notin Above(x) PROVE FALSE  OBVIOUS
  <2>1. Cardinality(Above(x)) <= Cardinality(Above(d) \ {x})
    <3>1. Above(x) \subseteq Above(d) \ {x}  BY <1>8
    <3>2. IsFiniteSet(Above(d) \ {x})  BY <1>1, FS_Subset
    <3> QED BY <3>1, <3>2, FS_Subset
  <2>2. Cardinality(Above(d) \ {x}) = Cardinality(Above(d)) - 1
    <3>1. PICK A : A = Above(d)  OBVIOUS
    <3>2. IsFiniteSet(A) /\ x \in A  BY <1>1, <1>7, <3>1
    <3>3. Cardinality(A \ {x}) = Cardinality(A) - 1  BY <3>2, FS_RemoveElement
    <3> QED BY <3>1, <3>3
  <2>3. Cardinality(Above(d)) <= Cardinality(Above(x))  BY <1>3, <1>4, <1>7
  <2>4. Cardinality(Above(d)) \in Nat /\ Cardinality(Above(x)) \in Nat  BY <1>1
  <2> HIDE DEF Above
  <2> QED BY <2>1, <2>2, <2>3, <2>4
<1>10. x \in Circular
  <2>1. x \in Below(x)  BY <1>9
  <2> QED BY <2>1 DEF Circular
<1> QED BY <1>6, <1>10

\* Nothing that the application cannot reach stays, when all calls have returned, but
\* what hangs on a circle of operands (xmmsv_coll_free of coll.c gives the references
\* of the operands back).
THEOREM ReclaimedCorrect == Spec => []Reclaimed
<1>1. CollInv => Reclaimed
  <2> SUFFICES ASSUME CollInv, Idle, NEW c \in Colls, ref[c] > 0, ~Usable(c)
               PROVE  c \in Circular \/ \E d \in Circular : c \in Below(d)
    BY DEF Reclaimed
  <2>1. TypeOK /\ RefCount  BY DEF CollInv
  <2> QED BY <2>1, LostHangOnCircle
<1> QED BY <1>1, CollInvAlways, PTL

-----------------------------------------------------------------------------
(* Connect: the connection is set up once and is the one asked for, for any *)
(* number of requests that do not overlap.                                  *)

States == {"unused", "queued", "written", "dialled", "hello", "posted", "over"}

Shape ==
  /\ isConnected \in BOOLEAN /\ overlapped \in BOOLEAN /\ broke \in BOOLEAN
  /\ op \in [Ops -> [at : States, path : Paths \cup {Nothing}]]
  /\ xmmsPath \in Paths \cup {Nothing} /\ cpath \in Paths \cup {Nothing}
  /\ main \in Seq(Ops \X {"didConnect", "errorOnConnect"})

\* At most one operation is under way, and when it has posted its selector, then
\* that is all the main thread has to do.
OneAtATime ==
  /\ \A o, p \in Ops : UnderWay(o) /\ UnderWay(p) => o = p
  /\ \A o \in Ops : At(o, "posted") => main # <<>>
  /\ main # <<>> => \E o \in Ops, s \in {"didConnect", "errorOnConnect"} :
                      main = <<<<o, s>>>> /\ At(o, "posted")

\* didConnect has run only if it is connected, and then nothing is under way.
SetUp ==
  /\ setups = IF isConnected THEN 1 ELSE 0
  /\ isConnected => \A o \in Ops : ~UnderWay(o)

\* c->path and the dialled path are what was asked for; c->ipc is the operation's.
Dialled(o) == cpath = xmmsPath /\ op[o].path = xmmsPath
Chosen ==
  /\ \A o \in Ops :
       /\ At(o, "written") => cpath = xmmsPath
       /\ At(o, "dialled") => Dialled(o)
       /\ At(o, "hello") => Dialled(o) /\ cipc = o
       /\ main = <<<<o, "didConnect">>>> => Dialled(o) /\ cipc = o /\ o \in answered
  /\ isConnected => cipc \in Ops /\ cipc \in answered /\ Dialled(cipc)

ConnectInv ==
  /\ Shape
  /\ ~overlapped => OneAtATime /\ SetUp
  /\ ~overlapped /\ ~broke => Chosen

-----------------------------------------------------------------------------
\* Posting keeps the queue a queue of selectors, and makes one of an empty queue.
LEMMA PostShape ==
  ASSUME Shape, NEW o \in Ops, NEW s \in {"didConnect", "errorOnConnect"}, Post(o, s)
  PROVE /\ main' \in Seq(Ops \X {"didConnect", "errorOnConnect"})
        /\ main = <<>> => main' = <<<<o, s>>>>
<1> DEFINE x == <<o, s>>
<1>1. x \in Ops \X {"didConnect", "errorOnConnect"}  OBVIOUS
<1>2. main' = Append(main, x)  BY DEF Post
<1> HIDE DEF x
<1>3. main' \in Seq(Ops \X {"didConnect", "errorOnConnect"})  BY <1>1, <1>2 DEF Shape
<1>4. main = <<>> => main' = <<x>>  BY <1>2
<1> QED BY <1>3, <1>4 DEF x

LEMMA ConnectShapeStep == ASSUME Shape, [ConnectNext]_connectVars PROVE Shape'
<1> USE DEF Shape
<1>1. ASSUME NEW path \in Paths, ConnectToPath(path) PROVE Shape'
  BY <1>1 DEF ConnectToPath, Moves, States
<1>2. ASSUME NEW o \in Ops, WritePath(o) PROVE Shape'
  BY <1>2 DEF WritePath, Moves, States, phone
<1>3. ASSUME NEW o \in Ops, Dial(o) PROVE Shape'
  <2>1. CASE op' = [op EXCEPT ![o] = [at |-> "dialled", path |-> cpath]] /\ UNCHANGED main
    BY <1>3, <2>1 DEF Dial, States, phone
  <2>2. CASE Moves(o, "posted") /\ Post(o, "errorOnConnect")
    BY <1>3, <2>2, PostShape DEF Dial, Moves, States, phone
  <2> QED BY <1>3, <2>1, <2>2 DEF Dial
<1>4. ASSUME NEW o \in Ops, SetIpc(o) PROVE Shape'
  BY <1>4 DEF SetIpc, Moves, States, phone
<1>5. ASSUME NEW o \in Ops, NEW answer, Answer(o, answer) PROVE Shape'
  <2>1. main' \in Seq(Ops \X {"didConnect", "errorOnConnect"})
    BY <1>5, PostShape DEF Answer, Verdict
  <2> QED BY <1>5, <2>1 DEF Answer, Moves, States, phone
<1>6. CASE CallMain
  <2>1. Tail(main) \in Seq(Ops \X {"didConnect", "errorOnConnect"})  BY <1>6 DEF CallMain
  <2> QED BY <1>6, <2>1 DEF CallMain, Moves, Rest, States
<1>7. CASE UNCHANGED connectVars  BY <1>7 DEF connectVars
<1> QED BY <1>1, <1>2, <1>3, <1>4, <1>5, <1>6, <1>7 DEF ConnectNext

\* An operation that moves on is the only one, and nothing else waits.
LEMMA Alone ==
  ASSUME Shape, OneAtATime, SetUp, NEW o \in Ops, UnderWay(o), ~At(o, "posted")
  PROVE main = <<>> /\ ~isConnected /\ \A p \in Ops : p # o => ~UnderWay(p)
BY DEF OneAtATime, SetUp, UnderWay, At

\* A step on the way leaves one operation under way and its selector unposted.
LEMMA MovesAlone ==
  ASSUME Shape, Shape', OneAtATime, SetUp, NEW o \in Ops, UnderWay(o), ~At(o, "posted"),
         NEW to \in {"written", "dialled", "hello"}, op'[o].at = to,
         \A p \in Ops : p # o => op'[p] = op[p],
         UNCHANGED <<main, isConnected, setups>>
  PROVE OneAtATime' /\ SetUp'
BY Alone DEF OneAtATime, SetUp, UnderWay, At

\* The last step of an operation leaves its selector as the only one.
LEMMA PostsAlone ==
  ASSUME Shape, OneAtATime, SetUp, NEW o \in Ops, UnderWay(o), ~At(o, "posted"),
         NEW s \in {"didConnect", "errorOnConnect"}, Moves(o, "posted"), Post(o, s),
         UNCHANGED <<isConnected, setups>>
  PROVE OneAtATime' /\ SetUp' /\ main' = <<<<o, s>>>>
<1>1. main' = <<<<o, s>>>>  BY Alone, PostShape
<1>2. op'[o].at = "posted" /\ \A p \in Ops : p # o => op'[p] = op[p]  BY DEF Moves, Shape
<1>3. ~isConnected /\ \A p \in Ops : p # o => ~UnderWay(p)  BY Alone
<1>4. \A p \in Ops : p # o => ~UnderWay(p)' /\ ~At(p, "posted")'
  BY <1>2, <1>3 DEF UnderWay, At
<1>5. OneAtATime'
  <2>1. \A p, q \in Ops : UnderWay(p)' /\ UnderWay(q)' => p = q  BY <1>4
  <2>2. main' # <<>>  BY <1>1
  <2>3. At(o, "posted")'  BY <1>2 DEF At
  <2> QED BY <1>1, <2>1, <2>2, <2>3 DEF OneAtATime
<1>6. SetUp'
  BY <1>3 DEF SetUp
<1> QED BY <1>1, <1>5, <1>6

\* The main thread calls the selector of the one operation that there was.
LEMMA CalledAlone ==
  ASSUME Shape, OneAtATime, SetUp, CallMain
  PROVE \E o \in Ops, s \in {"didConnect", "errorOnConnect"} :
          /\ main = <<<<o, s>>>> /\ main' = <<>> /\ Moves(o, "over") /\ ~isConnected
          /\ \A p \in Ops : ~UnderWay(p)'
          /\ IF s = "didConnect" THEN isConnected' = TRUE /\ setups' = 1
             ELSE UNCHANGED <<isConnected, setups>>
<1>1. PICK o \in Ops, s \in {"didConnect", "errorOnConnect"} :
        main = <<<<o, s>>>> /\ At(o, "posted")
  BY DEF OneAtATime, CallMain
<1>2. PICK x : x = <<o, s>>  OBVIOUS
<1>3. x[1] = o /\ x[2] = s  BY <1>2
<1>4. main = <<x>>  BY <1>1, <1>2
<1>5. Head(main) = x /\ Tail(main) = <<>>  BY <1>4
<1>6. main' = <<>> /\ Moves(o, "over")  BY <1>3, <1>5 DEF CallMain, Rest
<1>7. ~isConnected /\ \A p \in Ops : p # o => ~UnderWay(p)
  BY <1>1 DEF OneAtATime, SetUp, UnderWay, At
<1>8. \A p \in Ops : ~UnderWay(p)'  BY <1>6, <1>7 DEF Moves, UnderWay, Shape
<1>9. setups = 0  BY <1>7 DEF SetUp
<1>10. IF s = "didConnect" THEN isConnected' = TRUE /\ setups' = 1
       ELSE UNCHANGED <<isConnected, setups>>
  BY <1>3, <1>5, <1>9 DEF CallMain
<1> QED BY <1>1, <1>6, <1>7, <1>8, <1>10

\* A request that does not overlap finds nothing under way.
LEMMA RequestAlone ==
  ASSUME Shape, OneAtATime, SetUp, NEW path \in Paths, ConnectToPath(path), ~overlapped'
  PROVE \E o \in Ops :
          /\ main = <<>> /\ ~isConnected /\ Moves(o, "queued")
          /\ \A p \in Ops : ~UnderWay(p)
<1>1. PICK o \in Ops : Moves(o, "queued") /\ overlapped' = (overlapped \/ \E p \in Ops : UnderWay(p))
  BY DEF ConnectToPath
<1>2. \A p \in Ops : ~UnderWay(p)  BY <1>1
<1>3. main = <<>>  BY <1>2 DEF OneAtATime, UnderWay, At
<1>4. ~isConnected  BY DEF ConnectToPath, Refused
<1> QED BY <1>1, <1>2, <1>3, <1>4

LEMMA SetUpStep ==
  ASSUME Shape, Shape', OneAtATime, SetUp, [ConnectNext]_connectVars, ~overlapped' PROVE OneAtATime' /\ SetUp'
<1>1. ASSUME NEW path \in Paths, ConnectToPath(path) PROVE OneAtATime' /\ SetUp'
  <2>1. PICK o \in Ops : /\ main = <<>> /\ ~isConnected /\ Moves(o, "queued")
                         /\ \A p \in Ops : ~UnderWay(p)
    BY <1>1, RequestAlone
  <2>2. \A p \in Ops : p # o => ~UnderWay(p)'  BY <2>1 DEF Moves, UnderWay, Shape
  <2>3. op'[o].at = "queued"  BY <2>1 DEF Moves, Shape
  <2>4. \A p \in Ops : ~At(p, "posted")'  BY <2>2, <2>3 DEF UnderWay, At
  <2>5. OneAtATime'  BY <1>1, <2>1, <2>2, <2>4 DEF OneAtATime, ConnectToPath
  <2> QED BY <1>1, <2>1, <2>5 DEF SetUp, ConnectToPath
<1>2. ASSUME NEW o \in Ops, WritePath(o) \/ SetIpc(o) PROVE OneAtATime' /\ SetUp'
  <2>1. UnderWay(o) /\ ~At(o, "posted")  BY <1>2 DEF WritePath, SetIpc, At, UnderWay
  <2>2. UNCHANGED <<main, isConnected, setups>>  BY <1>2 DEF WritePath, SetIpc, phone
  <2>3. \A p \in Ops : p # o => op'[p] = op[p]  BY <1>2 DEF WritePath, SetIpc, Moves, Shape
  <2>4. PICK to \in {"written", "hello"} : op'[o].at = to
    BY <1>2 DEF WritePath, SetIpc, Moves, Shape
  <2> QED BY <2>1, <2>2, <2>3, <2>4, MovesAlone
<1>3. ASSUME NEW o \in Ops, Dial(o) PROVE OneAtATime' /\ SetUp'
  <2>1. UnderWay(o) /\ ~At(o, "posted")  BY <1>3 DEF Dial, At, UnderWay
  <2>2. UNCHANGED <<isConnected, setups>>  BY <1>3 DEF Dial, phone
  <2>3. CASE op' = [op EXCEPT ![o] = [at |-> "dialled", path |-> cpath]] /\ UNCHANGED main
    <3>1. op'[o].at = "dialled" /\ \A p \in Ops : p # o => op'[p] = op[p]  BY <2>3 DEF Shape
    <3> QED BY <2>1, <2>2, <2>3, <3>1, MovesAlone
  <2>4. CASE Moves(o, "posted") /\ Post(o, "errorOnConnect")
    BY <2>1, <2>2, <2>4, PostsAlone
  <2> QED BY <1>3, <2>3, <2>4 DEF Dial
<1>4. ASSUME NEW o \in Ops, NEW answer, Answer(o, answer) PROVE OneAtATime' /\ SetUp'
  <2>1. UnderWay(o) /\ ~At(o, "posted")  BY <1>4 DEF Answer, At, UnderWay
  <2>2. UNCHANGED <<isConnected, setups>>  BY <1>4 DEF Answer, phone
  <2>3. PICK s \in {"didConnect", "errorOnConnect"} : Moves(o, "posted") /\ Post(o, s)
    BY <1>4 DEF Answer, Verdict
  <2> QED BY <2>1, <2>2, <2>3, PostsAlone
<1>5. CASE CallMain
  <2>1. PICK o \in Ops, s \in {"didConnect", "errorOnConnect"} :
          /\ main = <<<<o, s>>>> /\ main' = <<>> /\ Moves(o, "over") /\ ~isConnected
          /\ \A p \in Ops : ~UnderWay(p)'
          /\ IF s = "didConnect" THEN isConnected' = TRUE /\ setups' = 1
             ELSE UNCHANGED <<isConnected, setups>>
    BY <1>5, CalledAlone
  <2>2. OneAtATime'  BY <2>1 DEF OneAtATime, UnderWay, At
  <2>3. SetUp'  BY <2>1 DEF SetUp
  <2> QED BY <2>2, <2>3
<1>6. CASE UNCHANGED connectVars  BY <1>6 DEF OneAtATime, SetUp, UnderWay, At, connectVars
<1> QED BY <1>1, <1>2, <1>3, <1>4, <1>5, <1>6 DEF ConnectNext

-----------------------------------------------------------------------------
\* One operation at a time finds c->path and c->ipc as it left them.
LEMMA ChosenStep ==
  ASSUME Shape, Shape', OneAtATime, SetUp, Chosen, [ConnectNext]_connectVars, ~overlapped', ~broke'
  PROVE Chosen'
<1> USE DEF Dialled
<1>1. ASSUME NEW path \in Paths, ConnectToPath(path) PROVE Chosen'
  <2>1. PICK o \in Ops : /\ main = <<>> /\ ~isConnected /\ Moves(o, "queued")
                         /\ \A p \in Ops : ~UnderWay(p)
    BY <1>1, RequestAlone
  <2>2. \A p \in Ops : p # o => ~UnderWay(p)'  BY <2>1 DEF Moves, UnderWay, Shape
  <2>3. op'[o].at = "queued"  BY <2>1 DEF Moves, Shape
  <2>4. \A p \in Ops : ~At(p, "written")' /\ ~At(p, "dialled")' /\ ~At(p, "hello")'
    BY <2>2, <2>3 DEF UnderWay, At
  <2> QED BY <1>1, <2>1, <2>4 DEF Chosen, ConnectToPath
<1>2. ASSUME NEW o \in Ops, WritePath(o) PROVE Chosen'
  <2>1. UnderWay(o) /\ ~At(o, "posted")  BY <1>2 DEF WritePath, At, UnderWay
  <2>2. main = <<>> /\ ~isConnected /\ \A p \in Ops : p # o => ~UnderWay(p)  BY <2>1, Alone
  <2>3. op'[o].at = "written" /\ \A p \in Ops : p # o => op'[p] = op[p]
    BY <1>2 DEF WritePath, Moves, Shape
  <2>4. \A p \in Ops : ~At(p, "dialled")' /\ ~At(p, "hello")'
    BY <2>2, <2>3 DEF UnderWay, At
  <2> QED BY <1>2, <2>2, <2>4 DEF Chosen, WritePath, phone
<1>3. ASSUME NEW o \in Ops, Dial(o) PROVE Chosen'
  <2>1. UnderWay(o) /\ ~At(o, "posted")  BY <1>3 DEF Dial, At, UnderWay
  <2>2. main = <<>> /\ ~isConnected /\ \A p \in Ops : p # o => ~UnderWay(p)  BY <2>1, Alone
  <2>3. CASE op' = [op EXCEPT ![o] = [at |-> "dialled", path |-> cpath]] /\ UNCHANGED main
    <3>1. op'[o] = [at |-> "dialled", path |-> cpath] /\ \A p \in Ops : p # o => op'[p] = op[p]
      BY <2>3 DEF Shape
    <3>2. \A p \in Ops : ~At(p, "written")' /\ ~At(p, "hello")' /\ (At(p, "dialled")' => p = o)
      BY <2>2, <3>1 DEF UnderWay, At
    <3>3. cpath = xmmsPath  BY <1>3 DEF Chosen, Dial
    <3> QED BY <1>3, <2>2, <2>3, <3>1, <3>2, <3>3 DEF Chosen, Dial, phone
  <2>4. CASE Moves(o, "posted") /\ Post(o, "errorOnConnect")
    <3>1. main' = <<<<o, "errorOnConnect">>>>  BY <2>2, <2>4, PostShape
    <3>2. op'[o].at = "posted" /\ \A p \in Ops : p # o => op'[p] = op[p]
      BY <2>4 DEF Moves, Shape
    <3>3. \A p \in Ops : ~At(p, "written")' /\ ~At(p, "dialled")' /\ ~At(p, "hello")'
      BY <2>2, <3>2 DEF UnderWay, At
    <3>4. \A p \in Ops : main' # <<<<p, "didConnect">>>>  BY <3>1
    <3> QED BY <1>3, <2>2, <3>3, <3>4 DEF Chosen, Dial, phone
  <2> QED BY <1>3, <2>3, <2>4 DEF Dial
<1>4. ASSUME NEW o \in Ops, SetIpc(o) PROVE Chosen'
  <2>1. UnderWay(o) /\ ~At(o, "posted")  BY <1>4 DEF SetIpc, At, UnderWay
  <2>2. main = <<>> /\ ~isConnected /\ \A p \in Ops : p # o => ~UnderWay(p)  BY <2>1, Alone
  <2>3. op'[o].at = "hello" /\ op'[o].path = op[o].path /\ \A p \in Ops : p # o => op'[p] = op[p]
    BY <1>4 DEF SetIpc, Moves, Shape
  <2>4. \A p \in Ops : ~At(p, "written")' /\ ~At(p, "dialled")' /\ (At(p, "hello")' => p = o)
    BY <2>2, <2>3 DEF UnderWay, At
  <2>5. Dialled(o)  BY <1>4 DEF Chosen, SetIpc
  <2> QED BY <1>4, <2>2, <2>3, <2>4, <2>5 DEF Chosen, SetIpc, phone
<1>5. ASSUME NEW o \in Ops, NEW answer \in {"accepted", "refused", "broken"}, Answer(o, answer)
      PROVE Chosen'
  <2>1. UnderWay(o) /\ ~At(o, "posted")  BY <1>5 DEF Answer, At, UnderWay
  <2>2. main = <<>> /\ ~isConnected /\ \A p \in Ops : p # o => ~UnderWay(p)  BY <2>1, Alone
  <2>3. PICK s \in {"didConnect", "errorOnConnect"} : Post(o, s) /\ s = Verdict(answer)
    BY <1>5 DEF Answer, Verdict
  <2>4. main' = <<<<o, s>>>>  BY <2>2, <2>3, PostShape
  <2>5. op'[o].at = "posted" /\ op'[o].path = op[o].path /\ \A p \in Ops : p # o => op'[p] = op[p]
    BY <1>5 DEF Answer, Moves, Shape
  <2>6. \A p \in Ops : ~At(p, "written")' /\ ~At(p, "dialled")' /\ ~At(p, "hello")'
    BY <2>2, <2>5 DEF UnderWay, At
  <2>7. Dialled(o) /\ cipc = o  BY <1>5 DEF Chosen, Answer
  <2>8. s = "didConnect" => o \in answered'
    <3>1. answer # "broken"  BY <1>5 DEF Answer
    <3> QED BY <1>5, <2>3, <3>1 DEF Answer, Verdict
  <2>9. ASSUME NEW p \in Ops, main' = <<<<p, "didConnect">>>> PROVE p = o /\ s = "didConnect"
    <3>1. PICK x : x = <<o, s>>  OBVIOUS
    <3>2. PICK y : y = <<p, "didConnect">>  OBVIOUS
    <3>3. main' = <<x>> /\ main' = <<y>>  BY <2>4, <2>9, <3>1, <3>2
    <3>4. x = y  BY <3>3
    <3> QED BY <3>1, <3>2, <3>4
  <2> QED BY <1>5, <2>2, <2>5, <2>6, <2>7, <2>8, <2>9 DEF Chosen, Answer, phone
<1>6. CASE CallMain
  <2>1. PICK o \in Ops, s \in {"didConnect", "errorOnConnect"} :
          /\ main = <<<<o, s>>>> /\ main' = <<>> /\ Moves(o, "over") /\ ~isConnected
          /\ \A p \in Ops : ~UnderWay(p)'
          /\ IF s = "didConnect" THEN isConnected' = TRUE /\ setups' = 1
             ELSE UNCHANGED <<isConnected, setups>>
    BY <1>6, CalledAlone
  <2>2. \A p \in Ops : ~At(p, "written")' /\ ~At(p, "dialled")' /\ ~At(p, "hello")'
    BY <2>1 DEF UnderWay, At
  <2>3. op'[o].path = op[o].path  BY <2>1 DEF Moves, Shape
  <2>4. s = "didConnect" => Dialled(o) /\ cipc = o /\ o \in answered  BY <2>1 DEF Chosen
  <2> QED BY <1>6, <2>1, <2>2, <2>3, <2>4 DEF Chosen, CallMain
<1>7. CASE UNCHANGED connectVars  BY <1>7 DEF Chosen, At, connectVars
<1> QED BY <1>1, <1>2, <1>3, <1>4, <1>5, <1>6, <1>7 DEF ConnectNext

-----------------------------------------------------------------------------
LEMMA ConnectHistoryStep == [ConnectNext]_connectVars => (overlapped => overlapped') /\ (broke => broke')
<1> SUFFICES ASSUME [ConnectNext]_connectVars PROVE (overlapped => overlapped') /\ (broke => broke')  OBVIOUS
<1>1. ASSUME NEW path \in Paths, ConnectToPath(path) PROVE (overlapped => overlapped') /\ (broke => broke')
  BY <1>1, Zenon DEF ConnectToPath
<1>2. ASSUME NEW o \in Ops, WritePath(o) \/ Dial(o) \/ SetIpc(o)
      PROVE (overlapped => overlapped') /\ (broke => broke')
  BY <1>2 DEF WritePath, Dial, SetIpc, phone
<1>3. ASSUME NEW o \in Ops, NEW answer, Answer(o, answer)
      PROVE (overlapped => overlapped') /\ (broke => broke')
  <2>1. UNCHANGED overlapped  BY <1>3 DEF Answer, phone
  <2>2. broke => broke'  BY <1>3, Zenon DEF Answer
  <2> QED BY <2>1, <2>2
<1>4. CASE CallMain \/ UNCHANGED connectVars  BY <1>4 DEF CallMain, connectVars
<1> QED BY <1>1, <1>2, <1>3, <1>4 DEF ConnectNext

LEMMA ConnectInvStep == ConnectInv /\ [ConnectNext]_connectVars => ConnectInv'
<1> SUFFICES ASSUME ConnectInv, [ConnectNext]_connectVars PROVE ConnectInv'  OBVIOUS
<1>1. Shape'  BY ConnectShapeStep DEF ConnectInv
<1>2. ~overlapped' => OneAtATime' /\ SetUp'  BY <1>1, ConnectHistoryStep, SetUpStep DEF ConnectInv
<1>3. ~overlapped' /\ ~broke' => Chosen'  BY <1>1, ConnectHistoryStep, ChosenStep DEF ConnectInv
<1> QED BY <1>1, <1>2, <1>3 DEF ConnectInv

LEMMA ConnectInvInit == ConnectInit => ConnectInv
<1> SUFFICES ASSUME ConnectInit PROVE ConnectInv  OBVIOUS
<1>1. Shape
  <2>1. op \in [Ops -> [at : States, path : Paths \cup {Nothing}]]  BY DEF ConnectInit, States
  <2>2. isConnected \in BOOLEAN /\ overlapped \in BOOLEAN /\ broke \in BOOLEAN  BY Zenon DEF ConnectInit
  <2>3. main \in Seq(Ops \X {"didConnect", "errorOnConnect"})  BY DEF ConnectInit
  <2> QED BY <2>1, <2>2, <2>3 DEF ConnectInit, Shape
<1>2. OneAtATime /\ SetUp  BY DEF ConnectInit, OneAtATime, SetUp, UnderWay, At
<1>3. Chosen  BY DEF ConnectInit, Chosen, At
<1> QED BY <1>1, <1>2, <1>3 DEF ConnectInv

LEMMA ConnectInvAlways == ConnectSpec => []ConnectInv
BY ConnectInvInit, ConnectInvStep, PTL DEF ConnectSpec

\* Requests that do not overlap set the connection up once, however many there are
\* (connectToPath and didConnect of XMMSClient.m).
THEOREM SetUpOnceCorrect == ConnectSpec => []SetUpOnce
<1>1. ConnectInv => SetUpOnce  BY DEF ConnectInv, SetUp, SetUpOnce
<1> QED BY <1>1, ConnectInvAlways, PTL

\* Connected means connected with the server asked for, which has accepted, when
\* requests do not overlap and no connection breaks during its hello.
THEOREM ConnectedAsAskedCorrect == ConnectSpec => []ConnectedAsAsked
<1>1. ConnectInv => ConnectedAsAsked  BY DEF ConnectInv, Chosen, Dialled, ConnectedAsAsked
<1> QED BY <1>1, ConnectInvAlways, PTL

-----------------------------------------------------------------------------
(* Visualization: an application that awaits and heeds every answer is safe, *)
(* and the server knows the data sets that work.                            *)

DataSets == [at : {"unused", "live", "freed"}, type : {"shm", "none", "udp"},
             state : {"new", "trying", "working", "errored"}, id : Ids \cup {0},
             open : BOOLEAN, grace : BOOLEAN]
Replies == [of : Sets, to : {"register", "start"}, answer : Ids \cup {Error}]
Syncs == {x \in [of : Sets \cup {Nobody}, flying : 0..Rounds, got : 0..Rounds, lost : BOOLEAN] :
            x.flying + x.got <= Rounds}
Faults == {"freed", "no result", "left open", "closed 0"}

VisType ==
  /\ set \in [Sets -> DataSets]
  /\ reply \subseteq Replies
  /\ server \in [Ids -> Sets \cup {Nobody}]
  /\ sync \in Syncs
  /\ rude \in BOOLEAN /\ again \in BOOLEAN
  /\ faults \subseteq Faults

\* Only a data set that is being started or works has sockets to close, and when they
\* are not open then the answer to the start is still to be handled.
DataSetOk(s) ==
  /\ set[s].at # "live" => ~set[s].open /\ set[s].type = "shm" /\ set[s].state = "new"
  /\ set[s].open => set[s].type = "udp"
  /\ set[s].type = "udp" <=> set[s].state \in {"trying", "working"}
  /\ set[s].type = "udp" /\ ~set[s].open => \E r \in reply : r.of = s

\* An answer finds its data set as the call has left it, and is the only one.
ReplyOk(r) ==
  /\ set[r.of].at = "live" /\ ~set[r.of].open
  /\ r.to = "register" => set[r.of].type = "shm" /\ set[r.of].state = "new"
  /\ r.to = "start" => set[r.of].type = "udp" /\ set[r.of].state = "trying"
  /\ \A q \in reply : q.of = r.of => q = r

InStep ==
  /\ faults = {}
  /\ \A s \in Sets : DataSetOk(s)
  /\ \A r \in reply : ReplyOk(r)
  /\ sync.of \in Sets => set[sync.of].open

\* The server knows every data set that is registered and has not failed, and every
\* one whose registration it has just confirmed.
KnownByServer ==
  /\ \A s \in Sets : set[s].type # "shm" /\ set[s].state # "errored" => Vis!Knows(s, set[s].id)
  /\ \A r \in reply : r.to = "register" /\ r.answer # Error => Vis!Knows(r.of, r.answer)

VisInv == VisType /\ (~rude => InStep /\ (~again => KnownByServer))

\* Nothing but a call of the application makes it rude, and nothing polite again.
LEMMA VisHistoryStep == [Vis!Next]_vis => (rude => rude') /\ (again => again')
<1> SUFFICES ASSUME [Vis!Next]_vis PROVE (rude => rude') /\ (again => again')  OBVIOUS
<1>0. \A i, s : Vis!Goodbye(i, s) => (again => again')
  BY Zenon DEF Vis!Goodbye
<1>p. \A s, b : Vis!Politely(s, b) => (rude => rude')
  BY Zenon DEF Vis!Politely
<1>1. ASSUME NEW s \in Sets, Vis!Register(s) PROVE UNCHANGED <<rude, again>>
  BY <1>1 DEF Vis!Register
<1>2. ASSUME NEW s \in Sets, Vis!StartNew(s) \/ Vis!StartAgain(s)
      PROVE (rude => rude') /\ UNCHANGED again
  BY <1>2, <1>p DEF Vis!StartNew, Vis!StartAgain
<1>3. ASSUME NEW s \in Sets, Vis!Shutdown(s) PROVE (rude => rude') /\ (again => again')
  BY <1>3, <1>0, <1>p DEF Vis!Shutdown
<1>4. ASSUME NEW s \in Sets, NEW much, Vis!ChunkGet(s, much) PROVE UNCHANGED <<rude, again>>
  BY <1>4 DEF Vis!ChunkGet
<1>5. ASSUME NEW r \in reply, Vis!RegisterHandle(r) PROVE UNCHANGED <<rude, again>>
  BY <1>5 DEF Vis!RegisterHandle
<1>6. ASSUME NEW r \in reply, Vis!StartHandle(r) PROVE UNCHANGED rude /\ (again => again')
  BY <1>6, <1>0 DEF Vis!StartHandle
<1>7. CASE Vis!Recv \/ Vis!Lose \/ Vis!Synced
  BY <1>7 DEF Vis!Recv, Vis!Lose, Vis!Synced
<1>8. CASE UNCHANGED vis
  BY <1>8 DEF vis
<1> QED
  <2>1. CASE UNCHANGED <<rude, again>>  BY <2>1
  <2>2. Vis!Next \/ UNCHANGED vis  OBVIOUS
  <2> QED BY <1>1, <1>2, <1>3, <1>4, <1>5, <1>6, <1>7, <1>8, <2>1, <2>2 DEF Vis!Next

\* What the calls make of a data set.
LEMMA DataSetChanges ==
  ASSUME NEW v \in DataSets
  PROVE  /\ [v EXCEPT !.at = "live"] \in DataSets
         /\ \A i \in Ids : Vis!Named(v, i) \in DataSets
         /\ [[v EXCEPT !.type = "udp"] EXCEPT !.state = "trying"] \in DataSets
         /\ [v EXCEPT !.state = "errored"] \in DataSets
         /\ [v EXCEPT !.state = "working"] \in DataSets
         /\ Vis!Failed(v) \in DataSets
         /\ [v EXCEPT !.open = TRUE] \in DataSets
         /\ \A much \in BOOLEAN : [v EXCEPT !.grace = much] \in DataSets
         /\ [Vis!Unused EXCEPT !.at = "freed"] \in DataSets
         /\ Vis!Unused \in DataSets
BY DEF DataSets, Vis!Named, Vis!Failed, Vis!Unused

LEMMA SyncChanges ==
  /\ Vis!NoSync \in Syncs
  /\ \A s \in Sets : Vis!Exchange(s) => sync' \in Syncs
  /\ sync \in Syncs /\ (Vis!Recv \/ Vis!Lose) => sync' \in Syncs
<1>1. Vis!NoSync \in Syncs  BY PartsAssumption DEF Vis!NoSync, Syncs
<1>2. ASSUME NEW s \in Sets, Vis!Exchange(s) PROVE sync' \in Syncs
  <2>1. sync' = [of |-> s, flying |-> Rounds, got |-> 0, lost |-> FALSE]
    BY <1>2 DEF Vis!Exchange, Vis!NoSync
  <2> QED BY <2>1, PartsAssumption DEF Syncs
<1>3. ASSUME sync \in Syncs, Vis!Recv \/ Vis!Lose PROVE sync' \in Syncs
  <2>1. PICK v : v = sync  OBVIOUS
  <2>2. v \in [of : Sets \cup {Nobody}, flying : 0..Rounds, got : 0..Rounds, lost : BOOLEAN]
        /\ v.flying + v.got <= Rounds
    BY <1>3, <2>1 DEF Syncs
  <2>3. v.flying > 0 /\ (sync' = [v EXCEPT !.flying = v.flying - 1, !.got = v.got + 1]
                         \/ sync' = [v EXCEPT !.flying = v.flying - 1, !.lost = TRUE])
    BY <1>3, <2>1 DEF Vis!Recv, Vis!Lose
  <2>4. v.flying - 1 \in 0..Rounds /\ v.got \in Nat /\ v.got + 1 \in 0..Rounds
        /\ (v.flying - 1) + v.got <= Rounds /\ (v.flying - 1) + (v.got + 1) <= Rounds
    BY <2>2, <2>3, PartsAssumption
  <2>5. CASE sync' = [v EXCEPT !.flying = v.flying - 1, !.got = v.got + 1]
    BY <2>2, <2>4, <2>5 DEF Syncs
  <2>6. CASE sync' = [v EXCEPT !.flying = v.flying - 1, !.lost = TRUE]
    BY <2>2, <2>4, <2>6 DEF Syncs
  <2> QED BY <2>3, <2>5, <2>6
<1> QED BY <1>1, <1>2, <1>3

LEMMA VisTypeStep == ASSUME VisType, [Vis!Next]_vis PROVE VisType'
<1>p. \A s, b : Vis!Politely(s, b) => rude' \in BOOLEAN
  BY Zenon DEF Vis!Politely
<1>g. \A i, s : Vis!Goodbye(i, s) => again' \in BOOLEAN
  BY Zenon DEF Vis!Goodbye
<1>h. \A i, s : Vis!Goodbye(i, s) => server' \in [Ids -> Sets \cup {Nobody}]
  BY DEF Vis!Goodbye, VisType
<1>w. \A x \in Faults : faults \subseteq Faults /\ Vis!Wrong({x}) => faults' \subseteq Faults
  BY DEF Vis!Wrong
<1>v. faults \subseteq Faults /\ Vis!Wrong({}) => faults' \subseteq Faults
  BY DEF Vis!Wrong
<1>x. "freed" \in Faults /\ "no result" \in Faults /\ "left open" \in Faults /\ "closed 0" \in Faults
  BY DEF Faults
<1> USE DEF VisType
<1>1. ASSUME NEW s \in Sets, Vis!Register(s) PROVE VisType'
  <2>1. set' = [set EXCEPT ![s] = [set[s] EXCEPT !.at = "live"]]
    BY <1>1 DEF Vis!Register
  <2>2. set' \in [Sets -> DataSets]  BY <2>1, DataSetChanges
  <2>3. reply' \subseteq Replies /\ server' \in [Ids -> Sets \cup {Nobody}]
    BY <1>1 DEF Vis!Register, Replies
  <2> QED BY <1>1, <2>2, <2>3 DEF Vis!Register
<1>2. ASSUME NEW s \in Sets, Vis!StartNew(s) PROVE VisType'
  <2>1. reply' \subseteq Replies
    BY <1>2 DEF Vis!StartNew, Replies
  <2>2. PICK v \in DataSets : v = set[s]  OBVIOUS
  <2>3. set' = [set EXCEPT ![s] = [[v EXCEPT !.type = "udp"] EXCEPT !.state = "trying"]]
    BY <1>2, <2>2 DEF Vis!StartNew
  <2>4. set' \in [Sets -> DataSets]  BY <2>3, DataSetChanges
  <2>5. rude' \in BOOLEAN  BY <1>2, <1>p DEF Vis!StartNew
  <2> QED BY <1>2, <2>1, <2>4, <2>5 DEF Vis!StartNew
<1>3. ASSUME NEW s \in Sets, Vis!StartAgain(s) PROVE VisType'
  <2>1. set' = set \/ set' = [set EXCEPT ![s] = [set[s] EXCEPT !.state = "errored"]]
    BY <1>3, Zenon DEF Vis!StartAgain
  <2>2. set' \in [Sets -> DataSets]
    <3>1. [set[s] EXCEPT !.state = "errored"] \in DataSets  BY DataSetChanges
    <3> QED BY <2>1, <3>1
  <2>3. rude' \in BOOLEAN  BY <1>3, <1>p DEF Vis!StartAgain
  <2>4. faults' \subseteq Faults  BY <1>3, <1>w, <1>x DEF Vis!StartAgain
  <2> QED BY <1>3, <2>2, <2>3, <2>4 DEF Vis!StartAgain
<1>4. ASSUME NEW s \in Sets, Vis!Shutdown(s) PROVE VisType'
  <2>1. set' = [set EXCEPT ![s] = [Vis!Unused EXCEPT !.at = "freed"]]
    BY <1>4 DEF Vis!Shutdown
  <2>2. set' \in [Sets -> DataSets]  BY <2>1, DataSetChanges
  <2>3. PICK v \in DataSets : v = set[s]  OBVIOUS
  <2>4. Vis!Wrong({}) \/ Vis!Wrong({"left open"}) \/ Vis!Wrong({"closed 0"})
    BY <1>4 DEF Vis!Shutdown
  <2>5. faults' \subseteq Faults  BY <2>4, <1>v, <1>w, <1>x
  <2>6. rude' \in BOOLEAN /\ again' \in BOOLEAN /\ server' \in [Ids -> Sets \cup {Nobody}]
    BY <1>4, <1>p, <1>g, <1>h DEF Vis!Shutdown
  <2> QED BY <1>4, <2>2, <2>5, <2>6 DEF Vis!Shutdown
<1>5. ASSUME NEW s \in Sets, NEW much \in BOOLEAN, Vis!ChunkGet(s, much) PROVE VisType'
  <2>1. set' = [set EXCEPT ![s] = [set[s] EXCEPT !.grace = much]]
    BY <1>5 DEF Vis!ChunkGet
  <2>2. set' \in [Sets -> DataSets]
    <3>1. [set[s] EXCEPT !.grace = much] \in DataSets  BY DataSetChanges
    <3> QED BY <2>1, <3>1
  <2>3. sync' = sync \/ Vis!Exchange(s)  BY <1>5, Zenon DEF Vis!ChunkGet
  <2>4. sync' \in Syncs  BY <2>3, SyncChanges
  <2> QED BY <1>5, <2>2, <2>4 DEF Vis!ChunkGet
<1>6. ASSUME NEW r \in reply, Vis!RegisterHandle(r) PROVE VisType'
  <2>1. r.of \in Sets /\ (r.answer # Error => r.answer \in Ids)
    BY DEF Replies
  <2>2. \/ set' = set
        \/ /\ r.answer \in Ids
           /\ set' = [set EXCEPT ![r.of] = Vis!Named(set[r.of], r.answer)]
    BY <1>6, <2>1 DEF Vis!RegisterHandle
  <2>3. set' \in [Sets -> DataSets]
    <3>1. r.answer \in Ids => Vis!Named(set[r.of], r.answer) \in DataSets
      BY <2>1, DataSetChanges
    <3> QED BY <2>1, <2>2, <3>1
  <2>4. Vis!Wrong({}) \/ Vis!Wrong({"freed"})
    BY <1>6 DEF Vis!RegisterHandle
  <2>5. faults' \subseteq Faults  BY <2>4, <1>v, <1>w, <1>x
  <2> QED BY <1>6, <2>3, <2>5 DEF Vis!RegisterHandle
<1>7. ASSUME NEW r \in reply, Vis!StartHandle(r) PROVE VisType'
  <2>1. r.of \in Sets /\ reply' = reply \ {r} /\ UNCHANGED rude
    BY <1>7 DEF Vis!StartHandle, Replies
  <2>2. ASSUME set' = [set EXCEPT ![r.of] = Vis!Failed(set[r.of])], Vis!Goodbye(set[r.of].id, r.of),
               UNCHANGED <<sync, faults>>
        PROVE  VisType'
    <3>1. set' \in [Sets -> DataSets]  BY <2>1, <2>2, DataSetChanges
    <3> QED BY <1>g, <1>h, <2>1, <2>2, <3>1
  <2>3. ASSUME set' = [set EXCEPT ![r.of] = [set[r.of] EXCEPT !.open = TRUE]], Vis!Exchange(r.of),
               UNCHANGED <<server, again, faults>>
        PROVE  VisType'
    <3>1. set' \in [Sets -> DataSets]  BY <2>1, <2>3, DataSetChanges
    <3>2. sync' \in Syncs  BY <2>1, <2>3, SyncChanges
    <3> QED BY <2>1, <2>3, <3>1, <3>2
  <2>4. ASSUME UNCHANGED <<set, sync, server, again>>, UNCHANGED faults \/ Vis!Wrong({"freed"})
        PROVE  VisType'
    BY <1>w, <1>x, <2>1, <2>4
  <2> QED BY <1>7, <2>2, <2>3, <2>4 DEF Vis!StartHandle
<1>8. CASE Vis!Recv \/ Vis!Lose
  BY <1>8, SyncChanges DEF Vis!Recv, Vis!Lose
<1>9. CASE Vis!Synced
  <2>1. set' = [set EXCEPT ![sync.of] = [set[sync.of] EXCEPT !.state = "working"]] /\ sync' = Vis!NoSync
    BY <1>9 DEF Vis!Synced
  <2>2. set' \in [Sets -> DataSets]  BY <2>1, DataSetChanges
  <2> QED BY <1>9, <2>1, <2>2, SyncChanges DEF Vis!Synced
<1>10. CASE UNCHANGED vis
  BY <1>10 DEF vis
<1> QED BY <1>1, <1>2, <1>3, <1>4, <1>5, <1>6, <1>7, <1>8, <1>9, <1>10 DEF Vis!Next

\* A call about the data set s does not concern the others.
LEMMA OthersInStep ==
  ASSUME VisType, InStep, NEW s \in Sets, faults' = {},
         \A t \in Sets : t # s => set'[t] = set[t],
         \A r \in reply \cup reply' : r.of # s => r \in reply /\ r \in reply',
         reply' \subseteq Replies,
         DataSetOk(s)',
         \A r \in reply' : r.of = s => ReplyOk(r)',
         sync'.of \in Sets => set'[sync'.of].open
  PROVE  InStep'
<1>1. ASSUME NEW t \in Sets, t # s PROVE DataSetOk(t)'
  BY <1>1 DEF InStep, DataSetOk
<1>2. ASSUME NEW r \in reply', r.of # s PROVE ReplyOk(r)'
  <2>1. r \in reply /\ r.of \in Sets  BY <1>2 DEF Replies
  <2>2. ReplyOk(r) /\ set'[r.of] = set[r.of]  BY <1>2, <2>1 DEF InStep
  <2>3. \A q \in reply' : q.of = r.of => q = r  BY <1>2, <2>2 DEF ReplyOk
  <2> QED BY <2>2, <2>3 DEF ReplyOk
<1> QED BY <1>1, <1>2 DEF InStep

LEMMA InStepStep ==
  ASSUME VisType, VisType', InStep, [Vis!Next]_vis, ~rude' PROVE InStep'
<1>p. \A s, b : Vis!Politely(s, b) => b /\ set[s].type # "shm" /\ \A r \in reply : r.of # s
  BY Zenon DEF Vis!Politely
<1>w. Vis!Wrong({}) => faults' = {}
  BY DEF Vis!Wrong, InStep
<1>x. faults = {}  BY DEF InStep
<1>1. ASSUME NEW s \in Sets, Vis!Register(s) PROVE InStep'
  <2>1. \A r \in reply : r.of # s
    BY <1>1 DEF Vis!Register, InStep, ReplyOk
  <2>2. PICK q \in reply' : q.of = s /\ q.to = "register" /\ reply' = reply \cup {q}
    BY <1>1 DEF Vis!Register
  <2>3. set' = [set EXCEPT ![s] = [set[s] EXCEPT !.at = "live"]]
    BY <1>1 DEF Vis!Register
  <2>4. \A t \in Sets : t # s => set'[t] = set[t]
    BY <2>3 DEF VisType
  <2>5. /\ set'[s].at = "live" /\ ~set'[s].open
        /\ set'[s].type = "shm" /\ set'[s].state = "new"
    <3>1. DataSetOk(s) /\ set[s] \in DataSets /\ set[s].at = "unused"
      BY <1>1 DEF InStep, VisType, Vis!Register
    <3> QED BY <2>3, <3>1 DEF DataSetOk, VisType, DataSets
  <2>6. DataSetOk(s)'
    BY <2>5 DEF DataSetOk
  <2>7. ASSUME NEW r \in reply', r.of = s PROVE ReplyOk(r)'
    <3>1. r = q /\ \A o \in reply' : o.of = s => o = q
      BY <2>1, <2>2, <2>7
    <3> QED BY <2>2, <2>5, <3>1 DEF ReplyOk
  <2>8. sync'.of \in Sets => set'[sync'.of].open
    <3>1. sync' = sync /\ sync = Vis!NoSync  BY <1>1 DEF Vis!Register, Vis!Idle
    <3> QED BY <3>1, PartsAssumption DEF Vis!NoSync
  <2>9. faults' = {}  BY <1>1, <1>x DEF Vis!Register
  <2> QED BY <2>1, <2>2, <2>4, <2>6, <2>7, <2>8, <2>9, OthersInStep DEF VisType
<1>2. ASSUME NEW s \in Sets, Vis!StartNew(s) PROVE InStep'
  <2>1. \A r \in reply : r.of # s
    BY <1>2, <1>p DEF Vis!StartNew
  <2>2. PICK q \in reply' : q.of = s /\ q.to = "start" /\ reply' = reply \cup {q}
    BY <1>2 DEF Vis!StartNew
  <2>3. PICK v \in DataSets : v = set[s]  BY DEF VisType
  <2>4. set' = [set EXCEPT ![s] = [[v EXCEPT !.type = "udp"] EXCEPT !.state = "trying"]]
    BY <1>2, <2>3 DEF Vis!StartNew
  <2>5. \A t \in Sets : t # s => set'[t] = set[t]
    BY <2>4 DEF VisType
  <2>6. /\ set'[s].at = "live" /\ ~set'[s].open
        /\ set'[s].type = "udp" /\ set'[s].state = "trying"
    <3>1. DataSetOk(s) /\ v.at = "live" /\ v.state = "new"
      BY <1>2, <2>3 DEF InStep, Vis!StartNew, Vis!Live
    <3>2. v.type # "udp" /\ ~v.open
      BY <2>3, <3>1 DEF DataSetOk
    <3> QED BY <2>4, <3>1, <3>2 DEF VisType, DataSets
  <2>7. DataSetOk(s)'
    BY <2>2, <2>6 DEF DataSetOk
  <2>8. ASSUME NEW r \in reply', r.of = s PROVE ReplyOk(r)'
    <3>1. r = q /\ \A o \in reply' : o.of = s => o = q
      BY <2>1, <2>2, <2>8
    <3> QED BY <2>2, <2>6, <3>1 DEF ReplyOk
  <2>9. sync'.of \in Sets => set'[sync'.of].open
    <3>1. sync' = sync /\ sync = Vis!NoSync  BY <1>2 DEF Vis!StartNew, Vis!Idle
    <3> QED BY <3>1, PartsAssumption DEF Vis!NoSync
  <2>10. faults' = {}  BY <1>2, <1>x DEF Vis!StartNew
  <2> QED BY <2>1, <2>2, <2>5, <2>7, <2>8, <2>9, <2>10, OthersInStep DEF VisType
<1>3. ASSUME NEW s \in Sets, Vis!StartAgain(s) PROVE InStep'
  BY <1>3, <1>p DEF Vis!StartAgain
<1>4. ASSUME NEW s \in Sets, Vis!Shutdown(s) PROVE InStep'
  <2>1. \A r \in reply : r.of # s
    BY <1>4, <1>p DEF Vis!Shutdown
  <2>2. set' = [set EXCEPT ![s] = [Vis!Unused EXCEPT !.at = "freed"]] /\ reply' = reply
    BY <1>4 DEF Vis!Shutdown
  <2>3. \A t \in Sets : t # s => set'[t] = set[t]
    BY <2>2 DEF VisType
  <2>4. DataSetOk(s)'
    <3>1. set'[s] = [Vis!Unused EXCEPT !.at = "freed"]  BY <2>2 DEF VisType
    <3> QED BY <3>1 DEF Vis!Unused, DataSetOk
  <2>5. sync'.of \in Sets => set'[sync'.of].open
    <3>1. sync' = sync /\ sync = Vis!NoSync  BY <1>4 DEF Vis!Shutdown, Vis!Idle
    <3> QED BY <3>1, PartsAssumption DEF Vis!NoSync
  <2>6. Vis!Closes(set[s]) = set[s].open
    <3>1. DataSetOk(s) /\ set[s] \in DataSets  BY DEF InStep, VisType
    <3>2. set[s].open \in BOOLEAN  BY <3>1 DEF DataSets
    <3>3. set[s].type = "udp" <=> set[s].open  BY <2>1, <3>1 DEF DataSetOk
    <3> QED BY <3>2, <3>3, Zenon DEF Vis!Closes
  <2>7. faults' = {}
    <3>1. Vis!Wrong({})  BY <1>4, <2>6 DEF Vis!Shutdown
    <3> QED BY <3>1, <1>w
  <2> QED BY <2>1, <2>2, <2>3, <2>4, <2>5, <2>7, OthersInStep DEF VisType
<1>5. ASSUME NEW s \in Sets, NEW much \in BOOLEAN, Vis!ChunkGet(s, much) PROVE InStep'
  <2>1. PICK v \in DataSets : v = set[s]  BY DEF VisType
  <2>2. set' = [set EXCEPT ![s] = [v EXCEPT !.grace = much]] /\ reply' = reply
    BY <1>5, <2>1 DEF Vis!ChunkGet
  <2>3. \A t \in Sets : t # s => set'[t] = set[t]
    BY <2>2 DEF VisType
  <2>4. /\ set'[s].at = v.at /\ set'[s].open = v.open /\ set'[s].type = v.type
        /\ set'[s].state = v.state
    BY <2>1, <2>2 DEF VisType, DataSets
  <2>5. DataSetOk(s) /\ DataSetOk(s)'
    BY <2>1, <2>2, <2>4 DEF DataSetOk, InStep
  <2>6. ASSUME NEW r \in reply', r.of = s PROVE ReplyOk(r)'
    BY <2>1, <2>2, <2>4, <2>6 DEF ReplyOk, InStep
  <2>7. v.state = "working" /\ v.open
    <3>1. v.state = "working" /\ v.type = "udp"  BY <1>5, <2>1 DEF Vis!ChunkGet
    <3>2. ASSUME ~v.open PROVE FALSE
      <4>1. PICK r \in reply : r.of = s  BY <2>1, <2>5, <3>1, <3>2 DEF DataSetOk
      <4>2. ReplyOk(r) /\ r \in Replies  BY DEF InStep, VisType
      <4> QED BY <2>1, <3>1, <4>1, <4>2 DEF ReplyOk, Replies
    <3> QED BY <3>1, <3>2
  <2>8. sync'.of \in Sets => set'[sync'.of].open
    <3>1. sync = Vis!NoSync /\ (sync' = sync \/ Vis!Exchange(s))
      BY <1>5, Zenon DEF Vis!ChunkGet, Vis!Idle
    <3>2. Vis!Exchange(s) => sync'.of = s  BY DEF Vis!Exchange, Vis!NoSync
    <3>3. Vis!NoSync.of \notin Sets  BY PartsAssumption DEF Vis!NoSync
    <3> QED BY <2>4, <2>7, <3>1, <3>2, <3>3
  <2>9. faults' = {}  BY <1>5, <1>x DEF Vis!ChunkGet
  <2> QED BY <2>2, <2>3, <2>5, <2>6, <2>8, <2>9, OthersInStep DEF VisType
<1>6. ASSUME NEW r \in reply, Vis!RegisterHandle(r) PROVE InStep'
  <2>1. PICK s \in Sets : s = r.of  BY DEF VisType, Replies
  <2>2. ReplyOk(r) /\ r.to = "register" /\ reply' = reply \ {r}
    BY <1>6 DEF InStep, Vis!RegisterHandle
  <2>3. /\ set[s].at = "live" /\ ~set[s].open /\ set[s].type = "shm" /\ set[s].state = "new"
        /\ \A q \in reply' : q.of # s
    BY <2>1, <2>2 DEF ReplyOk
  <2>4. set' = set \/ set' = [set EXCEPT ![s] = Vis!Named(set[s], r.answer)]
    BY <1>6, <2>1 DEF Vis!RegisterHandle
  <2>5. \A t \in Sets : t # s => set'[t] = set[t]
    BY <2>4 DEF VisType
  <2>6. DataSetOk(s)'
    <3>1. set'[s] = set[s] \/ set'[s] = Vis!Named(set[s], r.answer)
      BY <2>4 DEF VisType
    <3>2. set[s] \in DataSets  BY DEF VisType
    <3>3. /\ set'[s].at = "live" /\ ~set'[s].open /\ set'[s].type # "udp" /\ set'[s].state = "new"
      BY <2>3, <3>1, <3>2 DEF Vis!Named, DataSets
    <3> QED BY <3>3 DEF DataSetOk
  <2>7. sync'.of \in Sets => set'[sync'.of].open
    <3>1. sync' = sync /\ sync = Vis!NoSync  BY <1>6 DEF Vis!RegisterHandle, Vis!Idle
    <3> QED BY <3>1, PartsAssumption DEF Vis!NoSync
  <2>8. faults' = {}
    <3>1. Vis!Wrong({})  BY <1>6, <2>1, <2>3 DEF Vis!RegisterHandle, Vis!Live
    <3> QED BY <3>1, <1>w
  <2> QED BY <2>1, <2>2, <2>3, <2>5, <2>6, <2>7, <2>8, OthersInStep DEF VisType
<1>7. ASSUME NEW r \in reply, Vis!StartHandle(r) PROVE InStep'
  <2>1. PICK s \in Sets : s = r.of  BY DEF VisType, Replies
  <2>2. ReplyOk(r) /\ r.to = "start" /\ reply' = reply \ {r}
    BY <1>7 DEF InStep, Vis!StartHandle
  <2>3. /\ set[s].at = "live" /\ ~set[s].open /\ set[s].type = "udp" /\ set[s].state = "trying"
        /\ \A q \in reply' : q.of # s
    BY <2>1, <2>2 DEF ReplyOk
  <2>4. PICK v \in DataSets : v = set[s]  BY DEF VisType
  <2>5. sync = Vis!NoSync  BY <1>7 DEF Vis!StartHandle, Vis!Idle
  <2>6. CASE set' = [set EXCEPT ![s] = Vis!Failed(v)] /\ UNCHANGED <<sync, faults>>
    <3>1. \A t \in Sets : t # s => set'[t] = set[t]
      BY <2>6 DEF VisType
    <3>2. DataSetOk(s)'
      <4>1. set'[s] = Vis!Failed(v)  BY <2>6 DEF VisType
      <4>2. /\ set'[s].at = "live" /\ ~set'[s].open /\ set'[s].type = "none"
            /\ set'[s].state = "errored"
        BY <2>3, <2>4, <4>1 DEF Vis!Failed, DataSets
      <4> QED BY <4>2 DEF DataSetOk
    <3>3. sync'.of \in Sets => set'[sync'.of].open
      BY <2>5, <2>6, PartsAssumption DEF Vis!NoSync
    <3>4. faults' = {}  BY <2>6, <1>x
    <3> QED BY <2>1, <2>2, <2>3, <3>1, <3>2, <3>3, <3>4, OthersInStep DEF VisType
  <2>7. CASE set' = [set EXCEPT ![s] = [v EXCEPT !.open = TRUE]] /\ Vis!Exchange(s)
             /\ UNCHANGED faults
    <3>1. \A t \in Sets : t # s => set'[t] = set[t]
      BY <2>7 DEF VisType
    <3>2. set'[s] = [v EXCEPT !.open = TRUE]  BY <2>7 DEF VisType
    <3>3. /\ set'[s].at = "live" /\ set'[s].open /\ set'[s].type = "udp"
          /\ set'[s].state = "trying"
      BY <2>3, <2>4, <3>2 DEF DataSets
    <3>4. DataSetOk(s)'
      BY <3>3 DEF DataSetOk
    <3>5. sync'.of = s  BY <2>7 DEF Vis!Exchange, Vis!NoSync
    <3>6. faults' = {}  BY <2>7, <1>x
    <3> QED BY <2>1, <2>2, <2>3, <3>1, <3>3, <3>4, <3>5, <3>6, OthersInStep DEF VisType
  <2>8. /\ Vis!Live(r.of)
        /\ set[r.of].state = "trying"
    BY <2>1, <2>3 DEF Vis!Live
  <2> QED BY <1>7, <2>1, <2>4, <2>6, <2>7, <2>8 DEF Vis!StartHandle
<1>8. CASE Vis!Recv \/ Vis!Lose
  <2>1. UNCHANGED <<set, reply, faults>>
    BY <1>8 DEF Vis!Recv, Vis!Lose
  <2>2. sync'.of = sync.of
    BY <1>8 DEF VisType, Syncs, Vis!Recv, Vis!Lose
  <2> QED BY <2>1, <2>2 DEF InStep, DataSetOk, ReplyOk
<1>9. CASE Vis!Synced
  <2>1. UNCHANGED <<reply, faults>> /\ sync' = Vis!NoSync
        /\ set' = [set EXCEPT ![sync.of] = [set[sync.of] EXCEPT !.state = "working"]]
    BY <1>9 DEF Vis!Synced
  <2>2. sync'.of \notin Sets  BY <2>1, PartsAssumption DEF Vis!NoSync
  <2>3. CASE sync.of \notin Sets
    <3>1. set' = set /\ reply' = reply /\ faults' = faults  BY <2>1, <2>3 DEF VisType
    <3>2. \A s \in Sets : DataSetOk(s)'  BY <3>1 DEF InStep, DataSetOk
    <3>3. \A r \in reply' : ReplyOk(r)'  BY <3>1 DEF InStep, ReplyOk
    <3> QED BY <2>2, <3>1, <3>2, <3>3 DEF InStep
  <2>4. CASE sync.of \in Sets
    <3>1. PICK s \in Sets : s = sync.of  BY <2>4
    <3>2. PICK v \in DataSets : v = set[s]  BY DEF VisType
    <3>3. set' = [set EXCEPT ![s] = [v EXCEPT !.state = "working"]]
      BY <2>1, <3>1, <3>2
    <3>4. \A t \in Sets : t # s => set'[t] = set[t]
      BY <3>3 DEF VisType
    <3>5. DataSetOk(s) /\ v.open
      BY <3>1, <3>2 DEF InStep
    <3>6. v.at = "live" /\ v.type = "udp"
      BY <3>2, <3>5 DEF DataSetOk
    <3>7. set'[s] = [v EXCEPT !.state = "working"]  BY <3>3 DEF VisType
    <3>8. set'[s].at = "live" /\ set'[s].type = "udp" /\ set'[s].open /\ set'[s].state = "working"
      BY <3>2, <3>5, <3>6, <3>7 DEF DataSets
    <3>9. DataSetOk(s)'
      BY <3>8 DEF DataSetOk
    <3>10. \A r \in reply' : r.of # s
      BY <2>1, <3>2, <3>5 DEF InStep, ReplyOk
    <3>11. faults' = {}  BY <2>1, <1>x
    <3> QED BY <2>1, <2>2, <3>4, <3>9, <3>10, <3>11, OthersInStep DEF VisType
  <2> QED BY <2>3, <2>4
<1>10. CASE UNCHANGED vis
  BY <1>10 DEF vis, InStep, DataSetOk, ReplyOk
<1> QED BY <1>1, <1>2, <1>3, <1>4, <1>5, <1>6, <1>7, <1>8, <1>9, <1>10 DEF Vis!Next

\* A goodbye for s leaves the others known to the server, unless it was sent with
\* another's id.
LEMMA GoodbyeKeeps ==
  ASSUME VisType, NEW i, NEW s \in Sets, Vis!Goodbye(i, s), ~again',
         NEW t \in Sets, t # s, NEW j, Vis!Knows(t, j)
  PROVE  j \in Ids /\ server'[j] = t
<1>1. j \in Ids /\ server[j] = t  BY DEF Vis!Knows
<1>2. server' = [k \in Ids |-> IF k = i THEN Nobody ELSE server[k]]
  BY DEF Vis!Goodbye
<1>3. i # j
  <2> SUFFICES ASSUME i = j PROVE again'  OBVIOUS
  <2>1. i \in Ids /\ server[i] \notin {s, Nobody}  BY <1>1, PartsAssumption
  <2> QED BY <2>1, Zenon DEF Vis!Goodbye
<1> QED BY <1>1, <1>2, <1>3

\* A call about the data set s that takes nobody else's id from the server.
LEMMA OthersKnown ==
  ASSUME VisType, KnownByServer, NEW s \in Sets,
         \A t \in Sets : t # s => set'[t] = set[t],
         \A r \in reply' : r.of # s => r \in reply,
         reply' \subseteq Replies,
         \A t \in Sets : \A j : t # s /\ Vis!Knows(t, j) => j \in Ids /\ server'[j] = t,
         set'[s].type # "shm" /\ set'[s].state # "errored"
           => set'[s].id \in Ids /\ server'[set'[s].id] = s,
         \A r \in reply' : r.of = s /\ r.to = "register" /\ r.answer # Error
           => r.answer \in Ids /\ server'[r.answer] = s
  PROVE  KnownByServer'
<1>1. ASSUME NEW t \in Sets, set'[t].type # "shm", set'[t].state # "errored"
      PROVE  set'[t].id \in Ids /\ server'[set'[t].id] = t
  <2>1. CASE t = s  BY <1>1, <2>1
  <2>2. CASE t # s
    <3>1. Vis!Knows(t, set[t].id) /\ set'[t] = set[t]  BY <1>1, <2>2 DEF KnownByServer
    <3> QED BY <2>2, <3>1
  <2> QED BY <2>1, <2>2
<1>2. ASSUME NEW r \in reply', r.to = "register", r.answer # Error
      PROVE  r.answer \in Ids /\ server'[r.answer] = r.of
  <2>1. CASE r.of = s  BY <1>2, <2>1
  <2>2. CASE r.of # s
    <3>1. r \in reply /\ r.of \in Sets  BY <2>2 DEF Replies
    <3>2. Vis!Knows(r.of, r.answer)  BY <1>2, <3>1 DEF KnownByServer
    <3> QED BY <2>2, <3>1, <3>2
  <2> QED BY <2>1, <2>2
<1> QED BY <1>1, <1>2 DEF KnownByServer, Vis!Knows

LEMMA KnownStep ==
  ASSUME VisType, VisType', InStep, KnownByServer, [Vis!Next]_vis, ~rude', ~again'
  PROVE  KnownByServer'
<1>p. \A s, b : Vis!Politely(s, b) => b /\ set[s].type # "shm" /\ \A r \in reply : r.of # s
  BY Zenon DEF Vis!Politely
<1>s. UNCHANGED server => \A t \in Sets : \A j : Vis!Knows(t, j) => j \in Ids /\ server'[j] = t
  BY DEF Vis!Knows
<1>1. ASSUME NEW s \in Sets, Vis!Register(s) PROVE KnownByServer'
  <2>1. \A r \in reply : r.of # s
    BY <1>1 DEF Vis!Register, InStep, ReplyOk
  <2>2. set' = [set EXCEPT ![s] = [set[s] EXCEPT !.at = "live"]]
    BY <1>1 DEF Vis!Register
  <2>3. \A t \in Sets : t # s => set'[t] = set[t]
    BY <2>2 DEF VisType
  <2>4. set'[s].type = "shm"
    <3>1. DataSetOk(s) /\ set[s] \in DataSets /\ set[s].at = "unused"
      BY <1>1 DEF InStep, VisType, Vis!Register
    <3> QED BY <2>2, <3>1 DEF DataSetOk, VisType, DataSets
  <2>5. CASE reply' = reply \cup {[of |-> s, to |-> "register", answer |-> Error]} /\ UNCHANGED server
    <3>1. \A r \in reply' : r.of # s => r \in reply  BY <2>5
    <3>2. \A r \in reply' : r.of = s => r.answer = Error  BY <2>1, <2>5
    <3> QED BY <1>s, <2>3, <2>4, <2>5, <3>1, <3>2, OthersKnown DEF VisType
  <2>6. ASSUME NEW i \in Ids, server[i] = Nobody, server' = [server EXCEPT ![i] = s],
               reply' = reply \cup {[of |-> s, to |-> "register", answer |-> i]}
        PROVE  KnownByServer'
    <3>1. \A r \in reply' : r.of # s => r \in reply  BY <2>6
    <3>2. \A r \in reply' : r.of = s => r.answer = i  BY <2>1, <2>6
    <3>3. server'[i] = s  BY <2>6 DEF VisType
    <3>4. \A t \in Sets : \A j : Vis!Knows(t, j) => j \in Ids /\ server'[j] = t
      BY <2>6, PartsAssumption DEF VisType, Vis!Knows
    <3> QED BY <2>3, <2>4, <2>6, <3>1, <3>2, <3>3, <3>4, OthersKnown DEF VisType
  <2> QED BY <1>1, <2>5, <2>6 DEF Vis!Register
<1>2. ASSUME NEW s \in Sets, Vis!StartNew(s) PROVE KnownByServer'
  <2>1. PICK v \in DataSets : v = set[s]  BY DEF VisType
  <2>2. set' = [set EXCEPT ![s] = [[v EXCEPT !.type = "udp"] EXCEPT !.state = "trying"]]
    BY <1>2, <2>1 DEF Vis!StartNew
  <2>3. \A t \in Sets : t # s => set'[t] = set[t]
    BY <2>2 DEF VisType
  <2>4. set'[s].id = v.id
    BY <2>1, <2>2 DEF VisType, DataSets
  <2>5. v.type # "shm" /\ v.state # "errored"  BY <1>2, <1>p, <2>1 DEF Vis!StartNew
  <2>6. Vis!Knows(s, v.id)  BY <2>1, <2>5 DEF KnownByServer
  <2>7. UNCHANGED server  BY <1>2 DEF Vis!StartNew
  <2>8. \A r \in reply' : r \in reply \/ (r.of = s /\ r.to = "start")
    BY <1>2 DEF Vis!StartNew
  <2>9. \A r \in reply : r.of # s
    BY <1>2, <1>p DEF Vis!StartNew
  <2> QED BY <1>s, <2>3, <2>4, <2>6, <2>7, <2>8, <2>9, OthersKnown DEF VisType
<1>3. ASSUME NEW s \in Sets, Vis!StartAgain(s) PROVE KnownByServer'
  BY <1>3, <1>p DEF Vis!StartAgain
<1>4. ASSUME NEW s \in Sets, Vis!Shutdown(s) PROVE KnownByServer'
  <2>1. set' = [set EXCEPT ![s] = [Vis!Unused EXCEPT !.at = "freed"]] /\ reply' = reply
    BY <1>4 DEF Vis!Shutdown
  <2>2. \A t \in Sets : t # s => set'[t] = set[t]
    BY <2>1 DEF VisType
  <2>3. set'[s].type = "shm"
    <3>1. set'[s] = [Vis!Unused EXCEPT !.at = "freed"]  BY <2>1 DEF VisType
    <3> QED BY <3>1 DEF Vis!Unused
  <2>4. \A r \in reply : r.of # s
    BY <1>4, <1>p DEF Vis!Shutdown
  <2>5. Vis!Goodbye(set[s].id, s)  BY <1>4 DEF Vis!Shutdown
  <2>6. \A t \in Sets : \A j : t # s /\ Vis!Knows(t, j) => j \in Ids /\ server'[j] = t
    BY <2>5, GoodbyeKeeps
  <2> QED BY <2>1, <2>2, <2>3, <2>4, <2>6, OthersKnown DEF VisType
<1>5. ASSUME NEW s \in Sets, NEW much \in BOOLEAN, Vis!ChunkGet(s, much) PROVE KnownByServer'
  <2>1. PICK v \in DataSets : v = set[s]  BY DEF VisType
  <2>2. set' = [set EXCEPT ![s] = [v EXCEPT !.grace = much]] /\ reply' = reply /\ UNCHANGED server
    BY <1>5, <2>1 DEF Vis!ChunkGet
  <2>3. \A t \in Sets : t # s => set'[t] = set[t]
    BY <2>2 DEF VisType
  <2>4. set'[s].type = v.type /\ set'[s].state = v.state /\ set'[s].id = v.id
    BY <2>1, <2>2 DEF VisType, DataSets
  <2> QED BY <1>s, <2>1, <2>2, <2>3, <2>4 DEF KnownByServer, Vis!Knows
<1>6. ASSUME NEW r \in reply, Vis!RegisterHandle(r) PROVE KnownByServer'
  <2>1. PICK s \in Sets : s = r.of  BY DEF VisType, Replies
  <2>2. ReplyOk(r) /\ r.to = "register" /\ reply' = reply \ {r} /\ UNCHANGED server
    BY <1>6 DEF InStep, Vis!RegisterHandle
  <2>3. set[s].type = "shm" /\ \A q \in reply' : q.of # s
    BY <2>1, <2>2 DEF ReplyOk
  <2>4. \/ r.answer = Error /\ set' = set
        \/ r.answer # Error /\ set' = [set EXCEPT ![s] = Vis!Named(set[s], r.answer)]
    BY <1>6, <2>1, <2>2 DEF Vis!RegisterHandle, ReplyOk, Vis!Live
  <2>5. \A t \in Sets : t # s => set'[t] = set[t]
    BY <2>4 DEF VisType
  <2>6. set'[s].type # "shm" => set'[s].id \in Ids /\ server'[set'[s].id] = s
    <3>1. CASE r.answer = Error /\ set' = set  BY <2>3, <3>1
    <3>2. CASE r.answer # Error /\ set' = [set EXCEPT ![s] = Vis!Named(set[s], r.answer)]
      <4>1. set'[s] = Vis!Named(set[s], r.answer) /\ set[s] \in DataSets  BY <3>2 DEF VisType
      <4>2. set'[s].id = r.answer  BY <4>1 DEF Vis!Named, DataSets
      <4>3. Vis!Knows(s, r.answer)  BY <2>1, <2>2, <3>2 DEF KnownByServer
      <4> QED BY <2>2, <4>2, <4>3 DEF Vis!Knows
    <3> QED BY <2>4, <3>1, <3>2
  <2> QED BY <1>s, <2>2, <2>3, <2>5, <2>6, OthersKnown DEF VisType
<1>7. ASSUME NEW r \in reply, Vis!StartHandle(r) PROVE KnownByServer'
  <2>1. PICK s \in Sets : s = r.of  BY DEF VisType, Replies
  <2>2. ReplyOk(r) /\ r.to = "start" /\ reply' = reply \ {r}
    BY <1>7 DEF InStep, Vis!StartHandle
  <2>3. /\ set[s].at = "live" /\ set[s].type = "udp" /\ set[s].state = "trying"
        /\ \A q \in reply' : q.of # s
    BY <2>1, <2>2 DEF ReplyOk
  <2>4. PICK v \in DataSets : v = set[s]  BY DEF VisType
  <2>5. CASE set' = [set EXCEPT ![s] = Vis!Failed(v)] /\ Vis!Goodbye(set[s].id, s)
    <3>1. \A t \in Sets : t # s => set'[t] = set[t]
      BY <2>5 DEF VisType
    <3>2. set'[s].state = "errored"
      <4>1. set'[s] = Vis!Failed(v)  BY <2>5 DEF VisType
      <4> QED BY <2>4, <4>1 DEF Vis!Failed, DataSets
    <3>3. \A t \in Sets : \A j : t # s /\ Vis!Knows(t, j) => j \in Ids /\ server'[j] = t
      BY <2>5, GoodbyeKeeps
    <3> QED BY <2>2, <2>3, <3>1, <3>2, <3>3, OthersKnown DEF VisType
  <2>6. CASE set' = [set EXCEPT ![s] = [v EXCEPT !.open = TRUE]] /\ UNCHANGED server
    <3>1. \A t \in Sets : t # s => set'[t] = set[t]
      BY <2>6 DEF VisType
    <3>2. set'[s].id = v.id
      BY <2>4, <2>6 DEF VisType, DataSets
    <3>3. Vis!Knows(s, v.id)  BY <2>3, <2>4 DEF KnownByServer
    <3> QED BY <1>s, <2>2, <2>3, <2>6, <3>1, <3>2, <3>3, OthersKnown DEF VisType
  <2>7. /\ Vis!Live(r.of)
        /\ set[r.of].state = "trying"
    BY <2>1, <2>3 DEF Vis!Live
  <2> QED BY <1>7, <2>1, <2>4, <2>5, <2>6, <2>7 DEF Vis!StartHandle
<1>8. CASE Vis!Recv \/ Vis!Lose
  <2>1. UNCHANGED <<set, reply, server>>
    BY <1>8 DEF Vis!Recv, Vis!Lose
  <2> QED BY <2>1 DEF KnownByServer, Vis!Knows
<1>9. CASE Vis!Synced
  <2>1. UNCHANGED <<reply, server>>
        /\ set' = [set EXCEPT ![sync.of] = [set[sync.of] EXCEPT !.state = "working"]]
    BY <1>9 DEF Vis!Synced
  <2>2. CASE sync.of \notin Sets
    <3>1. set' = set  BY <2>1, <2>2 DEF VisType
    <3> QED BY <2>1, <3>1 DEF KnownByServer, Vis!Knows
  <2>3. CASE sync.of \in Sets
    <3>1. PICK s \in Sets : s = sync.of  BY <2>3
    <3>2. PICK v \in DataSets : v = set[s]  BY DEF VisType
    <3>3. set' = [set EXCEPT ![s] = [v EXCEPT !.state = "working"]]
      BY <2>1, <3>1, <3>2
    <3>4. \A t \in Sets : t # s => set'[t] = set[t]
      BY <3>3 DEF VisType
    <3>5. DataSetOk(s) /\ v.open
      BY <3>1, <3>2 DEF InStep
    <3>6. v.type = "udp" /\ v.state \in {"trying", "working"}
      BY <3>2, <3>5 DEF DataSetOk
    <3>7. Vis!Knows(s, v.id)  BY <3>2, <3>6 DEF KnownByServer
    <3>8. set'[s].id = v.id  BY <3>2, <3>3 DEF VisType, DataSets
    <3>9. \A r \in reply' : r.of # s
      BY <2>1, <3>2, <3>5 DEF InStep, ReplyOk
    <3> QED BY <1>s, <2>1, <3>4, <3>7, <3>8, <3>9, OthersKnown DEF VisType
  <2> QED BY <2>2, <2>3
<1>10. CASE UNCHANGED vis
  BY <1>10 DEF vis, KnownByServer, Vis!Knows
<1> QED BY <1>1, <1>2, <1>3, <1>4, <1>5, <1>6, <1>7, <1>8, <1>9, <1>10 DEF Vis!Next

LEMMA VisInvStep == VisInv /\ [Vis!Next]_vis => VisInv'
<1> SUFFICES ASSUME VisInv, [Vis!Next]_vis PROVE VisInv'  OBVIOUS
<1>1. VisType'  BY VisTypeStep DEF VisInv
<1>2. ~rude' => InStep'  BY <1>1, VisHistoryStep, InStepStep DEF VisInv
<1>3. ~rude' /\ ~again' => KnownByServer'  BY <1>1, VisHistoryStep, KnownStep DEF VisInv
<1> QED BY <1>1, <1>2, <1>3 DEF VisInv

LEMMA VisInvInit == Vis!Init => VisInv
<1> SUFFICES ASSUME Vis!Init PROVE VisInv  OBVIOUS
<1>1. VisType
  <2>1. set \in [Sets -> DataSets]  BY DEF Vis!Init, Vis!Unused, DataSets
  <2>2. sync \in Syncs  BY SyncChanges DEF Vis!Init
  <2>3. rude \in BOOLEAN /\ again \in BOOLEAN  BY Zenon DEF Vis!Init
  <2> QED BY <2>1, <2>2, <2>3 DEF Vis!Init, VisType
<1>2. InStep
  <2>1. \A s \in Sets : DataSetOk(s)  BY DEF Vis!Init, Vis!Unused, DataSetOk
  <2>2. sync.of \notin Sets  BY PartsAssumption DEF Vis!Init, Vis!NoSync
  <2> QED BY <2>1, <2>2 DEF Vis!Init, InStep
<1>3. KnownByServer  BY DEF Vis!Init, Vis!Unused, KnownByServer
<1> QED BY <1>1, <1>2, <1>3 DEF VisInv

-----------------------------------------------------------------------------
(* What one part does, the others do not notice.                            *)

LEMMA VisMoves == [PartsNext]_PartsVars => [Vis!Next]_vis
<1> SUFFICES ASSUME [PartsNext]_PartsVars, ~UNCHANGED vis PROVE Vis!Next  OBVIOUS
<1>1. ~UNCHANGED PartsVars  BY DEF PartsVars
<1> QED BY <1>1 DEF PartsNext

\* For an application that awaits and heeds every answer (client.c and udp.c of
\* visualization/) no answer finds a freed data set, sockets are closed exactly when
\* they were opened, every call has a result to return, and the server knows the data
\* sets that work; for any number of data sets and of datagrams in an exchange.
THEOREM DataSetsSafeCorrect == PartsSpec => []DataSetsSafe
<1>1. PartsInit => VisInv  BY VisInvInit DEF PartsInit
<1>2. VisInv /\ [PartsNext]_PartsVars => VisInv'  BY VisMoves, VisInvStep
<1>3. VisInv => DataSetsSafe
  <2> SUFFICES ASSUME VisInv PROVE DataSetsSafe  OBVIOUS
  <2>1. Vis!SafeIfPolite  BY DEF VisInv, InStep, Vis!SafeIfPolite
  <2>2. ASSUME ~rude, ~again, NEW s \in Sets, set[s].state = "working"
        PROVE  Vis!Knows(s, set[s].id)
    <3>1. DataSetOk(s) /\ KnownByServer  BY <2>2 DEF VisInv, InStep
    <3>2. set[s].type # "shm" /\ set[s].state # "errored"  BY <2>2, <3>1 DEF DataSetOk
    <3> QED BY <3>1, <3>2 DEF KnownByServer
  <2> QED BY <2>1, <2>2 DEF DataSetsSafe, Vis!Served
<1> QED BY <1>1, <1>2, <1>3, PTL DEF PartsSpec

-----------------------------------------------------------------------------
(* Idlist: the array of ids is a sequence of ids that ends with a 0.        *)

IdsOr0 == Ids \cup {0}

\* The array m has a places, room for the n that the list takes, and the list ends
\* with a 0.
Held(m, n, a) ==
  /\ n \in 1..a /\ n <= MaxIds + 1
  /\ m = [i \in 0..a - 1 |-> m[i]]
  /\ \A i \in 0..n - 1 : m[i] \in IdsOr0
  /\ m[n - 1] = 0

IdlInv == \E a \in Nat : Held(mem, size, a)

LEMMA PlacesCounted ==
  ASSUME NEW a \in Nat PROVE IsFiniteSet(0..a - 1) /\ Cardinality(0..a - 1) = a
<1>1. 0 \in Int /\ a - 1 \in Int
  OBVIOUS
<1>2. IsFiniteSet(0..a - 1) /\ Cardinality(0..a - 1) = IF 0 > a - 1 THEN 0 ELSE (a - 1) - 0 + 1
  BY <1>1, FS_Interval
<1> QED
  BY <1>2

\* idlist_allocated
LEMMA AllocIs ==
  ASSUME NEW a \in Nat, NEW m, m = [i \in 0..a - 1 |-> m[i]] PROVE Alloc(m) = a
<1>1. DOMAIN m = 0..a - 1
  OBVIOUS
<1> QED
  BY <1>1, PlacesCounted DEF Alloc

LEMMA ArrayHeld ==
  ASSUME NEW s \in Seq(IdsOr0), s # <<>>, s[Len(s)] = 0, Len(s) <= MaxIds + 1
  PROVE  /\ Len(s) \in Nat /\ Held(Array(s), Len(s), Len(s))
         /\ \A i \in 0..Len(s) - 1 : Array(s)[i] = s[i + 1]
<1>1. PICK n \in Nat \ {0} : n = Len(s)
  BY LenProperties, EmptySeq
<1>2. \A i \in 1..n : s[i] \in IdsOr0
  BY <1>1
<1>3. PICK m : m = Array(s)
  OBVIOUS
<1>4. m = [i \in 0..n - 1 |-> s[i + 1]]
  BY <1>1, <1>3 DEF Array
<1>5. \A i \in 0..n - 1 : m[i] = s[i + 1] /\ i + 1 \in 1..n
  BY <1>4
<1>6. m = [i \in 0..n - 1 |-> m[i]]
  BY <1>4
<1>7. m[n - 1] = 0 /\ \A i \in 0..n - 1 : m[i] \in IdsOr0
  BY <1>1, <1>2, <1>5
<1> QED
  BY <1>1, <1>3, <1>5, <1>6, <1>7 DEF Held

LEMMA ZeroHeld == Held(Array(<< 0 >>), 1, 1) /\ Array(<< 0 >>)[0] = 0
<1>1. << 0 >> \in Seq(IdsOr0) /\ Len(<< 0 >>) = 1 /\ << 0 >>[1] = 0 /\ << 0 >> # <<>>
  <2>1. 0 \in IdsOr0
    BY DEF IdsOr0
  <2> QED
    BY <2>1
<1>2. PICK s \in Seq(IdsOr0) : s = << 0 >> /\ Len(s) = 1 /\ s[1] = 0 /\ s # <<>>
  BY <1>1
<1>3. 1 <= MaxIds + 1
  BY IdlistAssumption
<1>4. Held(Array(s), 1, 1) /\ \A i \in 0..0 : Array(s)[i] = s[i + 1]
  <2>1. s[Len(s)] = 0 /\ Len(s) <= MaxIds + 1
    BY <1>2, <1>3
  <2>2. /\ Held(Array(s), Len(s), Len(s))
        /\ \A i \in 0..Len(s) - 1 : Array(s)[i] = s[i + 1]
    BY <1>2, <2>1, ArrayHeld
  <2>3. Len(s) - 1 = 0
    BY <1>2
  <2> QED
    BY <1>2, <2>2, <2>3, Zenon
<1>5. Array(s)[0] = 0
  BY <1>2, <1>4
<1> QED
  BY <1>2, <1>4, <1>5

-----------------------------------------------------------------------------
\* What a call leaves in each place, with the room it leaves.

LEMMA GrownIs ==
  ASSUME NEW a \in Nat, Held(mem, size, a)
  PROVE  \E g \in Nat : /\ size + 1 <= g
                        /\ Grown(mem) = [i \in 0..g - 1 |-> Grown(mem)[i]]
                        /\ \A i \in 0..size - 1 : Grown(mem)[i] = mem[i]
<1>1. Alloc(mem) = a
  BY AllocIs DEF Held
<1>2. DOMAIN mem = 0..a - 1
  BY DEF Held
<1>3. size \in Nat /\ 1 <= size /\ size <= a
  BY DEF Held
<1>4. CASE size = a
  <2> DEFINE G == [i \in 0..a * 2 - 1 |-> IF i \in 0..a - 1 THEN mem[i] ELSE Junk]
  <2>1. Grown(mem) = G
    BY <1>1, <1>2, <1>4 DEF Grown, Resized
  <2>2. a * 2 \in Nat /\ size + 1 <= a * 2
    BY <1>3, <1>4
  <2>3. \A i \in 0..size - 1 : G[i] = mem[i]
    BY <1>3, <1>4
  <2>4. G = [i \in 0..a * 2 - 1 |-> G[i]]
    OBVIOUS
  <2> HIDE DEF G
  <2> QED
    BY <2>1, <2>2, <2>3, <2>4
<1>5. CASE size # a
  <2>1. Grown(mem) = mem
    BY <1>1, <1>5 DEF Grown
  <2>2. size + 1 <= a
    BY <1>3, <1>5
  <2> QED
    BY <2>1, <2>2 DEF Held
<1> QED
  BY <1>4, <1>5

LEMMA InsertPlaces ==
  ASSUME NEW a \in Nat, Held(mem, size, a), NEW index \in Nat, NEW id \in Ids,
         InsertAtIndex(index, id)
  PROVE  /\ IdlInv'
         /\ index < size /\ size' = size + 1
         /\ \A i \in 0..size : mem'[i] = IF i < index THEN mem[i] ELSE
                                         IF i = index THEN id ELSE mem[i - 1]
<1>1. PICK g, G : /\ g \in Nat /\ size + 1 <= g /\ G = Grown(mem)
                  /\ G = [i \in 0..g - 1 |-> G[i]]
                  /\ \A i \in 0..size - 1 : G[i] = mem[i]
  BY GrownIs
<1>2. PICK n \in 1..a : n = size /\ n \in Nat
  BY DEF Held
<1>3. PICK m : m = mem'
  OBVIOUS
<1>4. /\ index < n /\ n <= MaxIds /\ size' = n + 1
      /\ m = [i \in 0..g - 1 |-> IF i = index THEN id
                                 ELSE IF i > index /\ i <= n THEN mem[i - 1] ELSE G[i]]
  BY <1>1, <1>2, <1>3 DEF InsertAtIndex
<1>5. n + 1 <= g /\ \A i \in 0..n - 1 : G[i] = mem[i]
  BY <1>1, <1>2
<1>6. (\A i \in 0..n - 1 : mem[i] \in IdsOr0) /\ mem[n - 1] = 0
  BY <1>2 DEF Held
<1>7. ASSUME NEW i \in 0..n
      PROVE m[i] = IF i < index THEN mem[i] ELSE IF i = index THEN id ELSE mem[i - 1]
  <2>1. i \in 0..g - 1
    BY <1>1, <1>2, <1>5
  <2>2. CASE i < index
    <3>1. i \in 0..n - 1
      BY <1>4, <2>2
    <3> QED
      BY <1>4, <1>5, <2>1, <2>2, <3>1
  <2>3. CASE i = index
    BY <1>4, <2>1, <2>3
  <2>4. CASE i > index
    BY <1>4, <2>1, <2>4
  <2> QED
    BY <2>2, <2>3, <2>4
<1>8. Held(m, n + 1, g)
  <2>1. m = [i \in 0..g - 1 |-> m[i]]
    BY <1>4
  <2>2. ASSUME NEW i \in 0..n PROVE m[i] \in IdsOr0
    <3>1. i < index => i \in 0..n - 1
      BY <1>4
    <3>2. i > index => i - 1 \in 0..n - 1
      BY <1>4
    <3> QED
      BY <1>6, <1>7, <3>1, <3>2 DEF IdsOr0
  <2>3. m[n] = 0
    BY <1>4, <1>6, <1>7
  <2>4. PICK k \in 1..g : k = n + 1 /\ k <= MaxIds + 1 /\ k - 1 = n
    BY <1>4, <1>5, IdlistAssumption
  <2> QED
    BY <2>1, <2>2, <2>3, <2>4 DEF Held
<1> QED
  BY <1>1, <1>2, <1>3, <1>4, <1>7, <1>8 DEF IdlInv

LEMMA RemovePlaces ==
  ASSUME NEW a \in Nat, Held(mem, size, a), NEW index \in Nat, RemoveId(index)
  PROVE  /\ IdlInv'
         /\ index < size - 1 /\ size' = size - 1
         /\ \A i \in 0..size - 2 : mem'[i] = IF i < index THEN mem[i] ELSE mem[i + 1]
<1>1. PICK n \in 1..a : n = size /\ n \in Nat
  BY DEF Held
<1>2. index < n - 1 /\ size' = n - 1
  BY <1>1 DEF RemoveId
<1>3. PICK C : C = Closed(index)
  OBVIOUS
<1>4. C = [i \in 0..a - 1 |-> IF i >= index /\ i < n - 1 THEN mem[i + 1] ELSE mem[i]]
  BY <1>1, <1>3 DEF Closed, Held
<1>5. (\A i \in 0..n - 1 : mem[i] \in IdsOr0) /\ mem[n - 1] = 0 /\ n <= MaxIds + 1
  BY <1>1 DEF Held
<1>6. \A i \in 0..n - 2 : i \in 0..a - 1 /\ C[i] = IF i < index THEN mem[i] ELSE mem[i + 1]
  BY <1>4
<1>7. ASSUME NEW g \in Nat, NEW m, n - 1 <= g, m = [i \in 0..g - 1 |-> m[i]],
             \A i \in 0..n - 2 : m[i] = C[i]
      PROVE  Held(m, n - 1, g)
  <2>1. PICK k \in 1..g : k = n - 1 /\ k <= MaxIds + 1 /\ k - 1 = n - 2
    BY <1>2, <1>5, <1>7, IdlistAssumption
  <2>2. ASSUME NEW i \in 0..n - 2 PROVE m[i] \in IdsOr0
    <3>1. i \in 0..n - 1 /\ i + 1 \in 0..n - 1
      OBVIOUS
    <3>2. mem[i] \in IdsOr0 /\ mem[i + 1] \in IdsOr0
      BY <1>5, <3>1
    <3>3. m[i] = mem[i] \/ m[i] = mem[i + 1]
      BY <1>6, <1>7
    <3> QED
      BY <3>2, <3>3
  <2>3. m[n - 2] = 0
    <3>1. n - 2 \in 0..n - 2 /\ n - 2 + 1 = n - 1 /\ ~(n - 2 < index)
      BY <1>2
    <3>2. m[n - 2] = mem[n - 1]
      BY <1>6, <1>7, <3>1
    <3> QED
      BY <1>5, <3>2
  <2>4. m = [i \in 0..g - 1 |-> m[i]]
    BY <1>7
  <2>5. Held(m, k, g)
    BY <2>1, <2>2, <2>3, <2>4 DEF Held
  <2> QED
    BY <2>1, <2>5
<1>8. PICK h \in Nat : h = Alloc(mem) \div 2
  <2>1. a \div 2 \in Nat
    OBVIOUS
  <2>2. Alloc(mem) = a
    BY AllocIs DEF Held
  <2> QED
    BY <2>1, <2>2
<1>9. \E g \in Nat : /\ n - 1 <= g /\ mem' = [i \in 0..g - 1 |-> mem'[i]]
                     /\ \A i \in 0..n - 2 : mem'[i] = C[i]
  <2>1. DOMAIN C = 0..a - 1 /\ C = [i \in 0..a - 1 |-> C[i]] /\ n - 1 <= a
    BY <1>4
  <2>2. CASE n - 1 <= h /\ mem' = Resized(C, h)
    <3>1. mem' = [i \in 0..h - 1 |-> IF i \in 0..a - 1 THEN C[i] ELSE Junk]
      BY <2>1, <2>2 DEF Resized
    <3>2. mem' = [i \in 0..h - 1 |-> mem'[i]]
      BY <3>1
    <3>3. \A i \in 0..n - 2 : i \in 0..h - 1 /\ i \in 0..a - 1
      BY <2>1, <2>2
    <3>4. \A i \in 0..n - 2 : mem'[i] = C[i]
      BY <3>1, <3>3
    <3> QED
      BY <2>2, <3>2, <3>4
  <2>3. CASE mem' = C
    BY <2>1, <2>3
  <2>4. (n - 1 <= h /\ mem' = Resized(C, h)) \/ mem' = C
    BY <1>1, <1>2, <1>3, <1>8 DEF RemoveId
  <2> QED
    BY <2>2, <2>3, <2>4
<1>10. PICK g, m : /\ g \in Nat /\ m = mem' /\ n - 1 <= g /\ m = [i \in 0..g - 1 |-> m[i]]
                   /\ \A i \in 0..n - 2 : m[i] = C[i]
  BY <1>9
<1>11. Held(mem', size', g)
  BY <1>2, <1>7, <1>10
<1> QED
  BY <1>1, <1>2, <1>6, <1>10, <1>11 DEF IdlInv

LEMMA MovePlaces ==
  ASSUME NEW a \in Nat, Held(mem, size, a), NEW from \in Nat, NEW to \in Nat, MoveId(from, to)
  PROVE  /\ Held(mem', size', a)
         /\ from < size - 1 /\ to < size - 1 /\ size' = size
         /\ \A i \in 0..size - 1 : mem'[i] = Moved(i, from, to)
<1>1. PICK n \in 1..a : n = size /\ n \in Nat
  BY DEF Held
<1>2. PICK m : m = mem'
  OBVIOUS
<1>3. from < n - 1 /\ to < n - 1 /\ size' = n /\ m = [i \in 0..a - 1 |-> Moved(i, from, to)]
  BY <1>1, <1>2 DEF MoveId, Held
<1>4. (\A i \in 0..n - 1 : mem[i] \in IdsOr0) /\ mem[n - 1] = 0 /\ n <= MaxIds + 1
  BY <1>1 DEF Held
<1>5. \A i \in 0..n - 1 : m[i] = Moved(i, from, to)
  BY <1>3
<1>6. ASSUME NEW i \in 0..n - 1 PROVE Moved(i, from, to) \in IdsOr0
  <2>1. (i < to => i + 1 \in 0..n - 1) /\ (to < i => i - 1 \in 0..n - 1) /\ from \in 0..n - 1
    BY <1>3
  <2> QED
    BY <1>3, <1>4, <2>1 DEF Moved
<1>7. m[n - 1] = 0
  BY <1>3, <1>4, <1>5 DEF Moved
<1>8. m = [i \in 0..a - 1 |-> m[i]]
  BY <1>3
<1> QED
  BY <1>1, <1>2, <1>3, <1>4, <1>5, <1>6, <1>7, <1>8 DEF Held

LEMMA SetPlaces ==
  ASSUME NEW a \in Nat, Held(mem, size, a), NEW index \in Nat, NEW id \in Ids, SetIndex(index, id)
  PROVE  /\ Held(mem', size', a) /\ index < size - 1 /\ size' = size
         /\ \A i \in 0..size - 1 : mem'[i] = IF i = index THEN id ELSE mem[i]
<1>1. PICK n \in 1..a : n = size /\ n \in Nat
  BY DEF Held
<1>2. PICK m : m = mem'
  OBVIOUS
<1>3. index < n - 1 /\ size' = n /\ m = [mem EXCEPT ![index] = id]
  BY <1>1, <1>2 DEF SetIndex
<1>4. (\A i \in 0..n - 1 : mem[i] \in IdsOr0) /\ mem[n - 1] = 0 /\ n <= MaxIds + 1
      /\ DOMAIN mem = 0..a - 1
  BY <1>1 DEF Held
<1>5. m = [i \in 0..a - 1 |-> IF i = index THEN id ELSE mem[i]]
  BY <1>3, <1>4
<1>6. m = [i \in 0..a - 1 |-> m[i]]
  BY <1>5
<1>7. \A i \in 0..n - 1 : m[i] = IF i = index THEN id ELSE mem[i]
  BY <1>5
<1>8. m[n - 1] = 0 /\ \A i \in 0..n - 1 : m[i] \in IdsOr0
  BY <1>3, <1>4, <1>7 DEF IdsOr0
<1> QED
  BY <1>1, <1>2, <1>3, <1>4, <1>6, <1>7, <1>8 DEF Held

-----------------------------------------------------------------------------
\* The array is the sequence of Contents.

LEMMA ContentsIs ==
  ASSUME NEW a \in Nat, Held(mem, size, a)
  PROVE  /\ size - 1 \in Nat /\ Contents \in Seq(IdsOr0) /\ Len(Contents) = size - 1
         /\ \A i \in 1..size - 1 : Contents[i] = mem[i - 1]
<1>1. PICK k \in Nat : k = size - 1 /\ size = k + 1
  BY DEF Held
<1>2. \A i \in 1..k : i - 1 \in 0..size - 1 /\ mem[i - 1] \in IdsOr0
  BY <1>1 DEF Held
<1>3. Contents = [i \in 1..k |-> mem[i - 1]]
  BY <1>1 DEF Contents
<1>4. Contents \in Seq(IdsOr0) /\ Len(Contents) = k
  BY <1>2, <1>3
<1> QED
  BY <1>1, <1>3, <1>4

LEMMA NextContents ==
  ASSUME NEW a \in Nat, Held(mem', size', a)
  PROVE  /\ size' - 1 \in Nat /\ Contents' \in Seq(IdsOr0) /\ Len(Contents') = size' - 1
         /\ \A i \in 1..size' - 1 : Contents'[i] = mem'[i - 1]
<1>1. PICK k \in Nat : k = size' - 1 /\ size' = k + 1
  BY DEF Held
<1>2. \A i \in 1..k : i - 1 \in 0..size' - 1 /\ mem'[i - 1] \in IdsOr0
  BY <1>1 DEF Held
<1>3. Contents' = [i \in 1..k |-> mem'[i - 1]]
  BY <1>1 DEF Contents
<1>4. Contents' \in Seq(IdsOr0) /\ Len(Contents') = k
  BY <1>2, <1>3
<1> QED
  BY <1>1, <1>3, <1>4

\* Two sequences with the same members are the same.
LEMMA SameSequence ==
  ASSUME NEW S, NEW s \in Seq(S), NEW t \in Seq(S), Len(s) = Len(t),
         \A i \in 1..Len(s) : s[i] = t[i]
  PROVE  s = t
BY SeqEqual

LEMMA AbstractInsertIs == ASSUME NEW s, NEW p, NEW e PROVE IdsAbstract!InsertAt(s, p, e) = InsertAt(s, p, e)
BY DEF IdsAbstract!InsertAt, InsertAt

LEMMA AbstractRemoveIs == ASSUME NEW s, NEW p PROVE IdsAbstract!RemoveAt(s, p) = RemoveAt(s, p)
BY DEF IdsAbstract!RemoveAt, RemoveAt

LEMMA InsertContents ==
  ASSUME NEW a \in Nat, Held(mem, size, a), NEW index \in Nat, NEW id \in Ids,
         InsertAtIndex(index, id)
  PROVE  IdsAbstract!IInsert(index + 1, id)
<1>1. PICK n \in Nat : n = size
  BY DEF Held
<1>2. PICK g \in Nat : Held(mem', size', g)
  BY InsertPlaces DEF IdlInv
<1>3. PICK c \in Seq(IdsOr0), d \in Seq(IdsOr0) :
        /\ c = Contents /\ d = Contents' /\ Len(c) = n - 1 /\ Len(d) = n /\ n - 1 \in Nat
        /\ \A i \in 1..n - 1 : c[i] = mem[i - 1]
        /\ \A i \in 1..n : d[i] = mem'[i - 1]
  <2>1. size' = n + 1
    BY <1>1, InsertPlaces
  <2>2. size' - 1 = n
    BY <2>1
  <2> QED
    BY <1>1, <1>2, <2>2, ContentsIs, NextContents
<1>4. PICK e \in IdsOr0, p \in 1..Len(c) + 1 : e = id /\ p = index + 1
  BY <1>1, <1>3, InsertPlaces DEF IdsOr0
<1>5. PICK t : t = InsertAt(c, p, e)
  OBVIOUS
<1>6. /\ t \in Seq(IdsOr0) /\ Len(t) = n
      /\ \A i \in 1..n : t[i] = IF i < p THEN c[i] ELSE IF i = p THEN e ELSE c[i - 1]
  <2>1. Len(c) + 1 = n
    BY <1>3
  <2>2. InsertedAt(t, IdsOr0, c, p, e)
    BY <1>5, InsertAtPlaces
  <2> QED
    BY <2>1, <2>2 DEF InsertedAt
<1>7. ASSUME NEW i \in 1..n PROVE d[i] = t[i]
  <2>1. i - 1 \in 0..size
    BY <1>1
  <2>2. d[i] = IF i - 1 < index THEN mem[i - 1] ELSE IF i - 1 = index THEN id ELSE mem[i - 1 - 1]
    BY <1>3, <2>1, InsertPlaces
  <2>3. CASE i < p
    <3>1. i \in 1..n - 1 /\ i - 1 < index
      BY <1>3, <1>4, <2>3
    <3> QED
      BY <1>3, <1>6, <2>2, <2>3, <3>1
  <2>4. CASE i = p
    BY <1>4, <1>6, <2>2, <2>4
  <2>5. CASE i > p
    <3>1. i - 1 \in 1..n - 1 /\ ~(i - 1 < index) /\ i - 1 # index
      BY <1>3, <1>4, <2>5
    <3>2. c[i - 1] = mem[i - 1 - 1]
      BY <1>3, <3>1
    <3>3. d[i] = mem[i - 1 - 1]
      BY <2>2, <3>1
    <3>4. t[i] = c[i - 1]
      BY <1>4, <1>6, <2>5
    <3> QED
      BY <3>2, <3>3, <3>4
  <2> QED
    BY <1>4, <2>3, <2>4, <2>5
<1>8. d = t
  BY <1>3, <1>6, <1>7, SameSequence
<1> QED
  BY <1>3, <1>4, <1>5, <1>8, AbstractInsertIs DEF IdsAbstract!IInsert

LEMMA RemoveContents ==
  ASSUME NEW a \in Nat, Held(mem, size, a), NEW index \in Nat, RemoveId(index)
  PROVE  IdsAbstract!IRemove(index + 1)
<1>1. PICK n \in Nat : n = size
  BY DEF Held
<1>2. PICK g \in Nat : Held(mem', size', g)
  BY RemovePlaces DEF IdlInv
<1>3. PICK c \in Seq(IdsOr0), d \in Seq(IdsOr0) :
        /\ c = Contents /\ d = Contents' /\ Len(c) = n - 1 /\ Len(d) = n - 2 /\ n - 2 \in Nat
        /\ \A i \in 1..n - 1 : c[i] = mem[i - 1]
        /\ \A i \in 1..n - 2 : d[i] = mem'[i - 1]
  <2>1. size' = n - 1
    BY <1>1, RemovePlaces
  <2>2. size' - 1 = n - 2
    BY <2>1
  <2> QED
    BY <1>1, <1>2, <2>2, ContentsIs, NextContents
<1>4. PICK p \in 1..Len(c) : p = index + 1
  BY <1>1, <1>3, RemovePlaces
<1>5. PICK t : t = RemoveAt(c, p)
  OBVIOUS
<1>6. /\ t \in Seq(IdsOr0) /\ Len(t) = n - 2
      /\ \A i \in 1..n - 2 : t[i] = IF i < p THEN c[i] ELSE c[i + 1]
  <2>1. Len(c) - 1 = n - 2
    BY <1>3
  <2>2. RemovedAt(t, IdsOr0, c, p)
    BY <1>5, RemoveAtPlaces
  <2> QED
    BY <2>1, <2>2 DEF RemovedAt
<1>7. ASSUME NEW i \in 1..n - 2 PROVE d[i] = t[i]
  <2>1. i - 1 \in 0..size - 2 /\ i \in 1..n - 1 /\ i + 1 \in 1..n - 1
    BY <1>1
  <2>2. d[i] = IF i - 1 < index THEN mem[i - 1] ELSE mem[i - 1 + 1]
    BY <1>3, <2>1, RemovePlaces
  <2>3. c[i] = mem[i - 1] /\ c[i + 1] = mem[i + 1 - 1] /\ i + 1 - 1 = i - 1 + 1
    <3>1. PICK j \in 1..n - 1 : j = i + 1 /\ j - 1 = i - 1 + 1
      BY <2>1
    <3>2. c[j] = mem[j - 1] /\ c[i] = mem[i - 1]
      BY <1>3, <2>1
    <3> QED
      BY <3>1, <3>2
  <2>4. i - 1 < index <=> i < p
    BY <1>4
  <2> QED
    BY <1>6, <2>2, <2>3, <2>4
<1>8. d = t
  BY <1>3, <1>6, <1>7, SameSequence
<1> QED
  BY <1>3, <1>4, <1>5, <1>8, AbstractRemoveIs DEF IdsAbstract!IRemove

LEMMA MoveContents ==
  ASSUME NEW a \in Nat, Held(mem, size, a), NEW from \in Nat, NEW to \in Nat, MoveId(from, to)
  PROVE  IdsAbstract!IMove(from + 1, to + 1)
<1>1. PICK n \in Nat : n = size
  BY DEF Held
<1>2. Held(mem', size', a)
  BY MovePlaces
<1>3. PICK c \in Seq(IdsOr0), d \in Seq(IdsOr0) :
        /\ c = Contents /\ d = Contents' /\ Len(c) = n - 1 /\ Len(d) = n - 1 /\ n - 1 \in Nat
        /\ \A i \in 1..n - 1 : c[i] = mem[i - 1]
        /\ \A i \in 1..n - 1 : d[i] = mem'[i - 1]
  <2>1. size' = n
    BY <1>1, MovePlaces
  <2> QED
    BY <1>1, <1>2, <2>1, ContentsIs, NextContents
<1>4. PICK p \in 1..n - 1, q \in 1..n - 1 : p = from + 1 /\ q = to + 1
  BY <1>1, <1>3, MovePlaces
<1>5. PICK e \in IdsOr0 : e = c[p]
  BY <1>3
<1>6. PICK s \in Seq(IdsOr0) :
        /\ s = RemoveAt(c, p) /\ Len(s) = n - 2
        /\ \A i \in 1..n - 2 : s[i] = IF i < p THEN c[i] ELSE c[i + 1]
  <2>1. Len(c) - 1 = n - 2
    BY <1>3
  <2>2. RemovedAt(RemoveAt(c, p), IdsOr0, c, p)
    BY <1>3, RemoveAtPlaces
  <2> QED
    BY <2>1, <2>2 DEF RemovedAt
<1>7. PICK t \in Seq(IdsOr0) :
        /\ t = InsertAt(s, q, e) /\ Len(t) = n - 1
        /\ \A i \in 1..n - 1 : t[i] = IF i < q THEN s[i] ELSE IF i = q THEN e ELSE s[i - 1]
  <2>1. Len(s) + 1 = n - 1
    BY <1>3, <1>6
  <2>2. InsertedAt(InsertAt(s, q, e), IdsOr0, s, q, e)
    BY <2>1, InsertAtPlaces
  <2> QED
    BY <2>1, <2>2 DEF InsertedAt
<1>8. ASSUME NEW i \in 1..n - 1 PROVE d[i] = t[i]
  <2>1. i - 1 \in 0..size - 1 /\ d[i] = Moved(i - 1, from, to)
    <3>1. PICK j \in 0..size - 1 : j = i - 1
      BY <1>1
    <3>2. mem'[j] = Moved(j, from, to)
      BY MovePlaces
    <3>3. d[i] = mem'[i - 1]
      BY <1>3
    <3> QED
      BY <3>1, <3>2, <3>3
  <2>2. /\ i - 1 = to <=> i = q
        /\ from <= i - 1 /\ i - 1 < to <=> p <= i /\ i < q
        /\ to < i - 1 /\ i - 1 <= from <=> q < i /\ i <= p
    BY <1>4
  <2>3. CASE i = q
    <3>1. d[i] = mem[from]
      BY <2>1, <2>2, <2>3 DEF Moved
    <3>2. e = mem[from]
      BY <1>3, <1>4, <1>5
    <3> QED
      BY <1>7, <2>3, <3>1, <3>2
  <2>4. CASE i < q
    <3>1. t[i] = s[i] /\ i \in 1..n - 2
      BY <1>7, <2>4
    <3>2. CASE i < p
      <4>1. d[i] = mem[i - 1]
        BY <2>1, <2>2, <2>4, <3>2 DEF Moved
      <4> QED
        BY <1>3, <1>6, <3>1, <3>2, <4>1
    <3>3. CASE i >= p
      <4>1. d[i] = mem[i - 1 + 1]
        BY <2>1, <2>2, <2>4, <3>3 DEF Moved
      <4>2. PICK j \in 1..n - 1 : j = i + 1 /\ j - 1 = i - 1 + 1
        BY <3>1
      <4>3. c[j] = mem[j - 1]
        BY <1>3
      <4> QED
        BY <1>6, <3>1, <3>3, <4>1, <4>2, <4>3
    <3> QED
      BY <3>2, <3>3
  <2>5. CASE i > q
    <3>1. t[i] = s[i - 1] /\ i - 1 \in 1..n - 2
      BY <1>7, <2>5
    <3>2. s[i - 1] = IF i - 1 < p THEN c[i - 1] ELSE c[i]
      BY <1>6, <3>1
    <3>3. CASE i <= p
      <4>1. d[i] = mem[i - 1 - 1]
        BY <2>1, <2>2, <2>5, <3>3 DEF Moved
      <4>2. PICK j \in 1..n - 1 : j = i - 1
        BY <3>1
      <4>3. c[j] = mem[j - 1]
        BY <1>3
      <4>4. t[i] = c[j] /\ d[i] = mem[j - 1]
        BY <3>1, <3>2, <3>3, <4>1, <4>2
      <4> QED
        BY <4>3, <4>4
    <3>4. CASE i > p
      <4>1. d[i] = mem[i - 1]
        BY <2>1, <2>2, <2>5, <3>4 DEF Moved
      <4> QED
        BY <1>3, <3>1, <3>2, <3>4, <4>1
    <3> QED
      BY <3>3, <3>4
  <2> QED
    BY <2>3, <2>4, <2>5
<1>9. d = t
  BY <1>3, <1>7, <1>8, SameSequence
<1> QED
  BY <1>3, <1>4, <1>5, <1>6, <1>7, <1>9, AbstractInsertIs, AbstractRemoveIs DEF IdsAbstract!IMove

LEMMA SetContents ==
  ASSUME NEW a \in Nat, Held(mem, size, a), NEW index \in Nat, NEW id \in Ids, SetIndex(index, id)
  PROVE  IdsAbstract!ISet(index + 1, id)
<1>1. PICK n \in Nat : n = size
  BY DEF Held
<1>2. Held(mem', size', a)
  BY SetPlaces
<1>3. PICK c \in Seq(IdsOr0), d \in Seq(IdsOr0) :
        /\ c = Contents /\ d = Contents' /\ Len(c) = n - 1 /\ Len(d) = n - 1 /\ n - 1 \in Nat
        /\ \A i \in 1..n - 1 : c[i] = mem[i - 1]
        /\ \A i \in 1..n - 1 : d[i] = mem'[i - 1]
  <2>1. size' = n
    BY <1>1, SetPlaces
  <2> QED
    BY <1>1, <1>2, <2>1, ContentsIs, NextContents
<1>4. PICK p \in 1..n - 1, e \in IdsOr0 : p = index + 1 /\ e = id
  BY <1>1, <1>3, SetPlaces DEF IdsOr0
<1>5. PICK t \in Seq(IdsOr0) : /\ t = [c EXCEPT ![p] = e] /\ Len(t) = n - 1
                               /\ \A i \in 1..n - 1 : t[i] = IF i = p THEN e ELSE c[i]
  <2>1. Len(c) = n - 1 /\ p \in 1..Len(c)
    BY <1>3
  <2>2. PICK t : t = [c EXCEPT ![p] = e]
    OBVIOUS
  <2>3. t \in Seq(IdsOr0) /\ Len(t) = Len(c) /\ \A i \in 1..Len(c) : t[i] = IF i = p THEN e ELSE c[i]
    BY <2>1, <2>2, ExceptSeq
  <2> QED
    BY <2>1, <2>2, <2>3
<1>6. ASSUME NEW i \in 1..n - 1 PROVE d[i] = t[i]
  <2>1. i - 1 \in 0..size - 1
    BY <1>1
  <2>2. d[i] = IF i - 1 = index THEN id ELSE mem[i - 1]
    BY <1>3, <2>1, SetPlaces
  <2>3. i - 1 = index <=> i = p
    BY <1>4
  <2> QED
    BY <1>3, <1>4, <1>5, <2>2, <2>3
<1>7. d = t
  BY <1>3, <1>5, <1>6, SameSequence
<1> QED
  BY <1>3, <1>4, <1>5, <1>7 DEF IdsAbstract!ISet, IdsAbstract!ReplaceAt

LEMMA ReplaceContents ==
  ASSUME NEW s \in Seq(IdsOr0), s # <<>>, s[Len(s)] = 0, Len(s) <= MaxIds + 1, SetIdlist(s)
  PROVE  IdlInv' /\ IdsAbstract!IReplace(s)
<1>1. PICK n \in Nat : n = Len(s) /\ n - 1 \in Nat
  BY LenProperties, EmptySeq
<1>2. /\ mem' = Array(s) /\ size' = n /\ Held(mem', size', n)
      /\ \A i \in 0..n - 1 : mem'[i] = s[i + 1]
  BY <1>1, ArrayHeld DEF SetIdlist
<1>3. PICK d \in Seq(IdsOr0) : /\ d = Contents' /\ Len(d) = n - 1
                               /\ \A i \in 1..n - 1 : d[i] = mem'[i - 1]
  BY <1>2, NextContents
<1>4. PICK t : t = SubSeq(s, 1, n - 1)
  OBVIOUS
<1>5. t \in Seq(IdsOr0) /\ Len(t) = n - 1 /\ \A i \in 1..n - 1 : t[i] = s[i]
  <2>1. 1 \in Int /\ n - 1 \in Int /\ \A i \in 1..n - 1 : s[i] \in IdsOr0
    BY <1>1
  <2>2. /\ t \in Seq(IdsOr0)
        /\ Len(t) = IF 1 <= n - 1 THEN n - 1 - 1 + 1 ELSE 0
        /\ \A i \in 1..n - 1 - 1 + 1 : t[i] = s[1 + i - 1]
    BY <1>4, <2>1, SubSeqProperties
  <2> QED
    BY <1>1, <2>2
<1>6. ASSUME NEW i \in 1..n - 1 PROVE d[i] = t[i]
  <2>1. PICK j \in 0..n - 1 : j = i - 1 /\ j + 1 = i
    OBVIOUS
  <2>2. mem'[j] = s[i]
    BY <1>2, <2>1
  <2> QED
    BY <1>3, <1>5, <2>1, <2>2
<1>7. d = t
  BY <1>3, <1>5, <1>6, SameSequence
<1> QED
  BY <1>1, <1>2, <1>3, <1>4, <1>7 DEF IdlInv, IdsAbstract!IReplace, IdsAbstract!Front

-----------------------------------------------------------------------------
LEMMA IdlInitially == IdlistInit => IdlInv /\ IdsAbstract!IInit
<1> SUFFICES ASSUME IdlistInit PROVE IdlInv /\ IdsAbstract!IInit
  OBVIOUS
<1>1. Held(mem, size, 1) /\ size = 1 /\ 1 \in Nat
  BY ZeroHeld DEF IdlistInit
<1>2. Contents \in Seq(IdsOr0) /\ Len(Contents) = 0
  BY <1>1, ContentsIs
<1>3. Contents = <<>>
  BY <1>2, EmptySeq
<1> QED
  BY <1>1, <1>3 DEF IdlInv, IdsAbstract!IInit, IdlistInit

\* Every call keeps the array well formed and makes of the ids what it says.
LEMMA IdlStep ==
  ASSUME IdlInv, [IdlistNext]_idlist
  PROVE  IdlInv' /\ [IdsAbstract!INext]_<<Contents, asked>>
<1>1. PICK a \in Nat : Held(mem, size, a)
  BY DEF IdlInv
<1>2. ASSUME NEW index \in Nat, NEW id \in Ids, InsertAtIndex(index, id)
      PROVE  IdlInv' /\ IdsAbstract!INext
  <2>1. asked' = <<"insert", index + 1, id>>
    BY <1>2 DEF InsertAtIndex
  <2>2. asked' # <<>> /\ asked'[1] = "insert" /\ asked'[2] = index + 1 /\ asked'[3] = id
    BY <2>1
  <2>3. IdlInv'
    BY <1>1, <1>2, InsertPlaces
  <2>4. IdsAbstract!IInsert(index + 1, id)
    BY <1>1, <1>2, InsertContents
  <2> QED
    BY <2>2, <2>3, <2>4 DEF IdsAbstract!INext
<1>3. ASSUME NEW id \in Ids, AppendId(id) PROVE IdlInv' /\ IdsAbstract!INext
  <2>1. size - 1 \in Nat
    BY <1>1, ContentsIs
  <2> QED
    BY <1>2, <1>3, <2>1 DEF AppendId
<1>4. ASSUME NEW index \in Nat, NEW id \in Ids, SetIndex(index, id)
      PROVE  IdlInv' /\ IdsAbstract!INext
  <2>1. asked' = <<"set_index", index + 1, id>>
    BY <1>4 DEF SetIndex
  <2>2. asked' # <<>> /\ asked'[1] = "set_index" /\ asked'[2] = index + 1 /\ asked'[3] = id
    BY <2>1
  <2>3. IdlInv'
    BY <1>1, <1>4, SetPlaces DEF IdlInv
  <2>4. IdsAbstract!ISet(index + 1, id)
    BY <1>1, <1>4, SetContents
  <2> QED
    BY <2>2, <2>3, <2>4 DEF IdsAbstract!INext
<1>5. ASSUME NEW index \in Nat, RemoveId(index) PROVE IdlInv' /\ IdsAbstract!INext
  <2>1. asked' = <<"remove", index + 1>>
    BY <1>5 DEF RemoveId
  <2>2. asked' # <<>> /\ asked'[1] = "remove" /\ asked'[2] = index + 1
    BY <2>1
  <2>3. IdlInv'
    BY <1>1, <1>5, RemovePlaces
  <2>4. IdsAbstract!IRemove(index + 1)
    BY <1>1, <1>5, RemoveContents
  <2> QED
    BY <2>2, <2>3, <2>4 DEF IdsAbstract!INext
<1>6. ASSUME NEW from \in Nat, NEW to \in Nat, MoveId(from, to)
      PROVE  IdlInv' /\ IdsAbstract!INext
  <2>1. asked' = <<"move", from + 1, to + 1>>
    BY <1>6 DEF MoveId
  <2>2. asked' # <<>> /\ asked'[1] = "move" /\ asked'[2] = from + 1 /\ asked'[3] = to + 1
    BY <2>1
  <2>3. IdlInv'
    BY <1>1, <1>6, MovePlaces DEF IdlInv
  <2>4. IdsAbstract!IMove(from + 1, to + 1)
    BY <1>1, <1>6, MoveContents
  <2> QED
    BY <2>2, <2>3, <2>4 DEF IdsAbstract!INext
<1>7. ASSUME NEW ids, ids \in Lists \/ ids = << 0 >>, SetIdlist(ids)
      PROVE  IdlInv' /\ IdsAbstract!INext
  <2>1. asked' = <<"set", ids>>
    BY <1>7 DEF SetIdlist
  <2>2. asked' # <<>> /\ asked'[1] = "set" /\ asked'[2] = ids
    BY <2>1
  <2>3. ids \in Seq(IdsOr0) /\ ids # <<>> /\ ids[Len(ids)] = 0 /\ Len(ids) <= MaxIds + 1
    <3>1. CASE ids \in Lists
      BY <3>1, IdlistAssumption DEF IdsOr0
    <3>2. CASE ids = << 0 >>
      <4>1. 0 \in IdsOr0 /\ 1 <= MaxIds + 1
        BY IdlistAssumption DEF IdsOr0
      <4> QED
        BY <3>2, <4>1
    <3> QED
      BY <1>7, <3>1, <3>2
  <2>4. IdlInv' /\ IdsAbstract!IReplace(ids)
    BY <1>7, <2>3, ReplaceContents
  <2> QED
    BY <2>2, <2>4 DEF IdsAbstract!INext
<1>8. ASSUME InsertFails PROVE IdlInv' /\ IdsAbstract!INext
  <2>1. asked' = <<"failed">> /\ mem' = mem /\ size' = size
    BY <1>8 DEF InsertFails
  <2>2. asked' # <<>> /\ asked'[1] = "failed"
    BY <2>1
  <2>3. Contents' = Contents
    BY <2>1 DEF Contents
  <2> QED
    BY <1>1, <2>1, <2>2, <2>3 DEF IdlInv, IdsAbstract!INext
<1>9. ASSUME UNCHANGED idlist PROVE IdlInv' /\ UNCHANGED <<Contents, asked>>
  BY <1>1, <1>9 DEF IdlInv, idlist, Contents
<1>10. \A i \in 0..MaxIds : i \in Nat
  BY IdlistAssumption
<1>11. ASSUME IdlistNext PROVE IdlInv' /\ IdsAbstract!INext
  BY <1>2, <1>3, <1>4, <1>5, <1>6, <1>7, <1>8, <1>10, <1>11, Zenon DEF IdlistNext
<1> QED
  BY <1>9, <1>11

LEMMA IdlTypes == ASSUME IdlInv PROVE IdlistTypeOK
<1>1. PICK a \in Nat : Held(mem, size, a)
  BY DEF IdlInv
<1>2. Alloc(mem) = a
  BY <1>1, AllocIs DEF Held
<1>3. size \in 1..a /\ size \in 1..MaxIds + 1 /\ size <= a
  BY <1>1, IdlistAssumption DEF Held
<1> QED
  BY <1>1, <1>2, <1>3 DEF Held, IdlistTypeOK, IdsOr0

\* The first place that holds a 0 is the end, or an id 0.
LEMMA IdlReads == ASSUME IdlInv PROVE ReadToZero
<1>1. PICK a \in Nat : Held(mem, size, a)
  BY DEF IdlInv
<1>2. PICK k \in Nat : k = size - 1 /\ size = k + 1 /\ mem[k] = 0
  BY <1>1 DEF Held
<1> DEFINE T == {i \in 0..k : mem[i] = 0}
<1>3. T \subseteq Nat /\ k \in T
  BY <1>2
<1>4. PICK n \in T : \A i \in T : n <= i
  BY <1>3, LeastNat
<1>5. n \in 0..k /\ mem[n] = 0 /\ \A i \in 0..n - 1 : mem[i] # 0
  BY <1>4
<1>6. ASSUME NEW i \in 1..k PROVE Contents[i] = mem[i - 1] /\ i - 1 \in 0..k
  BY <1>1, <1>2, ContentsIs
<1>7. ASSUME NEW i \in 1..k, Contents[i] = 0 PROVE n < i
  <2>1. i - 1 \in T
    BY <1>6, <1>7
  <2>2. n <= i - 1
    BY <1>4, <2>1
  <2> QED
    BY <1>5, <2>2
<1>8. ASSUME \A i \in 1..k : Contents[i] # 0 PROVE n = k
  <2>1. CASE n < k
    <3>1. PICK i \in 1..k : i = n + 1 /\ i - 1 = n
      BY <1>5, <2>1
    <3>2. Contents[i] = 0
      BY <1>5, <1>6, <3>1
    <3> QED
      BY <1>8, <3>2
  <2> QED
    BY <1>5, <2>1
<1> QED
  BY <1>2, <1>5, <1>7, <1>8 DEF ReadToZero

\* THEOREM.  The array always ends with a 0 within its room, and who reads up to the
\* first 0 finds all ids before it, for any ids, any number of them, and whether or
\* not memory is found.
THEOREM ReadToZeroCorrect == IdlistSpec => [](IdlistTypeOK /\ ReadToZero)
<1>1. IdlistInit => IdlInv
  BY IdlInitially
<1>2. IdlInv /\ [IdlistNext]_idlist => IdlInv'
  BY IdlStep
<1>3. IdlInv => IdlistTypeOK /\ ReadToZero
  BY IdlTypes, IdlReads
<1> QED
  BY <1>1, <1>2, <1>3, PTL DEF IdlistSpec

\* THEOREM.  Call by call, the array with its shifting, doubling and halving does to
\* the ids what the call says.
THEOREM IdlistImplementsCorrect == IdlistSpec => IdlistImplements
<1>1. IdlistInit => IdlInv /\ IdsAbstract!IInit
  BY IdlInitially
<1>2. IdlInv /\ [IdlistNext]_idlist => IdlInv' /\ [IdsAbstract!INext]_<<Contents, asked>>
  BY IdlStep
<1> QED
  BY <1>1, <1>2, PTL DEF IdlistSpec, IdlistImplements, IdsAbstract!ISpec

-----------------------------------------------------------------------------
(* XList: what the pointers of the nodes are after each step of a call.     *)

Places == Nodes \cup {Null}

HeapOK(h) ==
  /\ DOMAIN h \subseteq Nodes /\ h = [n \in DOMAIN h |-> h[n]]
  /\ \A n \in DOMAIN h : h[n] \in Cells

\* g is h with next, or prev, of n set to m; with the new node c at k; without n.
NextSet(g, h, n, m) ==
  /\ HeapOK(g) /\ DOMAIN g = DOMAIN h
  /\ \A x \in DOMAIN h : /\ g[x].next = IF x = n THEN m ELSE h[x].next
                         /\ g[x].prev = h[x].prev /\ g[x].data = h[x].data
PrevSet(g, h, n, m) ==
  /\ HeapOK(g) /\ DOMAIN g = DOMAIN h
  /\ \A x \in DOMAIN h : /\ g[x].next = h[x].next /\ g[x].data = h[x].data
                         /\ g[x].prev = IF x = n THEN m ELSE h[x].prev
NewIn(g, h, k, c) ==
  /\ HeapOK(g) /\ DOMAIN g = DOMAIN h \cup {k}
  /\ \A x \in DOMAIN h \cup {k} : g[x] = IF x = k THEN c ELSE h[x]
Less(g, h, n) ==
  /\ HeapOK(g) /\ DOMAIN g = DOMAIN h \ {n}
  /\ \A x \in DOMAIN h \ {n} : g[x] = h[x]

LEMMA SetNextIs ==
  ASSUME NEW h, HeapOK(h), NEW n \in DOMAIN h \cup {Null}, NEW m \in Places
  PROVE  NextSet(SetNext(h, n, m), h, n, m)
<1>1. Null \notin DOMAIN h
  BY LinksAssumption DEF HeapOK
<1>2. CASE n = Null
  BY <1>1, <1>2 DEF SetNext, NextSet
<1>3. CASE n # Null
  <2>1. PICK c \in Cells : c = h[n]
    BY <1>3 DEF HeapOK
  <2>2. PICK e \in Cells : e = [c EXCEPT !.next = m] /\ e.next = m /\ e.prev = c.prev /\ e.data = c.data
    <3>1. c = [next |-> c.next, prev |-> c.prev, data |-> c.data] /\ c.prev \in Places /\ c.data \in Data
      BY DEF Cells, Places
    <3>2. PICK e : e = [next |-> m, prev |-> c.prev, data |-> c.data]
      OBVIOUS
    <3>3. [c EXCEPT !.next = m] = e
      BY <3>1, <3>2
    <3> QED
      BY <3>1, <3>2, <3>3 DEF Cells, Places
  <2>3. PICK g : g = [x \in DOMAIN h |-> IF x = n THEN e ELSE h[x]]
    OBVIOUS
  <2>4. SetNext(h, n, m) = g
    BY <1>3, <2>1, <2>2, <2>3 DEF SetNext, HeapOK
  <2>5. DOMAIN g = DOMAIN h /\ \A x \in DOMAIN h : g[x] = IF x = n THEN e ELSE h[x]
    BY <2>3
  <2>6. g = [x \in DOMAIN g |-> g[x]]
    BY <2>3
  <2>7. HeapOK(g)
    BY <2>5, <2>6 DEF HeapOK
  <2> QED
    BY <2>1, <2>2, <2>4, <2>5, <2>7 DEF NextSet
<1> QED
  BY <1>2, <1>3

LEMMA SetPrevIs ==
  ASSUME NEW h, HeapOK(h), NEW n \in DOMAIN h \cup {Null}, NEW m \in Places
  PROVE  PrevSet(SetPrev(h, n, m), h, n, m)
<1>1. Null \notin DOMAIN h
  BY LinksAssumption DEF HeapOK
<1>2. CASE n = Null
  BY <1>1, <1>2 DEF SetPrev, PrevSet
<1>3. CASE n # Null
  <2>1. PICK c \in Cells : c = h[n]
    BY <1>3 DEF HeapOK
  <2>2. PICK e \in Cells : e = [c EXCEPT !.prev = m] /\ e.next = c.next /\ e.prev = m /\ e.data = c.data
    <3>1. c = [next |-> c.next, prev |-> c.prev, data |-> c.data] /\ c.next \in Places /\ c.data \in Data
      BY DEF Cells, Places
    <3>2. PICK e : e = [next |-> c.next, prev |-> m, data |-> c.data]
      OBVIOUS
    <3>3. [c EXCEPT !.prev = m] = e
      BY <3>1, <3>2
    <3> QED
      BY <3>1, <3>2, <3>3 DEF Cells, Places
  <2>3. PICK g : g = [x \in DOMAIN h |-> IF x = n THEN e ELSE h[x]]
    OBVIOUS
  <2>4. SetPrev(h, n, m) = g
    BY <1>3, <2>1, <2>2, <2>3 DEF SetPrev, HeapOK
  <2>5. DOMAIN g = DOMAIN h /\ \A x \in DOMAIN h : g[x] = IF x = n THEN e ELSE h[x]
    BY <2>3
  <2>6. g = [x \in DOMAIN g |-> g[x]]
    BY <2>3
  <2>7. HeapOK(g)
    BY <2>5, <2>6 DEF HeapOK
  <2> QED
    BY <2>1, <2>2, <2>4, <2>5, <2>7 DEF PrevSet
<1> QED
  BY <1>2, <1>3

\* The heap h with the node k new.
LEMMA AllocatedIs ==
  ASSUME NEW h, HeapOK(h), NEW k \in Nodes \ DOMAIN h, NEW c \in Cells
  PROVE  NewIn(Allocated(h, k, c), h, k, c)
<1>1. PICK g : g = Allocated(h, k, c)
  OBVIOUS
<1>2. g = [x \in DOMAIN h \cup {k} |-> IF x = k THEN c ELSE h[x]]
  BY <1>1 DEF HeapOK, Allocated
<1> QED
  BY <1>1, <1>2 DEF HeapOK, NewIn

LEMMA FreedIs ==
  ASSUME NEW h, HeapOK(h), NEW n
  PROVE  Less(Freed(h, n), h, n)
<1>1. PICK g : g = Freed(h, n)
  OBVIOUS
<1>2. g = [x \in DOMAIN h \ {n} |-> h[x]]
  BY <1>1 DEF Freed, Restrict
<1> QED
  BY <1>1, <1>2 DEF HeapOK, Less

\* g is h with the node k between the nodes a and b, of which either may be Null.
Spliced(h, g, k, a, b, d) ==
  /\ HeapOK(g) /\ DOMAIN g = DOMAIN h \cup {k}
  /\ g[k].next = b /\ g[k].prev = a /\ g[k].data = d
  /\ \A x \in DOMAIN h : /\ g[x].next = IF x = a THEN k ELSE h[x].next
                         /\ g[x].prev = IF x = b THEN k ELSE h[x].prev
                         /\ g[x].data = h[x].data

\* g is h without the node k, whose neighbours are linked to each other.
CutOut(h, g, k) ==
  /\ HeapOK(g) /\ DOMAIN g = DOMAIN h \ {k}
  /\ \A x \in DOMAIN h \ {k} :
       /\ g[x].next = IF x = h[k].prev THEN h[k].next ELSE h[x].next
       /\ g[x].prev = IF x = h[k].next THEN h[k].prev ELSE h[x].prev
       /\ g[x].data = h[x].data

LEMMA BehindSplices ==
  ASSUME NEW h, HeapOK(h), NEW k \in Nodes \ DOMAIN h, NEW n \in DOMAIN h \cup {Null}, NEW d \in Data
  PROVE  Spliced(h, Behind(h, k, n, d), k, n, Null, d)
<1>1. n \in Places /\ k \in Places /\ Null \in Places /\ k # n /\ Null \notin DOMAIN h
  BY LinksAssumption DEF HeapOK, Places
<1>2. PICK c \in Cells : c = Node(Null, n, d) /\ c.next = Null /\ c.prev = n /\ c.data = d
  <2>1. PICK c : c = [next |-> Null, prev |-> n, data |-> d]
    OBVIOUS
  <2> QED
    BY <1>1, <2>1 DEF Node, Cells, Places
<1>3. PICK e : e = Allocated(h, k, c)
  OBVIOUS
<1>4. /\ HeapOK(e) /\ DOMAIN e = DOMAIN h \cup {k}
      /\ \A x \in DOMAIN h \cup {k} : e[x] = IF x = k THEN c ELSE h[x]
  <2>1. NewIn(e, h, k, c)
    BY <1>3, AllocatedIs
  <2> QED
    BY <2>1 DEF NewIn
<1>5. PICK g : g = SetNext(e, n, k)
  OBVIOUS
<1>6. n \in DOMAIN e \cup {Null}
  BY <1>4
<1>7. /\ HeapOK(g) /\ DOMAIN g = DOMAIN e
      /\ \A x \in DOMAIN e : /\ g[x].next = IF x = n THEN k ELSE e[x].next
                             /\ g[x].prev = e[x].prev /\ g[x].data = e[x].data
  <2>1. NextSet(g, e, n, k)
    BY <1>1, <1>4, <1>5, <1>6, SetNextIs
  <2> QED
    BY <2>1 DEF NextSet
<1>8. g = Behind(h, k, n, d)
  BY <1>2, <1>3, <1>5 DEF Behind
<1>9. \A x \in DOMAIN h : e[x] = h[x] /\ x # k /\ x # Null
  BY <1>1, <1>4
<1>10. g[k].next = Null /\ g[k].prev = n /\ g[k].data = d
  BY <1>1, <1>2, <1>4, <1>7
<1>11. \A x \in DOMAIN h : /\ g[x].next = IF x = n THEN k ELSE h[x].next
                           /\ g[x].prev = IF x = Null THEN k ELSE h[x].prev
                           /\ g[x].data = h[x].data
  BY <1>4, <1>7, <1>9
<1>12. Spliced(h, g, k, n, Null, d)
  BY <1>4, <1>7, <1>10, <1>11 DEF Spliced
<1> QED
  BY <1>8, <1>12

LEMMA BeforeSplices ==
  ASSUME NEW h, HeapOK(h), NEW k \in Nodes \ DOMAIN h, NEW n \in DOMAIN h,
         h[n].prev \in DOMAIN h \cup {Null}, NEW d \in Data
  PROVE  Spliced(h, Before(h, k, n, d), k, h[n].prev, n, d)
<1>1. PICK a \in DOMAIN h \cup {Null} : a = h[n].prev
  OBVIOUS
<1>2. a \in Places /\ n \in Places /\ k \in Places /\ k # n /\ k # a /\ Null \notin DOMAIN h
  BY LinksAssumption DEF HeapOK, Places
<1>3. PICK c \in Cells : c = Node(n, a, d) /\ c.next = n /\ c.prev = a /\ c.data = d
  <2>1. PICK c : c = [next |-> n, prev |-> a, data |-> d]
    OBVIOUS
  <2> QED
    BY <1>2, <2>1 DEF Node, Cells, Places
<1>4. PICK e : e = Allocated(h, k, c)
  OBVIOUS
<1>5. /\ HeapOK(e) /\ DOMAIN e = DOMAIN h \cup {k}
      /\ \A x \in DOMAIN h \cup {k} : e[x] = IF x = k THEN c ELSE h[x]
  <2>1. NewIn(e, h, k, c)
    BY <1>4, AllocatedIs
  <2> QED
    BY <2>1 DEF NewIn
<1>6. PICK f : f = SetNext(e, a, k)
  OBVIOUS
<1>7. a \in DOMAIN e \cup {Null}
  BY <1>5
<1>8. /\ HeapOK(f) /\ DOMAIN f = DOMAIN e
      /\ \A x \in DOMAIN e : /\ f[x].next = IF x = a THEN k ELSE e[x].next
                             /\ f[x].prev = e[x].prev /\ f[x].data = e[x].data
  <2>1. NextSet(f, e, a, k)
    BY <1>2, <1>5, <1>6, <1>7, SetNextIs
  <2> QED
    BY <2>1 DEF NextSet
<1>9. PICK g : g = SetPrev(f, n, k)
  OBVIOUS
<1>10. n \in DOMAIN f \cup {Null}
  BY <1>5, <1>8
<1>11. /\ HeapOK(g) /\ DOMAIN g = DOMAIN f
       /\ \A x \in DOMAIN f : /\ g[x].next = f[x].next
                              /\ g[x].prev = IF x = n THEN k ELSE f[x].prev
                              /\ g[x].data = f[x].data
  <2>1. PrevSet(g, f, n, k)
    BY <1>2, <1>8, <1>9, <1>10, SetPrevIs
  <2> QED
    BY <2>1 DEF PrevSet
<1>12. g = Before(h, k, n, d)
  BY <1>1, <1>3, <1>4, <1>6, <1>9 DEF Before
<1>13. \A x \in DOMAIN h : e[x] = h[x] /\ x # k /\ x \in DOMAIN e /\ x \in DOMAIN f
  BY <1>2, <1>5, <1>8
<1>14. k \in DOMAIN e /\ k \in DOMAIN f /\ e[k] = c
  BY <1>5, <1>8
<1>15. g[k].next = n /\ g[k].prev = a /\ g[k].data = d
  BY <1>2, <1>3, <1>8, <1>11, <1>14
<1>16. \A x \in DOMAIN h : /\ g[x].next = IF x = a THEN k ELSE h[x].next
                           /\ g[x].prev = IF x = n THEN k ELSE h[x].prev
                           /\ g[x].data = h[x].data
  BY <1>8, <1>11, <1>13
<1>17. Spliced(h, g, k, a, n, d)
  BY <1>5, <1>8, <1>11, <1>15, <1>16 DEF Spliced
<1> QED
  BY <1>1, <1>12, <1>17

\* g is h with the nodes a and b, of which either may be Null, linked to each other.
Bridged(g, h, a, b) ==
  /\ HeapOK(g) /\ DOMAIN g = DOMAIN h
  /\ \A x \in DOMAIN h : /\ g[x].next = IF x = a THEN b ELSE h[x].next
                         /\ g[x].prev = IF x = b THEN a ELSE h[x].prev
                         /\ g[x].data = h[x].data

LEMMA UnlinkedIs ==
  ASSUME NEW h, HeapOK(h), NEW k \in DOMAIN h, NEW a \in DOMAIN h \cup {Null},
         NEW b \in DOMAIN h \cup {Null}, a = h[k].prev, b = h[k].next, a # k, b # k
  PROVE  Bridged(Unlinked(h, k), h, a, b)
<1>1. a \in Places /\ b \in Places
  BY DEF HeapOK, Places
<1>2. PICK f : f = SetNext(h, a, b)
  OBVIOUS
<1>3. /\ HeapOK(f) /\ DOMAIN f = DOMAIN h
      /\ \A x \in DOMAIN h : /\ f[x].next = IF x = a THEN b ELSE h[x].next
                             /\ f[x].prev = h[x].prev /\ f[x].data = h[x].data
  <2>1. NextSet(f, h, a, b)
    BY <1>1, <1>2, SetNextIs
  <2> QED
    BY <2>1 DEF NextSet
<1>4. PICK g : g = SetPrev(f, b, a)
  OBVIOUS
<1>5. b \in DOMAIN f \cup {Null}
  BY <1>3
<1>6. /\ HeapOK(g) /\ DOMAIN g = DOMAIN f
      /\ \A x \in DOMAIN f : /\ g[x].next = f[x].next
                             /\ g[x].prev = IF x = b THEN a ELSE f[x].prev
                             /\ g[x].data = f[x].data
  <2>1. PrevSet(g, f, b, a)
    BY <1>1, <1>3, <1>4, <1>5, SetPrevIs
  <2> QED
    BY <2>1 DEF PrevSet
<1>7. g = Unlinked(h, k)
  BY <1>2, <1>4 DEF Unlinked
<1>8. \A x \in DOMAIN h : /\ g[x].next = IF x = a THEN b ELSE h[x].next
                          /\ g[x].prev = IF x = b THEN a ELSE h[x].prev
                          /\ g[x].data = h[x].data
  BY <1>3, <1>6
<1>9. Bridged(g, h, a, b)
  BY <1>3, <1>6, <1>8 DEF Bridged
<1> QED
  BY <1>7, <1>9

LEMMA UnlinkedCutsOut ==
  ASSUME NEW h, HeapOK(h), NEW k \in DOMAIN h, NEW a \in DOMAIN h \cup {Null},
         NEW b \in DOMAIN h \cup {Null}, a = h[k].prev, b = h[k].next, a # k, b # k
  PROVE  CutOut(h, Freed(Unlinked(h, k), k), k)
<1>1. PICK f : f = Unlinked(h, k)
  OBVIOUS
<1>2. /\ HeapOK(f) /\ DOMAIN f = DOMAIN h
      /\ \A x \in DOMAIN h : /\ f[x].next = IF x = a THEN b ELSE h[x].next
                             /\ f[x].prev = IF x = b THEN a ELSE h[x].prev
                             /\ f[x].data = h[x].data
  <2>1. Bridged(f, h, a, b)
    BY <1>1, UnlinkedIs
  <2> QED
    BY <2>1 DEF Bridged
<1>3. PICK g : g = Freed(f, k)
  OBVIOUS
<1>4. /\ HeapOK(g) /\ DOMAIN g = DOMAIN f \ {k}
      /\ \A x \in DOMAIN f \ {k} : g[x] = f[x]
  <2>1. Less(g, f, k)
    BY <1>2, <1>3, FreedIs
  <2> QED
    BY <2>1 DEF Less
<1>5. CutOut(h, g, k)
  BY <1>2, <1>4 DEF CutOut
<1> QED
  BY <1>1, <1>3, <1>5

\* x_queue_pop_head and x_queue_pop_tail: the node has only one neighbour.
LEMMA HeadCutsOut ==
  ASSUME NEW h, HeapOK(h), NEW k \in DOMAIN h, NEW b \in DOMAIN h \cup {Null},
         h[k].prev = Null, b = h[k].next, b # k
  PROVE  CutOut(h, Freed(SetPrev(h, b, Null), k), k)
<1>1. Null \in Places /\ Null \notin DOMAIN h
  BY LinksAssumption DEF HeapOK, Places
<1>2. PICK f : f = SetPrev(h, b, Null)
  OBVIOUS
<1>3. /\ HeapOK(f) /\ DOMAIN f = DOMAIN h
      /\ \A x \in DOMAIN h : /\ f[x].next = h[x].next
                             /\ f[x].prev = IF x = b THEN Null ELSE h[x].prev
                             /\ f[x].data = h[x].data
  <2>1. PrevSet(f, h, b, Null)
    BY <1>1, <1>2, SetPrevIs
  <2> QED
    BY <2>1 DEF PrevSet
<1>4. PICK g : g = Freed(f, k)
  OBVIOUS
<1>5. /\ HeapOK(g) /\ DOMAIN g = DOMAIN f \ {k}
      /\ \A x \in DOMAIN f \ {k} : g[x] = f[x]
  <2>1. Less(g, f, k)
    BY <1>3, <1>4, FreedIs
  <2> QED
    BY <2>1 DEF Less
<1>6. CutOut(h, g, k)
  BY <1>1, <1>3, <1>5 DEF CutOut
<1> QED
  BY <1>2, <1>4, <1>6

LEMMA TailCutsOut ==
  ASSUME NEW h, HeapOK(h), NEW k \in DOMAIN h, NEW a \in DOMAIN h \cup {Null},
         h[k].next = Null, a = h[k].prev, a # k
  PROVE  CutOut(h, Freed(SetNext(h, a, Null), k), k)
<1>1. Null \in Places /\ Null \notin DOMAIN h
  BY LinksAssumption DEF HeapOK, Places
<1>2. PICK f : f = SetNext(h, a, Null)
  OBVIOUS
<1>3. /\ HeapOK(f) /\ DOMAIN f = DOMAIN h
      /\ \A x \in DOMAIN h : /\ f[x].next = IF x = a THEN Null ELSE h[x].next
                             /\ f[x].prev = h[x].prev
                             /\ f[x].data = h[x].data
  <2>1. NextSet(f, h, a, Null)
    BY <1>1, <1>2, SetNextIs
  <2> QED
    BY <2>1 DEF NextSet
<1>4. PICK g : g = Freed(f, k)
  OBVIOUS
<1>5. /\ HeapOK(g) /\ DOMAIN g = DOMAIN f \ {k}
      /\ \A x \in DOMAIN f \ {k} : g[x] = f[x]
  <2>1. Less(g, f, k)
    BY <1>3, <1>4, FreedIs
  <2> QED
    BY <2>1 DEF Less
<1>6. CutOut(h, g, k)
  BY <1>1, <1>3, <1>5 DEF CutOut
<1> QED
  BY <1>2, <1>4, <1>6

-----------------------------------------------------------------------------
(* The lists in the heap: one sequence of nodes for every list, and for the *)
(* queue, that the pointers agree with.                                     *)

\* The i-th node of w, Null before the first and behind the last.
NodeAt(w, i) == IF i \in 1..Len(w) THEN w[i] ELSE Null

Laid(h, W) ==
  /\ HeapOK(h) /\ W \in [Walks -> Seq(Nodes)]
  /\ \A l \in Walks : \A i \in 1..Len(W[l]) :
       /\ W[l][i] \in DOMAIN h
       /\ h[W[l][i]].next = NodeAt(W[l], i + 1) /\ h[W[l][i]].prev = NodeAt(W[l], i - 1)
  /\ \A n \in DOMAIN h : \E l \in Walks : \E i \in 1..Len(W[l]) : W[l][i] = n
  /\ \A l, m \in Walks : \A i \in 1..Len(W[l]), j \in 1..Len(W[m]) :
       W[l][i] = W[m][j] => l = m /\ i = j

LEMMA AtInserted ==
  ASSUME NEW w \in Seq(Nodes), NEW p \in 1..Len(w) + 1, NEW k \in Nodes
  PROVE  /\ InsertAt(w, p, k) \in Seq(Nodes) /\ Len(InsertAt(w, p, k)) = Len(w) + 1
         /\ \A i \in Int : NodeAt(InsertAt(w, p, k), i) =
              IF i < p THEN NodeAt(w, i) ELSE IF i = p THEN k ELSE NodeAt(w, i - 1)
<1>1. PICK t : t = InsertAt(w, p, k)
  OBVIOUS
<1>2. PICK n \in Nat : n = Len(w)
  BY LenProperties
<1>3. InsertedAt(t, Nodes, w, p, k)
  BY <1>1, InsertAtPlaces
<1>4. /\ t \in Seq(Nodes) /\ Len(t) = n + 1
      /\ \A i \in 1..n + 1 : t[i] = IF i < p THEN w[i] ELSE IF i = p THEN k ELSE w[i - 1]
  BY <1>2, <1>3 DEF InsertedAt
<1>5. ASSUME NEW i \in Int
      PROVE NodeAt(t, i) = IF i < p THEN NodeAt(w, i) ELSE IF i = p THEN k ELSE NodeAt(w, i - 1)
  <2>1. p \in 1..n + 1
    BY <1>2
  <2>2. CASE i \in 1..n + 1
    <3>1. i < p => i \in 1..n
      BY <2>1, <2>2
    <3>2. i > p => i - 1 \in 1..n
      BY <2>1, <2>2
    <3>3. NodeAt(t, i) = t[i]
      BY <1>4, <2>2 DEF NodeAt
    <3> QED
      BY <1>2, <1>4, <2>1, <2>2, <3>1, <3>2, <3>3 DEF NodeAt
  <2>3. CASE i \notin 1..n + 1
    <3>1. i # p /\ i \notin 1..n /\ (i > p => i - 1 \notin 1..n)
      BY <2>1, <2>3
    <3>2. NodeAt(t, i) = Null
      BY <1>4, <2>3 DEF NodeAt
    <3> QED
      BY <1>2, <2>1, <3>1, <3>2 DEF NodeAt
  <2> QED
    BY <2>2, <2>3
<1> QED
  BY <1>1, <1>2, <1>4, <1>5

LEMMA AtRemoved ==
  ASSUME NEW w \in Seq(Nodes), NEW p \in 1..Len(w)
  PROVE  /\ RemoveAt(w, p) \in Seq(Nodes) /\ Len(RemoveAt(w, p)) = Len(w) - 1
         /\ \A i \in Int : NodeAt(RemoveAt(w, p), i) = IF i < p THEN NodeAt(w, i) ELSE NodeAt(w, i + 1)
<1>1. PICK t : t = RemoveAt(w, p)
  OBVIOUS
<1>2. PICK n \in Nat : n = Len(w)
  BY LenProperties
<1>3. RemovedAt(t, Nodes, w, p)
  BY <1>1, RemoveAtPlaces
<1>4. /\ t \in Seq(Nodes) /\ Len(t) = n - 1
      /\ \A i \in 1..n - 1 : t[i] = IF i < p THEN w[i] ELSE w[i + 1]
  BY <1>2, <1>3 DEF RemovedAt
<1>5. ASSUME NEW i \in Int PROVE NodeAt(t, i) = IF i < p THEN NodeAt(w, i) ELSE NodeAt(w, i + 1)
  <2>1. p \in 1..n
    BY <1>2
  <2>2. CASE i \in 1..n - 1
    <3>1. i \in 1..n /\ i + 1 \in 1..n
      BY <2>1, <2>2
    <3>2. NodeAt(t, i) = t[i]
      BY <1>4, <2>2 DEF NodeAt
    <3> QED
      BY <1>2, <1>4, <2>1, <2>2, <3>1, <3>2 DEF NodeAt
  <2>3. CASE i \notin 1..n - 1
    <3>1. (i < p => i \notin 1..n) /\ (i >= p => i + 1 \notin 1..n)
      BY <2>1, <2>3
    <3>2. NodeAt(t, i) = Null
      BY <1>4, <2>3 DEF NodeAt
    <3> QED
      BY <1>2, <2>1, <3>1, <3>2 DEF NodeAt
  <2> QED
    BY <2>2, <2>3
<1> QED
  BY <1>1, <1>2, <1>4, <1>5

\* What Laid says, at every place.
LEMMA LaidAt ==
  ASSUME NEW h, NEW W, Laid(h, W)
  PROVE  /\ Null \notin DOMAIN h
         /\ \A l \in Walks : W[l] \in Seq(Nodes) /\ Len(W[l]) \in Nat
         /\ \A l \in Walks : \A i \in Int :
              /\ NodeAt(W[l], i) \in DOMAIN h \cup {Null}
              /\ NodeAt(W[l], i) = Null <=> i \notin 1..Len(W[l])
         /\ \A l \in Walks : \A i \in 1..Len(W[l]) :
              /\ NodeAt(W[l], i) = W[l][i]
              /\ h[NodeAt(W[l], i)].next = NodeAt(W[l], i + 1) /\ h[NodeAt(W[l], i)].prev = NodeAt(W[l], i - 1)
         /\ \A l, m \in Walks : \A i, j \in Int :
              NodeAt(W[l], i) = NodeAt(W[m], j) /\ NodeAt(W[l], i) # Null => l = m /\ i = j
<1>1. Null \notin DOMAIN h
  BY LinksAssumption DEF Laid, HeapOK
<1>2. \A l \in Walks : W[l] \in Seq(Nodes) /\ Len(W[l]) \in Nat
  BY LenProperties DEF Laid
<1>3. \A l \in Walks : \A i \in 1..Len(W[l]) : NodeAt(W[l], i) = W[l][i] /\ W[l][i] \in DOMAIN h
  BY DEF Laid, NodeAt
<1>4. ASSUME NEW l \in Walks, NEW i \in Int
      PROVE  /\ NodeAt(W[l], i) \in DOMAIN h \cup {Null}
             /\ NodeAt(W[l], i) = Null <=> i \notin 1..Len(W[l])
  <2>1. CASE i \in 1..Len(W[l])
    BY <1>1, <1>3, <2>1
  <2>2. CASE i \notin 1..Len(W[l])
    BY <2>2 DEF NodeAt
  <2> QED
    BY <2>1, <2>2
<1>5. ASSUME NEW l \in Walks, NEW m \in Walks, NEW i \in Int, NEW j \in Int,
             NodeAt(W[l], i) = NodeAt(W[m], j), NodeAt(W[l], i) # Null
      PROVE  l = m /\ i = j
  <2>1. i \in 1..Len(W[l]) /\ j \in 1..Len(W[m])
    BY <1>4, <1>5
  <2>2. W[l][i] = W[m][j]
    BY <1>3, <1>5, <2>1
  <2> QED
    BY <2>1, <2>2 DEF Laid
<1>6. \A l \in Walks : \A i \in 1..Len(W[l]) :
        h[W[l][i]].next = NodeAt(W[l], i + 1) /\ h[W[l][i]].prev = NodeAt(W[l], i - 1)
  BY DEF Laid
<1> QED
  BY <1>1, <1>2, <1>3, <1>4, <1>5, <1>6

\* ... and the other way round.
LEMMA LaidIf ==
  ASSUME NEW h, NEW W, HeapOK(h), W \in [Walks -> Seq(Nodes)],
         \A l \in Walks : \A i \in 1..Len(W[l]) :
           /\ NodeAt(W[l], i) \in DOMAIN h
           /\ h[NodeAt(W[l], i)].next = NodeAt(W[l], i + 1) /\ h[NodeAt(W[l], i)].prev = NodeAt(W[l], i - 1),
         \A n \in DOMAIN h : \E l \in Walks : \E i \in 1..Len(W[l]) : NodeAt(W[l], i) = n,
         \A l, m \in Walks : \A i \in 1..Len(W[l]), j \in 1..Len(W[m]) :
           NodeAt(W[l], i) = NodeAt(W[m], j) => l = m /\ i = j
  PROVE  Laid(h, W)
<1>1. \A l \in Walks : \A i \in 1..Len(W[l]) : NodeAt(W[l], i) = W[l][i]
  BY DEF NodeAt
<1>2. ASSUME NEW l \in Walks, NEW i \in 1..Len(W[l])
      PROVE  /\ W[l][i] \in DOMAIN h
             /\ h[W[l][i]].next = NodeAt(W[l], i + 1) /\ h[W[l][i]].prev = NodeAt(W[l], i - 1)
  BY <1>1
<1>3. ASSUME NEW n \in DOMAIN h PROVE \E l \in Walks : \E i \in 1..Len(W[l]) : W[l][i] = n
  <2>1. PICK l \in Walks : \E i \in 1..Len(W[l]) : NodeAt(W[l], i) = n
    OBVIOUS
  <2>2. PICK i \in 1..Len(W[l]) : NodeAt(W[l], i) = n
    BY <2>1
  <2>3. W[l][i] = n
    BY <1>1, <2>2
  <2> QED
    BY <2>3
<1>4. ASSUME NEW l \in Walks, NEW m \in Walks, NEW i \in 1..Len(W[l]), NEW j \in 1..Len(W[m]),
             W[l][i] = W[m][j]
      PROVE  l = m /\ i = j
  <2>1. NodeAt(W[l], i) = NodeAt(W[m], j)
    BY <1>1, <1>4
  <2> QED
    BY <2>1
<1> QED
  BY <1>2, <1>3, <1>4 DEF Laid

\* A node more in the list l, at p.
LEMMA LaidInsert ==
  ASSUME NEW h, NEW W, Laid(h, W), NEW l \in Walks, NEW p \in 1..Len(W[l]) + 1,
         NEW k \in Nodes \ DOMAIN h, NEW d, NEW g,
         Spliced(h, g, k, NodeAt(W[l], p - 1), NodeAt(W[l], p), d)
  PROVE  Laid(g, [W EXCEPT ![l] = InsertAt(W[l], p, k)])
<1>1. PICK a, b : a = NodeAt(W[l], p - 1) /\ b = NodeAt(W[l], p)
  OBVIOUS
<1>2. PICK w \in Seq(Nodes), n \in Nat : w = W[l] /\ n = Len(w)
  BY LaidAt
<1>3. PICK t \in Seq(Nodes) :
        /\ t = InsertAt(w, p, k) /\ Len(t) = n + 1
        /\ \A i \in Int : NodeAt(t, i) = IF i < p THEN NodeAt(w, i) ELSE IF i = p THEN k ELSE NodeAt(w, i - 1)
  BY <1>2, AtInserted
<1>4. PICK V : V = [W EXCEPT ![l] = t]
  OBVIOUS
<1>5. V \in [Walks -> Seq(Nodes)] /\ V[l] = t /\ \A m \in Walks : m # l => V[m] = W[m]
  BY <1>3, <1>4 DEF Laid
<1>6. p \in 1..n + 1 /\ p \in Int /\ k \notin DOMAIN h /\ k # Null
  BY <1>2, LinksAssumption
<1>7. /\ HeapOK(g) /\ DOMAIN g = DOMAIN h \cup {k}
      /\ g[k].next = b /\ g[k].prev = a
      /\ \A x \in DOMAIN h : /\ g[x].next = IF x = a THEN k ELSE h[x].next
                             /\ g[x].prev = IF x = b THEN k ELSE h[x].prev
  BY <1>1 DEF Spliced
<1>8. ASSUME NEW i \in 1..n
      PROVE  /\ NodeAt(w, i) \in DOMAIN h /\ NodeAt(w, i) # Null
             /\ h[NodeAt(w, i)].next = NodeAt(w, i + 1) /\ h[NodeAt(w, i)].prev = NodeAt(w, i - 1)
             /\ NodeAt(w, i) = a <=> i = p - 1
             /\ NodeAt(w, i) = b <=> i = p
  <2>1. NodeAt(w, i) \in DOMAIN h /\ NodeAt(w, i) # Null
    BY <1>2, LaidAt
  <2>2. h[NodeAt(w, i)].next = NodeAt(w, i + 1) /\ h[NodeAt(w, i)].prev = NodeAt(w, i - 1)
    BY <1>2, LaidAt
  <2>3. \A j \in Int : NodeAt(w, i) = NodeAt(w, j) => i = j
    BY <1>2, <2>1, LaidAt
  <2>4. p - 1 \in Int /\ a = NodeAt(w, p - 1) /\ b = NodeAt(w, p)
    BY <1>1, <1>2, <1>6
  <2> QED
    BY <1>6, <2>1, <2>2, <2>3, <2>4
<1>9. ASSUME NEW i \in 1..n + 1
      PROVE  /\ NodeAt(t, i) \in DOMAIN g
             /\ g[NodeAt(t, i)].next = NodeAt(t, i + 1) /\ g[NodeAt(t, i)].prev = NodeAt(t, i - 1)
  <2>1. i \in Int /\ i + 1 \in Int /\ i - 1 \in Int
    OBVIOUS
  <2>2. CASE i = p
    <3>1. NodeAt(t, i) = k /\ NodeAt(t, i + 1) = NodeAt(w, i + 1 - 1) /\ NodeAt(t, i - 1) = NodeAt(w, i - 1)
      BY <1>3, <1>6, <2>1, <2>2
    <3>2. i + 1 - 1 = p
      BY <2>2
    <3>3. NodeAt(t, i + 1) = b /\ NodeAt(t, i - 1) = a
      BY <1>1, <1>2, <2>2, <3>1, <3>2
    <3> QED
      BY <1>7, <3>1, <3>3
  <2>3. CASE i < p
    <3>1. i \in 1..n /\ i - 1 < p
      BY <1>6, <2>3
    <3>2. NodeAt(t, i) = NodeAt(w, i) /\ NodeAt(t, i - 1) = NodeAt(w, i - 1)
      BY <1>3, <2>1, <2>3, <3>1
    <3>3. NodeAt(t, i + 1) = IF i = p - 1 THEN k ELSE NodeAt(w, i + 1)
      BY <1>3, <1>6, <2>1, <2>3
    <3>4. NodeAt(w, i) # b
      BY <1>8, <2>3, <3>1
    <3> QED
      BY <1>7, <1>8, <3>1, <3>2, <3>3, <3>4
  <2>4. CASE i > p
    <3>1. PICK j \in 1..n : j = i - 1 /\ j + 1 = i /\ j >= p /\ j \in Int
      BY <1>6, <2>4
    <3>2. NodeAt(t, i) = NodeAt(w, j) /\ NodeAt(t, i - 1) = IF j = p THEN k ELSE NodeAt(w, j - 1)
      BY <1>3, <1>6, <2>1, <2>4, <3>1
    <3>3. NodeAt(t, i + 1) = NodeAt(w, j + 1)
      <4>1. ~(i + 1 < p) /\ i + 1 # p /\ i + 1 - 1 = j + 1
        BY <1>6, <2>4, <3>1
      <4>2. NodeAt(t, i + 1) = NodeAt(w, i + 1 - 1)
        BY <1>3, <2>1, <4>1
      <4> QED
        BY <4>1, <4>2
    <3>4. NodeAt(w, j) # a
      BY <1>6, <1>8, <3>1
    <3> QED
      BY <1>7, <1>8, <3>1, <3>2, <3>3, <3>4
  <2> QED
    BY <1>6, <2>1, <2>2, <2>3, <2>4
<1>10. ASSUME NEW m \in Walks, m # l, NEW i \in 1..Len(W[m])
       PROVE  /\ NodeAt(W[m], i) \in DOMAIN g /\ NodeAt(W[m], i) \in DOMAIN h
              /\ g[NodeAt(W[m], i)].next = NodeAt(W[m], i + 1) /\ g[NodeAt(W[m], i)].prev = NodeAt(W[m], i - 1)
  <2>1. NodeAt(W[m], i) \in DOMAIN h /\ NodeAt(W[m], i) # Null /\ i \in Int
    BY LaidAt
  <2>2. NodeAt(W[m], i) # a /\ NodeAt(W[m], i) # b
    <3>1. p - 1 \in Int /\ p \in Int
      BY <1>6
    <3> QED
      BY <1>1, <1>10, <2>1, <3>1, LaidAt
  <2>3. h[NodeAt(W[m], i)].next = NodeAt(W[m], i + 1) /\ h[NodeAt(W[m], i)].prev = NodeAt(W[m], i - 1)
    BY LaidAt
  <2> QED
    BY <1>7, <2>1, <2>2, <2>3
<1>11. ASSUME NEW m \in Walks, NEW i \in 1..Len(V[m])
       PROVE  /\ NodeAt(V[m], i) \in DOMAIN g
              /\ g[NodeAt(V[m], i)].next = NodeAt(V[m], i + 1) /\ g[NodeAt(V[m], i)].prev = NodeAt(V[m], i - 1)
  <2>1. CASE m = l
    BY <1>3, <1>5, <1>9, <2>1
  <2>2. CASE m # l
    BY <1>5, <1>10, <2>2
  <2> QED
    BY <2>1, <2>2
<1>12. ASSUME NEW x \in DOMAIN g PROVE \E m \in Walks : \E i \in 1..Len(V[m]) : NodeAt(V[m], i) = x
  <2>1. CASE x = k
    <3>1. NodeAt(V[l], p) = k /\ p \in 1..Len(V[l])
      BY <1>3, <1>5, <1>6
    <3> QED
      BY <2>1, <3>1
  <2>2. CASE x # k
    <3>1. x \in DOMAIN h
      BY <1>7, <2>2
    <3>2. PICK m \in Walks : \E j \in 1..Len(W[m]) : W[m][j] = x
      BY <3>1 DEF Laid
    <3>6. PICK j \in 1..Len(W[m]) : NodeAt(W[m], j) = x
      BY <3>2, LaidAt
    <3>3. CASE m # l
      BY <1>5, <3>3, <3>6
    <3>4. CASE m = l
      <4>1. j \in 1..n
        BY <1>2, <3>4
      <4>2. PICK i \in 1..n + 1 : i = IF j < p THEN j ELSE j + 1
        BY <4>1
      <4>3. NodeAt(t, i) = NodeAt(w, j)
        BY <1>3, <1>6, <4>1, <4>2
      <4> QED
        BY <1>2, <1>3, <1>5, <3>4, <3>6, <4>2, <4>3
    <3> QED
      BY <3>3, <3>4
  <2> QED
    BY <2>1, <2>2
<1>13. ASSUME NEW i \in 1..n + 1, i # p
       PROVE  /\ NodeAt(t, i) = NodeAt(w, IF i < p THEN i ELSE i - 1) /\ (IF i < p THEN i ELSE i - 1) \in 1..n
              /\ NodeAt(t, i) \in DOMAIN h /\ NodeAt(t, i) # Null
  <2>1. PICK j \in 1..n : j = IF i < p THEN i ELSE i - 1
    BY <1>6, <1>13
  <2>2. NodeAt(t, i) = NodeAt(w, j)
    BY <1>3, <1>6, <1>13, <2>1
  <2> QED
    BY <1>8, <2>1, <2>2
<1>14. ASSUME NEW m \in Walks, NEW q \in Walks, NEW i \in 1..Len(V[m]), NEW j \in 1..Len(V[q]),
              NodeAt(V[m], i) = NodeAt(V[q], j)
       PROVE  m = q /\ i = j
  <2>1. CASE m = l /\ q = l
    <3>1. i \in 1..n + 1 /\ j \in 1..n + 1 /\ NodeAt(t, i) = NodeAt(t, j)
      BY <1>3, <1>5, <1>14, <2>1
    <3>2. CASE i = p \/ j = p
      <4>1. NodeAt(t, p) = k
        BY <1>3, <1>6
      <4> QED
        BY <1>6, <1>13, <2>1, <3>1, <3>2, <4>1
    <3>3. CASE i # p /\ j # p
      <4>1. PICK x \in 1..n : x = (IF i < p THEN i ELSE i - 1) /\ NodeAt(t, i) = NodeAt(w, x) /\ NodeAt(w, x) # Null
        BY <1>13, <3>1, <3>3
      <4>2. PICK y \in 1..n : y = (IF j < p THEN j ELSE j - 1) /\ NodeAt(t, j) = NodeAt(w, y)
        BY <1>13, <3>1, <3>3
      <4>3. x = y
        <5>1. \A u, v \in Int : NodeAt(w, u) = NodeAt(w, v) /\ NodeAt(w, u) # Null => u = v
          BY <1>2, LaidAt
        <5>2. x \in Int /\ y \in Int
          OBVIOUS
        <5>3. NodeAt(w, x) = NodeAt(w, y)
          BY ONLY <3>1, <4>1, <4>2, Zenon
        <5> QED
          BY ONLY <4>1, <5>1, <5>2, <5>3
      <4> QED
        BY <1>6, <2>1, <3>1, <3>3, <4>1, <4>2, <4>3
    <3> QED
      BY <3>2, <3>3
  <2>2. CASE m # l /\ q # l
    <3>1. i \in 1..Len(W[m]) /\ j \in 1..Len(W[q]) /\ NodeAt(W[m], i) = NodeAt(W[q], j)
      BY <1>5, <1>14, <2>2
    <3>2. NodeAt(W[m], i) # Null /\ i \in Int /\ j \in Int
      BY <3>1, LaidAt
    <3> QED
      BY <3>1, <3>2, LaidAt
  <2>3. ASSUME NEW r \in Walks, r # l, NEW x \in 1..Len(W[r]), NEW y \in 1..n + 1,
               NodeAt(W[r], x) = NodeAt(t, y)
        PROVE  FALSE
    <3>1. NodeAt(W[r], x) \in DOMAIN h /\ NodeAt(W[r], x) # Null /\ x \in Int
      BY <1>10, <2>3, LaidAt
    <3>2. y # p
      BY <1>3, <1>6, <2>3, <3>1
    <3>3. PICK z \in 1..n : NodeAt(t, y) = NodeAt(w, z)
      BY <1>13, <3>2
    <3> QED
      BY <1>2, <2>3, <3>1, <3>3, LaidAt
  <2>4. CASE m = l /\ q # l
    <3>1. i \in 1..n + 1 /\ j \in 1..Len(W[q]) /\ NodeAt(W[q], j) = NodeAt(t, i)
      BY <1>3, <1>5, <1>14, <2>4
    <3> QED
      BY <2>3, <2>4, <3>1
  <2>5. CASE m # l /\ q = l
    <3>1. j \in 1..n + 1 /\ i \in 1..Len(W[m]) /\ NodeAt(W[m], i) = NodeAt(t, j)
      BY <1>3, <1>5, <1>14, <2>5
    <3> QED
      BY <2>3, <2>5, <3>1
  <2> QED
    BY <2>1, <2>2, <2>4, <2>5
<1>15. Laid(g, V)
  BY <1>5, <1>7, <1>11, <1>12, <1>14, LaidIf
<1> QED
  BY <1>2, <1>3, <1>4, <1>15

\* The node at p of the list l is taken out.
LEMMA LaidRemove ==
  ASSUME NEW h, NEW W, Laid(h, W), NEW l \in Walks, NEW p \in 1..Len(W[l]), NEW g,
         CutOut(h, g, W[l][p])
  PROVE  Laid(g, [W EXCEPT ![l] = RemoveAt(W[l], p)])
<1>1. PICK w \in Seq(Nodes), n \in Nat : w = W[l] /\ n = Len(w)
  BY LaidAt
<1>2. PICK k, a, b : k = NodeAt(w, p) /\ a = NodeAt(w, p - 1) /\ b = NodeAt(w, p + 1)
  OBVIOUS
<1>3. PICK t \in Seq(Nodes) :
        /\ t = RemoveAt(w, p) /\ Len(t) = n - 1
        /\ \A i \in Int : NodeAt(t, i) = IF i < p THEN NodeAt(w, i) ELSE NodeAt(w, i + 1)
  BY <1>1, AtRemoved
<1>4. PICK V : V = [W EXCEPT ![l] = t]
  OBVIOUS
<1>5. V \in [Walks -> Seq(Nodes)] /\ V[l] = t /\ \A m \in Walks : m # l => V[m] = W[m]
  BY <1>3, <1>4 DEF Laid
<1>6. p \in 1..n /\ p \in Int /\ p - 1 \in Int /\ p + 1 \in Int
  BY <1>1
<1>7. k \in DOMAIN h /\ k # Null /\ k = W[l][p] /\ h[k].next = b /\ h[k].prev = a
  BY <1>1, <1>2, <1>6, LaidAt
<1>8. /\ HeapOK(g) /\ DOMAIN g = DOMAIN h \ {k}
      /\ \A x \in DOMAIN h \ {k} : /\ g[x].next = IF x = a THEN b ELSE h[x].next
                                   /\ g[x].prev = IF x = b THEN a ELSE h[x].prev
  BY <1>7 DEF CutOut
<1>9. ASSUME NEW m \in Walks, NEW x \in 1..Len(W[m]), m # l \/ x # p
      PROVE  /\ NodeAt(W[m], x) \in DOMAIN g /\ NodeAt(W[m], x) # Null
             /\ g[NodeAt(W[m], x)].next = IF m = l /\ x = p - 1 THEN b ELSE NodeAt(W[m], x + 1)
             /\ g[NodeAt(W[m], x)].prev = IF m = l /\ x = p + 1 THEN a ELSE NodeAt(W[m], x - 1)
  <2>1. PICK y : y = NodeAt(W[m], x)
    OBVIOUS
  <2>2. y \in DOMAIN h /\ y # Null /\ h[y].next = NodeAt(W[m], x + 1) /\ h[y].prev = NodeAt(W[m], x - 1)
    BY <2>1, LaidAt
  <2>3. x \in Int /\ \A j \in Int : y = NodeAt(w, j) => m = l /\ x = j
    BY <1>1, <2>1, <2>2, LaidAt
  <2>4. y # k /\ (y = a <=> m = l /\ x = p - 1) /\ (y = b <=> m = l /\ x = p + 1)
    <3>1. y # k
      BY <1>2, <1>6, <1>9, <2>3
    <3>2. y = a <=> m = l /\ x = p - 1
      BY <1>1, <1>2, <1>6, <2>1, <2>3
    <3>3. y = b <=> m = l /\ x = p + 1
      BY <1>1, <1>2, <1>6, <2>1, <2>3
    <3> QED
      BY <3>1, <3>2, <3>3
  <2>5. y \in DOMAIN g
    BY <1>8, <2>2, <2>4
  <2> QED
    BY <1>8, <2>1, <2>2, <2>4, <2>5
<1>10. ASSUME NEW i \in 1..n - 1
       PROVE  \E x \in 1..n : /\ x = (IF i < p THEN i ELSE i + 1) /\ x # p /\ NodeAt(t, i) = NodeAt(w, x)
  <2>1. PICK x \in 1..n : x = IF i < p THEN i ELSE i + 1
    BY <1>6
  <2>2. x # p
    BY <1>6, <2>1
  <2>3. NodeAt(t, i) = NodeAt(w, x)
    <3>0. i \in Int
      OBVIOUS
    <3>1. NodeAt(t, i) = IF i < p THEN NodeAt(w, i) ELSE NodeAt(w, i + 1)
      BY ONLY <1>3, <3>0, Zenon
    <3>2. CASE i < p
      BY <2>1, <3>1, <3>2
    <3>3. CASE ~(i < p)
      BY <2>1, <3>1, <3>3
    <3> QED
      BY <3>2, <3>3
  <2> QED
    BY <2>1, <2>2, <2>3, Zenon
<1>11. ASSUME NEW i \in 1..n - 1
       PROVE  /\ NodeAt(t, i) \in DOMAIN g
              /\ g[NodeAt(t, i)].next = NodeAt(t, i + 1) /\ g[NodeAt(t, i)].prev = NodeAt(t, i - 1)
  <2>1. PICK x \in 1..n : x = (IF i < p THEN i ELSE i + 1) /\ x # p /\ NodeAt(t, i) = NodeAt(w, x)
    BY <1>10
  <2>2. /\ NodeAt(w, x) \in DOMAIN g
        /\ g[NodeAt(w, x)].next = IF x = p - 1 THEN b ELSE NodeAt(w, x + 1)
        /\ g[NodeAt(w, x)].prev = IF x = p + 1 THEN a ELSE NodeAt(w, x - 1)
    BY <1>1, <1>9, <2>1
  <2>3. NodeAt(t, i + 1) = IF x = p - 1 THEN b ELSE NodeAt(w, x + 1)
    <3>1. i + 1 \in Int /\ NodeAt(t, i + 1) = IF i + 1 < p THEN NodeAt(w, i + 1) ELSE NodeAt(w, i + 1 + 1)
      <4>1. PICK j \in Int : j = i + 1
        OBVIOUS
      <4>2. NodeAt(t, j) = IF j < p THEN NodeAt(w, j) ELSE NodeAt(w, j + 1)
        BY <1>3
      <4> QED
        BY ONLY <4>1, <4>2, Zenon
    <3>2. CASE i < p
      <4>1. x = i
        BY <2>1, <3>2
      <4>2. CASE i + 1 < p
        BY <1>6, <3>1, <4>1, <4>2
      <4>3. CASE i + 1 = p
        <5>1. x = p - 1 /\ i + 1 + 1 = p + 1 /\ ~(i + 1 < p)
          BY <1>6, <4>1, <4>3
        <5> QED
          BY <1>2, <3>1, <5>1
      <4> QED
        BY <1>6, <3>2, <4>2, <4>3
    <3>3. CASE i >= p
      <4>1. x = i + 1 /\ ~(i + 1 < p) /\ x # p - 1
        BY <1>6, <2>1, <3>3
      <4> QED
        BY <3>1, <4>1
    <3> QED
      BY <1>6, <3>2, <3>3
  <2>4. NodeAt(t, i - 1) = IF x = p + 1 THEN a ELSE NodeAt(w, x - 1)
    <3>1. i - 1 \in Int /\ NodeAt(t, i - 1) = IF i - 1 < p THEN NodeAt(w, i - 1) ELSE NodeAt(w, i - 1 + 1)
      <4>1. PICK j \in Int : j = i - 1
        OBVIOUS
      <4>2. NodeAt(t, j) = IF j < p THEN NodeAt(w, j) ELSE NodeAt(w, j + 1)
        BY <1>3
      <4> QED
        BY ONLY <4>1, <4>2, Zenon
    <3>2. CASE i < p
      <4>1. x = i /\ i - 1 < p /\ x # p + 1
        BY <1>6, <2>1, <3>2
      <4> QED
        BY <3>1, <4>1
    <3>3. CASE i = p
      <4>1. x = p + 1 /\ i - 1 < p
        BY <1>6, <2>1, <3>3
      <4> QED
        BY <1>2, <3>1, <3>3, <4>1
    <3>4. CASE i > p
      <4>1. x = i + 1 /\ ~(i - 1 < p) /\ x # p + 1 /\ i - 1 + 1 = x - 1
        BY <1>6, <2>1, <3>4
      <4> QED
        BY <3>1, <4>1
    <3> QED
      BY <1>6, <3>2, <3>3, <3>4
  <2> QED
    BY <2>1, <2>2, <2>3, <2>4
<1>12. ASSUME NEW m \in Walks, NEW i \in 1..Len(V[m])
       PROVE  /\ NodeAt(V[m], i) \in DOMAIN g
              /\ g[NodeAt(V[m], i)].next = NodeAt(V[m], i + 1) /\ g[NodeAt(V[m], i)].prev = NodeAt(V[m], i - 1)
  <2>1. CASE m = l
    BY <1>3, <1>5, <1>11, <2>1
  <2>2. CASE m # l
    BY <1>5, <1>9, <2>2
  <2> QED
    BY <2>1, <2>2
<1>13. ASSUME NEW x \in DOMAIN g PROVE \E m \in Walks : \E i \in 1..Len(V[m]) : NodeAt(V[m], i) = x
  <2>1. x \in DOMAIN h /\ x # k
    BY <1>8
  <2>2. PICK m \in Walks : \E j \in 1..Len(W[m]) : W[m][j] = x
    BY <2>1 DEF Laid
  <2>3. PICK j \in 1..Len(W[m]) : NodeAt(W[m], j) = x
    BY <2>2, LaidAt
  <2>4. CASE m # l
    BY <1>5, <2>3, <2>4
  <2>5. CASE m = l
    <3>1. j \in 1..n /\ j # p
      BY <1>1, <1>2, <2>1, <2>3, <2>5
    <3>2. PICK i \in 1..n - 1 : i = IF j < p THEN j ELSE j - 1
      BY <1>6, <3>1
    <3>3. NodeAt(t, i) = NodeAt(w, j)
      <4>1. CASE j < p
        BY <1>3, <3>2, <4>1
      <4>2. CASE j > p
        <5>1. i = j - 1 /\ ~(i < p) /\ i + 1 = j
          BY <1>6, <3>1, <3>2, <4>2
        <5>2. NodeAt(t, i) = NodeAt(w, i + 1)
          BY <1>3, <5>1
        <5> QED
          BY <5>1, <5>2
      <4> QED
        BY <1>6, <3>1, <4>1, <4>2
    <3> QED
      BY <1>1, <1>3, <1>5, <2>3, <2>5, <3>2, <3>3
  <2> QED
    BY <2>4, <2>5
<1>14. ASSUME NEW m \in Walks, NEW i \in 1..Len(V[m])
       PROVE  \E x \in 1..Len(W[m]) : /\ NodeAt(V[m], i) = NodeAt(W[m], x) /\ NodeAt(W[m], x) # Null /\ x \in Int
                                      /\ x = IF m = l /\ i >= p THEN i + 1 ELSE i
  <2>1. CASE m = l
    <3>1. i \in 1..n - 1
      BY <1>3, <1>5, <2>1
    <3>2. PICK x \in 1..n : x = (IF i < p THEN i ELSE i + 1) /\ x # p /\ NodeAt(t, i) = NodeAt(w, x)
      BY <1>10, <3>1
    <3>3. x = IF i >= p THEN i + 1 ELSE i
      BY <1>6, <3>1, <3>2
    <3>4. NodeAt(W[m], x) # Null
      BY <1>1, <1>9, <2>1, <3>2
    <3> QED
      BY <1>1, <1>5, <2>1, <3>2, <3>3, <3>4
  <2>2. CASE m # l
    BY <1>5, <1>9, <2>2
  <2> QED
    BY <2>1, <2>2
<1>15. ASSUME NEW m \in Walks, NEW q \in Walks, NEW i \in 1..Len(V[m]), NEW j \in 1..Len(V[q]),
              NodeAt(V[m], i) = NodeAt(V[q], j)
       PROVE  m = q /\ i = j
  <2>1. PICK x \in 1..Len(W[m]) : /\ NodeAt(V[m], i) = NodeAt(W[m], x) /\ NodeAt(W[m], x) # Null /\ x \in Int
                                  /\ x = IF m = l /\ i >= p THEN i + 1 ELSE i
    BY <1>14
  <2>2. PICK y \in 1..Len(W[q]) : /\ NodeAt(V[q], j) = NodeAt(W[q], y) /\ NodeAt(W[q], y) # Null /\ y \in Int
                                  /\ y = IF q = l /\ j >= p THEN j + 1 ELSE j
    BY <1>14
  <2>3. m = q /\ x = y
    <3>1. \A s \in Int : NodeAt(W[m], x) = NodeAt(W[q], s) /\ NodeAt(W[m], x) # Null => m = q /\ x = s
      BY <2>1, LaidAt
    <3>2. NodeAt(W[m], x) = NodeAt(W[q], y)
      BY ONLY <1>15, <2>1, <2>2, Zenon
    <3> QED
      BY ONLY <2>1, <2>2, <3>1, <3>2
  <2> QED
    BY <1>6, <2>1, <2>2, <2>3
<1>16. Laid(g, V)
  BY <1>5, <1>8, <1>12, <1>13, <1>15, LaidIf
<1> QED
  BY <1>1, <1>3, <1>4, <1>16

\* What Chain computes on a heap whose lists are W.
From(w, i)      == SubSeq(w, i, Len(w))
Onward(m, s)    == <<m>> \o s
WayAt(f, h, m)  == IF m = Null THEN <<>> ELSE Onward(m, f[h[m].next])
IsWay(f, h)     == f = [m \in DOMAIN h \cup {Null} |-> WayAt(f, h, m)]

LEMMA RestIs ==
  ASSUME NEW w \in Seq(Nodes), NEW n, n = Len(w)
  PROVE  /\ From(w, n + 1) = <<>> /\ From(w, 1) = w
         /\ \A i \in 1..n : From(w, i) = Onward(w[i], From(w, i + 1))
<1>1. n \in Nat
  BY LenProperties
<1>2. From(w, n + 1) = <<>>
  <2>1. n + 1 \in Int /\ n \in Int /\ n < n + 1
    BY <1>1
  <2>2. SubSeq(w, n + 1, n) = <<>>
    BY <2>1, SubSeqEmpty
  <2> QED
    BY <2>2 DEF From
<1>3. From(w, 1) = w
  BY SubSeqFull DEF From
<1>4. ASSUME NEW i \in 1..n PROVE From(w, i) = Onward(w[i], From(w, i + 1))
  <2>1. i \in 1..Len(w) /\ n \in i..Len(w)
    BY <1>1
  <2>2. SubSeq(w, i, n) = <<w[i]>> \o SubSeq(w, i + 1, n)
    BY <2>1, SubSeqRecursiveFirst
  <2> QED
    BY <2>2 DEF From, Onward
<1> QED
  BY <1>2, <1>3, <1>4

LEMMA RestAt ==
  ASSUME NEW h, NEW W, Laid(h, W), NEW l \in Walks, NEW n, n = Len(W[l])
  PROVE  /\ n \in Nat /\ NodeAt(W[l], n + 1) = Null /\ From(W[l], n + 1) = <<>>
         /\ \A i \in 1..n :
              /\ NodeAt(W[l], i) # Null /\ NodeAt(W[l], i) \in DOMAIN h
              /\ h[NodeAt(W[l], i)].next = NodeAt(W[l], i + 1) /\ i + 1 \in 1..n + 1
              /\ From(W[l], i) = Onward(NodeAt(W[l], i), From(W[l], i + 1))
<1>1. PICK w \in Seq(Nodes) : w = W[l] /\ n = Len(w) /\ n \in Nat
  BY LaidAt
<1>2. NodeAt(W[l], n + 1) = Null
  <2>1. PICK i \in Int : i = n + 1 /\ i \notin 1..Len(W[l])
    BY <1>1
  <2>2. NodeAt(W[l], i) = Null
    BY <2>1, LaidAt
  <2> QED
    BY <2>1, <2>2
<1>3. ASSUME NEW i \in 1..n
      PROVE  /\ NodeAt(w, i) # Null /\ NodeAt(w, i) \in DOMAIN h /\ NodeAt(w, i) = w[i]
             /\ h[NodeAt(w, i)].next = NodeAt(w, i + 1)
  <2>1. i \in Int /\ i \in 1..Len(W[l])
    OBVIOUS
  <2> QED
    BY <1>1, <2>1, LaidAt
<1>4. From(w, n + 1) = <<>> /\ \A i \in 1..n : From(w, i) = Onward(w[i], From(w, i + 1))
  BY <1>1, RestIs
<1>5. \A i \in 1..n : i + 1 \in 1..n + 1
  BY <1>1
<1> QED
  BY <1>1, <1>2, <1>3, <1>4, <1>5

RestFrom(W, m) ==
  CHOOSE r : \A l \in Walks : \A i \in 1..Len(W[l]) + 1 : NodeAt(W[l], i) = m => r = From(W[l], i)

LEMMA RestFromIs ==
  ASSUME NEW h, NEW W, Laid(h, W), NEW l \in Walks, NEW i \in 1..Len(W[l]) + 1
  PROVE  RestFrom(W, NodeAt(W[l], i)) = From(W[l], i)
<1>1. PICK m : m = NodeAt(W[l], i)
  OBVIOUS
<1>2. PICK r : r = From(W[l], i)
  OBVIOUS
<1>3. Len(W[l]) \in Nat /\ i \in Int
  BY LaidAt
<1>4. ASSUME NEW q \in Walks, NEW j \in 1..Len(W[q]) + 1, NodeAt(W[q], j) = m PROVE r = From(W[q], j)
  <2>1. Len(W[q]) \in Nat /\ j \in Int
    BY LaidAt
  <2>2. CASE m = Null
    <3>1. i \notin 1..Len(W[l]) /\ j \notin 1..Len(W[q])
      BY <1>1, <1>3, <1>4, <2>1, <2>2, LaidAt
    <3>2. i = Len(W[l]) + 1 /\ j = Len(W[q]) + 1
      BY <1>3, <2>1, <3>1
    <3>3. From(W[l], Len(W[l]) + 1) = <<>>
      <4>1. PICK n : n = Len(W[l])
        OBVIOUS
      <4>2. From(W[l], n + 1) = <<>>
        BY <4>1, RestAt
      <4> QED
        BY <4>1, <4>2
    <3>4. From(W[q], Len(W[q]) + 1) = <<>>
      <4>1. PICK n : n = Len(W[q])
        OBVIOUS
      <4>2. From(W[q], n + 1) = <<>>
        BY <4>1, RestAt
      <4> QED
        BY <4>1, <4>2
    <3> QED
      BY <1>2, <3>2, <3>3, <3>4
  <2>3. CASE m # Null
    <3>1. l = q /\ i = j
      BY <1>1, <1>3, <1>4, <2>1, <2>3, LaidAt
    <3> QED
      BY <1>2, <3>1
  <2> QED
    BY <2>2, <2>3
<1>5. \E s : \A q \in Walks : \A j \in 1..Len(W[q]) + 1 : NodeAt(W[q], j) = m => s = From(W[q], j)
  BY <1>4
<1>6. PICK f : f = RestFrom(W, m)
  OBVIOUS
<1>7. \A q \in Walks : \A j \in 1..Len(W[q]) + 1 : NodeAt(W[q], j) = m => f = From(W[q], j)
  BY <1>5, <1>6 DEF RestFrom
<1> QED
  BY <1>1, <1>6, <1>7

LEMMA WayExists ==
  ASSUME NEW h, NEW W, Laid(h, W)
  PROVE  \E f : IsWay(f, h)
<1>1. PICK f : f = [m \in DOMAIN h \cup {Null} |-> RestFrom(W, m)]
  OBVIOUS
<1>2. ASSUME NEW m \in DOMAIN h PROVE f[m] = WayAt(f, h, m)
  <2>1. PICK l \in Walks : \E j \in 1..Len(W[l]) : W[l][j] = m
    BY DEF Laid
  <2>2. PICK i \in 1..Len(W[l]) : NodeAt(W[l], i) = m
    BY <2>1, LaidAt
  <2>3. /\ NodeAt(W[l], i) # Null /\ h[m].next = NodeAt(W[l], i + 1) /\ i + 1 \in 1..Len(W[l]) + 1
        /\ From(W[l], i) = Onward(m, From(W[l], i + 1))
    BY <2>2, RestAt
  <2>4. i \in 1..Len(W[l]) + 1 /\ i + 1 \in Int
    BY LaidAt
  <2>5. f[m] = From(W[l], i)
    BY <1>1, <2>2, <2>4, RestFromIs
  <2>6. PICK j \in 1..Len(W[l]) + 1 : j = i + 1
    BY <2>3
  <2>7. NodeAt(W[l], j) \in DOMAIN h \cup {Null}
    BY <2>4, <2>6, LaidAt
  <2>8. f[NodeAt(W[l], j)] = From(W[l], j)
    BY <1>1, <2>7, RestFromIs
  <2> QED
    BY <2>2, <2>3, <2>5, <2>6, <2>8 DEF WayAt
<1>3. f[Null] = <<>>
  <2>1. Null \in Walks
    BY DEF Walks
  <2>2. PICK i \in 1..Len(W[Null]) + 1 : i = Len(W[Null]) + 1
    BY <2>1, LaidAt
  <2>3. NodeAt(W[Null], i) = Null /\ From(W[Null], i) = <<>>
    <3>1. PICK n : n = Len(W[Null])
      OBVIOUS
    <3>2. n \in Nat /\ NodeAt(W[Null], n + 1) = Null /\ From(W[Null], n + 1) = <<>>
      BY <2>1, <3>1, RestAt
    <3>3. i = n + 1
      BY <2>2, <3>1
    <3> QED
      BY ONLY <3>2, <3>3
  <2> QED
    BY <1>1, <2>1, <2>3, RestFromIs
<1>4. IsWay(f, h)
  <2>1. \A m \in DOMAIN h \cup {Null} : f[m] = WayAt(f, h, m)
    BY <1>2, <1>3 DEF WayAt
  <2> QED
    BY <1>1, <2>1 DEF IsWay
<1> QED
  BY <1>4

LEMMA WayIs ==
  ASSUME NEW h, NEW W, Laid(h, W), NEW f, IsWay(f, h), NEW l \in Walks, NEW i \in 1..Len(W[l]) + 1
  PROVE  f[NodeAt(W[l], i)] = From(W[l], i)
<1>1. PICK n \in Nat : n = Len(W[l])
  BY LaidAt
<1>2. \A m \in DOMAIN h \cup {Null} : f[m] = WayAt(f, h, m)
  BY DEF IsWay
<1> DEFINE T == {k \in Nat : \A j \in 1..n + 1 : j = n + 1 - k => f[NodeAt(W[l], j)] = From(W[l], j)}
<1>3. 0 \in T
  <2>1. f[NodeAt(W[l], n + 1)] = From(W[l], n + 1)
    BY <1>1, <1>2, RestAt DEF WayAt
  <2> QED
    BY <2>1
<1>4. ASSUME NEW k \in Nat, k \in T PROVE k + 1 \in T
  <2>1. ASSUME NEW j \in 1..n + 1, j = n + 1 - (k + 1) PROVE f[NodeAt(W[l], j)] = From(W[l], j)
    <3>1. j \in 1..n /\ j + 1 = n + 1 - k
      BY <2>1
    <3>2. PICK q \in 1..n + 1 : q = j + 1
      BY <3>1
    <3>3. f[NodeAt(W[l], q)] = From(W[l], q)
      BY <1>4, <3>1, <3>2
    <3>4. /\ NodeAt(W[l], j) # Null /\ NodeAt(W[l], j) \in DOMAIN h /\ h[NodeAt(W[l], j)].next = NodeAt(W[l], q)
          /\ From(W[l], j) = Onward(NodeAt(W[l], j), From(W[l], q))
      BY <1>1, <3>1, <3>2, RestAt
    <3> QED
      BY <1>2, <3>3, <3>4 DEF WayAt
  <2> QED
    BY <2>1
<1> HIDE DEF T
<1>5. \A k \in Nat : k \in T
  BY <1>3, <1>4, NatInd
<1>6. PICK k \in Nat : k = n + 1 - i /\ i = n + 1 - k
  BY <1>1
<1> QED
  BY <1>1, <1>5, <1>6 DEF T

\* Chain is the rest of the list.
LEMMA ChainIs ==
  ASSUME NEW h, NEW W, Laid(h, W), NEW l \in Walks
  PROVE  /\ \A i \in 1..Len(W[l]) + 1 : Chain(h, NodeAt(W[l], i)) = From(W[l], i)
         /\ Chain(h, NodeAt(W[l], 1)) = W[l]
<1> DEFINE f == CHOOSE way : way = [m \in DOMAIN h \cup {Null} |->
                                      IF m = Null THEN <<>> ELSE <<m>> \o way[h[m].next]]
<1>1. \A m : Chain(h, m) = f[m]
  BY DEF Chain
<1>2. f = CHOOSE way : IsWay(way, h)
  BY DEF IsWay, WayAt, Onward
<1> HIDE DEF f
<1>3. IsWay(f, h)
  BY <1>2, WayExists
<1>4. PICK g : g = f
  OBVIOUS
<1>5. \A i \in 1..Len(W[l]) + 1 : g[NodeAt(W[l], i)] = From(W[l], i)
  BY <1>3, <1>4, WayIs
<1>6. \A i \in 1..Len(W[l]) + 1 : Chain(h, NodeAt(W[l], i)) = From(W[l], i)
  BY <1>1, <1>4, <1>5
<1>7. 1 \in 1..Len(W[l]) + 1 /\ W[l] \in Seq(Nodes)
  BY LaidAt
<1>8. From(W[l], 1) = W[l]
  BY <1>7, RestIs
<1> QED
  BY <1>6, <1>7, <1>8

\* The nodes lie in the heap as the sequences W say, and the lists and the queue know their ends.
EndsOf(w) == [head |-> NodeAt(w, 1), tail |-> NodeAt(w, Len(w)), length |-> Len(w)]
Arranged(h, ls, q, W) ==
  /\ Laid(h, W)
  /\ ls = [l \in Names |-> NodeAt(W[l], 1)]
  /\ q = EndsOf(W[Null])

LinksInv == \E W : Arranged(heap, list, queue, W)

\* What a call reads of the heap, in terms of W.
LEMMA LinksRead ==
  ASSUME NEW W, Arranged(heap, list, queue, W)
  PROVE  /\ \A l \in Names : /\ list[l] = NodeAt(W[l], 1) /\ NodesOf(l) = W[l]
                             /\ LastOf(list[l]) = NodeAt(W[l], Len(W[l]))
         /\ queue.head = NodeAt(W[Null], 1) /\ queue.tail = NodeAt(W[Null], Len(W[Null]))
         /\ queue.length = Len(W[Null]) /\ Chain(heap, queue.head) = W[Null]
         /\ LastOf(queue.tail) = queue.tail /\ LastOf(queue.head) = queue.tail
         /\ \A l \in Walks : Walk(l) = W[l]
<1>1. Laid(heap, W) /\ Null \in Walks /\ Names \subseteq Walks /\ Null \notin Names
  BY LinksAssumption DEF Arranged, Walks
<1>2. \A l \in Names : list[l] = NodeAt(W[l], 1)
  BY DEF Arranged
<1>3. queue.head = NodeAt(W[Null], 1) /\ queue.tail = NodeAt(W[Null], Len(W[Null])) /\ queue.length = Len(W[Null])
  BY DEF Arranged, EndsOf
<1>4. \A l \in Walks : Chain(heap, NodeAt(W[l], 1)) = W[l]
  BY <1>1, ChainIs
<1>5. ASSUME NEW l \in Walks, NEW n, n = NodeAt(W[l], 1) PROVE LastOf(n) = NodeAt(W[l], Len(W[l]))
  <2>1. Len(W[l]) \in Nat /\ (n = Null <=> Len(W[l]) = 0)
    BY <1>1, <1>5, LaidAt
  <2>2. CASE n = Null
    <3>1. NodeAt(W[l], Len(W[l])) = Null
      BY <2>1, <2>2 DEF NodeAt
    <3> QED
      BY <2>2, <3>1 DEF LastOf
  <2>3. CASE n # Null
    <3>1. LastOf(n) = W[l][Len(W[l])]
      BY <1>4, <1>5, <2>3 DEF LastOf, Last
    <3>2. Len(W[l]) \in 1..Len(W[l])
      BY <2>1, <2>3
    <3> QED
      BY <1>1, <3>1, <3>2, LaidAt
  <2> QED
    BY <2>2, <2>3
<1>6. LastOf(queue.tail) = queue.tail
  <2>1. PICK w \in Seq(Nodes), n \in Nat : w = W[Null] /\ n = Len(w)
    BY <1>1, LaidAt
  <2>2. CASE n = 0
    <3>1. queue.tail = Null
      <4>1. n \in Int /\ n \notin 1..Len(W[Null])
        BY <2>1, <2>2
      <4> QED
        BY <1>1, <1>3, <2>1, <4>1, LaidAt
    <3> QED
      BY <3>1 DEF LastOf
  <2>3. CASE n # 0
    <3>1. n \in 1..n /\ n \in 1..n + 1
      BY <2>3
    <3>2. /\ From(w, n) = Onward(NodeAt(w, n), From(w, n + 1)) /\ From(w, n + 1) = <<>>
          /\ NodeAt(w, n) # Null
      BY <1>1, <2>1, <3>1, RestAt
    <3>3. From(w, n) = <<NodeAt(w, n)>>
      <4>1. PICK x \in Nodes : x = NodeAt(w, n)
        BY <3>1, <2>1 DEF NodeAt
      <4>2. <<x>> \in Seq(Nodes)
        OBVIOUS
      <4>3. <<x>> \o <<>> = <<x>>
        BY <4>2, ConcatEmptySeq
      <4> QED
        BY <3>2, <4>1, <4>3 DEF Onward
    <3>4. Chain(heap, queue.tail) = From(w, n)
      BY <1>1, <1>3, <2>1, <3>1, ChainIs
    <3>5. Last(<<NodeAt(w, n)>>) = NodeAt(w, n)
      BY DEF Last
    <3> QED
      BY <1>3, <2>1, <3>2, <3>3, <3>4, <3>5 DEF LastOf
  <2> QED
    BY <2>2, <2>3
<1>7. \A l \in Names : NodesOf(l) = W[l]
  BY <1>1, <1>2, <1>4 DEF NodesOf
<1>8. \A l \in Walks : Walk(l) = W[l]
  BY <1>1, <1>3, <1>4, <1>7 DEF Walk, Walks
<1> QED
  BY <1>1, <1>2, <1>3, <1>4, <1>5, <1>6, <1>7, <1>8

\* One list has become v.
LEMMA ListArranged ==
  ASSUME NEW h, NEW ls, NEW q, NEW W, Arranged(h, ls, q, W), NEW l \in Names, NEW v,
         NEW g, Laid(g, [W EXCEPT ![l] = v]), NEW ms,
         ms = [ls EXCEPT ![l] = NodeAt(v, 1)] \/ (ms = ls /\ NodeAt(v, 1) = ls[l])
  PROVE  Arranged(g, ms, q, [W EXCEPT ![l] = v])
<1>1. PICK V : V = [W EXCEPT ![l] = v]
  OBVIOUS
<1>2. l \in Walks /\ Null \in Walks /\ Names \subseteq Walks /\ l # Null
  BY LinksAssumption DEF Walks
<1>3. W \in [Walks -> Seq(Nodes)]
  BY DEF Arranged, Laid
<1>4. V[l] = v /\ \A m \in Walks : m # l => V[m] = W[m]
  BY <1>1, <1>2, <1>3
<1>5. ls = [m \in Names |-> NodeAt(W[m], 1)]
  BY DEF Arranged
<1>6. ms = [m \in Names |-> IF m = l THEN NodeAt(v, 1) ELSE NodeAt(W[m], 1)]
  BY <1>5
<1>7. ms = [m \in Names |-> NodeAt(V[m], 1)]
  BY <1>2, <1>4, <1>6
<1>8. q = EndsOf(V[Null])
  BY <1>2, <1>4 DEF Arranged
<1> QED
  BY <1>1, <1>7, <1>8 DEF Arranged

\* The queue has become v.
LEMMA QueueArranged ==
  ASSUME NEW h, NEW ls, NEW q, NEW W, Arranged(h, ls, q, W), NEW v,
         NEW g, Laid(g, [W EXCEPT ![Null] = v]), NEW r,
         r = [head |-> NodeAt(v, 1), tail |-> NodeAt(v, Len(v)), length |-> Len(v)]
  PROVE  Arranged(g, ls, r, [W EXCEPT ![Null] = v])
<1>1. PICK V : V = [W EXCEPT ![Null] = v]
  OBVIOUS
<1>2. Null \in Walks /\ Names \subseteq Walks /\ Null \notin Names
  BY LinksAssumption DEF Walks
<1>3. W \in [Walks -> Seq(Nodes)]
  BY DEF Arranged, Laid
<1>4. V[Null] = v /\ \A m \in Names : V[m] = W[m]
  BY <1>1, <1>2, <1>3
<1>5. ls = [m \in Names |-> NodeAt(V[m], 1)]
  BY <1>4 DEF Arranged
<1>6. r = EndsOf(V[Null])
  BY <1>4 DEF EndsOf
<1> QED
  BY <1>1, <1>5, <1>6 DEF Arranged

\* A node more, and a node less, in the list l.
LEMMA ListInserted ==
  ASSUME NEW h, NEW ls, NEW q, NEW W, Arranged(h, ls, q, W), NEW l \in Names,
         NEW p \in 1..Len(W[l]) + 1, NEW k \in Nodes \ DOMAIN h, NEW d, NEW g,
         Spliced(h, g, k, NodeAt(W[l], p - 1), NodeAt(W[l], p), d), NEW ms,
         ms = IF p = 1 THEN [ls EXCEPT ![l] = k] ELSE ls
  PROVE  Arranged(g, ms, q, [W EXCEPT ![l] = InsertAt(W[l], p, k)])
<1>1. Laid(h, W) /\ l \in Walks /\ ls[l] = NodeAt(W[l], 1)
  BY DEF Arranged, Walks
<1>2. PICK v : v = InsertAt(W[l], p, k)
  OBVIOUS
<1>3. Laid(g, [W EXCEPT ![l] = v])
  BY <1>1, <1>2, LaidInsert
<1>4. NodeAt(v, 1) = IF p = 1 THEN k ELSE NodeAt(W[l], 1)
  <2>1. PICK w \in Seq(Nodes) : w = W[l] /\ p \in 1..Len(w) + 1
    BY <1>1, LaidAt
  <2>2. \A i \in Int : NodeAt(v, i) = IF i < p THEN NodeAt(w, i) ELSE IF i = p THEN k ELSE NodeAt(w, i - 1)
    <3>1. PICK t : /\ t = InsertAt(w, p, k)
                   /\ \A i \in Int : NodeAt(t, i) = IF i < p THEN NodeAt(w, i) ELSE IF i = p THEN k ELSE NodeAt(w, i - 1)
      BY <2>1, AtInserted
    <3>2. t = v
      BY <1>2, <2>1, <3>1, Zenon
    <3> QED
      BY <3>1, <3>2
  <2>3. p \in Int /\ p >= 1
    BY <1>1, LaidAt
  <2> QED
    BY <2>1, <2>2, <2>3
<1>5. ms = [ls EXCEPT ![l] = NodeAt(v, 1)] \/ (ms = ls /\ NodeAt(v, 1) = ls[l])
  BY <1>1, <1>4
<1> QED
  BY <1>2, <1>3, <1>5, ListArranged

LEMMA ListRemoved ==
  ASSUME NEW h, NEW ls, NEW q, NEW W, Arranged(h, ls, q, W), NEW l \in Names,
         NEW p \in 1..Len(W[l]), NEW g, CutOut(h, g, W[l][p]), NEW ms,
         ms = IF p = 1 THEN [ls EXCEPT ![l] = h[W[l][p]].next] ELSE ls
  PROVE  Arranged(g, ms, q, [W EXCEPT ![l] = RemoveAt(W[l], p)])
<1>1. Laid(h, W) /\ l \in Walks /\ ls[l] = NodeAt(W[l], 1)
  BY DEF Arranged, Walks
<1>2. PICK v : v = RemoveAt(W[l], p)
  OBVIOUS
<1>3. Laid(g, [W EXCEPT ![l] = v])
  BY <1>1, <1>2, LaidRemove
<1>4. NodeAt(v, 1) = IF p = 1 THEN h[W[l][p]].next ELSE NodeAt(W[l], 1)
  <2>1. W[l] \in Seq(Nodes) /\ p \in Int /\ p >= 1 /\ h[W[l][p]].next = NodeAt(W[l], p + 1)
    BY <1>1, LaidAt
  <2>2. \A i \in Int : NodeAt(v, i) = IF i < p THEN NodeAt(W[l], i) ELSE NodeAt(W[l], i + 1)
    BY <1>2, <2>1, AtRemoved
  <2> QED
    BY <2>1, <2>2
<1>5. ms = [ls EXCEPT ![l] = NodeAt(v, 1)] \/ (ms = ls /\ NodeAt(v, 1) = ls[l])
  BY <1>1, <1>4
<1> QED
  BY <1>2, <1>3, <1>5, ListArranged

\* From h to g, the lists W have become V, by a new node in l, or one less.
InsertedIn(h, W, g, V, l, p, d) ==
  \E k \in Nodes \ DOMAIN h :
    /\ V = [W EXCEPT ![l] = InsertAt(W[l], p, k)]
    /\ g[k].data = d /\ \A x \in DOMAIN h : g[x].data = h[x].data
RemovedIn(h, W, g, V, l, p) ==
  /\ V = [W EXCEPT ![l] = RemoveAt(W[l], p)]
  /\ \A x \in DOMAIN h \ {W[l][p]} : g[x].data = h[x].data

LEMMA InsertedArranged ==
  ASSUME NEW h, NEW ls, NEW q, NEW W, Arranged(h, ls, q, W), NEW l \in Names,
         NEW p \in 1..Len(W[l]) + 1, NEW k \in Nodes \ DOMAIN h, NEW d, NEW g,
         Spliced(h, g, k, NodeAt(W[l], p - 1), NodeAt(W[l], p), d), NEW ms,
         ms = IF p = 1 THEN [ls EXCEPT ![l] = k] ELSE ls
  PROVE  \E V : Arranged(g, ms, q, V) /\ InsertedIn(h, W, g, V, l, p, d)
<1>1. PICK V : V = [W EXCEPT ![l] = InsertAt(W[l], p, k)]
  OBVIOUS
<1>2. Arranged(g, ms, q, V)
  BY <1>1, ListInserted
<1>3. g[k].data = d /\ \A x \in DOMAIN h : g[x].data = h[x].data
  BY DEF Spliced
<1>4. InsertedIn(h, W, g, V, l, p, d)
  BY <1>1, <1>3, Zenon DEF InsertedIn
<1> QED
  BY <1>2, <1>4

LEMMA RemovedArranged ==
  ASSUME NEW h, NEW ls, NEW q, NEW W, Arranged(h, ls, q, W), NEW l \in Names,
         NEW p \in 1..Len(W[l]), NEW g, CutOut(h, g, W[l][p]), NEW ms,
         ms = IF p = 1 THEN [ls EXCEPT ![l] = h[W[l][p]].next] ELSE ls
  PROVE  \E V : Arranged(g, ms, q, V) /\ RemovedIn(h, W, g, V, l, p)
<1>1. PICK V : V = [W EXCEPT ![l] = RemoveAt(W[l], p)]
  OBVIOUS
<1>2. Arranged(g, ms, q, V)
  BY <1>1, ListRemoved
<1>3. \A x \in DOMAIN h \ {W[l][p]} : g[x].data = h[x].data
  BY DEF CutOut
<1>4. RemovedIn(h, W, g, V, l, p)
  BY <1>1, <1>3, Zenon DEF RemovedIn
<1> QED
  BY <1>2, <1>4

LEMMA Append1Does ==
  ASSUME NEW W, Arranged(heap, list, queue, W), NEW l \in Names, NEW d \in Data, Append1(l, d)
  PROVE  \E V : /\ Arranged(heap', list', queue', V)
                /\ InsertedIn(heap, W, heap', V, l, Len(W[l]) + 1, d)
<1>1. PICK h, ls, q : h = heap /\ ls = list /\ q = queue
  OBVIOUS
<1>2. Arranged(h, ls, q, W) /\ Laid(h, W) /\ HeapOK(h) /\ l \in Walks
  BY <1>1 DEF Arranged, Laid, Walks
<1>3. PICK k \in Nodes \ DOMAIN h :
        /\ heap' = Behind(h, k, LastOf(ls[l]), d)
        /\ list' = IF ls[l] = Null THEN [ls EXCEPT ![l] = k] ELSE ls
        /\ queue' = q
  BY <1>1 DEF Append1, FreeNodes
<1>4. PICK n \in Nat : n = Len(W[l])
  BY <1>2, LaidAt
<1>5. LastOf(ls[l]) = NodeAt(W[l], n) /\ ls[l] = NodeAt(W[l], 1)
  BY <1>1, <1>4, LinksRead
<1>6. PICK a \in DOMAIN h \cup {Null} : a = NodeAt(W[l], n)
  BY <1>2, <1>4, LaidAt
<1>7. PICK p \in 1..n + 1 : p = n + 1 /\ p - 1 = n /\ p \in Int
  BY <1>4
<1>8. NodeAt(W[l], p) = Null
  BY <1>2, <1>4, <1>7, LaidAt
<1>9. PICK g, ms : g = heap' /\ ms = list'
  OBVIOUS
<1>10. Spliced(h, g, k, a, Null, d)
  <2>1. g = Behind(h, k, a, d)
    BY <1>3, <1>5, <1>6, <1>9
  <2> QED
    BY <1>2, <2>1, BehindSplices
<1>11. p = 1 <=> ls[l] = Null
  BY <1>2, <1>4, <1>5, <1>7, LaidAt
<1>12. ms = IF p = 1 THEN [ls EXCEPT ![l] = k] ELSE ls
  BY <1>3, <1>9, <1>11
<1>13. Spliced(h, g, k, NodeAt(W[l], p - 1), NodeAt(W[l], p), d) /\ p \in 1..Len(W[l]) + 1
  BY <1>4, <1>6, <1>7, <1>8, <1>10
<1>14. \E V : Arranged(g, ms, q, V) /\ InsertedIn(h, W, g, V, l, p, d)
  BY <1>2, <1>12, <1>13, InsertedArranged
<1> QED
  BY <1>1, <1>3, <1>4, <1>7, <1>9, <1>14

\* A new node in front of the p-th of the list.
LEMMA BeforeDoes ==
  ASSUME NEW W, Arranged(heap, list, queue, W), NEW l \in Names, NEW d \in Data,
         NEW p \in 1..Len(W[l]), NEW k \in Nodes \ DOMAIN heap,
         heap' = Before(heap, k, W[l][p], d), queue' = queue,
         list' = IF p = 1 THEN [list EXCEPT ![l] = k] ELSE list
  PROVE  \E V : /\ Arranged(heap', list', queue', V) /\ InsertedIn(heap, W, heap', V, l, p, d)
<1>1. PICK h, ls, q : h = heap /\ ls = list /\ q = queue
  OBVIOUS
<1>2. Arranged(h, ls, q, W) /\ Laid(h, W) /\ HeapOK(h) /\ l \in Walks
  BY <1>1 DEF Arranged, Laid, Walks
<1>3. PICK n \in Nat : n = Len(W[l]) /\ p \in 1..n /\ p \in Int /\ p - 1 \in Int /\ p \in 1..n + 1
  BY <1>2, LaidAt
<1>4. PICK b \in DOMAIN h : b = NodeAt(W[l], p) /\ b = W[l][p] /\ b # Null
  BY <1>2, <1>3, LaidAt
<1>5. PICK a \in DOMAIN h \cup {Null} : a = NodeAt(W[l], p - 1) /\ h[b].prev = a
  BY <1>2, <1>3, <1>4, LaidAt
<1>6. PICK g, ms : g = heap' /\ ms = list'
  OBVIOUS
<1>7. Spliced(h, g, k, a, b, d)
  <2>1. g = Before(h, k, b, d)
    BY <1>1, <1>4, <1>6
  <2>2. k \in Nodes \ DOMAIN h
    BY <1>1
  <2>3. Spliced(h, Before(h, k, b, d), k, h[b].prev, b, d)
    BY <1>2, <1>5, <2>2, BeforeSplices
  <2> QED
    BY <1>5, <2>1, <2>3
<1>8. ms = IF p = 1 THEN [ls EXCEPT ![l] = k] ELSE ls
  BY <1>1, <1>6
<1>9. Spliced(h, g, k, NodeAt(W[l], p - 1), NodeAt(W[l], p), d) /\ p \in 1..Len(W[l]) + 1 /\ k \in Nodes \ DOMAIN h
  BY <1>1, <1>3, <1>4, <1>5, <1>7
<1>10. \E V : Arranged(g, ms, q, V) /\ InsertedIn(h, W, g, V, l, p, d)
  BY <1>2, <1>8, <1>9, InsertedArranged
<1> QED
  BY <1>1, <1>6, <1>10

LEMMA InsertDoes ==
  ASSUME NEW W, Arranged(heap, list, queue, W), NEW l \in Names, NEW d \in Data,
         NEW p \in 1..Len(W[l]), Insert(l, d, W[l][p])
  PROVE  \E V : /\ Arranged(heap', list', queue', V) /\ InsertedIn(heap, W, heap', V, l, p, d)
<1>1. Laid(heap, W) /\ l \in Walks
  BY DEF Arranged, Walks
<1>2. PICK k \in Nodes \ DOMAIN heap :
        /\ heap' = Before(heap, k, W[l][p], d)
        /\ list' = IF W[l][p] = list[l] THEN [list EXCEPT ![l] = k] ELSE list
        /\ queue' = queue
  BY DEF Insert, FreeNodes
<1>3. p \in Int /\ 1 \in Int /\ NodeAt(W[l], p) = W[l][p] /\ NodeAt(W[l], p) # Null
  BY <1>1, LaidAt
<1>4. W[l][p] = list[l] <=> p = 1
  <2>1. list[l] = NodeAt(W[l], 1)
    BY LinksRead
  <2>2. NodeAt(W[l], p) = NodeAt(W[l], 1) => p = 1
    BY <1>1, <1>3, LaidAt
  <2> QED
    BY <1>3, <2>1, <2>2
<1>5. list' = IF p = 1 THEN [list EXCEPT ![l] = k] ELSE list
  BY <1>2, <1>4
<1> QED
  BY <1>2, <1>5, BeforeDoes

LEMMA PrependDoes ==
  ASSUME NEW W, Arranged(heap, list, queue, W), NEW l \in Names, NEW d \in Data, Prepend(l, d)
  PROVE  \E V : /\ Arranged(heap', list', queue', V) /\ InsertedIn(heap, W, heap', V, l, 1, d)
<1>1. Laid(heap, W) /\ l \in Walks
  BY DEF Arranged, Walks
<1>2. PICK n \in Nat : n = Len(W[l])
  BY <1>1, LaidAt
<1>3. list[l] = NodeAt(W[l], 1) /\ LastOf(list[l]) = NodeAt(W[l], n)
  BY <1>2, LinksRead
<1>4. CASE list[l] = Null
  <2>1. n = 0
    BY <1>1, <1>2, <1>3, <1>4, LaidAt
  <2>2. LastOf(list[l]) = Null
    BY <1>4 DEF LastOf
  <2>3. Append1(l, d)
    BY <1>4, <2>2 DEF Prepend, Append1
  <2>4. PICK V : Arranged(heap', list', queue', V) /\ InsertedIn(heap, W, heap', V, l, n + 1, d)
    BY <1>2, <2>3, Append1Does
  <2>5. n + 1 = 1
    BY <2>1
  <2> QED
    BY <2>4, <2>5
<1>5. CASE list[l] # Null
  <2>1. PICK p \in 1..Len(W[l]) : p = 1
    BY <1>1, <1>2, <1>3, <1>5, LaidAt
  <2>2. W[l][p] = list[l]
    BY <1>1, <1>3, <2>1, LaidAt
  <2>3. PICK k \in Nodes \ DOMAIN heap :
          /\ heap' = Before(heap, k, W[l][p], d)
          /\ list' = [list EXCEPT ![l] = k]
          /\ queue' = queue
    BY <1>5, <2>2 DEF Prepend, FreeNodes
  <2>4. list' = IF p = 1 THEN [list EXCEPT ![l] = k] ELSE list
    BY <2>1, <2>3
  <2>5. \E V : /\ Arranged(heap', list', queue', V) /\ InsertedIn(heap, W, heap', V, l, p, d)
    BY <2>3, <2>4, BeforeDoes
  <2> QED
    BY <2>1, <2>5
<1> QED
  BY <1>4, <1>5

LEMMA MinIs ==
  ASSUME NEW B, B \subseteq Nat, B # {}
  PROVE  Min(B) \in B /\ \A i \in B : Min(B) <= i
<1>1. \E m \in B : \A i \in B : m <= i
  BY LeastNat
<1> QED
  BY <1>1 DEF Min

\* x_list_insert_sorted finds a place of the list or its end.
LEMMA InsertSortedDoes ==
  ASSUME NEW W, Arranged(heap, list, queue, W), NEW l \in Names, NEW d \in Data, InsertSorted(l, d)
  PROVE  \E V : \E p \in 1..Len(W[l]) + 1 :
           /\ Arranged(heap', list', queue', V) /\ InsertedIn(heap, W, heap', V, l, p, d)
           /\ \A i \in 1..p - 1 : ~(heap[W[l][i]].data >= d)
           /\ p # Len(W[l]) + 1 => heap[W[l][p]].data >= d
<1>1. Laid(heap, W) /\ l \in Walks
  BY DEF Arranged, Walks
<1>2. PICK n \in Nat : n = Len(W[l])
  BY <1>1, LaidAt
<1>3. NodesOf(l) = W[l]
  BY LinksRead
<1>4. PICK B : B = {i \in 1..Len(W[l]) : heap[W[l][i]].data >= d}
  OBVIOUS
<1>5. Place(l, d) = IF B = {} THEN Null ELSE W[l][Min(B)]
  BY <1>3, <1>4 DEF Place
<1>6. CASE B = {}
  <2>1. Place(l, d) = Null
    BY <1>5, <1>6
  <2>2. Append1(l, d)
    BY <2>1 DEF InsertSorted
  <2>3. PICK V : Arranged(heap', list', queue', V) /\ InsertedIn(heap, W, heap', V, l, n + 1, d)
    BY <1>2, <2>2, Append1Does
  <2>4. n + 1 \in 1..Len(W[l]) + 1 /\ \A i \in 1..(n + 1) - 1 : ~(heap[W[l][i]].data >= d)
    BY <1>2, <1>4, <1>6
  <2> QED
    BY <1>2, <2>3, <2>4
<1>7. CASE B # {}
  <2>1. B \subseteq Nat
    BY <1>4
  <2>2. Min(B) \in B /\ \A i \in B : Min(B) <= i
    BY <1>7, <2>1, MinIs
  <2>3. PICK p \in B : p = Min(B)
    BY <2>2
  <2>4. p \in 1..Len(W[l]) /\ p \in Int /\ p \in 1..Len(W[l]) + 1
    BY <1>2, <1>4
  <2>5. Place(l, d) = W[l][p] /\ W[l][p] # Null
    BY <1>1, <1>5, <1>7, <2>3, <2>4, LaidAt
  <2>6. Insert(l, d, W[l][p])
    BY <2>5 DEF InsertSorted
  <2>7. PICK V : Arranged(heap', list', queue', V) /\ InsertedIn(heap, W, heap', V, l, p, d)
    BY <2>4, <2>6, InsertDoes
  <2>8. ASSUME NEW i \in 1..p - 1 PROVE ~(heap[W[l][i]].data >= d)
    <3>1. i \in 1..Len(W[l]) /\ ~(p <= i)
      BY <1>2, <2>4
    <3> QED
      BY <1>4, <2>2, <2>3, <3>1
  <2>9. heap[W[l][p]].data >= d
    BY <1>4
  <2> QED
    BY <2>4, <2>7, <2>8, <2>9
<1> QED
  BY <1>6, <1>7

\* Freed nodes.
LEMMA DeleteDoes ==
  ASSUME NEW W, Arranged(heap, list, queue, W), NEW l \in Names,
         NEW p \in 1..Len(W[l]), DeleteLink(l, W[l][p])
  PROVE  \E V : Arranged(heap', list', queue', V) /\ RemovedIn(heap, W, heap', V, l, p)
<1>1. PICK h, ls, q : h = heap /\ ls = list /\ q = queue
  OBVIOUS
<1>2. Arranged(h, ls, q, W) /\ Laid(h, W) /\ HeapOK(h) /\ l \in Walks
  BY <1>1 DEF Arranged, Laid, Walks
<1>3. p \in Int /\ p - 1 \in Int /\ p + 1 \in Int /\ 1 \in Int
  BY <1>2, LaidAt
<1>4. PICK k \in DOMAIN h : k = NodeAt(W[l], p) /\ k = W[l][p] /\ k # Null
  BY <1>2, <1>3, LaidAt
<1>5. PICK a \in DOMAIN h \cup {Null} : a = NodeAt(W[l], p - 1) /\ h[k].prev = a
  BY <1>2, <1>3, <1>4, LaidAt
<1>6. PICK b \in DOMAIN h \cup {Null} : b = NodeAt(W[l], p + 1) /\ h[k].next = b
  BY <1>2, <1>3, <1>4, LaidAt
<1>7. \A j \in Int : k = NodeAt(W[l], j) => p = j
  <2>1. \A i, j \in Int : NodeAt(W[l], i) = NodeAt(W[l], j) /\ NodeAt(W[l], i) # Null => i = j
    BY <1>2, LaidAt
  <2> QED
    BY <1>3, <1>4, <2>1
<1>8. a # k /\ b # k
  BY <1>3, <1>5, <1>6, <1>7
<1>9. PICK g, ms : g = heap' /\ ms = list'
  OBVIOUS
<1>10. /\ g = Freed(Unlinked(h, k), k) /\ queue' = q
       /\ ms = IF k = ls[l] THEN [ls EXCEPT ![l] = h[k].next] ELSE ls
  BY <1>1, <1>4, <1>9 DEF DeleteLink
<1>11. CutOut(h, g, k)
  BY <1>2, <1>5, <1>6, <1>8, <1>10, UnlinkedCutsOut
<1>12. k = ls[l] <=> p = 1
  <2>1. ls[l] = NodeAt(W[l], 1)
    BY <1>1, LinksRead
  <2> QED
    BY <1>3, <1>4, <1>7, <2>1
<1>13. ms = IF p = 1 THEN [ls EXCEPT ![l] = h[W[l][p]].next] ELSE ls
  BY <1>4, <1>10, <1>12
<1>14. \E V : Arranged(g, ms, q, V) /\ RemovedIn(h, W, g, V, l, p)
  BY <1>2, <1>4, <1>11, <1>13, RemovedArranged
<1> QED
  BY <1>1, <1>9, <1>10, <1>14

LEMMA RemoveDataDoes ==
  ASSUME NEW W, Arranged(heap, list, queue, W), NEW l \in Names, NEW d \in Data, RemoveData(l, d)
  PROVE  \E V : \E p \in 1..Len(W[l]) :
           /\ Arranged(heap', list', queue', V) /\ RemovedIn(heap, W, heap', V, l, p)
           /\ heap[W[l][p]].data = d /\ \A i \in 1..p - 1 : heap[W[l][i]].data # d
<1>1. Laid(heap, W) /\ l \in Walks
  BY DEF Arranged, Walks
<1>2. PICK w \in Seq(Nodes), n \in Nat : w = W[l] /\ n = Len(w) /\ DOMAIN w = 1..n
  BY <1>1, LaidAt, LenProperties
<1>3. NodesOf(l) = w
  BY <1>2, LinksRead
<1>4. PICK B : B = {i \in 1..n : heap[w[i]].data = d}
  OBVIOUS
<1>5. Found(l, d) = B
  BY <1>2, <1>3, <1>4 DEF Found
<1>6. B # {} /\ B \subseteq Nat
  BY <1>4, <1>5 DEF RemoveData
<1>7. Min(B) \in B /\ \A i \in B : Min(B) <= i
  BY <1>6, MinIs
<1>8. PICK p \in B : p = Min(B)
  BY <1>7
<1>9. p \in 1..Len(W[l]) /\ heap[W[l][p]].data = d
  BY <1>2, <1>4
<1>10. DeleteLink(l, W[l][p])
  BY <1>2, <1>3, <1>5, <1>8 DEF RemoveData
<1>11. PICK V : Arranged(heap', list', queue', V) /\ RemovedIn(heap, W, heap', V, l, p)
  BY <1>9, <1>10, DeleteDoes
<1>12. ASSUME NEW i \in 1..p - 1 PROVE heap[W[l][i]].data # d
  <2>1. i \in 1..n /\ ~(p <= i)
    BY <1>2, <1>9
  <2> QED
    BY <1>2, <1>4, <1>7, <1>8, <2>1
<1> QED
  BY <1>9, <1>11, <1>12

\* The queue: a node more or less in the list that has no name.
LEMMA PushHeadDoes ==
  ASSUME NEW W, Arranged(heap, list, queue, W), NEW d \in Data, PushHead(d)
  PROVE  \E V : Arranged(heap', list', queue', V) /\ InsertedIn(heap, W, heap', V, Null, 1, d)
<1>1. PICK h, ls, q : h = heap /\ ls = list /\ q = queue
  OBVIOUS
<1>2. Arranged(h, ls, q, W) /\ Laid(h, W) /\ HeapOK(h) /\ Null \in Walks
  BY <1>1 DEF Arranged, Laid, Walks
<1>3. PICK w \in Seq(Nodes), n \in Nat : w = W[Null] /\ n = Len(w)
  BY <1>2, LaidAt
<1>4. q.head = NodeAt(w, 1) /\ q.tail = NodeAt(w, n) /\ q.length = n
  BY <1>1, <1>3, LinksRead
<1>5. PICK k \in Nodes \ DOMAIN h :
        /\ heap' = IF q.head = Null THEN Behind(h, k, Null, d) ELSE Before(h, k, q.head, d)
        /\ queue' = [head |-> k, tail |-> IF q.tail = Null THEN k ELSE q.tail, length |-> q.length + 1]
        /\ list' = ls
  BY <1>1 DEF PushHead, FreeNodes
<1>6. PICK g, r : g = heap' /\ r = queue'
  OBVIOUS
<1>7. PICK p \in 1..n + 1 : p = 1 /\ p - 1 = 0
  BY <1>3
<1>8. NodeAt(w, 0) = Null /\ (NodeAt(w, 1) = Null <=> n = 0) /\ (NodeAt(w, n) = Null <=> n = 0)
  <2>1. \A i \in Int : NodeAt(w, i) = Null <=> i \notin 1..n
    BY <1>2, <1>3, LaidAt
  <2> QED
    BY <2>1
<1>9. Spliced(h, g, k, NodeAt(w, 0), NodeAt(w, 1), d)
  <2>1. CASE q.head = Null
    BY <1>2, <1>4, <1>5, <1>6, <1>8, <2>1, BehindSplices
  <2>2. CASE q.head # Null
    <3>1. PICK b \in DOMAIN h : b = NodeAt(w, 1) /\ h[b].prev = NodeAt(w, 0)
      <4>1. 1 \in 1..Len(W[Null]) /\ 1 \in Int /\ 1 - 1 = 0
        BY <1>3, <1>4, <1>8, <2>2
      <4>2. NodeAt(W[Null], 1) \in DOMAIN h \cup {Null} /\ h[NodeAt(W[Null], 1)].prev = NodeAt(W[Null], 1 - 1)
        BY <1>2, <4>1, LaidAt
      <4> QED
        BY <1>3, <1>4, <2>2, <4>1, <4>2
    <3>2. h[b].prev \in DOMAIN h \cup {Null}
      BY <1>8, <3>1
    <3>3. Spliced(h, Before(h, k, b, d), k, h[b].prev, b, d)
      BY <1>2, <3>1, <3>2, BeforeSplices
    <3> QED
      BY <1>4, <1>5, <1>6, <2>2, <3>1, <3>3
  <2> QED
    BY <2>1, <2>2
<1>10. PICK v : v = InsertAt(w, p, k)
  OBVIOUS
<1>11. /\ Len(v) = n + 1
       /\ \A i \in Int : NodeAt(v, i) = IF i < p THEN NodeAt(w, i) ELSE IF i = p THEN k ELSE NodeAt(w, i - 1)
  <2>1. PICK t : /\ t = InsertAt(w, p, k) /\ Len(t) = Len(w) + 1
                 /\ \A i \in Int : NodeAt(t, i) = IF i < p THEN NodeAt(w, i) ELSE IF i = p THEN k ELSE NodeAt(w, i - 1)
    BY <1>3, AtInserted
  <2> QED
    BY <1>3, <1>10, <2>1
<1>12. NodeAt(v, 1) = k /\ NodeAt(v, n + 1) = IF n = 0 THEN k ELSE NodeAt(w, n)
  <2>1. PICK i \in Int : i = n + 1 /\ i - 1 = n
    BY <1>3
  <2>2. NodeAt(v, i) = IF i = 1 THEN k ELSE NodeAt(w, n)
    BY <1>7, <1>11, <2>1
  <2> QED
    BY <1>7, <1>11, <2>1, <2>2
<1>13. r = [head |-> NodeAt(v, 1), tail |-> NodeAt(v, Len(v)), length |-> Len(v)]
  BY <1>4, <1>5, <1>6, <1>8, <1>11, <1>12
<1>14. PICK V : V = [W EXCEPT ![Null] = v]
  OBVIOUS
<1>15. Laid(g, V)
  <2>1. Spliced(h, g, k, NodeAt(W[Null], p - 1), NodeAt(W[Null], p), d) /\ p \in 1..Len(W[Null]) + 1
    BY <1>3, <1>7, <1>9
  <2>2. V = [W EXCEPT ![Null] = InsertAt(W[Null], p, k)]
    BY <1>3, <1>10, <1>14
  <2> QED
    BY <1>2, <2>1, <2>2, LaidInsert
<1>16. Arranged(g, ls, r, V)
  BY <1>2, <1>13, <1>14, <1>15, QueueArranged
<1>17. InsertedIn(h, W, g, V, Null, 1, d)
  <2>1. g[k].data = d /\ \A x \in DOMAIN h : g[x].data = h[x].data
    BY <1>9 DEF Spliced
  <2>2. V = [W EXCEPT ![Null] = InsertAt(W[Null], 1, k)]
    BY <1>3, <1>7, <1>10, <1>14
  <2> QED
    BY <2>1, <2>2, Zenon DEF InsertedIn
<1> QED
  BY <1>1, <1>5, <1>6, <1>16, <1>17

LEMMA PushTailDoes ==
  ASSUME NEW W, Arranged(heap, list, queue, W), NEW d \in Data, PushTail(d)
  PROVE  \E V : /\ Arranged(heap', list', queue', V)
                /\ InsertedIn(heap, W, heap', V, Null, Len(W[Null]) + 1, d)
<1>1. PICK h, ls, q : h = heap /\ ls = list /\ q = queue
  OBVIOUS
<1>2. Arranged(h, ls, q, W) /\ Laid(h, W) /\ HeapOK(h) /\ Null \in Walks
  BY <1>1 DEF Arranged, Laid, Walks
<1>3. PICK w \in Seq(Nodes), n \in Nat : w = W[Null] /\ n = Len(w)
  BY <1>2, LaidAt
<1>4. q.head = NodeAt(w, 1) /\ q.tail = NodeAt(w, n) /\ q.length = n /\ LastOf(q.tail) = q.tail
  BY <1>1, <1>3, LinksRead
<1>5. PICK k \in Nodes \ DOMAIN h :
        /\ heap' = Behind(h, k, q.tail, d)
        /\ queue' = [head |-> IF q.tail = Null THEN k ELSE q.head, tail |-> k, length |-> q.length + 1]
        /\ list' = ls
  BY <1>1, <1>4 DEF PushTail, FreeNodes
<1>6. PICK g, r : g = heap' /\ r = queue'
  OBVIOUS
<1>7. PICK p \in 1..n + 1 : p = n + 1 /\ p - 1 = n /\ p \in Int
  BY <1>3
<1>8. NodeAt(w, p) = Null /\ (NodeAt(w, n) = Null <=> n = 0) /\ NodeAt(w, n) \in DOMAIN h \cup {Null}
  <2>1. \A i \in Int : NodeAt(w, i) \in DOMAIN h \cup {Null} /\ (NodeAt(w, i) = Null <=> i \notin 1..n)
    BY <1>2, <1>3, LaidAt
  <2> QED
    BY <1>7, <2>1
<1>9. Spliced(h, g, k, NodeAt(w, n), Null, d)
  <2>1. PICK a \in DOMAIN h \cup {Null} : a = NodeAt(w, n)
    BY <1>8
  <2>2. Spliced(h, Behind(h, k, a, d), k, a, Null, d)
    BY <1>2, <2>1, BehindSplices
  <2> QED
    BY <1>4, <1>5, <1>6, <2>1, <2>2
<1>10. PICK v : v = InsertAt(w, p, k)
  OBVIOUS
<1>11. /\ Len(v) = n + 1
       /\ \A i \in Int : NodeAt(v, i) = IF i < p THEN NodeAt(w, i) ELSE IF i = p THEN k ELSE NodeAt(w, i - 1)
  <2>1. PICK t : /\ t = InsertAt(w, p, k) /\ Len(t) = Len(w) + 1
                 /\ \A i \in Int : NodeAt(t, i) = IF i < p THEN NodeAt(w, i) ELSE IF i = p THEN k ELSE NodeAt(w, i - 1)
    BY <1>3, AtInserted
  <2> QED
    BY <1>3, <1>10, <2>1
<1>12. NodeAt(v, n + 1) = k /\ NodeAt(v, 1) = IF n = 0 THEN k ELSE NodeAt(w, 1)
  BY <1>7, <1>11
<1>13. r = [head |-> NodeAt(v, 1), tail |-> NodeAt(v, Len(v)), length |-> Len(v)]
  BY <1>4, <1>5, <1>6, <1>8, <1>11, <1>12
<1>14. PICK V : V = [W EXCEPT ![Null] = v]
  OBVIOUS
<1>15. Laid(g, V)
  <2>1. Spliced(h, g, k, NodeAt(W[Null], p - 1), NodeAt(W[Null], p), d) /\ p \in 1..Len(W[Null]) + 1
    BY <1>3, <1>7, <1>8, <1>9
  <2>2. V = [W EXCEPT ![Null] = InsertAt(W[Null], p, k)]
    BY <1>3, <1>10, <1>14
  <2> QED
    BY <1>2, <2>1, <2>2, LaidInsert
<1>16. Arranged(g, ls, r, V)
  BY <1>2, <1>13, <1>14, <1>15, QueueArranged
<1>17. InsertedIn(h, W, g, V, Null, Len(W[Null]) + 1, d)
  <2>1. g[k].data = d /\ \A x \in DOMAIN h : g[x].data = h[x].data
    BY <1>9 DEF Spliced
  <2>2. V = [W EXCEPT ![Null] = InsertAt(W[Null], Len(W[Null]) + 1, k)]
    BY <1>3, <1>7, <1>10, <1>14
  <2> QED
    BY <2>1, <2>2, Zenon DEF InsertedIn
<1> QED
  BY <1>1, <1>5, <1>6, <1>16, <1>17

LEMMA PopHeadDoes ==
  ASSUME NEW W, Arranged(heap, list, queue, W), PopHead
  PROVE  \E V : /\ Arranged(heap', list', queue', V) /\ RemovedIn(heap, W, heap', V, Null, 1)
                /\ 1 \in 1..Len(W[Null])
<1>1. PICK h, ls, q : h = heap /\ ls = list /\ q = queue
  OBVIOUS
<1>2. Arranged(h, ls, q, W) /\ Laid(h, W) /\ HeapOK(h) /\ Null \in Walks
  BY <1>1 DEF Arranged, Laid, Walks
<1>3. PICK w \in Seq(Nodes), n \in Nat : w = W[Null] /\ n = Len(w)
  BY <1>2, LaidAt
<1>4. q.head = NodeAt(w, 1) /\ q.tail = NodeAt(w, n) /\ q.length = n
  BY <1>1, <1>3, LinksRead
<1>5. PICK b : b = NodeAt(w, 2)
  OBVIOUS
<1>6. /\ NodeAt(w, 0) = Null /\ (b = Null <=> n \in {0, 1}) /\ (NodeAt(w, 1) = Null <=> n = 0)
      /\ b \in DOMAIN h \cup {Null} /\ NodeAt(w, 1) \in DOMAIN h \cup {Null}
  <2>1. \A i \in Int : NodeAt(w, i) \in DOMAIN h \cup {Null} /\ (NodeAt(w, i) = Null <=> i \notin 1..n)
    BY <1>2, <1>3, LaidAt
  <2> QED
    BY <1>5, <2>1
<1>7. PICK p \in 1..n : p = 1
  BY <1>1, <1>3, <1>4, <1>6 DEF PopHead
<1>8. PICK k \in DOMAIN h : k = NodeAt(w, 1) /\ k # Null /\ k = W[Null][p] /\ h[k].next = b /\ h[k].prev = Null
  <2>1. p \in 1..Len(W[Null]) /\ p + 1 = 2 /\ p - 1 = 0 /\ p \in Int
    BY <1>3, <1>7
  <2>2. /\ NodeAt(W[Null], p) = W[Null][p] /\ NodeAt(W[Null], p) # Null
        /\ h[NodeAt(W[Null], p)].next = NodeAt(W[Null], p + 1) /\ h[NodeAt(W[Null], p)].prev = NodeAt(W[Null], p - 1)
    BY <1>2, <2>1, LaidAt
  <2> QED
    BY <1>3, <1>5, <1>6, <1>7, <2>1, <2>2
<1>9. b # k
  <2>1. \A i, j \in Int : NodeAt(w, i) = NodeAt(w, j) /\ NodeAt(w, i) # Null => i = j
    BY <1>2, <1>3, LaidAt
  <2>2. NodeAt(w, 1) = NodeAt(w, 2) => 1 = 2
    BY <1>8, <2>1
  <2> QED
    BY <1>5, <1>8, <2>2
<1>10. PICK g, r : g = heap' /\ r = queue'
  OBVIOUS
<1>11. /\ g = Freed(SetPrev(h, b, Null), k) /\ list' = ls
       /\ r = [head |-> b, tail |-> IF b = Null THEN Null ELSE q.tail, length |-> q.length - 1]
  BY <1>1, <1>4, <1>8, <1>10 DEF PopHead, TailAfter
<1>12. CutOut(h, g, k)
  BY <1>2, <1>6, <1>8, <1>9, <1>11, HeadCutsOut
<1>13. PICK v : v = RemoveAt(w, p)
  OBVIOUS
<1>14. Len(v) = n - 1 /\ \A i \in Int : NodeAt(v, i) = IF i < p THEN NodeAt(w, i) ELSE NodeAt(w, i + 1)
  <2>1. PICK t : /\ t = RemoveAt(w, p) /\ Len(t) = Len(w) - 1
                 /\ \A i \in Int : NodeAt(t, i) = IF i < p THEN NodeAt(w, i) ELSE NodeAt(w, i + 1)
    BY <1>3, <1>7, AtRemoved
  <2> QED
    BY <1>3, <1>13, <2>1
<1>15. NodeAt(v, 1) = b /\ NodeAt(v, n - 1) = IF b = Null THEN Null ELSE NodeAt(w, n)
  <2>1. NodeAt(v, 1) = b
    BY <1>5, <1>7, <1>14
  <2>2. PICK i \in Int : i = n - 1 /\ i + 1 = n
    BY <1>3
  <2>3. NodeAt(v, i) = IF i < 1 THEN NodeAt(w, i) ELSE NodeAt(w, n)
    BY <1>7, <1>14, <2>2
  <2>4. i < 1 => i = 0
    BY <1>7, <2>2
  <2> QED
    BY <1>6, <1>7, <2>1, <2>2, <2>3, <2>4
<1>16. r = [head |-> NodeAt(v, 1), tail |-> NodeAt(v, Len(v)), length |-> Len(v)]
  BY <1>4, <1>11, <1>14, <1>15
<1>17. PICK V : V = [W EXCEPT ![Null] = v]
  OBVIOUS
<1>18. Laid(g, V)
  <2>1. p \in 1..Len(W[Null]) /\ CutOut(h, g, W[Null][p])
    BY <1>3, <1>7, <1>8, <1>12
  <2>2. V = [W EXCEPT ![Null] = RemoveAt(W[Null], p)]
    BY <1>3, <1>13, <1>17
  <2> QED
    BY <1>2, <2>1, <2>2, LaidRemove
<1>19. Arranged(g, ls, r, V)
  BY <1>2, <1>16, <1>17, <1>18, QueueArranged
<1>20. RemovedIn(h, W, g, V, Null, 1)
  <2>1. \A x \in DOMAIN h \ {k} : g[x].data = h[x].data
    BY <1>12 DEF CutOut
  <2>2. V = [W EXCEPT ![Null] = RemoveAt(W[Null], 1)] /\ k = W[Null][1]
    BY <1>3, <1>7, <1>8, <1>13, <1>17
  <2> QED
    BY <2>1, <2>2, Zenon DEF RemovedIn
<1> QED
  BY <1>1, <1>3, <1>7, <1>10, <1>11, <1>19, <1>20

LEMMA PopTailDoes ==
  ASSUME NEW W, Arranged(heap, list, queue, W), PopTail
  PROVE  \E V : /\ Arranged(heap', list', queue', V)
                /\ RemovedIn(heap, W, heap', V, Null, Len(W[Null])) /\ Len(W[Null]) # 0
<1>1. PICK h, ls, q : h = heap /\ ls = list /\ q = queue
  OBVIOUS
<1>2. Arranged(h, ls, q, W) /\ Laid(h, W) /\ HeapOK(h) /\ Null \in Walks
  BY <1>1 DEF Arranged, Laid, Walks
<1>3. PICK w \in Seq(Nodes), n \in Nat : w = W[Null] /\ n = Len(w)
  BY <1>2, LaidAt
<1>4. q.head = NodeAt(w, 1) /\ q.tail = NodeAt(w, n) /\ q.length = n
  BY <1>1, <1>3, LinksRead
<1>5. PICK a : a = NodeAt(w, n - 1)
  OBVIOUS
<1>6. /\ NodeAt(w, 0) = Null /\ NodeAt(w, n + 1) = Null /\ (NodeAt(w, n) = Null <=> n = 0)
      /\ (a = Null <=> n \in {0, 1}) /\ a \in DOMAIN h \cup {Null}
  <2>1. \A i \in Int : NodeAt(w, i) \in DOMAIN h \cup {Null} /\ (NodeAt(w, i) = Null <=> i \notin 1..n)
    BY <1>2, <1>3, LaidAt
  <2>2. PICK i \in Int : i = n - 1
    BY <1>3
  <2>3. a \in DOMAIN h \cup {Null} /\ (a = Null <=> i \notin 1..n)
    BY <1>5, <2>1, <2>2
  <2>4. i \notin 1..n <=> n \in {0, 1}
    <3>1. CASE n \in {0, 1}
      BY <2>2, <3>1
    <3>2. CASE n \notin {0, 1}
      <4>1. n >= 2
        BY <3>2
      <4> QED
        BY <2>2, <4>1
    <3> QED
      BY <3>1, <3>2
  <2> QED
    BY <2>1, <2>3, <2>4
<1>7. PICK p \in 1..n : p = n /\ p \in Int
  BY <1>1, <1>3, <1>4, <1>6 DEF PopTail
<1>8. PICK k \in DOMAIN h : k = NodeAt(w, n) /\ k # Null /\ k = W[Null][p] /\ h[k].next = Null /\ h[k].prev = a
  <2>1. p \in 1..Len(W[Null]) /\ p + 1 = n + 1 /\ p - 1 = n - 1
    BY <1>3, <1>7
  <2>2. /\ NodeAt(W[Null], p) = W[Null][p] /\ NodeAt(W[Null], p) # Null /\ NodeAt(W[Null], p) \in DOMAIN h \cup {Null}
        /\ h[NodeAt(W[Null], p)].next = NodeAt(W[Null], p + 1) /\ h[NodeAt(W[Null], p)].prev = NodeAt(W[Null], p - 1)
    BY <1>2, <1>7, <2>1, LaidAt
  <2> QED
    BY <1>3, <1>5, <1>6, <1>7, <2>1, <2>2
<1>9. a # k
  <2>1. \A i, j \in Int : NodeAt(w, i) = NodeAt(w, j) /\ NodeAt(w, i) # Null => i = j
    BY <1>2, <1>3, LaidAt
  <2>2. PICK i \in Int : i = n - 1 /\ i # n
    BY <1>3
  <2>3. NodeAt(w, n) # Null /\ n \in Int
    BY <1>8
  <2>4. NodeAt(w, n) # NodeAt(w, i)
    BY <2>1, <2>2, <2>3
  <2> QED
    BY ONLY <1>5, <1>8, <2>2, <2>4, Zenon
<1>10. PICK g, r : g = heap' /\ r = queue'
  OBVIOUS
<1>11. /\ g = Freed(SetNext(h, a, Null), k) /\ list' = ls
       /\ r = [head |-> IF a = Null THEN Null ELSE q.head, tail |-> a, length |-> q.length - 1]
  BY <1>1, <1>4, <1>8, <1>10 DEF PopTail
<1>12. CutOut(h, g, k)
  BY <1>2, <1>6, <1>8, <1>9, <1>11, TailCutsOut
<1>13. PICK v : v = RemoveAt(w, p)
  OBVIOUS
<1>14. Len(v) = n - 1 /\ \A i \in Int : NodeAt(v, i) = IF i < p THEN NodeAt(w, i) ELSE NodeAt(w, i + 1)
  <2>0. p \in 1..Len(w)
    BY <1>3
  <2>1. PICK t : /\ t = RemoveAt(w, p) /\ Len(t) = Len(w) - 1
                 /\ \A i \in Int : NodeAt(t, i) = IF i < p THEN NodeAt(w, i) ELSE NodeAt(w, i + 1)
    BY <2>0, AtRemoved
  <2> QED
    BY <1>3, <1>13, <2>1
<1>15. NodeAt(v, n - 1) = a /\ NodeAt(v, 1) = IF a = Null THEN Null ELSE NodeAt(w, 1)
  <2>1. PICK i \in Int : i = n - 1 /\ i < p
    BY <1>7
  <2>2. NodeAt(v, i) = NodeAt(w, i)
    BY <1>14, <2>1
  <2>3. CASE n = 1
    <3>1. NodeAt(v, 1) = NodeAt(w, 1 + 1) /\ NodeAt(w, n + 1) = Null /\ a = Null
      BY <1>6, <1>7, <1>14, <2>3
    <3> QED
      BY <1>5, <2>1, <2>2, <2>3, <3>1
  <2>4. CASE n # 1
    <3>1. NodeAt(v, 1) = NodeAt(w, 1) /\ a # Null
      BY <1>6, <1>7, <1>14, <2>4
    <3> QED
      BY <1>5, <2>1, <2>2, <3>1
  <2> QED
    BY <2>3, <2>4
<1>16. r = [head |-> NodeAt(v, 1), tail |-> NodeAt(v, Len(v)), length |-> Len(v)]
  BY <1>4, <1>11, <1>14, <1>15
<1>17. PICK V : V = [W EXCEPT ![Null] = v]
  OBVIOUS
<1>18. Laid(g, V)
  <2>1. p \in 1..Len(W[Null]) /\ CutOut(h, g, W[Null][p])
    BY <1>3, <1>7, <1>8, <1>12
  <2>2. V = [W EXCEPT ![Null] = RemoveAt(W[Null], p)]
    BY <1>3, <1>13, <1>17
  <2> QED
    BY <1>2, <2>1, <2>2, LaidRemove
<1>19. Arranged(g, ls, r, V)
  BY <1>2, <1>16, <1>17, <1>18, QueueArranged
<1>20. RemovedIn(h, W, g, V, Null, Len(W[Null]))
  <2>1. \A x \in DOMAIN h \ {k} : g[x].data = h[x].data
    BY <1>12 DEF CutOut
  <2>2. V = [W EXCEPT ![Null] = RemoveAt(W[Null], Len(W[Null]))] /\ k = W[Null][Len(W[Null])]
    BY <1>3, <1>7, <1>8, <1>13, <1>17
  <2> QED
    BY <2>1, <2>2, Zenon DEF RemovedIn
<1> QED
  BY <1>1, <1>3, <1>7, <1>10, <1>11, <1>19, <1>20

\* The node of a link that is taken out, with neither neighbour.
Loosened(f, k, d) == [f EXCEPT ![k] = Node(Null, Null, d)]
Solitary(g, f, k) ==
  /\ HeapOK(g) /\ DOMAIN g = DOMAIN f
  /\ g[k].next = Null /\ g[k].prev = Null /\ g[k].data = f[k].data
  /\ \A x \in DOMAIN f : x # k => g[x] = f[x]

LEMMA AloneIs ==
  ASSUME NEW f, HeapOK(f), NEW k \in DOMAIN f, NEW g, g = Loosened(f, k, f[k].data)
  PROVE  Solitary(g, f, k)
<1>1. PICK c \in Cells : c = f[k]
  BY DEF HeapOK
<1>2. PICK e \in Cells : e = Node(Null, Null, c.data) /\ e.next = Null /\ e.prev = Null /\ e.data = c.data
  <2>1. c.data \in Data
    BY DEF Cells
  <2>2. PICK e : e = [next |-> Null, prev |-> Null, data |-> c.data]
    OBVIOUS
  <2> QED
    BY <2>1, <2>2 DEF Cells, Node
<1>3. g = [x \in DOMAIN f |-> IF x = k THEN e ELSE f[x]]
  <2>1. f = [x \in DOMAIN f |-> f[x]]
    BY DEF HeapOK
  <2> QED
    BY <1>1, <1>2, <2>1 DEF Loosened
<1>4. DOMAIN g = DOMAIN f /\ \A x \in DOMAIN f : g[x] = IF x = k THEN e ELSE f[x]
  BY <1>3
<1>5. HeapOK(g)
  <2>1. g = [x \in DOMAIN g |-> g[x]]
    BY <1>3
  <2> QED
    BY <1>4, <2>1 DEF HeapOK
<1> QED
  BY <1>1, <1>2, <1>4, <1>5 DEF Solitary

LEMMA RemoveLinkDoes ==
  ASSUME NEW W, Arranged(heap, list, queue, W), NEW l \in Names, NEW m \in Names \ {l},
         NEW p \in 1..Len(W[l]), RemoveLink(l, W[l][p], m)
  PROVE  /\ W[m] = <<>> /\ \A x \in DOMAIN heap : heap'[x].data = heap[x].data
         /\ \E U, V : /\ Arranged(heap', list', queue', V)
                      /\ U = [W EXCEPT ![l] = RemoveAt(W[l], p)]
                      /\ V = [U EXCEPT ![m] = InsertAt(<<>>, 1, W[l][p])]
<1>1. PICK h, ls, q : h = heap /\ ls = list /\ q = queue
  OBVIOUS
<1>2. Arranged(h, ls, q, W) /\ Laid(h, W) /\ HeapOK(h) /\ l \in Walks /\ m \in Walks
  BY <1>1 DEF Arranged, Laid, Walks
<1>3. p \in Int /\ p - 1 \in Int /\ p + 1 \in Int /\ 1 \in Int
  BY <1>2, LaidAt
<1>4. PICK k \in DOMAIN h : k = NodeAt(W[l], p) /\ k = W[l][p] /\ k # Null
  BY <1>2, <1>3, LaidAt
<1>5. PICK a \in DOMAIN h \cup {Null} : a = NodeAt(W[l], p - 1) /\ h[k].prev = a
  BY <1>2, <1>3, <1>4, LaidAt
<1>6. PICK b \in DOMAIN h \cup {Null} : b = NodeAt(W[l], p + 1) /\ h[k].next = b
  BY <1>2, <1>3, <1>4, LaidAt
<1>7. \A j \in Int : k = NodeAt(W[l], j) => p = j
  <2>1. \A i, j \in Int : NodeAt(W[l], i) = NodeAt(W[l], j) /\ NodeAt(W[l], i) # Null => i = j
    BY <1>2, LaidAt
  <2> QED
    BY <1>3, <1>4, <2>1
<1>8. a # k /\ b # k
  BY <1>3, <1>5, <1>6, <1>7
<1>9. PICK f, g, ms : f = Unlinked(h, k) /\ g = heap' /\ ms = list'
  OBVIOUS
<1>10. /\ ls[m] = Null /\ queue' = q /\ g = Loosened(f, k, h[k].data)
       /\ ms = [ls EXCEPT ![l] = IF k = ls[l] THEN h[k].next ELSE @, ![m] = k]
  BY <1>1, <1>4, <1>9 DEF RemoveLink, Loosened
<1>11. W[m] = <<>>
  <2>1. ls[m] = NodeAt(W[m], 1)
    BY <1>1, LinksRead
  <2>2. W[m] \in Seq(Nodes) /\ Len(W[m]) \in Nat /\ 1 \notin 1..Len(W[m])
    BY <1>2, <1>10, <2>1, LaidAt
  <2>3. Len(W[m]) = 0
    BY <2>2
  <2> QED
    BY <2>2, <2>3, EmptySeq
<1>12. /\ HeapOK(f) /\ DOMAIN f = DOMAIN h
       /\ \A x \in DOMAIN h : /\ f[x].next = IF x = a THEN b ELSE h[x].next
                              /\ f[x].prev = IF x = b THEN a ELSE h[x].prev
                              /\ f[x].data = h[x].data
  <2>1. Bridged(f, h, a, b)
    BY <1>2, <1>5, <1>6, <1>8, <1>9, UnlinkedIs
  <2> QED
    BY <2>1 DEF Bridged
<1>13. /\ HeapOK(g) /\ DOMAIN g = DOMAIN f
       /\ g[k].next = Null /\ g[k].prev = Null /\ g[k].data = f[k].data
       /\ \A x \in DOMAIN f : x # k => g[x] = f[x]
  <2>1. k \in DOMAIN f /\ f[k].data = h[k].data
    BY <1>12
  <2> QED
    BY <1>10, <1>12, <2>1, AloneIs DEF Solitary
<1>14. PICK e : e = Freed(f, k)
  OBVIOUS
<1>15. CutOut(h, e, k)
  BY <1>2, <1>5, <1>6, <1>8, <1>9, <1>14, UnlinkedCutsOut
<1>16. HeapOK(e) /\ DOMAIN e = DOMAIN f \ {k} /\ \A x \in DOMAIN f \ {k} : e[x] = f[x]
  <2>1. Less(e, f, k)
    BY <1>12, <1>14, FreedIs
  <2> QED
    BY <2>1 DEF Less
<1>17. Null \notin DOMAIN h
  BY <1>2, LaidAt
<1>18. Spliced(e, g, k, Null, Null, h[k].data)
  <2>1. DOMAIN g = DOMAIN e \cup {k} /\ g[k].data = h[k].data
    BY <1>12, <1>13, <1>16
  <2>2. \A x \in DOMAIN e : g[x] = e[x] /\ x # Null
    BY <1>12, <1>13, <1>16, <1>17
  <2> QED
    BY <1>13, <2>1, <2>2 DEF Spliced
<1>19. PICK ns : ns = IF p = 1 THEN [ls EXCEPT ![l] = h[W[l][p]].next] ELSE ls
  OBVIOUS
<1>20. PICK U : U = [W EXCEPT ![l] = RemoveAt(W[l], p)]
  OBVIOUS
<1>21. Arranged(e, ns, q, U)
  <2>1. CutOut(h, e, W[l][p])
    BY <1>4, <1>15
  <2> QED
    BY <1>2, <1>19, <1>20, <2>1, ListRemoved
<1>22. U[m] = <<>>
  BY <1>2, <1>11, <1>20 DEF Laid
<1>23. k \in Nodes \ DOMAIN e
  BY <1>2, <1>16 DEF HeapOK
<1>24. PICK V : V = [U EXCEPT ![m] = InsertAt(U[m], 1, k)]
  OBVIOUS
<1>25. ms = [ns EXCEPT ![m] = k]
  <2>1. k = ls[l] <=> p = 1
    <3>1. ls[l] = NodeAt(W[l], 1)
      BY <1>1, LinksRead
    <3> QED
      BY <1>3, <1>4, <1>7, <3>1
  <2>2. ls = [x \in Names |-> ls[x]]
    BY <1>2 DEF Arranged
  <2> QED
    BY <1>4, <1>10, <1>19, <2>1, <2>2
<1>26. Arranged(g, ms, q, V)
  <2>1. PICK i \in 1..Len(U[m]) + 1 : i = 1
    BY <1>22
  <2>2. NodeAt(U[m], i - 1) = Null /\ NodeAt(U[m], i) = Null
    BY <1>22, <2>1 DEF NodeAt
  <2>3. Spliced(e, g, k, NodeAt(U[m], i - 1), NodeAt(U[m], i), h[k].data)
    BY <1>18, <2>2
  <2>4. ms = IF i = 1 THEN [ns EXCEPT ![m] = k] ELSE ns
    BY <1>25, <2>1
  <2>5. Arranged(g, ms, q, [U EXCEPT ![m] = InsertAt(U[m], i, k)])
    BY <1>21, <1>23, <2>3, <2>4, ListInserted
  <2> QED
    BY <1>24, <2>1, <2>5
<1>27. V = [U EXCEPT ![m] = InsertAt(<<>>, 1, W[l][p])]
  BY <1>4, <1>22, <1>24
<1>28. \A x \in DOMAIN h : g[x].data = h[x].data
  BY <1>12, <1>13
<1>29. Arranged(heap', list', queue', V)
  BY <1>9, <1>10, <1>26
<1>30. \A x \in DOMAIN heap : heap'[x].data = heap[x].data
  BY <1>1, <1>9, <1>28
<1> QED
  BY <1>11, <1>20, <1>27, <1>29, <1>30, Zenon

\* The loop of x_list_remove_all, as a function of the number of nodes it has looked at.
LeftAt(f, i, h, first, w, d) ==
  IF i = 0 THEN [heap |-> h, first |-> first]
  ELSE IF h[w[i]].data = d THEN Dropped(f[i - 1], w[i]) ELSE f[i - 1]
IsLeft(f, n, h, first, w, d) == f = [i \in 0..n |-> LeftAt(f, i, h, first, w, d)]

LEMMA LeftExists ==
  ASSUME NEW n \in Nat, NEW h, NEW first, NEW w, NEW d
  PROVE  \E f : IsLeft(f, n, h, first, w, d)
<1> DEFINE T == {k \in Nat : \E f : IsLeft(f, k, h, first, w, d)}
<1>1. 0 \in T
  <2>1. PICK f : f = [i \in 0..0 |-> [heap |-> h, first |-> first]]
    OBVIOUS
  <2>2. f = [i \in 0..0 |-> LeftAt(f, i, h, first, w, d)]
    BY <2>1 DEF LeftAt
  <2> QED
    BY <2>2 DEF IsLeft
<1>2. ASSUME NEW k \in Nat, k \in T PROVE k + 1 \in T
  <2>1. PICK f : IsLeft(f, k, h, first, w, d)
    BY <1>2
  <2>2. \A i \in 0..k : f[i] = LeftAt(f, i, h, first, w, d)
    BY <2>1 DEF IsLeft
  <2>3. PICK g : g = [i \in 0..k + 1 |-> IF i \in 0..k THEN f[i] ELSE LeftAt(f, i, h, first, w, d)]
    OBVIOUS
  <2>4. \A i \in 0..k : g[i] = f[i]
    BY <2>3
  <2>5. \A i \in 0..k + 1 : i # 0 => i - 1 \in 0..k
    OBVIOUS
  <2>6. \A i \in 0..k + 1 : LeftAt(g, i, h, first, w, d) = LeftAt(f, i, h, first, w, d)
    BY <2>4, <2>5 DEF LeftAt
  <2>7. \A i \in 0..k + 1 : g[i] = LeftAt(g, i, h, first, w, d)
    BY <2>2, <2>3, <2>6
  <2>8. IsLeft(g, k + 1, h, first, w, d)
    BY <2>3, <2>7 DEF IsLeft
  <2> QED
    BY <2>8
<1> HIDE DEF T
<1>3. n \in T
  BY <1>1, <1>2, NatInd
<1> QED
  BY <1>3 DEF T

\* What is stored in the nodes w of the heap h; the entries that are not d of the first
\* i of a sequence, as Without of Sequences2 collects them.
DataOf(h, w) == [i \in DOMAIN w |-> h[w[i]].data]
KeptAt(f, i, s, d) ==
  IF i = 0 THEN <<>> ELSE IF s[i] = d THEN f[i - 1] ELSE Append(f[i - 1], s[i])
IsKept(f, n, s, d) == f = [i \in 0..n |-> KeptAt(f, i, s, d)]
KeptOf(s, d) == CHOOSE f : IsKept(f, Len(s), s, d)

LEMMA DataOfIs ==
  ASSUME NEW h, NEW W, Laid(h, W), NEW l \in Walks
  PROVE  /\ DataOf(h, W[l]) \in Seq(Data) /\ Len(DataOf(h, W[l])) = Len(W[l])
         /\ \A i \in 1..Len(W[l]) : DataOf(h, W[l])[i] = h[W[l][i]].data
<1>1. PICK w \in Seq(Nodes), n \in Nat : w = W[l] /\ n = Len(w) /\ DOMAIN w = 1..n
  BY LaidAt
<1>2. \A i \in 1..n : h[w[i]].data \in Data
  <2>1. \A i \in 1..n : w[i] \in DOMAIN h
    BY <1>1 DEF Laid
  <2> QED
    BY <2>1 DEF Laid, HeapOK, Cells
<1>3. PICK s : s = DataOf(h, w)
  OBVIOUS
<1>4. s = [i \in 1..n |-> h[w[i]].data]
  BY <1>1, <1>3 DEF DataOf
<1>5. s \in Seq(Data) /\ Len(s) = n /\ \A i \in 1..n : s[i] = h[w[i]].data
  BY <1>1, <1>2, <1>4
<1> QED
  BY <1>1, <1>3, <1>5

LEMMA KeptExists ==
  ASSUME NEW n \in Nat, NEW s, NEW d
  PROVE  \E f : IsKept(f, n, s, d)
<1> DEFINE T == {k \in Nat : \E f : IsKept(f, k, s, d)}
<1>1. 0 \in T
  <2>1. PICK f : f = [i \in 0..0 |-> <<>>]
    OBVIOUS
  <2>2. f = [i \in 0..0 |-> KeptAt(f, i, s, d)]
    BY <2>1 DEF KeptAt
  <2> QED
    BY <2>2 DEF IsKept
<1>2. ASSUME NEW k \in Nat, k \in T PROVE k + 1 \in T
  <2>1. PICK f : IsKept(f, k, s, d)
    BY <1>2
  <2>2. \A i \in 0..k : f[i] = KeptAt(f, i, s, d)
    BY <2>1 DEF IsKept
  <2>3. PICK g : g = [i \in 0..k + 1 |-> IF i \in 0..k THEN f[i] ELSE KeptAt(f, i, s, d)]
    OBVIOUS
  <2>4. \A i \in 0..k : g[i] = f[i]
    BY <2>3
  <2>5. \A i \in 0..k + 1 : i # 0 => i - 1 \in 0..k
    OBVIOUS
  <2>6. \A i \in 0..k + 1 : KeptAt(g, i, s, d) = KeptAt(f, i, s, d)
    BY <2>4, <2>5 DEF KeptAt
  <2>7. \A i \in 0..k + 1 : g[i] = KeptAt(g, i, s, d)
    BY <2>2, <2>3, <2>6
  <2>8. IsKept(g, k + 1, s, d)
    BY <2>3, <2>7 DEF IsKept
  <2> QED
    BY <2>8
<1> HIDE DEF T
<1>3. n \in T
  BY <1>1, <1>2, NatInd
<1> QED
  BY <1>3 DEF T

LEMMA KeptOfIs ==
  ASSUME NEW s \in Seq(Data), NEW d
  PROVE  /\ KeptOf(s, d)[0] = <<>>
         /\ \A i \in 1..Len(s) : KeptOf(s, d)[i] = IF s[i] = d THEN KeptOf(s, d)[i - 1]
                                                   ELSE Append(KeptOf(s, d)[i - 1], s[i])
         /\ \A i \in 0..Len(s) : KeptOf(s, d)[i] \in Seq(Data)
<1>1. PICK n \in Nat : n = Len(s) /\ \A i \in 1..n : s[i] \in Data
  BY LenProperties
<1>2. PICK f : f = KeptOf(s, d)
  OBVIOUS
<1>3. IsKept(f, n, s, d)
  BY <1>1, <1>2, KeptExists DEF KeptOf
<1>4. \A i \in 0..n : f[i] = KeptAt(f, i, s, d)
  BY <1>3 DEF IsKept
<1>5. f[0] = <<>> /\ \A i \in 1..n : f[i] = IF s[i] = d THEN f[i - 1] ELSE Append(f[i - 1], s[i])
  <2>1. 0 \in 0..n /\ \A i \in 1..n : i \in 0..n /\ i # 0
    OBVIOUS
  <2> QED
    BY <1>4, <2>1 DEF KeptAt
<1> DEFINE T == {k \in Nat : k <= n => f[k] \in Seq(Data)}
<1>6. 0 \in T
  <2>1. <<>> \in Seq(Data)
    OBVIOUS
  <2> QED
    BY <1>5, <2>1
<1>7. ASSUME NEW k \in Nat, k \in T PROVE k + 1 \in T
  <2> SUFFICES ASSUME k + 1 <= n PROVE f[k + 1] \in Seq(Data)
    OBVIOUS
  <2>1. PICK r \in 1..n : r = k + 1 /\ r - 1 = k
    OBVIOUS
  <2>2. f[k] \in Seq(Data) /\ s[r] \in Data
    BY <1>1, <1>7, <2>1
  <2>3. f[r] = IF s[r] = d THEN f[k] ELSE Append(f[k], s[r])
    BY <1>5, <2>1
  <2> QED
    BY <2>1, <2>2, <2>3
<1> HIDE DEF T
<1>8. \A k \in Nat : k \in T
  BY <1>6, <1>7, NatInd
<1>9. \A i \in 0..n : f[i] \in Seq(Data)
  BY <1>8 DEF T
<1> QED
  BY <1>1, <1>2, <1>5, <1>9

\* The first c places of x hold what is kept of the first i places of w.
Leading(h, w, d, x, i, c) ==
  /\ Len(KeptOf(DataOf(h, w), d)[i]) = c
  /\ \A j \in 1..c : h[x[j]].data = KeptOf(DataOf(h, w), d)[i][j]

LEMMA LeadingBegins ==
  ASSUME NEW h, NEW W, Laid(h, W), NEW l \in Walks, NEW d, NEW x
  PROVE  Leading(h, W[l], d, x, 0, 0)
<1>1. PICK s \in Seq(Data) : s = DataOf(h, W[l])
  BY DataOfIs
<1>2. KeptOf(s, d)[0] = <<>>
  BY KeptOfIs
<1> QED
  BY <1>1, <1>2 DEF Leading

LEMMA LeadingStays ==
  ASSUME NEW h, NEW W, Laid(h, W), NEW l \in Walks, NEW d, NEW x, NEW c \in Nat,
         NEW i \in Nat, NEW r \in 1..Len(W[l]), r = i + 1, Leading(h, W[l], d, x, i, c),
         NEW p, p = c + 1, x[p] = W[l][r], h[W[l][r]].data # d
  PROVE  Leading(h, W[l], d, x, r, p)
<1>1. PICK s \in Seq(Data) : s = DataOf(h, W[l]) /\ Len(s) = Len(W[l]) /\ s[r] = h[W[l][r]].data
  BY DataOfIs
<1>2. PICK f : f = KeptOf(s, d)
  OBVIOUS
<1>3. r - 1 = i /\ i \in 0..Len(s) /\ r \in 1..Len(s)
  BY <1>1
<1>4. PICK a \in Seq(Data), v \in Data : a = f[i] /\ v = s[r] /\ Len(a) = c
  <2>1. f[i] \in Seq(Data)
    BY <1>2, <1>3, KeptOfIs
  <2>2. s[r] \in Data
    BY <1>3
  <2> QED
    BY <1>1, <1>2, <2>1, <2>2 DEF Leading
<1>5. f[r] = Append(a, v)
  <2>1. f[r] = IF s[r] = d THEN f[r - 1] ELSE Append(f[r - 1], s[r])
    BY <1>2, <1>3, KeptOfIs
  <2>2. s[r] # d
    BY <1>1
  <2> QED
    BY ONLY <1>3, <1>4, <2>1, <2>2
<1>6. \A j \in 1..c : h[x[j]].data = a[j]
  BY <1>1, <1>2, <1>4 DEF Leading
<1>7. PICK b : b = Append(a, v) /\ Len(b) = p /\ b[p] = v /\ \A j \in 1..c : b[j] = a[j]
  <2>1. PICK b \in Seq(Data) : b = Append(a, v)
    BY AppendProperties
  <2>2. Len(b) = Len(a) + 1 /\ b[Len(a) + 1] = v /\ \A j \in 1..Len(a) : b[j] = a[j]
    BY ONLY <2>1, AppendProperties
  <2> QED
    BY <1>4, <2>1, <2>2
<1>8. ASSUME NEW j \in 1..p PROVE h[x[j]].data = b[j]
  <2>1. j \in 1..c \/ j = p
    OBVIOUS
  <2> QED
    BY <1>1, <1>4, <1>6, <1>7, <2>1
<1> QED
  BY <1>1, <1>2, <1>5, <1>7, <1>8 DEF Leading

LEMMA LeadingGoes ==
  ASSUME NEW h, NEW W, Laid(h, W), NEW l \in Walks, NEW d, NEW x, NEW y, NEW c \in Nat,
         NEW i \in Nat, NEW r \in 1..Len(W[l]), r = i + 1, Leading(h, W[l], d, x, i, c),
         \A j \in 1..c : y[j] = x[j], h[W[l][r]].data = d
  PROVE  Leading(h, W[l], d, y, r, c)
<1>1. PICK s \in Seq(Data) : s = DataOf(h, W[l]) /\ Len(s) = Len(W[l]) /\ s[r] = h[W[l][r]].data
  BY DataOfIs
<1>2. PICK f : f = KeptOf(s, d)
  OBVIOUS
<1>3. r - 1 = i /\ r \in 1..Len(s)
  BY <1>1
<1>4. f[r] = f[i]
  <2>1. f[r] = IF s[r] = d THEN f[r - 1] ELSE Append(f[r - 1], s[r])
    BY <1>2, <1>3, KeptOfIs
  <2> QED
    BY <1>1, <1>3, <2>1
<1>5. Len(f[i]) = c /\ \A j \in 1..c : h[x[j]].data = f[i][j]
  BY <1>1, <1>2 DEF Leading
<1>6. Len(f[r]) = c /\ \A j \in 1..c : h[y[j]].data = f[r][j]
  BY <1>4, <1>5
<1> QED
  BY <1>1, <1>2, <1>6 DEF Leading

\* The lists X, when the loop has looked at i nodes of w and has kept c of them.
Partway(h, ls, q, W, l, d, left, i, X, c) ==
  /\ Arranged(left.heap, [ls EXCEPT ![l] = left.first], q, X)
  /\ \A m \in Walks : m # l => X[m] = W[m]
  /\ c \in Nat /\ Len(X[l]) = c + Len(W[l]) - i
  /\ \A j \in i + 1..Len(W[l]) : X[l][c + j - i] = W[l][j]
  /\ DOMAIN left.heap \subseteq DOMAIN h
  /\ \A x \in DOMAIN left.heap : left.heap[x].data = h[x].data
  /\ Leading(h, W[l], d, X[l], i, c)

LEMMA LeftArranged ==
  ASSUME NEW h, NEW ls, NEW q, NEW W, Arranged(h, ls, q, W), NEW l \in Names, NEW d, NEW f,
         NEW n, n = Len(W[l]), IsLeft(f, n, h, ls[l], W[l], d), NEW k \in 0..n
  PROVE  \E X, c : Partway(h, ls, q, W, l, d, f[k], k, X, c)
<1>1. Laid(h, W) /\ l \in Walks
  BY DEF Arranged, Walks
<1>2. PICK w \in Seq(Nodes) : w = W[l] /\ n = Len(w) /\ n \in Nat
  BY <1>1, LaidAt
<1>3. \A i \in 0..n : f[i] = LeftAt(f, i, h, ls[l], w, d)
  BY <1>2 DEF IsLeft
<1>4. ls = [m \in Names |-> ls[m]]
  BY DEF Arranged
<1> DEFINE T == {i \in Nat : i <= n => \E X, c : Partway(h, ls, q, W, l, d, f[i], i, X, c)}
<1>5. 0 \in T
  <2>1. PICK left : left = f[0] /\ left = [heap |-> h, first |-> ls[l]]
    BY <1>2, <1>3 DEF LeftAt
  <2>2. left.heap = h /\ [ls EXCEPT ![l] = left.first] = ls
    BY <1>4, <2>1
  <2>3. \A j \in 0 + 1..n : W[l][0 + j - 0] = W[l][j]
    OBVIOUS
  <2>5. Leading(h, W[l], d, W[l], 0, 0)
    BY <1>1, LeadingBegins
  <2>4. Partway(h, ls, q, W, l, d, left, 0, W, 0)
    BY <1>2, <2>2, <2>3, <2>5 DEF Partway
  <2> QED
    BY <2>1, <2>4
<1>6. ASSUME NEW i \in Nat, i \in T PROVE i + 1 \in T
  <2> SUFFICES ASSUME i + 1 <= n PROVE \E X, c : Partway(h, ls, q, W, l, d, f[i + 1], i + 1, X, c)
    OBVIOUS
  <2>1. PICK r : r = i + 1 /\ r \in 1..n /\ r \in 0..n /\ r - 1 = i /\ i \in 0..n
    BY <1>2
  <2>2. PICK X, c : Partway(h, ls, q, W, l, d, f[i], i, X, c)
    BY <1>2, <1>6
  <2>3. PICK left, next : left = f[i] /\ next = f[r]
    OBVIOUS
  <2>4. PICK e, es : e = left.heap /\ es = [ls EXCEPT ![l] = left.first]
    OBVIOUS
  <2>5. /\ Arranged(e, es, q, X) /\ \A m \in Walks : m # l => X[m] = W[m]
        /\ c \in Nat /\ Len(X[l]) = c + n - i /\ \A j \in i + 1..n : X[l][c + j - i] = w[j]
        /\ DOMAIN e \subseteq DOMAIN h /\ \A x \in DOMAIN e : e[x].data = h[x].data
        /\ Leading(h, W[l], d, X[l], i, c)
    BY <1>2, <2>2, <2>3, <2>4 DEF Partway
  <2>50. c \in Nat /\ i \in Nat /\ n \in Nat /\ r \in Nat /\ r = i + 1 /\ r <= n /\ Len(X[l]) = c + n - i
    BY <1>2, <2>1, <2>5
  <2>6. next = IF h[w[r]].data = d THEN Dropped(left, w[r]) ELSE left
    BY <1>3, <2>1, <2>3 DEF LeftAt
  <2>7. PICK p \in 1..Len(X[l]) : p = c + 1 /\ X[l][p] = w[r]
    <3>1. PICK j \in i + 1..n : j = r /\ c + j - i = c + 1
      BY ONLY <2>50
    <3>2. c + 1 \in 1..Len(X[l])
      BY <1>2, <2>1, <2>5
    <3>3. X[l][c + j - i] = w[j]
      BY <2>5
    <3> QED
      BY <3>1, <3>2, <3>3
  <2>8. CASE h[w[r]].data # d
    <3>1. next = left
      BY <2>6, <2>8
    <3>2. PICK b \in Nat : b = c + 1
      BY <2>5
    <3>3. Len(X[l]) = b + n - r
      BY ONLY <2>50, <3>2
    <3>4. ASSUME NEW j \in r + 1..n PROVE X[l][b + j - r] = w[j]
      <4>1. j \in i + 1..n /\ b + j - r = c + j - i
        BY <1>2, <2>1, <2>5, <3>2
      <4> QED
        BY <2>5, <4>1
    <3>6. Leading(h, W[l], d, X[l], r, b)
      <4>1. X[l][b] = W[l][r] /\ h[W[l][r]].data # d /\ r \in 1..Len(W[l])
        BY <1>2, <2>1, <2>7, <2>8, <3>2
      <4> QED
        BY <1>1, <1>6, <2>1, <2>5, <3>2, <4>1, LeadingStays
    <3>5. Partway(h, ls, q, W, l, d, next, r, X, b)
      BY <1>2, <2>4, <2>5, <3>1, <3>2, <3>3, <3>4, <3>6 DEF Partway
    <3> QED
      BY <2>1, <2>3, <3>5
  <2>9. CASE h[w[r]].data = d
    <3>1. Laid(e, X) /\ HeapOK(e) /\ es[l] = NodeAt(X[l], 1)
      BY <2>5 DEF Arranged, Laid
    <3>2. p \in Int /\ p - 1 \in Int /\ p + 1 \in Int /\ 1 \in Int
      BY <1>1, <3>1, LaidAt
    <3>3. PICK k1 \in DOMAIN e : k1 = NodeAt(X[l], p) /\ k1 = X[l][p] /\ k1 # Null
      BY <1>1, <3>1, <3>2, LaidAt
    <3>4. PICK a \in DOMAIN e \cup {Null} : a = NodeAt(X[l], p - 1) /\ e[k1].prev = a
      BY <1>1, <3>1, <3>2, <3>3, LaidAt
    <3>5. PICK b \in DOMAIN e \cup {Null} : b = NodeAt(X[l], p + 1) /\ e[k1].next = b
      BY <1>1, <3>1, <3>2, <3>3, LaidAt
    <3>6. a # k1 /\ b # k1
      <4>1. \A u, v \in Int : NodeAt(X[l], u) = NodeAt(X[l], v) /\ NodeAt(X[l], u) # Null => u = v
        BY <1>1, <3>1, LaidAt
      <4>2. \A v \in Int : k1 = NodeAt(X[l], v) => p = v
        BY <3>2, <3>3, <4>1
      <4>3. k1 # NodeAt(X[l], p - 1) /\ k1 # NodeAt(X[l], p + 1)
        BY ONLY <3>2, <4>2
      <4> QED
        BY <3>4, <3>5, <4>3
    <3>7. PICK g : g = Freed(Unlinked(e, k1), k1)
      OBVIOUS
    <3>8. CutOut(e, g, k1)
      BY <3>1, <3>4, <3>5, <3>6, <3>7, UnlinkedCutsOut
    <3>9. next.heap = g /\ next.first = IF a = Null THEN b ELSE left.first
      BY <2>4, <2>6, <2>7, <2>9, <3>3, <3>4, <3>5, <3>7 DEF Dropped
    <3>10. a = Null <=> p = 1
      <4>1. PICK u \in Int : u = p - 1
        BY <3>2
      <4>2. NodeAt(X[l], u) = Null <=> u \notin 1..Len(X[l])
        BY <1>1, <3>1, LaidAt
      <4>3. Len(X[l]) \in Nat
        BY <1>1, <3>1, LaidAt
      <4> QED
        BY <3>2, <3>4, <4>1, <4>2, <4>3
    <3>11. PICK gs : gs = [ls EXCEPT ![l] = next.first]
      OBVIOUS
    <3>12. gs = IF p = 1 THEN [es EXCEPT ![l] = e[X[l][p]].next] ELSE es
      BY <1>4, <2>4, <3>3, <3>5, <3>9, <3>10, <3>11
    <3>13. PICK Y : Y = [X EXCEPT ![l] = RemoveAt(X[l], p)]
      OBVIOUS
    <3>14. Arranged(g, gs, q, Y)
      <4>1. CutOut(e, g, X[l][p]) /\ Arranged(e, es, q, X)
        BY <2>5, <3>3, <3>8
      <4>2. Arranged(g, gs, q, [X EXCEPT ![l] = RemoveAt(X[l], p)])
        BY <3>12, <4>1, ListRemoved
      <4> QED
        BY <3>13, <4>2
    <3>15. PICK x \in Seq(Nodes) : x = X[l]
      BY <1>1, <3>1, LaidAt
    <3>16. PICK t : /\ t = RemoveAt(x, p) /\ Len(t) = Len(x) - 1
                    /\ \A j \in 1..Len(x) - 1 : t[j] = IF j < p THEN x[j] ELSE x[j + 1]
      <4>1. p \in 1..Len(x)
        BY <3>15
      <4>2. RemovedAt(RemoveAt(x, p), Nodes, x, p)
        BY <3>15, <4>1, RemoveAtPlaces
      <4> QED
        BY <4>2 DEF RemovedAt
    <3>17. Y[l] = t /\ \A m \in Walks : m # l => Y[m] = X[m]
      BY <1>1, <3>1, <3>13, <3>15, <3>16 DEF Laid
    <3>18. Len(Y[l]) = c + n - r
      <4>1. PICK z \in Int : z = Len(x) /\ z = c + n - i
        BY <2>50, <3>15
      <4>2. Len(t) = z - 1 /\ z - 1 = c + n - r
        BY ONLY <2>50, <3>16, <4>1
      <4> QED
        BY <3>17, <4>2
    <3>19. ASSUME NEW j \in r + 1..n PROVE Y[l][c + j - r] = w[j]
      <4>1. PICK u \in 1..Len(x) - 1 : u = c + j - r /\ ~(u < p) /\ u + 1 = c + j - i /\ j \in i + 1..n
        <5>1. Len(x) = c + n - i /\ p = c + 1
          BY <2>7, <2>50, <3>15
        <5> QED
          BY ONLY <2>50, <3>19, <5>1
      <4>2. t[u] = x[u + 1]
        BY <3>16, <4>1
      <4>3. X[l][c + j - i] = w[j]
        BY <2>5, <4>1
      <4> QED
        BY <3>15, <3>17, <4>1, <4>2, <4>3
    <3>20. DOMAIN g \subseteq DOMAIN h /\ \A y \in DOMAIN g : g[y].data = h[y].data
      BY <2>5, <3>8 DEF CutOut
    <3>22. Leading(h, W[l], d, Y[l], r, c)
      <4>1. \A j \in 1..c : j \in 1..Len(x) - 1 /\ j < p
        <5>1. Len(x) = c + n - i /\ p = c + 1
          BY <2>7, <2>50, <3>15
        <5>2. c <= Len(x) - 1 /\ Len(x) \in Int
          BY ONLY <2>50, <5>1
        <5> QED
          BY ONLY <2>50, <5>1, <5>2
      <4>2. \A j \in 1..c : Y[l][j] = X[l][j]
        BY <3>15, <3>16, <3>17, <4>1
      <4>3. h[W[l][r]].data = d /\ r \in 1..Len(W[l])
        BY <1>2, <2>1, <2>9
      <4>4. c \in Nat /\ i \in Nat /\ r = i + 1 /\ Leading(h, W[l], d, X[l], i, c)
        BY <2>5, <2>50
      <4>5. PICK old, new : old = X[l] /\ new = Y[l] /\ \A j \in 1..c : new[j] = old[j]
        BY <4>2
      <4>6. Leading(h, W[l], d, new, r, c)
        BY ONLY <1>1, <4>3, <4>4, <4>5, LeadingGoes
      <4> QED
        BY <4>5, <4>6
    <3>21. Partway(h, ls, q, W, l, d, next, r, Y, c)
      BY <1>2, <2>5, <3>9, <3>11, <3>14, <3>17, <3>18, <3>19, <3>20, <3>22 DEF Partway
    <3> QED
      BY <2>1, <2>3, <3>21
  <2> QED
    BY <2>8, <2>9
<1> HIDE DEF T
<1>7. \A i \in Nat : i \in T
  BY <1>5, <1>6, NatInd
<1>8. k \in Nat /\ k <= n
  BY <1>2
<1> QED
  BY <1>7, <1>8 DEF T

LEMMA RemoveAllDoes ==
  ASSUME NEW W, Arranged(heap, list, queue, W), NEW l \in Names, NEW d \in Data, RemoveAll(l, d)
  PROVE  \E V : /\ Arranged(heap', list', queue', V)
                /\ \A m \in Walks : m # l => V[m] = W[m]
                /\ \A x \in DOMAIN heap' : x \in DOMAIN heap /\ heap'[x].data = heap[x].data
                /\ Leading(heap, W[l], d, V[l], Len(W[l]), Len(V[l]))
<1>1. PICK h, ls, q : h = heap /\ ls = list /\ q = queue
  OBVIOUS
<1>2. Arranged(h, ls, q, W) /\ Laid(h, W) /\ l \in Walks
  BY <1>1 DEF Arranged, Walks
<1>3. PICK w \in Seq(Nodes), n \in Nat : w = W[l] /\ n = Len(w)
  BY <1>2, LaidAt
<1>4. NodesOf(l) = w
  BY <1>3, LinksRead
<1> DEFINE f == CHOOSE left : left = [i \in 0..Len(NodesOf(l)) |->
                  IF i = 0 THEN [heap |-> heap, first |-> list[l]]
                  ELSE IF heap[NodesOf(l)[i]].data = d THEN Dropped(left[i - 1], NodesOf(l)[i])
                  ELSE left[i - 1]]
<1>5. /\ heap' = f[Len(NodesOf(l))].heap /\ queue' = queue
      /\ list' = [list EXCEPT ![l] = f[Len(NodesOf(l))].first]
  BY DEF RemoveAll
<1>6. f = CHOOSE left : IsLeft(left, n, h, ls[l], w, d)
  BY <1>1, <1>3, <1>4 DEF IsLeft, LeftAt
<1> HIDE DEF f
<1>7. IsLeft(f, n, h, ls[l], w, d)
  BY <1>3, <1>6, LeftExists
<1>8. PICK g : g = f
  OBVIOUS
<1>9. PICK X, c : Partway(h, ls, q, W, l, d, g[n], n, X, c)
  <2>1. n \in 0..n /\ n = Len(W[l]) /\ IsLeft(g, n, h, ls[l], W[l], d)
    BY <1>3, <1>7, <1>8
  <2> QED
    BY <1>2, <2>1, LeftArranged
<1>10. /\ Arranged(g[n].heap, [ls EXCEPT ![l] = g[n].first], q, X)
       /\ \A m \in Walks : m # l => X[m] = W[m]
       /\ \A x \in DOMAIN g[n].heap : x \in DOMAIN h /\ g[n].heap[x].data = h[x].data
       /\ c \in Nat /\ Len(X[l]) = c + n - n /\ Leading(h, W[l], d, X[l], n, c)
  BY <1>3, <1>9 DEF Partway
<1>11. heap' = g[n].heap /\ queue' = q /\ list' = [ls EXCEPT ![l] = g[n].first]
  BY <1>1, <1>3, <1>4, <1>5, <1>8
<1>12. Arranged(heap', list', queue', X)
  BY <1>10, <1>11
<1>13. \A x \in DOMAIN heap' : x \in DOMAIN heap /\ heap'[x].data = heap[x].data
  BY <1>1, <1>10, <1>11
<1>14. Leading(heap, W[l], d, X[l], Len(W[l]), Len(X[l]))
  <2>1. Len(X[l]) = c
    BY <1>10
  <2> QED
    BY <1>1, <1>3, <1>10, <2>1
<1> QED
  BY <1>10, <1>12, <1>13, <1>14

\* All nodes of the list l are freed.
LEMMA LaidFreed ==
  ASSUME NEW h, NEW W, Laid(h, W), NEW l \in Walks, NEW g,
         g = Restrict(h, DOMAIN h \ ToSet(W[l]))
  PROVE  Laid(g, [W EXCEPT ![l] = <<>>])
<1>1. PICK w \in Seq(Nodes), n \in Nat : w = W[l] /\ n = Len(w) /\ DOMAIN w = 1..n
  BY LaidAt, LenProperties
<1>2. PICK S : S = ToSet(w) /\ \A x : x \in S <=> \E i \in 1..n : x = w[i]
  <2>1. PICK S : S = {w[i] : i \in 1..n}
    OBVIOUS
  <2>2. S = ToSet(w)
    BY <1>1, <2>1 DEF ToSet
  <2> QED
    BY <2>1, <2>2
<1>3. g = [x \in DOMAIN h \ S |-> h[x]]
  BY <1>1, <1>2 DEF Restrict
<1>4. HeapOK(h)
  BY DEF Laid
<1>5. DOMAIN g = DOMAIN h \ S /\ \A x \in DOMAIN h \ S : g[x] = h[x]
  BY <1>3
<1>6. HeapOK(g)
  <2>1. g = [x \in DOMAIN g |-> g[x]]
    BY <1>3
  <2> QED
    BY <1>4, <1>5, <2>1 DEF HeapOK
<1>7. PICK V : V = [W EXCEPT ![l] = <<>>]
  OBVIOUS
<1>8. V \in [Walks -> Seq(Nodes)] /\ V[l] = <<>> /\ \A m \in Walks : m # l => V[m] = W[m]
  BY <1>7 DEF Laid
<1>9. ASSUME NEW m \in Walks, NEW i \in 1..Len(V[m])
      PROVE  /\ m # l /\ i \in 1..Len(W[m]) /\ NodeAt(V[m], i) = NodeAt(W[m], i) /\ NodeAt(W[m], i) # Null
             /\ NodeAt(W[m], i) \in DOMAIN h /\ NodeAt(W[m], i) \notin S
  <2>1. m # l /\ i \in 1..Len(W[m]) /\ NodeAt(V[m], i) = NodeAt(W[m], i)
    BY <1>8
  <2>2. NodeAt(W[m], i) \in DOMAIN h /\ NodeAt(W[m], i) # Null /\ i \in Int
    BY <2>1, LaidAt
  <2>3. ASSUME NEW j \in 1..n, NodeAt(W[m], i) = w[j] PROVE FALSE
    <3>1. NodeAt(W[l], j) = w[j] /\ j \in Int
      BY <1>1, LaidAt
    <3> QED
      BY <2>1, <2>2, <2>3, <3>1, LaidAt
  <2> QED
    BY <1>2, <2>1, <2>2, <2>3
<1>10. ASSUME NEW m \in Walks, NEW i \in 1..Len(V[m])
       PROVE  /\ NodeAt(V[m], i) \in DOMAIN g
              /\ g[NodeAt(V[m], i)].next = NodeAt(V[m], i + 1) /\ g[NodeAt(V[m], i)].prev = NodeAt(V[m], i - 1)
  <2>1. V[m] = W[m] /\ i \in 1..Len(W[m]) /\ NodeAt(W[m], i) \in DOMAIN g /\ g[NodeAt(W[m], i)] = h[NodeAt(W[m], i)]
    BY <1>5, <1>8, <1>9
  <2>2. h[NodeAt(W[m], i)].next = NodeAt(W[m], i + 1) /\ h[NodeAt(W[m], i)].prev = NodeAt(W[m], i - 1)
    BY <2>1, LaidAt
  <2> QED
    BY <2>1, <2>2
<1>11. ASSUME NEW x \in DOMAIN g PROVE \E m \in Walks : \E i \in 1..Len(V[m]) : NodeAt(V[m], i) = x
  <2>1. x \in DOMAIN h /\ x \notin S
    BY <1>5
  <2>2. PICK m \in Walks : \E j \in 1..Len(W[m]) : W[m][j] = x
    BY <2>1 DEF Laid
  <2>3. PICK j \in 1..Len(W[m]) : W[m][j] = x /\ NodeAt(W[m], j) = x
    BY <2>2, LaidAt
  <2>4. m # l
    BY <1>1, <1>2, <2>1, <2>3
  <2> QED
    BY <1>8, <2>3, <2>4
<1>12. ASSUME NEW m \in Walks, NEW q \in Walks, NEW i \in 1..Len(V[m]), NEW j \in 1..Len(V[q]),
              NodeAt(V[m], i) = NodeAt(V[q], j)
       PROVE  m = q /\ i = j
  <2>1. NodeAt(W[m], i) = NodeAt(W[q], j) /\ NodeAt(W[m], i) # Null
    BY <1>9, <1>12
  <2>2. i \in Int /\ j \in Int
    BY <1>9, LaidAt
  <2> QED
    BY <2>1, <2>2, LaidAt
<1>13. Laid(g, V)
  <2>1. V \in [Walks -> Seq(Nodes)]
    BY <1>8
  <2> QED
    BY ONLY <1>6, <1>10, <1>11, <1>12, <2>1, LaidIf
<1> QED
  BY <1>7, <1>13

LEMMA FreeListDoes ==
  ASSUME NEW W, Arranged(heap, list, queue, W), NEW l \in Names, FreeList(l)
  PROVE  /\ \A x \in DOMAIN heap' : x \in DOMAIN heap /\ heap'[x] = heap[x]
         /\ Arranged(heap', list', queue', [W EXCEPT ![l] = <<>>])
<1>1. PICK h, ls, q : h = heap /\ ls = list /\ q = queue
  OBVIOUS
<1>2. Arranged(h, ls, q, W) /\ Laid(h, W) /\ l \in Walks /\ NodesOf(l) = W[l]
  BY <1>1, LinksRead DEF Arranged, Walks
<1>3. PICK g, ms : g = heap' /\ ms = list'
  OBVIOUS
<1>4. g = Restrict(h, DOMAIN h \ ToSet(W[l])) /\ ms = [ls EXCEPT ![l] = Null] /\ queue' = q
  BY <1>1, <1>2, <1>3 DEF FreeList
<1>5. Laid(g, [W EXCEPT ![l] = <<>>])
  BY <1>2, <1>4, LaidFreed
<1>6. PICK v : v = <<>> /\ NodeAt(v, 1) = Null
  BY DEF NodeAt
<1>7. Arranged(g, ms, q, [W EXCEPT ![l] = v])
  <2>1. Laid(g, [W EXCEPT ![l] = v])
    BY <1>5, <1>6
  <2>2. ms = [ls EXCEPT ![l] = NodeAt(v, 1)]
    BY <1>4, <1>6
  <2> QED
    BY <1>2, <2>1, <2>2, ListArranged
<1>8. \A x \in DOMAIN g : x \in DOMAIN h /\ g[x] = h[x]
  BY <1>4 DEF Restrict
<1> QED
  BY <1>1, <1>3, <1>4, <1>6, <1>7, <1>8

LEMMA FreeQueueDoes ==
  ASSUME NEW W, Arranged(heap, list, queue, W), FreeQueue
  PROVE  /\ \A x \in DOMAIN heap' : x \in DOMAIN heap /\ heap'[x] = heap[x]
         /\ Arranged(heap', list', queue', [W EXCEPT ![Null] = <<>>])
<1>1. PICK h, ls, q : h = heap /\ ls = list /\ q = queue
  OBVIOUS
<1>2. Arranged(h, ls, q, W) /\ Laid(h, W) /\ Null \in Walks /\ Chain(h, q.head) = W[Null]
  BY <1>1, LinksRead DEF Arranged, Walks
<1>3. PICK g, r : g = heap' /\ r = queue'
  OBVIOUS
<1>4. /\ g = Restrict(h, DOMAIN h \ ToSet(W[Null])) /\ list' = ls
      /\ r = [head |-> Null, tail |-> Null, length |-> 0]
  BY <1>1, <1>2, <1>3 DEF FreeQueue
<1>5. Laid(g, [W EXCEPT ![Null] = <<>>])
  BY <1>2, <1>4, LaidFreed
<1>6. PICK v : v = <<>> /\ NodeAt(v, 1) = Null /\ NodeAt(v, 0) = Null /\ Len(v) = 0
  BY DEF NodeAt
<1>7. Arranged(g, ls, r, [W EXCEPT ![Null] = v])
  <2>1. Laid(g, [W EXCEPT ![Null] = v])
    BY <1>5, <1>6
  <2>2. r = [head |-> NodeAt(v, 1), tail |-> NodeAt(v, Len(v)), length |-> Len(v)]
    BY <1>4, <1>6
  <2> QED
    BY <1>2, <2>1, <2>2, QueueArranged
<1>8. \A x \in DOMAIN g : x \in DOMAIN h /\ g[x] = h[x]
  BY <1>4 DEF Restrict
<1> QED
  BY <1>1, <1>3, <1>4, <1>6, <1>7, <1>8

-----------------------------------------------------------------------------
LEMMA AtReversed ==
  ASSUME NEW w \in Seq(Nodes), NEW n, n = Len(w), NEW t, t = Reverse(w)
  PROVE  /\ t \in Seq(Nodes) /\ Len(t) = n /\ n \in Nat
         /\ \A i \in Int : NodeAt(t, i) = NodeAt(w, n + 1 - i)
<1>1. n \in Nat /\ \A i \in 1..n : w[i] \in Nodes
  BY LenProperties
<1>2. t = [i \in 1..n |-> w[(n - i) + 1]]
  BY DEF Reverse
<1>3. \A i \in 1..n : (n - i) + 1 \in 1..n
  BY <1>1
<1>4. t \in Seq(Nodes) /\ Len(t) = n
  BY <1>1, <1>2, <1>3
<1>5. ASSUME NEW i \in Int PROVE NodeAt(t, i) = NodeAt(w, n + 1 - i)
  <2>1. PICK j \in Int : j = n + 1 - i /\ j = (n - i) + 1
    BY <1>1
  <2>2. i \in 1..n <=> j \in 1..n
    BY <1>1, <2>1
  <2>3. NodeAt(t, i) = NodeAt(w, j)
    BY <1>2, <1>4, <2>1, <2>2 DEF NodeAt
  <2> QED
    BY <2>1, <2>3
<1> QED
  BY <1>1, <1>4, <1>5

TurnedIn(h, g, S) ==
  /\ HeapOK(g) /\ DOMAIN g = DOMAIN h
  /\ \A x \in DOMAIN h :
       /\ g[x].next = IF x \in S THEN h[x].prev ELSE h[x].next
       /\ g[x].prev = IF x \in S THEN h[x].next ELSE h[x].prev
       /\ g[x].data = h[x].data

LEMMA TurnedIs ==
  ASSUME NEW h, HeapOK(h), NEW S, NEW g,
         g = [x \in DOMAIN h |-> IF x \in S THEN Turned(h[x]) ELSE h[x]]
  PROVE  TurnedIn(h, g, S)
<1>1. ASSUME NEW c \in Cells
      PROVE  /\ Turned(c) \in Cells /\ Turned(c).next = c.prev /\ Turned(c).prev = c.next
             /\ Turned(c).data = c.data
  <2>1. c.next \in Places /\ c.prev \in Places /\ c.data \in Data
    BY DEF Cells, Places
  <2>2. PICK e : e = [next |-> c.prev, prev |-> c.next, data |-> c.data]
    OBVIOUS
  <2>3. e = Turned(c)
    BY <2>2 DEF Turned, Node
  <2> QED
    BY <2>1, <2>2, <2>3 DEF Cells, Places
<1>2. DOMAIN g = DOMAIN h /\ \A x \in DOMAIN h : g[x] = IF x \in S THEN Turned(h[x]) ELSE h[x]
  OBVIOUS
<1>3. g = [x \in DOMAIN g |-> g[x]]
  OBVIOUS
<1>4. \A x \in DOMAIN h : h[x] \in Cells /\ DOMAIN h \subseteq Nodes
  BY DEF HeapOK
<1>5. HeapOK(g)
  BY <1>1, <1>2, <1>3, <1>4 DEF HeapOK
<1> QED
  BY <1>1, <1>2, <1>4, <1>5 DEF TurnedIn

LEMMA LaidReversed ==
  ASSUME NEW h, NEW W, Laid(h, W), NEW l \in Walks, NEW g, TurnedIn(h, g, ToSet(W[l]))
  PROVE  Laid(g, [W EXCEPT ![l] = Reverse(W[l])])
<1>1. PICK w \in Seq(Nodes), n \in Nat : w = W[l] /\ n = Len(w) /\ DOMAIN w = 1..n
  BY LaidAt, LenProperties
<1>2. PICK S : S = ToSet(w) /\ \A x : x \in S <=> \E i \in 1..n : x = w[i]
  <2>1. PICK S : S = {w[i] : i \in 1..n}
    OBVIOUS
  <2>2. S = ToSet(w)
    BY <1>1, <2>1 DEF ToSet
  <2> QED
    BY <2>1, <2>2
<1>3. PICK t \in Seq(Nodes) :
        t = Reverse(w) /\ Len(t) = n /\ \A i \in Int : NodeAt(t, i) = NodeAt(w, n + 1 - i)
  BY <1>1, AtReversed
<1>4. PICK V : V = [W EXCEPT ![l] = t]
  OBVIOUS
<1>5. V \in [Walks -> Seq(Nodes)] /\ V[l] = t /\ \A m \in Walks : m # l => V[m] = W[m]
  BY <1>3, <1>4 DEF Laid
<1>6. /\ HeapOK(g) /\ DOMAIN g = DOMAIN h
      /\ \A x \in DOMAIN h : /\ g[x].next = IF x \in S THEN h[x].prev ELSE h[x].next
                             /\ g[x].prev = IF x \in S THEN h[x].next ELSE h[x].prev
  BY <1>1, <1>2 DEF TurnedIn
\* The node that was at `o' of the same list
<1>7. ASSUME NEW m \in Walks, NEW i \in Int
      PROVE  \E o \in Int : /\ NodeAt(V[m], i) = NodeAt(W[m], o) /\ o = IF m = l THEN n + 1 - i ELSE i
                            /\ Len(V[m]) = Len(W[m])
  <2>1. CASE m = l
    <3>1. PICK o \in Int : o = n + 1 - i
      OBVIOUS
    <3> QED
      BY <1>1, <1>3, <1>5, <2>1, <3>1
  <2>2. CASE m # l
    BY <1>5, <2>2
  <2> QED
    BY <2>1, <2>2
<1>8. ASSUME NEW m \in Walks, NEW i \in 1..Len(V[m])
      PROVE  /\ NodeAt(V[m], i) \in DOMAIN g
             /\ g[NodeAt(V[m], i)].next = NodeAt(V[m], i + 1) /\ g[NodeAt(V[m], i)].prev = NodeAt(V[m], i - 1)
  <2>1. CASE m = l
    <3>1. i \in 1..n /\ i \in Int
      BY <1>3, <1>5, <2>1
    <3>2. PICK o \in 1..n : o = n + 1 - i /\ o - 1 = n + 1 - (i + 1) /\ o + 1 = n + 1 - (i - 1)
      BY <3>1
    <3>3. NodeAt(t, i) = NodeAt(w, o)
      BY <1>3, <3>1, <3>2
    <3>4. NodeAt(t, i + 1) = NodeAt(w, o - 1)
      <4>1. PICK j \in Int : j = i + 1
        BY <3>1
      <4>2. NodeAt(t, j) = NodeAt(w, n + 1 - j)
        BY <1>3
      <4> QED
        BY <3>2, <4>1, <4>2
    <3>5. NodeAt(t, i - 1) = NodeAt(w, o + 1)
      <4>1. PICK j \in Int : j = i - 1
        BY <3>1
      <4>2. NodeAt(t, j) = NodeAt(w, n + 1 - j)
        BY <1>3
      <4> QED
        BY <3>2, <4>1, <4>2
    <3>6. /\ NodeAt(w, o) = w[o] /\ NodeAt(w, o) \in DOMAIN h
          /\ h[NodeAt(w, o)].next = NodeAt(w, o + 1) /\ h[NodeAt(w, o)].prev = NodeAt(w, o - 1)
      <4>1. o \in Int /\ o \in 1..Len(W[l])
        BY <1>1
      <4> QED
        BY <1>1, <4>1, LaidAt
    <3>7. NodeAt(w, o) \in S
      BY <1>2, <3>6
    <3> QED
      BY <1>5, <1>6, <2>1, <3>3, <3>4, <3>5, <3>6, <3>7
  <2>2. CASE m # l
    <3>1. V[m] = W[m] /\ i \in 1..Len(W[m]) /\ i \in Int
      BY <1>5, <2>2
    <3>2. /\ NodeAt(W[m], i) \in DOMAIN h /\ NodeAt(W[m], i) # Null
          /\ h[NodeAt(W[m], i)].next = NodeAt(W[m], i + 1) /\ h[NodeAt(W[m], i)].prev = NodeAt(W[m], i - 1)
      BY <3>1, LaidAt
    <3>3. NodeAt(W[m], i) \notin S
      <4>1. ASSUME NEW j \in 1..n, NodeAt(W[m], i) = w[j] PROVE FALSE
        <5>1. NodeAt(W[l], j) = w[j] /\ j \in Int
          BY <1>1, LaidAt
        <5> QED
          BY <2>2, <3>1, <3>2, <4>1, <5>1, LaidAt
      <4> QED
        BY <1>2, <4>1
    <3> QED
      BY <1>6, <3>1, <3>2, <3>3
  <2> QED
    BY <2>1, <2>2
<1>9. ASSUME NEW x \in DOMAIN g PROVE \E m \in Walks : \E i \in 1..Len(V[m]) : NodeAt(V[m], i) = x
  <2>1. PICK m \in Walks : \E j \in 1..Len(W[m]) : W[m][j] = x
    BY <1>6 DEF Laid
  <2>2. PICK j \in 1..Len(W[m]) : NodeAt(W[m], j) = x
    BY <2>1, LaidAt
  <2>3. CASE m = l
    <3>1. j \in 1..n
      BY <1>1, <2>3
    <3>2. PICK i \in 1..n : i = n + 1 - j /\ j = n + 1 - i /\ i \in Int
      BY <3>1
    <3>3. NodeAt(t, i) = NodeAt(w, j)
      BY <1>3, <3>2
    <3> QED
      BY <1>1, <1>3, <1>5, <2>2, <2>3, <3>2, <3>3
  <2>4. CASE m # l
    BY <1>5, <2>2, <2>4
  <2> QED
    BY <2>3, <2>4
<1>10. ASSUME NEW m \in Walks, NEW q \in Walks, NEW i \in 1..Len(V[m]), NEW j \in 1..Len(V[q]),
              NodeAt(V[m], i) = NodeAt(V[q], j)
       PROVE  m = q /\ i = j
  <2>0. i \in Int /\ j \in Int
    OBVIOUS
  <2>1. PICK x \in Int : NodeAt(V[m], i) = NodeAt(W[m], x) /\ x = IF m = l THEN n + 1 - i ELSE i
    BY <1>7, <2>0
  <2>2. PICK y \in Int : NodeAt(V[q], j) = NodeAt(W[q], y) /\ y = IF q = l THEN n + 1 - j ELSE j
    BY <1>7, <2>0
  <2>3. NodeAt(W[m], x) = NodeAt(W[q], y) /\ NodeAt(W[m], x) # Null
    <3>1. NodeAt(V[m], i) # Null
      BY <1>6, <1>8, LinksAssumption DEF HeapOK
    <3> QED
      BY <1>10, <2>1, <2>2, <3>1
  <2>4. m = q /\ x = y
    BY <2>3, LaidAt
  <2> QED
    BY <2>0, <2>1, <2>2, <2>4
<1>11. Laid(g, V)
  BY <1>5, <1>6, <1>8, <1>9, <1>10, LaidIf
<1> QED
  BY <1>1, <1>3, <1>4, <1>11

LEMMA ReverseListDoes ==
  ASSUME NEW W, Arranged(heap, list, queue, W), NEW l \in Names, ReverseList(l)
  PROVE  /\ \A x \in DOMAIN heap : heap'[x].data = heap[x].data
         /\ Arranged(heap', list', queue', [W EXCEPT ![l] = Reverse(W[l])])
<1>1. PICK h, ls, q : h = heap /\ ls = list /\ q = queue
  OBVIOUS
<1>2. Arranged(h, ls, q, W) /\ Laid(h, W) /\ HeapOK(h) /\ l \in Walks /\ NodesOf(l) = W[l]
  <2>1. NodesOf(l) = W[l]
    BY LinksRead
  <2> QED
    BY <1>1, <2>1 DEF Arranged, Laid, Walks
<1>3. PICK g, ms : g = heap' /\ ms = list'
  OBVIOUS
<1>4. PICK w \in Seq(Nodes), n \in Nat : w = W[l] /\ n = Len(w)
  BY <1>2, LaidAt
<1>5. /\ g = [x \in DOMAIN h |-> IF x \in ToSet(W[l]) THEN Turned(h[x]) ELSE h[x]]
      /\ ms = [ls EXCEPT ![l] = NodeAt(w, n)] /\ queue' = q
  BY <1>1, <1>2, <1>3, <1>4, LinksRead DEF ReverseList
<1>6. TurnedIn(h, g, ToSet(W[l]))
  BY <1>2, <1>5, TurnedIs
<1>7. PICK v : v = Reverse(w)
  OBVIOUS
<1>8. Laid(g, [W EXCEPT ![l] = v])
  BY <1>2, <1>4, <1>6, <1>7, LaidReversed
<1>9. NodeAt(v, 1) = NodeAt(w, n)
  <2>1. \A i \in Int : NodeAt(v, i) = NodeAt(w, n + 1 - i)
    <3>1. PICK t : t = Reverse(w) /\ \A i \in Int : NodeAt(t, i) = NodeAt(w, n + 1 - i)
      BY <1>4, AtReversed
    <3> QED
      BY <1>7, <3>1
  <2>2. NodeAt(v, 1) = NodeAt(w, n + 1 - 1) /\ n + 1 - 1 = n
    BY <1>4, <2>1
  <2> QED
    BY <2>2
<1>10. Arranged(g, ms, q, [W EXCEPT ![l] = v])
  BY <1>2, <1>5, <1>8, <1>9, ListArranged
<1>11. \A x \in DOMAIN h : g[x].data = h[x].data
  BY <1>6 DEF TurnedIn
<1> QED
  BY <1>1, <1>3, <1>4, <1>5, <1>7, <1>10, <1>11

LEMMA AtConcat ==
  ASSUME NEW u \in Seq(Nodes), NEW v \in Seq(Nodes)
  PROVE  /\ u \o v \in Seq(Nodes) /\ Len(u \o v) = Len(u) + Len(v)
         /\ \A i \in Int : NodeAt(u \o v, i) = IF i <= Len(u) THEN NodeAt(u, i) ELSE NodeAt(v, i - Len(u))
<1>1. PICK t : t = u \o v
  OBVIOUS
<1>2. PICK n \in Nat, k \in Nat : n = Len(u) /\ k = Len(v)
  BY LenProperties
<1>3. /\ t \in Seq(Nodes) /\ Len(t) = n + k
      /\ \A i \in 1..n + k : t[i] = IF i <= n THEN u[i] ELSE v[i - n]
  <2>1. /\ u \o v \in Seq(Nodes) /\ Len(u \o v) = Len(u) + Len(v)
        /\ \A i \in 1..Len(u) + Len(v) : (u \o v)[i] = IF i <= Len(u) THEN u[i] ELSE v[i - Len(u)]
    BY ConcatProperties
  <2> QED
    BY <1>1, <1>2, <2>1
<1>4. ASSUME NEW i \in Int PROVE NodeAt(t, i) = IF i <= n THEN NodeAt(u, i) ELSE NodeAt(v, i - n)
  <2>1. PICK j \in Int : j = i - n
    OBVIOUS
  <2>2. i <= n => (i \in 1..n + k <=> i \in 1..n)
    OBVIOUS
  <2>3. i > n => (i \in 1..n + k <=> j \in 1..k)
    BY <2>1
  <2>4. CASE i <= n
    BY <1>2, <1>3, <2>2, <2>4 DEF NodeAt
  <2>5. CASE i > n
    <3>1. NodeAt(t, i) = NodeAt(v, j)
      BY <1>2, <1>3, <2>1, <2>3, <2>5 DEF NodeAt
    <3> QED
      BY <2>1, <2>5, <3>1
  <2> QED
    BY <2>4, <2>5
<1> QED
  BY <1>1, <1>2, <1>3, <1>4

LEMMA LinkedIs ==
  ASSUME NEW h, HeapOK(h), NEW a \in DOMAIN h \cup {Null}, NEW b \in DOMAIN h \cup {Null}
  PROVE  Bridged(SetPrev(SetNext(h, a, b), b, a), h, a, b)
<1>1. a \in Places /\ b \in Places
  BY DEF HeapOK, Places
<1>2. PICK f : f = SetNext(h, a, b)
  OBVIOUS
<1>3. /\ HeapOK(f) /\ DOMAIN f = DOMAIN h
      /\ \A x \in DOMAIN h : /\ f[x].next = IF x = a THEN b ELSE h[x].next
                             /\ f[x].prev = h[x].prev /\ f[x].data = h[x].data
  <2>1. NextSet(f, h, a, b)
    BY <1>1, <1>2, SetNextIs
  <2> QED
    BY <2>1 DEF NextSet
<1>4. PICK g : g = SetPrev(f, b, a)
  OBVIOUS
<1>5. b \in DOMAIN f \cup {Null}
  BY <1>3
<1>6. /\ HeapOK(g) /\ DOMAIN g = DOMAIN f
      /\ \A x \in DOMAIN f : /\ g[x].next = f[x].next
                             /\ g[x].prev = IF x = b THEN a ELSE f[x].prev
                             /\ g[x].data = f[x].data
  <2>1. PrevSet(g, f, b, a)
    BY <1>1, <1>3, <1>4, <1>5, SetPrevIs
  <2> QED
    BY <2>1 DEF PrevSet
<1>7. \A x \in DOMAIN h : /\ g[x].next = IF x = a THEN b ELSE h[x].next
                          /\ g[x].prev = IF x = b THEN a ELSE h[x].prev
                          /\ g[x].data = h[x].data
  BY <1>3, <1>6
<1>8. Bridged(g, h, a, b)
  BY <1>3, <1>6, <1>7 DEF Bridged
<1> QED
  BY <1>2, <1>4, <1>8

\* The list m goes on the list l.
Joined(W, l, m) == [[W EXCEPT ![l] = W[l] \o W[m]] EXCEPT ![m] = <<>>]

LEMMA JoinedIs ==
  ASSUME NEW W \in [Walks -> Seq(Nodes)], NEW l \in Walks, NEW m \in Walks, m # l
  PROVE  /\ Joined(W, l, m) \in [Walks -> Seq(Nodes)]
         /\ Joined(W, l, m)[l] = W[l] \o W[m] /\ Joined(W, l, m)[m] = <<>>
         /\ \A r \in Walks : r # l /\ r # m => Joined(W, l, m)[r] = W[r]
<1>1. PICK t : t = W[l] \o W[m]
  OBVIOUS
<1>2. t \in Seq(Nodes)
  BY <1>1, ConcatProperties
<1>3. PICK U : U = [W EXCEPT ![l] = t]
  OBVIOUS
<1>4. U \in [Walks -> Seq(Nodes)] /\ U[l] = t /\ \A r \in Walks : r # l => U[r] = W[r]
  BY <1>2, <1>3
<1>5. PICK V : V = [U EXCEPT ![m] = <<>>]
  OBVIOUS
<1>6. /\ V \in [Walks -> Seq(Nodes)] /\ V[m] = <<>> /\ \A r \in Walks : r # m => V[r] = U[r]
  BY <1>4, <1>5
<1>7. V = Joined(W, l, m)
  BY <1>1, <1>3, <1>5 DEF Joined
<1> QED
  BY <1>1, <1>4, <1>6, <1>7

LEMMA LaidConcat ==
  ASSUME NEW h, NEW W, Laid(h, W), NEW l \in Walks, NEW m \in Walks, m # l, Len(W[m]) # 0,
         NEW g, Bridged(g, h, NodeAt(W[l], Len(W[l])), NodeAt(W[m], 1))
  PROVE  Laid(g, Joined(W, l, m))
<1>1. PICK u \in Seq(Nodes), v \in Seq(Nodes) : u = W[l] /\ v = W[m]
  BY LaidAt
<1>2. PICK n \in Nat, k \in Nat : n = Len(u) /\ k = Len(v) /\ k # 0 /\ k >= 1
  BY <1>1, LenProperties
<1>25. PICK a, b : a = NodeAt(u, n) /\ b = NodeAt(v, 1)
  OBVIOUS
<1>3. PICK t \in Seq(Nodes) :
        /\ t = u \o v /\ Len(t) = n + k
        /\ \A i \in Int : NodeAt(t, i) = IF i <= n THEN NodeAt(u, i) ELSE NodeAt(v, i - n)
  BY <1>2, AtConcat
<1>35. PICK V : V = Joined(W, l, m)
  OBVIOUS
<1>4. /\ V \in [Walks -> Seq(Nodes)] /\ V[l] = t /\ V[m] = <<>>
      /\ \A r \in Walks : r # l /\ r # m => V[r] = W[r]
  <2>1. W \in [Walks -> Seq(Nodes)]
    BY DEF Laid
  <2> QED
    BY <1>1, <1>3, <1>35, <2>1, JoinedIs
<1>5. /\ HeapOK(g) /\ DOMAIN g = DOMAIN h
      /\ \A x \in DOMAIN h : /\ g[x].next = IF x = a THEN b ELSE h[x].next
                             /\ g[x].prev = IF x = b THEN a ELSE h[x].prev
  BY <1>1, <1>2, <1>25 DEF Bridged
<1>6. ASSUME NEW r \in Walks, NEW x \in 1..Len(W[r])
      PROVE  /\ NodeAt(W[r], x) \in DOMAIN g /\ NodeAt(W[r], x) # Null /\ x \in Int
             /\ g[NodeAt(W[r], x)].next = IF r = l /\ x = n THEN b ELSE NodeAt(W[r], x + 1)
             /\ g[NodeAt(W[r], x)].prev = IF r = m /\ x = 1 THEN a ELSE NodeAt(W[r], x - 1)
  <2>1. PICK y : y = NodeAt(W[r], x)
    OBVIOUS
  <2>2. y \in DOMAIN h /\ y # Null /\ h[y].next = NodeAt(W[r], x + 1) /\ h[y].prev = NodeAt(W[r], x - 1) /\ x \in Int
    BY <2>1, LaidAt
  <2>3. \A q \in Walks : \A j \in Int : y = NodeAt(W[q], j) => r = q /\ x = j
    <3>1. \A q \in Walks : \A i, j \in Int : NodeAt(W[r], i) = NodeAt(W[q], j) /\ NodeAt(W[r], i) # Null => r = q /\ i = j
      BY LaidAt
    <3> QED
      BY <2>1, <2>2, <3>1
  <2>4. (y = a <=> r = l /\ x = n) /\ (y = b <=> r = m /\ x = 1)
    <3>1. y = a <=> r = l /\ x = n
      BY <1>1, <1>25, <2>1, <2>3
    <3>2. y = b <=> r = m /\ x = 1
      BY <1>1, <1>25, <2>1, <2>3
    <3> QED
      BY <3>1, <3>2
  <2> QED
    BY <1>5, <2>1, <2>2, <2>4
\* Where the node at i of V was
<1>7. ASSUME NEW r \in Walks, NEW i \in 1..Len(V[r])
      PROVE  /\ r # m /\ i \in Int
             /\ r # l => i \in 1..Len(W[r]) /\ V[r] = W[r]
             /\ r = l => \/ i <= n /\ i \in 1..Len(u) /\ NodeAt(t, i) = NodeAt(u, i)
                         \/ i > n /\ i - n \in 1..k /\ NodeAt(t, i) = NodeAt(v, i - n)
  <2>1. r # m
    BY <1>4
  <2>2. CASE r = l
    <3>1. i \in 1..n + k /\ i \in Int
      BY <1>3, <1>4, <2>2
    <3>2. NodeAt(t, i) = IF i <= n THEN NodeAt(u, i) ELSE NodeAt(v, i - n)
      BY <1>3, <3>1
    <3>3. i <= n => i \in 1..n
      BY <1>3, <3>1
    <3>4. ~(i <= n) => i > n /\ i - n \in 1..k
      BY <1>2, <1>3, <3>1
    <3> QED
      BY <1>1, <1>2, <1>25, <2>1, <2>2, <3>1, <3>2, <3>3, <3>4
  <2>3. CASE r # l
    BY <1>4, <2>1, <2>3
  <2> QED
    BY <2>2, <2>3
<1>8. ASSUME NEW i \in 1..Len(t)
      PROVE  /\ NodeAt(t, i) \in DOMAIN g
             /\ g[NodeAt(t, i)].next = NodeAt(t, i + 1) /\ g[NodeAt(t, i)].prev = NodeAt(t, i - 1)
  <2>1. i \in 1..n + k /\ i \in Int
    BY <1>3
  <2>2. PICK j1 \in Int, j0 \in Int : j1 = i + 1 /\ j0 = i - 1
    BY <2>1
  <2>3. /\ NodeAt(t, j1) = IF j1 <= n THEN NodeAt(u, j1) ELSE NodeAt(v, j1 - n)
        /\ NodeAt(t, j0) = IF j0 <= n THEN NodeAt(u, j0) ELSE NodeAt(v, j0 - n)
    BY <1>3
  <2>4. CASE i <= n
    <3>1. i \in 1..Len(W[l]) /\ NodeAt(t, i) = NodeAt(u, i)
      BY <1>1, <1>2, <1>3, <1>25, <2>1, <2>4
    <3>2. /\ NodeAt(u, i) \in DOMAIN g /\ g[NodeAt(u, i)].next = IF i = n THEN b ELSE NodeAt(u, i + 1)
          /\ g[NodeAt(u, i)].prev = NodeAt(u, i - 1)
      BY <1>1, <1>2, <1>6, <1>25, <3>1
    <3>3. NodeAt(t, j0) = NodeAt(u, i - 1)
      BY <1>3, <2>1, <2>2, <2>3, <2>4
    <3>4. NodeAt(t, j1) = IF i = n THEN b ELSE NodeAt(u, i + 1)
      <4>1. CASE i = n
        <5>1. ~(j1 <= n) /\ j1 - n = 1
          BY <1>3, <2>2, <4>1
        <5> QED
          BY <1>1, <1>2, <1>25, <2>3, <4>1, <5>1
      <4>2. CASE i # n
        <5>1. j1 <= n
          BY <1>3, <2>1, <2>2, <2>4, <4>2
        <5> QED
          BY <2>2, <2>3, <4>2, <5>1
      <4> QED
        BY <4>1, <4>2
    <3> QED
      BY <2>2, <3>1, <3>2, <3>3, <3>4
  <2>5. CASE i > n
    <3>1. PICK x \in 1..k : x = i - n /\ x \in Int /\ x + 1 = j1 - n /\ x - 1 = j0 - n
      BY <1>2, <1>3, <2>1, <2>2, <2>5
    <3>2. NodeAt(t, i) = NodeAt(v, x)
      BY <1>3, <2>1, <2>5, <3>1
    <3>3. x \in 1..Len(W[m])
      BY <1>1, <1>2, <1>25
    <3>4. /\ NodeAt(v, x) \in DOMAIN g /\ g[NodeAt(v, x)].next = NodeAt(v, x + 1)
          /\ g[NodeAt(v, x)].prev = IF x = 1 THEN a ELSE NodeAt(v, x - 1)
      BY <1>1, <1>2, <1>6, <1>25, <3>3
    <3>5. NodeAt(t, j1) = NodeAt(v, x + 1)
      <4>1. ~(j1 <= n)
        BY <1>3, <2>1, <2>2, <2>5
      <4> QED
        BY <2>3, <3>1, <4>1
    <3>6. NodeAt(t, j0) = IF x = 1 THEN a ELSE NodeAt(v, x - 1)
      <4>1. CASE x = 1
        <5>1. j0 = n
          BY <1>3, <2>1, <2>2, <3>1, <4>1
        <5> QED
          BY <1>1, <1>2, <1>3, <1>25, <2>3, <4>1, <5>1
      <4>2. CASE x # 1
        <5>1. ~(j0 <= n)
          BY <1>2, <1>3, <2>1, <2>2, <3>1, <4>2
        <5> QED
          BY <2>3, <3>1, <4>2, <5>1
      <4> QED
        BY <4>1, <4>2
    <3> QED
      BY <2>2, <3>2, <3>4, <3>5, <3>6
  <2> QED
    BY <1>3, <2>1, <2>4, <2>5
<1>9. ASSUME NEW r \in Walks, NEW i \in 1..Len(V[r])
      PROVE  /\ NodeAt(V[r], i) \in DOMAIN g
             /\ g[NodeAt(V[r], i)].next = NodeAt(V[r], i + 1) /\ g[NodeAt(V[r], i)].prev = NodeAt(V[r], i - 1)
  <2>1. CASE r = l
    BY <1>4, <1>8, <2>1
  <2>2. CASE r # l
    <3>1. r # m /\ i \in 1..Len(W[r]) /\ V[r] = W[r]
      BY <1>7, <2>2
    <3> QED
      BY <1>6, <2>2, <3>1
  <2> QED
    BY <2>1, <2>2
<1>10. ASSUME NEW x \in DOMAIN g PROVE \E r \in Walks : \E i \in 1..Len(V[r]) : NodeAt(V[r], i) = x
  <2>1. PICK r \in Walks : \E j \in 1..Len(W[r]) : W[r][j] = x
    BY <1>5 DEF Laid
  <2>2. PICK j \in 1..Len(W[r]) : NodeAt(W[r], j) = x
    BY <2>1, LaidAt
  <2>3. CASE r # l /\ r # m
    BY <1>4, <2>2, <2>3
  <2>4. CASE r = l
    <3>1. j \in 1..n
      BY <1>1, <1>2, <1>25, <2>4
    <3>2. j \in 1..n + k /\ j \in Int /\ j <= n
      BY ONLY n \in Nat, k \in Nat, <3>1
    <3>3. NodeAt(t, j) = NodeAt(u, j)
      BY <1>3, <3>2
    <3> QED
      BY <1>1, <1>2, <1>3, <1>4, <1>25, <2>2, <2>4, <3>2, <3>3
  <2>5. CASE r = m
    <3>1. j \in 1..k
      BY <1>1, <1>2, <1>25, <2>5
    <3>2. PICK i \in 1..n + k : i = n + j /\ i - n = j /\ i \in Int /\ ~(i <= n)
      BY <1>2, <1>3, <3>1
    <3>3. NodeAt(t, i) = NodeAt(v, j)
      BY <1>3, <3>2
    <3> QED
      BY <1>1, <1>2, <1>3, <1>4, <1>25, <2>2, <2>5, <3>2, <3>3
  <2> QED
    BY <2>3, <2>4, <2>5
\* The place that the node at i of V had: the list and the place in it
<1>11. ASSUME NEW r \in Walks, NEW i \in 1..Len(V[r])
       PROVE  \E q \in Walks : \E x \in Int :
                /\ NodeAt(V[r], i) = NodeAt(W[q], x) /\ NodeAt(W[q], x) # Null
                /\ \/ r # l /\ r # m /\ q = r /\ x = i
                   \/ r = l /\ q = l /\ x = i /\ i <= n
                   \/ r = l /\ q = m /\ x = i - n /\ i > n
  <2>1. CASE r # l
    <3>1. r # m /\ i \in 1..Len(W[r]) /\ V[r] = W[r]
      BY <1>7, <2>1
    <3>2. NodeAt(W[r], i) # Null /\ i \in Int
      BY <1>6, <3>1
    <3> QED
      BY <2>1, <3>1, <3>2
  <2>2. CASE r = l /\ i <= n
    <3>1. i \in 1..Len(W[l]) /\ NodeAt(t, i) = NodeAt(u, i)
      <4>1. i \in Int
        OBVIOUS
      <4> QED
        BY <1>1, <1>2, <1>3, <1>7, <1>25, <2>2, <4>1
    <3>2. NodeAt(W[l], i) # Null /\ i \in Int
      BY <1>6, <3>1
    <3> QED
      BY <1>1, <1>2, <1>4, <1>25, <2>2, <3>1, <3>2
  <2>3. CASE r = l /\ ~(i <= n)
    <3>1. i > n /\ i - n \in 1..k /\ NodeAt(t, i) = NodeAt(v, i - n)
      BY <1>7, <2>3
    <3>2. PICK x \in 1..Len(W[m]) : x = i - n
      BY <1>1, <1>2, <1>25, <3>1
    <3>3. NodeAt(W[m], x) # Null /\ x \in Int
      BY <1>6
    <3>4. NodeAt(V[r], i) = NodeAt(W[m], x)
      BY <1>1, <1>2, <1>4, <1>25, <2>3, <3>1, <3>2
    <3> QED
      BY <2>3, <3>1, <3>2, <3>3, <3>4
  <2> QED
    BY <2>1, <2>2, <2>3
<1>12. ASSUME NEW r \in Walks, NEW s \in Walks, NEW i \in 1..Len(V[r]), NEW j \in 1..Len(V[s]),
              NodeAt(V[r], i) = NodeAt(V[s], j)
       PROVE  r = s /\ i = j
  <2>1. PICK q \in Walks : \E x \in Int :
          /\ NodeAt(V[r], i) = NodeAt(W[q], x) /\ NodeAt(W[q], x) # Null
          /\ \/ r # l /\ r # m /\ q = r /\ x = i
             \/ r = l /\ q = l /\ x = i /\ i <= n
             \/ r = l /\ q = m /\ x = i - n /\ i > n
    BY <1>11
  <2>2. PICK x \in Int :
          /\ NodeAt(V[r], i) = NodeAt(W[q], x) /\ NodeAt(W[q], x) # Null
          /\ \/ r # l /\ r # m /\ q = r /\ x = i
             \/ r = l /\ q = l /\ x = i /\ i <= n
             \/ r = l /\ q = m /\ x = i - n /\ i > n
    BY <2>1
  <2>3. PICK p \in Walks : \E y \in Int :
          /\ NodeAt(V[s], j) = NodeAt(W[p], y) /\ NodeAt(W[p], y) # Null
          /\ \/ s # l /\ s # m /\ p = s /\ y = j
             \/ s = l /\ p = l /\ y = j /\ j <= n
             \/ s = l /\ p = m /\ y = j - n /\ j > n
    BY <1>11
  <2>4. PICK y \in Int :
          /\ NodeAt(V[s], j) = NodeAt(W[p], y) /\ NodeAt(W[p], y) # Null
          /\ \/ s # l /\ s # m /\ p = s /\ y = j
             \/ s = l /\ p = l /\ y = j /\ j <= n
             \/ s = l /\ p = m /\ y = j - n /\ j > n
    BY <1>1, <1>2, <1>25, <2>3
  <2>5. q = p /\ x = y
    <3>1. NodeAt(W[q], x) = NodeAt(W[p], y)
      BY ONLY <1>12, <2>2, <2>4, Zenon
    <3> QED
      BY <2>2, <3>1, LaidAt
  <2>6. n \in Nat /\ i \in Int /\ j \in Int
    BY <1>3
  <2> QED
    BY ONLY m # l, <2>2, <2>4, <2>5, <2>6
<1>13. Laid(g, V)
  BY <1>4, <1>5, <1>9, <1>10, <1>12, LaidIf
<1> QED
  BY <1>1, <1>2, <1>13, <1>25, <1>35

LEMMA ConcatDoes ==
  ASSUME NEW W, Arranged(heap, list, queue, W), NEW l \in Names, NEW m \in Names \ {l}, Concat(l, m)
  PROVE  /\ \A x \in DOMAIN heap : heap'[x].data = heap[x].data
         /\ Arranged(heap', list', queue', Joined(W, l, m))
<1>1. PICK h, ls, q : h = heap /\ ls = list /\ q = queue
  OBVIOUS
<1>2. Arranged(h, ls, q, W) /\ Laid(h, W) /\ HeapOK(h) /\ l \in Walks /\ m \in Walks
  BY <1>1 DEF Arranged, Laid, Walks
<1>3. PICK u \in Seq(Nodes), v \in Seq(Nodes) : u = W[l] /\ v = W[m]
  BY <1>2, LaidAt
<1>4. PICK n \in Nat, k \in Nat : n = Len(u) /\ k = Len(v)
  BY LenProperties
<1>5. /\ ls[l] = NodeAt(u, 1) /\ ls[m] = NodeAt(v, 1) /\ LastOf(ls[l]) = NodeAt(u, n)
  BY <1>1, <1>3, <1>4, LinksRead
<1>6. \A r \in Walks : \A i \in Int : /\ NodeAt(W[r], i) \in DOMAIN h \cup {Null}
                                      /\ NodeAt(W[r], i) = Null <=> i \notin 1..Len(W[r])
  BY <1>2, LaidAt
<1>7. PICK a \in DOMAIN h \cup {Null}, b \in DOMAIN h \cup {Null} : a = NodeAt(u, n) /\ b = NodeAt(v, 1)
  BY <1>2, <1>3, <1>4, <1>6
<1>8. PICK g, ms : g = heap' /\ ms = list'
  OBVIOUS
<1>9. /\ g = SetPrev(SetNext(h, a, b), b, a) /\ ls[m] # Null /\ queue' = q
      /\ ms = [ls EXCEPT ![l] = IF @ = Null THEN ls[m] ELSE @, ![m] = Null]
  BY <1>1, <1>5, <1>7, <1>8 DEF Concat
<1>10. Bridged(g, h, a, b)
  BY <1>2, <1>9, LinkedIs
<1>11. k # 0 /\ 1 \in 1..k
  BY <1>2, <1>3, <1>4, <1>5, <1>6, <1>9
<1>12. PICK t \in Seq(Nodes) :
        /\ t = u \o v /\ \A i \in Int : NodeAt(t, i) = IF i <= n THEN NodeAt(u, i) ELSE NodeAt(v, i - n)
  BY <1>4, AtConcat
<1>13. PICK V : V = Joined(W, l, m)
  OBVIOUS
<1>14. Laid(g, V)
  <2>1. Bridged(g, h, NodeAt(W[l], Len(W[l])), NodeAt(W[m], 1)) /\ Len(W[m]) # 0
    BY <1>3, <1>4, <1>7, <1>10, <1>11
  <2> QED
    BY <1>2, <1>13, <2>1, LaidConcat
<1>15. /\ V \in [Walks -> Seq(Nodes)] /\ V[l] = t /\ V[m] = <<>>
       /\ \A r \in Walks : r # l /\ r # m => V[r] = W[r]
  <2>1. W \in [Walks -> Seq(Nodes)]
    BY <1>2 DEF Laid
  <2>2. m # l
    OBVIOUS
  <2>3. /\ Joined(W, l, m) \in [Walks -> Seq(Nodes)]
        /\ Joined(W, l, m)[l] = W[l] \o W[m] /\ Joined(W, l, m)[m] = <<>>
        /\ \A r \in Walks : r # l /\ r # m => Joined(W, l, m)[r] = W[r]
    BY <1>2, <2>1, <2>2, JoinedIs
  <2> QED
    BY <1>3, <1>12, <1>13, <2>3
<1>16. NodeAt(t, 1) = IF ls[l] = Null THEN ls[m] ELSE ls[l]
  <2>1. NodeAt(t, 1) = IF 1 <= n THEN NodeAt(u, 1) ELSE NodeAt(v, 1 - n)
    BY <1>12
  <2>2. ls[l] = Null <=> n = 0
    BY <1>2, <1>3, <1>4, <1>5, <1>6
  <2>3. CASE n = 0
    BY <1>5, <2>1, <2>2, <2>3
  <2>4. CASE n # 0
    BY <1>5, <2>1, <2>2, <2>4
  <2> QED
    BY <2>3, <2>4
<1>17. ls = [r \in Names |-> NodeAt(W[r], 1)] /\ q = EndsOf(W[Null]) /\ Null \in Walks /\ Null \notin Names
  BY <1>2, LinksAssumption DEF Arranged, Walks
<1>18. NodeAt(<<>>, 1) = Null
  BY DEF NodeAt
<1>19. ms = [r \in Names |-> NodeAt(V[r], 1)]
  <2>1. ms = [r \in Names |-> IF r = m THEN Null ELSE IF r = l THEN NodeAt(t, 1) ELSE NodeAt(W[r], 1)]
    BY <1>9, <1>16, <1>17
  <2>2. \A r \in Names : NodeAt(V[r], 1) = IF r = m THEN Null ELSE IF r = l THEN NodeAt(t, 1) ELSE NodeAt(W[r], 1)
    BY <1>15, <1>18 DEF Walks
  <2> QED
    BY <2>1, <2>2
<1>20. q = EndsOf(V[Null])
  BY <1>15, <1>17
<1>21. Arranged(g, ms, q, V)
  BY <1>14, <1>19, <1>20 DEF Arranged
<1>22. \A x \in DOMAIN h : g[x].data = h[x].data
  BY <1>10 DEF Bridged
<1> QED
  BY <1>1, <1>3, <1>8, <1>9, <1>13, <1>21, <1>22

\* g is h and the nodes of the sequence s, linked to each other.
AddedTo(g, h, s) ==
  /\ HeapOK(g) /\ DOMAIN g = DOMAIN h \cup {s[i] : i \in 1..Len(s)}
  /\ \A x \in DOMAIN h : g[x] = h[x]
  /\ \A i \in 1..Len(s) : /\ s[i] \in Nodes \ DOMAIN h
                          /\ g[s[i]].next = NodeAt(s, i + 1) /\ g[s[i]].prev = NodeAt(s, i - 1)
  /\ \A i, j \in 1..Len(s) : s[i] = s[j] => i = j

LEMMA LaidAdded ==
  ASSUME NEW h, NEW W, Laid(h, W), NEW m \in Walks, W[m] = <<>>, NEW s \in Seq(Nodes), NEW g,
         AddedTo(g, h, s)
  PROVE  Laid(g, [W EXCEPT ![m] = s])
<1>1. PICK n \in Nat : n = Len(s)
  BY LenProperties
<1>2. /\ HeapOK(g) /\ \A x : x \in DOMAIN g <=> x \in DOMAIN h \/ \E i \in 1..n : x = s[i]
      /\ \A x \in DOMAIN h : g[x] = h[x]
      /\ \A i \in 1..n : /\ s[i] \notin DOMAIN h
                         /\ g[s[i]].next = NodeAt(s, i + 1) /\ g[s[i]].prev = NodeAt(s, i - 1)
      /\ \A i, j \in 1..n : s[i] = s[j] => i = j
  BY <1>1 DEF AddedTo
<1>3. PICK V : V = [W EXCEPT ![m] = s]
  OBVIOUS
<1>4. V \in [Walks -> Seq(Nodes)] /\ V[m] = s /\ \A r \in Walks : r # m => V[r] = W[r]
  BY <1>3 DEF Laid
<1>5. \A i \in 1..n : NodeAt(s, i) = s[i]
  BY <1>1 DEF NodeAt
<1>6. ASSUME NEW r \in Walks, r # m, NEW i \in 1..Len(V[r])
      PROVE  /\ V[r] = W[r] /\ i \in 1..Len(W[r]) /\ i \in Int /\ NodeAt(W[r], i) # Null
             /\ NodeAt(W[r], i) \in DOMAIN h
             /\ g[NodeAt(W[r], i)].next = NodeAt(W[r], i + 1) /\ g[NodeAt(W[r], i)].prev = NodeAt(W[r], i - 1)
  <2>1. V[r] = W[r] /\ i \in 1..Len(W[r]) /\ i \in Int
    BY <1>4, <1>6
  <2>2. /\ NodeAt(W[r], i) # Null /\ NodeAt(W[r], i) \in DOMAIN h
        /\ h[NodeAt(W[r], i)].next = NodeAt(W[r], i + 1) /\ h[NodeAt(W[r], i)].prev = NodeAt(W[r], i - 1)
    BY <2>1, LaidAt
  <2> QED
    BY <1>2, <2>1, <2>2
<1>7. ASSUME NEW i \in 1..Len(V[m])
      PROVE  /\ i \in 1..n /\ NodeAt(V[m], i) = s[i] /\ s[i] \in DOMAIN g /\ s[i] \notin DOMAIN h
             /\ g[s[i]].next = NodeAt(V[m], i + 1) /\ g[s[i]].prev = NodeAt(V[m], i - 1)
  <2>1. i \in 1..n /\ V[m] = s
    BY <1>1, <1>4
  <2> QED
    BY <1>2, <1>5, <2>1
<1>8. ASSUME NEW r \in Walks, NEW i \in 1..Len(V[r])
      PROVE  /\ NodeAt(V[r], i) \in DOMAIN g
             /\ g[NodeAt(V[r], i)].next = NodeAt(V[r], i + 1) /\ g[NodeAt(V[r], i)].prev = NodeAt(V[r], i - 1)
  <2>1. CASE r = m
    BY <1>7, <2>1
  <2>2. CASE r # m
    BY <1>2, <1>6, <2>2
  <2> QED
    BY <2>1, <2>2
<1>9. ASSUME NEW x \in DOMAIN g PROVE \E r \in Walks : \E i \in 1..Len(V[r]) : NodeAt(V[r], i) = x
  <2>1. CASE x \in DOMAIN h
    <3>1. PICK r \in Walks : \E j \in 1..Len(W[r]) : W[r][j] = x
      BY <2>1 DEF Laid
    <3>2. PICK j \in 1..Len(W[r]) : NodeAt(W[r], j) = x
      BY <3>1, LaidAt
    <3>3. r # m
      <4>1. CASE r = m
        <5>1. Len(W[r]) = 0
          BY <4>1
        <5> QED
          BY <5>1
      <4> QED
        BY <4>1
    <3> QED
      BY <1>4, <3>2, <3>3
  <2>2. CASE x \notin DOMAIN h
    <3>1. PICK i \in 1..n : x = s[i]
      BY <1>2, <2>2
    <3> QED
      BY <1>1, <1>4, <1>5, <3>1
  <2> QED
    BY <2>1, <2>2
<1>10. ASSUME NEW r \in Walks, NEW q \in Walks, NEW i \in 1..Len(V[r]), NEW j \in 1..Len(V[q]),
              NodeAt(V[r], i) = NodeAt(V[q], j)
       PROVE  r = q /\ i = j
  <2>1. CASE r = m /\ q = m
    <3>1. i \in 1..n /\ NodeAt(V[m], i) = s[i]
      BY <1>7, <2>1
    <3>2. j \in 1..n /\ NodeAt(V[m], j) = s[j]
      BY <1>7, <2>1
    <3>3. s[i] = s[j]
      BY <1>10, <2>1, <3>1, <3>2
    <3> QED
      BY <1>2, <2>1, <3>1, <3>2, <3>3
  <2>2. CASE r # m /\ q # m
    <3>1. V[r] = W[r] /\ i \in Int /\ NodeAt(W[r], i) # Null
      BY <1>6, <2>2
    <3>2. V[q] = W[q] /\ j \in Int
      BY <1>6, <2>2
    <3>3. NodeAt(W[r], i) = NodeAt(W[q], j)
      BY <1>10, <3>1, <3>2
    <3>4. \A a, c \in Int : NodeAt(W[r], a) = NodeAt(W[q], c) /\ NodeAt(W[r], a) # Null => r = q /\ a = c
      BY LaidAt
    <3> QED
      BY ONLY <3>1, <3>2, <3>3, <3>4
  <2>3. CASE r = m /\ q # m
    <3>1. NodeAt(V[r], i) \notin DOMAIN h
      BY <1>7, <2>3
    <3>2. NodeAt(V[q], j) \in DOMAIN h
      BY <1>6, <2>3
    <3> QED
      BY <1>10, <3>1, <3>2
  <2>4. CASE r # m /\ q = m
    <3>1. NodeAt(V[q], j) \notin DOMAIN h
      BY <1>7, <2>4
    <3>2. NodeAt(V[r], i) \in DOMAIN h
      BY <1>6, <2>4
    <3> QED
      BY <1>10, <3>1, <3>2
  <2> QED
    BY <2>1, <2>2, <2>3, <2>4
<1>11. Laid(g, V)
  <2>1. HeapOK(g)
    BY <1>2
  <2>2. V \in [Walks -> Seq(Nodes)]
    BY <1>3 DEF Laid
  <2> QED
    BY ONLY <2>1, <2>2, <1>8, <1>9, <1>10, LaidIf
<1> QED
  BY <1>3, <1>11

\* From h to g, the nodes `new' have come to hold what those of the list l hold.
CopiedIn(h, W, g, l, new) ==
  /\ Len(new) = Len(W[l])
  /\ \A x \in DOMAIN h : g[x].data = h[x].data
  /\ \A i \in 1..Len(new) : g[new[i]].data = h[W[l][i]].data

LEMMA CopyDoes ==
  ASSUME NEW W, Arranged(heap, list, queue, W), NEW l \in Names, NEW m \in Names \ {l}, Copy(l, m)
  PROVE  \E new \in Seq(Nodes) : /\ Arranged(heap', list', queue', [W EXCEPT ![m] = new])
                                 /\ CopiedIn(heap, W, heap', l, new)
<1>1. PICK h, ls, q : h = heap /\ ls = list /\ q = queue
  OBVIOUS
<1>2. Arranged(h, ls, q, W) /\ Laid(h, W) /\ HeapOK(h) /\ l \in Walks /\ m \in Walks
  BY <1>1 DEF Arranged, Laid, Walks
<1>3. PICK w \in Seq(Nodes), n \in Nat : w = W[l] /\ n = Len(w) /\ DOMAIN w = 1..n
  BY <1>2, LaidAt, LenProperties
<1>4. NodesOf(l) = w /\ ls[m] = NodeAt(W[m], 1) /\ ls[l] = NodeAt(w, 1)
  BY <1>1, <1>3, LinksRead
<1>5. ls[m] = Null /\ ls[l] # Null
  BY <1>1 DEF Copy
<1>6. W[m] = <<>>
  <2>1. W[m] \in Seq(Nodes) /\ Len(W[m]) \in Nat /\ 1 \notin 1..Len(W[m])
    BY <1>2, <1>4, <1>5, LaidAt
  <2>2. Len(W[m]) = 0
    BY <2>1
  <2> QED
    BY <2>1, <2>2, EmptySeq
<1>7. n # 0
  BY <1>2, <1>3, <1>4, <1>5, LaidAt
<1>8. PICK new \in [DOMAIN NodesOf(l) -> FreeNodes] :
        /\ IsInjective(new)
        /\ heap' = [x \in DOMAIN heap \cup ToSet(new) |->
                      IF x \in DOMAIN heap THEN heap[x]
                      ELSE Copied(heap, NodesOf(l), new, CHOOSE i \in DOMAIN new : new[i] = x)]
        /\ list' = [list EXCEPT ![m] = new[1]]
        /\ queue' = queue
  BY DEF Copy
<1>9. PICK g : g = heap'
  OBVIOUS
<1>10. /\ DOMAIN g = DOMAIN heap \cup ToSet(new) /\ g = [x \in DOMAIN g |-> g[x]]
       /\ \A x \in DOMAIN g :
             g[x] = IF x \in DOMAIN heap THEN heap[x]
                    ELSE Copied(heap, NodesOf(l), new, CHOOSE i \in DOMAIN new : new[i] = x)
  BY <1>8, <1>9
<1>11. /\ DOMAIN g = DOMAIN h \cup ToSet(new)
       /\ \A x \in DOMAIN g :
             g[x] = IF x \in DOMAIN h THEN h[x]
                    ELSE Copied(h, w, new, CHOOSE i \in DOMAIN new : new[i] = x)
  BY ONLY <1>1, <1>4, <1>10
<1>12. /\ new \in [1..n -> Nodes \ DOMAIN h] /\ IsInjective(new)
       /\ list' = [ls EXCEPT ![m] = new[1]] /\ queue' = q
  BY <1>1, <1>3, <1>4, <1>8 DEF FreeNodes
<1>13. PICK ms : ms = list'
  OBVIOUS
<1>14. /\ new \in Seq(Nodes) /\ Len(new) = n /\ DOMAIN new = 1..n
       /\ \A i \in 1..n : new[i] \in Nodes \ DOMAIN h
       /\ \A i, j \in 1..n : new[i] = new[j] => i = j
  <2>1. new \in [1..n -> Nodes] /\ \A i \in 1..n : new[i] \in Nodes \ DOMAIN h
    BY <1>12
  <2>2. new \in Seq(Nodes) /\ Len(new) = n /\ DOMAIN new = 1..n
    BY <2>1
  <2>3. \A i, j \in 1..n : new[i] = new[j] => i = j
    BY <1>12, <2>2 DEF IsInjective
  <2> QED
    BY <2>1, <2>2, <2>3
<1>15. PICK S : S = {new[i] : i \in 1..n} /\ S = ToSet(new)
  BY <1>14 DEF ToSet
<1>16. /\ DOMAIN g = DOMAIN h \cup S /\ g = [x \in DOMAIN g |-> g[x]]
       /\ \A x \in DOMAIN h : g[x] = h[x]
       /\ \A x \in S : x \notin DOMAIN h =>
            g[x] = Copied(h, w, new, CHOOSE i \in DOMAIN new : new[i] = x)
  <2>1. DOMAIN g = DOMAIN h \cup S /\ \A x \in DOMAIN h : x \in DOMAIN g
    BY <1>11, <1>15
  <2>2. \A x \in DOMAIN h : g[x] = h[x]
    BY <1>11, <2>1
  <2>3. ASSUME NEW x \in S, x \notin DOMAIN h
        PROVE  g[x] = Copied(h, w, new, CHOOSE i \in DOMAIN new : new[i] = x)
    <3>1. x \in DOMAIN g
      BY <2>1, <2>3
    <3> QED
      BY ONLY <1>11, <2>3, <3>1
  <2> QED
    BY ONLY <1>10, <2>1, <2>2, <2>3
<1>17. ASSUME NEW i \in 1..n
       PROVE  /\ g[new[i]] \in Cells /\ g[new[i]].next = NodeAt(new, i + 1) /\ g[new[i]].prev = NodeAt(new, i - 1)
              /\ g[new[i]].data = h[w[i]].data
  <2>1. new[i] \in S /\ new[i] \notin DOMAIN h
    BY <1>14, <1>15
  <2>2. (CHOOSE j \in DOMAIN new : new[j] = new[i]) = i
    BY <1>14
  <2>3. g[new[i]] = Copied(h, w, new, i)
    BY <1>16, <2>1, <2>2
  <2>4. PICK a, b, d : /\ b = (IF i = n THEN Null ELSE new[i + 1]) /\ a = (IF i = 1 THEN Null ELSE new[i - 1])
                       /\ d = h[w[i]].data
    OBVIOUS
  <2>5. Copied(h, w, new, i) = [next |-> b, prev |-> a, data |-> d]
    BY <1>3, <2>4 DEF Copied, Node
  <2>6. b = NodeAt(new, i + 1)
    <3>1. PICK j \in Int : j = i + 1 /\ (j \in 1..n <=> i # n)
      OBVIOUS
    <3> QED
      BY <1>14, <2>4, <3>1 DEF NodeAt
  <2>7. a = NodeAt(new, i - 1)
    <3>1. PICK j \in Int : j = i - 1 /\ (j \in 1..n <=> i # 1)
      OBVIOUS
    <3> QED
      BY <1>14, <2>4, <3>1 DEF NodeAt
  <2>8. d \in Data
    <3>1. w[i] \in DOMAIN h
      BY <1>2, <1>3 DEF Laid
    <3> QED
      BY <1>2, <2>4, <3>1 DEF HeapOK, Cells
  <2>9. a \in Nodes \cup {Null} /\ b \in Nodes \cup {Null}
    <3>1. i # n => i + 1 \in 1..n
      OBVIOUS
    <3>2. i # 1 => i - 1 \in 1..n
      OBVIOUS
    <3> QED
      BY <1>14, <2>4, <3>1, <3>2
  <2> QED
    BY <2>3, <2>4, <2>5, <2>6, <2>7, <2>8, <2>9 DEF Cells
<1>18. HeapOK(g)
  <2>1. DOMAIN g \subseteq Nodes
    BY <1>2, <1>14, <1>15, <1>16 DEF HeapOK
  <2>2. \A x \in DOMAIN g : g[x] \in Cells
    BY <1>2, <1>15, <1>16, <1>17 DEF HeapOK
  <2> QED
    BY <1>16, <2>1, <2>2 DEF HeapOK
<1>19. AddedTo(g, h, new)
  BY <1>14, <1>15, <1>16, <1>17, <1>18 DEF AddedTo
<1>20. Laid(g, [W EXCEPT ![m] = new])
  BY <1>2, <1>6, <1>14, <1>19, LaidAdded
<1>21. ms = [ls EXCEPT ![m] = NodeAt(new, 1)]
  <2>1. 1 \in 1..n
    BY <1>7
  <2>2. NodeAt(new, 1) = new[1]
    BY <1>14, <2>1 DEF NodeAt
  <2> QED
    BY <1>12, <1>13, <2>2
<1>22. Arranged(g, ms, q, [W EXCEPT ![m] = new])
  BY <1>2, <1>20, <1>21, ListArranged
<1>23. \A x \in DOMAIN heap : heap'[x].data = heap[x].data
  BY <1>1, <1>9, <1>16
<1>24. \A i \in 1..Len(new) : heap'[new[i]].data = heap[W[l][i]].data
  BY <1>1, <1>3, <1>9, <1>14, <1>17
<1>25. Arranged(heap', list', queue', [W EXCEPT ![m] = new])
  BY <1>9, <1>12, <1>13, <1>22
<1>26. CopiedIn(heap, W, heap', l, new)
  BY <1>3, <1>14, <1>23, <1>24 DEF CopiedIn
<1> QED
  BY <1>14, <1>25, <1>26

LEMMA LinksInitially == LinksInit => LinksInv
<1> SUFFICES ASSUME LinksInit PROVE LinksInv
  OBVIOUS
<1>1. PICK h, W : h = heap /\ W = [l \in Walks |-> <<>>]
  OBVIOUS
<1>2. DOMAIN h = {} /\ h = [x \in DOMAIN h |-> h[x]]
  BY <1>1 DEF LinksInit
<1>3. W \in [Walks -> Seq(Nodes)] /\ \A l \in Walks : W[l] = <<>> /\ Len(W[l]) = 0
  BY <1>1
<1>4. Laid(h, W)
  <2>1. HeapOK(h)
    BY <1>2 DEF HeapOK
  <2>2. \A l \in Walks : \A i \in 1..Len(W[l]) : FALSE
    BY <1>3
  <2> QED
    BY <1>2, <1>3, <2>1, <2>2 DEF Laid
<1>5. \A l \in Walks : NodeAt(W[l], 1) = Null /\ NodeAt(W[l], Len(W[l])) = Null
  BY <1>3 DEF NodeAt
<1>6. list = [l \in Names |-> NodeAt(W[l], 1)]
  BY <1>5 DEF LinksInit, Walks
<1>7. queue = EndsOf(W[Null])
  BY <1>3, <1>5 DEF LinksInit, Walks, EndsOf
<1> QED
  BY <1>1, <1>4, <1>6, <1>7 DEF LinksInv, Arranged

LEMMA OneListArranged ==
  ASSUME NEW W, Arranged(heap, list, queue, W), NEW l \in Names, OneList(l)
  PROVE  LinksInv'
<1>1. NodesOf(l) = W[l] /\ DOMAIN W[l] = 1..Len(W[l])
  <2>1. W[l] \in Seq(Nodes)
    BY DEF Arranged, Laid, Walks
  <2> QED
    BY <2>1, LinksRead
<1>2. CASE ReverseList(l)
  BY <1>2, ReverseListDoes DEF LinksInv
<1>3. CASE FreeList(l)
  BY <1>3, FreeListDoes DEF LinksInv
<1>4. ASSUME NEW d \in Data, Append1(l, d) PROVE LinksInv'
  BY <1>4, Append1Does DEF LinksInv
<1>5. ASSUME NEW d \in Data, Prepend(l, d) PROVE LinksInv'
  BY <1>5, PrependDoes DEF LinksInv
<1>6. ASSUME NEW d \in Data, InsertSorted(l, d) PROVE LinksInv'
  BY <1>6, InsertSortedDoes DEF LinksInv
<1>7. ASSUME NEW d \in Data, RemoveData(l, d) PROVE LinksInv'
  BY <1>7, RemoveDataDoes DEF LinksInv
<1>8. ASSUME NEW d \in Data, RemoveAll(l, d) PROVE LinksInv'
  BY <1>8, RemoveAllDoes DEF LinksInv
<1>9. ASSUME NEW d \in Data, NEW i \in DOMAIN NodesOf(l), Insert(l, d, NodesOf(l)[i]) PROVE LinksInv'
  <2>1. i \in 1..Len(W[l]) /\ Insert(l, d, W[l][i])
    BY <1>1, <1>9
  <2> QED
    BY <2>1, InsertDoes DEF LinksInv
<1>10. ASSUME NEW i \in DOMAIN NodesOf(l), DeleteLink(l, NodesOf(l)[i]) PROVE LinksInv'
  <2>1. i \in 1..Len(W[l]) /\ DeleteLink(l, W[l][i])
    BY <1>1, <1>10
  <2> QED
    BY <2>1, DeleteDoes DEF LinksInv
<1> QED
  BY <1>2, <1>3, <1>4, <1>5, <1>6, <1>7, <1>8, <1>9, <1>10 DEF OneList

LEMMA TwoListsArranged ==
  ASSUME NEW W, Arranged(heap, list, queue, W), NEW l \in Names, NEW m \in Names \ {l}, TwoLists(l, m)
  PROVE  LinksInv'
<1>1. NodesOf(l) = W[l] /\ DOMAIN W[l] = 1..Len(W[l])
  <2>1. W[l] \in Seq(Nodes)
    BY DEF Arranged, Laid, Walks
  <2> QED
    BY <2>1, LinksRead
<1>2. CASE Concat(l, m)
  BY <1>2, ConcatDoes DEF LinksInv
<1>3. CASE Copy(l, m)
  BY <1>3, CopyDoes DEF LinksInv
<1>4. ASSUME NEW i \in DOMAIN NodesOf(l), RemoveLink(l, NodesOf(l)[i], m) PROVE LinksInv'
  <2>1. i \in 1..Len(W[l]) /\ RemoveLink(l, W[l][i], m)
    BY <1>1, <1>4
  <2> QED
    BY <2>1, RemoveLinkDoes DEF LinksInv
<1> QED
  BY <1>2, <1>3, <1>4 DEF TwoLists

LEMMA QueueArrangedStep ==
  ASSUME NEW W, Arranged(heap, list, queue, W), Queue
  PROVE  LinksInv'
<1>1. ASSUME NEW d \in Data, PushHead(d) PROVE LinksInv'
  BY <1>1, PushHeadDoes DEF LinksInv
<1>2. ASSUME NEW d \in Data, PushTail(d) PROVE LinksInv'
  BY <1>2, PushTailDoes DEF LinksInv
<1>3. CASE PopHead
  BY <1>3, PopHeadDoes DEF LinksInv
<1>4. CASE PopTail
  BY <1>4, PopTailDoes DEF LinksInv
<1>5. CASE FreeQueue
  BY <1>5, FreeQueueDoes DEF LinksInv
<1> QED
  BY <1>1, <1>2, <1>3, <1>4, <1>5 DEF Queue

LEMMA LinksStep == LinksInv /\ [LinksNext]_links => LinksInv'
<1> SUFFICES ASSUME LinksInv, [LinksNext]_links PROVE LinksInv'
  OBVIOUS
<1>1. PICK W : Arranged(heap, list, queue, W)
  BY DEF LinksInv
<1>2. CASE UNCHANGED links
  BY <1>1, <1>2 DEF links, LinksInv
<1>3. CASE Queue
  BY <1>1, <1>3, QueueArrangedStep
<1>4. ASSUME NEW l \in Names, OneList(l) PROVE LinksInv'
  BY <1>1, <1>4, OneListArranged
<1>5. ASSUME NEW l \in Names, NEW m \in Names \ {l}, TwoLists(l, m) PROVE LinksInv'
  BY <1>1, <1>5, TwoListsArranged
<1> QED
  BY <1>2, <1>3, <1>4, <1>5 DEF LinksNext

-----------------------------------------------------------------------------
\* A sequence of places of the heap, no two the same, is no longer than the heap.
LEMMA NotLonger ==
  ASSUME NEW w \in Seq(Nodes), \A i, j \in 1..Len(w) : w[i] = w[j] => i = j
  PROVE  Len(w) \in 0..Cardinality(Nodes)
<1>1. PICK n \in Nat : n = Len(w)
  OBVIOUS
<1>2. PICK S : S = {w[i] : i \in 1..n}
  OBVIOUS
<1>3. w \in Bijection(1..n, S)
  <2>1. w \in [1..n -> S]
    BY <1>1, <1>2
  <2>2. \A i, j \in 1..n : w[i] = w[j] => i = j
    BY <1>1
  <2>3. \A x \in S : \E i \in 1..n : w[i] = x
    BY <1>2
  <2> QED
    BY <2>1, <2>2, <2>3 DEF Bijection, Injection, Surjection, IsInjective
<1>4. IsFiniteSet(1..n) /\ Cardinality(1..n) = n
  BY FS_Interval
<1>5. IsFiniteSet(S) /\ Cardinality(S) = n
  BY <1>3, <1>4, FS_Bijection DEF ExistsBijection
<1>6. S \subseteq Nodes /\ IsFiniteSet(Nodes)
  BY <1>1, <1>2, LinksAssumption
<1>7. Cardinality(S) <= Cardinality(Nodes) /\ Cardinality(Nodes) \in Nat
  BY <1>6, FS_Subset, FS_CardinalityType
<1> QED
  BY <1>1, <1>5, <1>7

\* What is promised follows from the arrangement of the nodes.
LEMMA LinksKept == LinksInv => LinksTypeOK /\ TwoWay /\ NoneLost /\ QueueEnds
<1> SUFFICES ASSUME LinksInv PROVE LinksTypeOK /\ TwoWay /\ NoneLost /\ QueueEnds
  OBVIOUS
<1>1. PICK W : Arranged(heap, list, queue, W)
  BY DEF LinksInv
<1>2. PICK h : h = heap /\ Laid(h, W) /\ HeapOK(h)
  BY <1>1 DEF Arranged, Laid
<1>3. \A l \in Walks : /\ W[l] \in Seq(Nodes) /\ Len(W[l]) \in Nat /\ DOMAIN W[l] = 1..Len(W[l])
  BY <1>2, LaidAt
<1>4. \A l \in Walks : Walk(l) = W[l]
  BY <1>1, LinksRead
<1>5. LinksTypeOK
  <2>1. DOMAIN heap \subseteq Nodes /\ \A n \in DOMAIN heap : heap[n] \in Cells
    BY <1>2 DEF HeapOK
  <2>2. \A l \in Walks : \A i \in Int : NodeAt(W[l], i) \in DOMAIN heap \cup {Null}
    BY <1>2, LaidAt
  <2>3. list \in [Names -> DOMAIN heap \cup {Null}]
    <3>1. \A l \in Names : NodeAt(W[l], 1) \in DOMAIN heap \cup {Null}
      BY <2>2 DEF Walks
    <3>2. list = [l \in Names |-> NodeAt(W[l], 1)]
      BY <1>1 DEF Arranged
    <3> QED
      BY <3>1, <3>2
  <2>4. Null \in Walks /\ Len(W[Null]) \in Nat
    BY <1>3 DEF Walks
  <2>5. {queue.head, queue.tail} \subseteq DOMAIN heap \cup {Null}
    <3>1. queue.head = NodeAt(W[Null], 1) /\ queue.tail = NodeAt(W[Null], Len(W[Null]))
      BY <1>1, LinksRead
    <3> QED
      BY <2>2, <2>4, <3>1
  <2>6. queue.length \in 0..Cardinality(Nodes)
    <3>1. \A i, j \in 1..Len(W[Null]) : W[Null][i] = W[Null][j] => i = j
      BY <1>2, <2>4 DEF Laid
    <3>2. Len(W[Null]) \in 0..Cardinality(Nodes)
      BY <1>3, <2>4, <3>1, NotLonger
    <3> QED
      BY <1>1, <3>2, LinksRead
  <2> QED
    BY <2>1, <2>3, <2>5, <2>6 DEF LinksTypeOK
<1>6. TwoWay
  <2> SUFFICES ASSUME NEW l \in Walks, NEW i \in DOMAIN Walk(l)
               PROVE  heap[Walk(l)[i]].prev = IF i = 1 THEN Null ELSE Walk(l)[i - 1]
    BY DEF TwoWay
  <2>1. PICK w \in Seq(Nodes), n \in Nat : w = W[l] /\ n = Len(w) /\ w = Walk(l) /\ DOMAIN w = 1..n
    BY <1>3, <1>4
  <2>2. i \in 1..n
    BY <2>1
  <2>3. heap[w[i]].prev = NodeAt(w, i - 1)
    <3>1. \A k \in 1..Len(W[l]) : h[W[l][k]].prev = NodeAt(W[l], k - 1)
      BY <1>2 DEF Laid
    <3> QED
      BY <1>2, <2>1, <2>2, <3>1
  <2>4. NodeAt(w, i - 1) = IF i = 1 THEN Null ELSE w[i - 1]
    <3>1. PICK j \in Int : j = i - 1 /\ (j \in 1..n <=> i # 1)
      BY <2>2
    <3> QED
      BY <2>1, <3>1 DEF NodeAt
  <2> QED
    BY <2>1, <2>3, <2>4
<1>7. NoneLost
  <2>1. ASSUME NEW x \in DOMAIN heap PROVE \E l \in Walks : \E i \in DOMAIN Walk(l) : Walk(l)[i] = x
    <3>1. PICK l \in Walks : \E i \in 1..Len(W[l]) : W[l][i] = x
      BY <1>2 DEF Laid
    <3> QED
      BY <1>3, <1>4, <3>1
  <2>2. ASSUME NEW l \in Walks, NEW m \in Walks, NEW i \in DOMAIN Walk(l), NEW j \in DOMAIN Walk(m),
               Walk(l)[i] = Walk(m)[j]
        PROVE  l = m /\ i = j
    <3>1. i \in 1..Len(W[l]) /\ j \in 1..Len(W[m]) /\ W[l][i] = W[m][j]
      BY <1>3, <1>4, <2>2
    <3>2. \A a \in 1..Len(W[l]), b \in 1..Len(W[m]) : W[l][a] = W[m][b] => l = m /\ a = b
      BY <1>2 DEF Laid
    <3> QED
      BY ONLY <3>1, <3>2
  <2> QED
    BY <2>1, <2>2 DEF NoneLost
<1>8. QueueEnds
  BY <1>1, LinksRead DEF QueueEnds
<1> QED
  BY <1>5, <1>6, <1>7, <1>8

\* The lists and the queue can be walked in both directions, every node is in exactly
\* one place, and the queue knows its tail and its length (xlist.c, xqueue.c).
THEOREM LinksCorrect == LinksSpec => [](LinksTypeOK /\ TwoWay /\ NoneLost /\ QueueEnds)
<1> QED
  BY LinksInitially, LinksStep, LinksKept, PTL DEF LinksSpec

-----------------------------------------------------------------------------
(* XList: the linked lists and the queue implement the sequences of          *)
(* Sequences2.  What is stored in the nodes of every list is a sequence, and *)
(* every call does to it what it says.                                       *)

\* What is stored in the list l becomes t, in the others it stays.
Becoming(h, W, g, V, l, t) ==
  /\ DataOf(g, V[l]) = t
  /\ \A m \in Walks \ {l} : DataOf(g, V[m]) = DataOf(h, W[m])

\* The same is stored in the nodes w.
Alike(h, g, w) == \A i \in 1..Len(w) : g[w[i]].data = h[w[i]].data

LEMMA DataSame ==
  ASSUME NEW h, NEW g, NEW w \in Seq(Nodes), Alike(h, g, w)
  PROVE  DataOf(g, w) = DataOf(h, w)
<1>1. DOMAIN w = 1..Len(w)
  BY LenProperties
<1>2. \A i \in DOMAIN w : g[w[i]].data = h[w[i]].data
  BY <1>1 DEF Alike
<1> QED
  BY <1>2 DEF DataOf

\* The list l has the n nodes w, and s is in them.
Holds(h, W, l, w, n, s) ==
  /\ w = W[l] /\ n = Len(w) /\ s = DataOf(h, W[l]) /\ Len(s) = n
  /\ \A i \in 1..n : w[i] \in DOMAIN h /\ s[i] = h[w[i]].data
  /\ \A i, j \in 1..n : w[i] = w[j] => i = j

LEMMA DataAt ==
  ASSUME NEW h, NEW W, Laid(h, W), NEW l \in Walks
  PROVE  \E w \in Seq(Nodes), n \in Nat, s \in Seq(Data) : Holds(h, W, l, w, n, s)
<1>1. PICK w \in Seq(Nodes), n \in Nat : w = W[l] /\ n = Len(w)
  BY LaidAt
<1>2. \A i \in 1..n : w[i] \in DOMAIN h
  BY <1>1 DEF Laid
<1>3. ASSUME NEW i \in 1..n, NEW j \in 1..n, w[i] = w[j] PROVE i = j
  <2>1. W[l][i] = W[l][j] /\ i \in 1..Len(W[l]) /\ j \in 1..Len(W[l])
    BY <1>1, <1>3
  <2> QED
    BY ONLY <2>1, l \in Walks, Laid(h, W) DEF Laid
<1>4. PICK s : s = DataOf(h, W[l])
  OBVIOUS
<1>5. s \in Seq(Data) /\ Len(s) = n /\ \A i \in 1..n : s[i] = h[w[i]].data
  BY <1>1, <1>4, DataOfIs
<1>6. Holds(h, W, l, w, n, s)
  BY <1>1, <1>2, <1>3, <1>4, <1>5 DEF Holds
<1> QED
  BY <1>1, <1>5, <1>6

LEMMA DataInserted ==
  ASSUME NEW h, NEW W, Laid(h, W), NEW g, NEW V, Laid(g, V), NEW l \in Walks,
         NEW p \in 1..Len(W[l]) + 1, NEW d \in Data, InsertedIn(h, W, g, V, l, p, d)
  PROVE  Becoming(h, W, g, V, l, InsertAt(DataOf(h, W[l]), p, d))
<1>1. PICK k \in Nodes \ DOMAIN h :
        /\ V = [W EXCEPT ![l] = InsertAt(W[l], p, k)]
        /\ g[k].data = d /\ \A x \in DOMAIN h : g[x].data = h[x].data
  BY DEF InsertedIn
<1>2. W \in [Walks -> Seq(Nodes)] /\ V \in [Walks -> Seq(Nodes)]
  BY DEF Laid
<1>3. PICK w \in Seq(Nodes), n \in Nat, s \in Seq(Data) : Holds(h, W, l, w, n, s)
  BY ONLY l \in Walks, Laid(h, W), DataAt
<1>4. /\ w = W[l] /\ n = Len(w) /\ s = DataOf(h, W[l]) /\ Len(s) = n
      /\ \A i \in 1..n : w[i] \in DOMAIN h /\ s[i] = h[w[i]].data
      /\ \A i, j \in 1..n : w[i] = w[j] => i = j
  BY <1>3 DEF Holds
<1>5. PICK v \in Seq(Nodes), c \in Nat, t \in Seq(Data) : Holds(g, V, l, v, c, t)
  BY ONLY l \in Walks, Laid(g, V), DataAt
<1>6. /\ v = V[l] /\ c = Len(v) /\ t = DataOf(g, V[l]) /\ Len(t) = c
      /\ \A i \in 1..c : v[i] \in DOMAIN g /\ t[i] = g[v[i]].data
      /\ \A i, j \in 1..c : v[i] = v[j] => i = j
  BY <1>5 DEF Holds
<1>7. v = InsertAt(w, p, k)
  BY <1>1, <1>2, <1>4, <1>6
<1>8. Len(v) = n + 1 /\ \A i \in 1..n + 1 : v[i] = IF i < p THEN w[i] ELSE IF i = p THEN k ELSE w[i - 1]
  <2>1. InsertedAt(InsertAt(w, p, k), Nodes, w, p, k)
    BY <1>4, InsertAtPlaces
  <2> QED
    BY <1>4, <1>7, <2>1 DEF InsertedAt
<1>9. c = n + 1
  BY <1>6, <1>8
<1>10. PICK u : u = InsertAt(s, p, d)
  OBVIOUS
<1>11. /\ u \in Seq(Data) /\ Len(u) = n + 1
       /\ \A i \in 1..n + 1 : u[i] = IF i < p THEN s[i] ELSE IF i = p THEN d ELSE s[i - 1]
  <2>1. p \in 1..Len(s) + 1
    BY <1>4
  <2>2. InsertedAt(u, Data, s, p, d)
    BY <1>10, <2>1, InsertAtPlaces
  <2> QED
    BY <1>4, <2>2 DEF InsertedAt
<1>12. ASSUME NEW i \in 1..n + 1 PROVE t[i] = u[i]
  <2>1. p \in Int
    BY <1>4
  <2>2. CASE i < p
    <3>1. i \in 1..n
      BY <1>4, <2>2
    <3>2. v[i] = w[i] /\ u[i] = s[i]
      BY <1>8, <1>11, <2>2
    <3>3. g[w[i]].data = s[i]
      BY <1>1, <1>4, <3>1
    <3> QED
      BY <1>6, <1>9, <3>2, <3>3
  <2>3. CASE i = p
    BY <1>1, <1>6, <1>8, <1>9, <1>11, <2>3
  <2>4. CASE i > p
    <3>1. i - 1 \in 1..n /\ ~(i < p) /\ i # p
      BY <1>4, <2>4
    <3>2. v[i] = w[i - 1] /\ u[i] = s[i - 1]
      BY <1>8, <1>11, <3>1
    <3>3. g[w[i - 1]].data = s[i - 1]
      BY <1>1, <1>4, <3>1
    <3> QED
      BY <1>6, <1>9, <3>2, <3>3
  <2> QED
    BY <2>1, <2>2, <2>3, <2>4
<1>13. t = u
  BY <1>6, <1>9, <1>11, <1>12, SameSequence
<1>14. ASSUME NEW m \in Walks \ {l} PROVE DataOf(g, V[m]) = DataOf(h, W[m])
  <2>1. V[m] = W[m] /\ W[m] \in Seq(Nodes)
    BY <1>1, <1>2
  <2>2. \A i \in 1..Len(W[m]) : g[W[m][i]].data = h[W[m][i]].data
    BY <1>1 DEF Laid
  <2>4. DataOf(g, W[m]) = DataOf(h, W[m])
    <3>1. W[m] \in Seq(Nodes) /\ Alike(h, g, W[m])
      BY <2>1, <2>2 DEF Alike
    <3> QED
      BY ONLY <3>1, Laid(h, W), DataSame
  <2> QED
    BY <2>1, <2>4
<1> QED
  BY <1>4, <1>6, <1>10, <1>13, <1>14 DEF Becoming

LEMMA DataRemoved ==
  ASSUME NEW h, NEW W, Laid(h, W), NEW g, NEW V, Laid(g, V), NEW l \in Walks,
         NEW p \in 1..Len(W[l]), RemovedIn(h, W, g, V, l, p)
  PROVE  Becoming(h, W, g, V, l, RemoveAt(DataOf(h, W[l]), p))
<1>1. /\ V = [W EXCEPT ![l] = RemoveAt(W[l], p)]
      /\ \A x \in DOMAIN h \ {W[l][p]} : g[x].data = h[x].data
  BY DEF RemovedIn
<1>2. W \in [Walks -> Seq(Nodes)] /\ V \in [Walks -> Seq(Nodes)]
  BY DEF Laid
<1>3. PICK w \in Seq(Nodes), n \in Nat, s \in Seq(Data) : Holds(h, W, l, w, n, s)
  BY ONLY l \in Walks, Laid(h, W), DataAt
<1>4. /\ w = W[l] /\ n = Len(w) /\ s = DataOf(h, W[l]) /\ Len(s) = n
      /\ \A i \in 1..n : w[i] \in DOMAIN h /\ s[i] = h[w[i]].data
      /\ \A i, j \in 1..n : w[i] = w[j] => i = j
  BY <1>3 DEF Holds
<1>5. PICK v \in Seq(Nodes), c \in Nat, t \in Seq(Data) : Holds(g, V, l, v, c, t)
  BY ONLY l \in Walks, Laid(g, V), DataAt
<1>6. /\ v = V[l] /\ c = Len(v) /\ t = DataOf(g, V[l]) /\ Len(t) = c
      /\ \A i \in 1..c : v[i] \in DOMAIN g /\ t[i] = g[v[i]].data
      /\ \A i, j \in 1..c : v[i] = v[j] => i = j
  BY <1>5 DEF Holds
<1>7. v = RemoveAt(w, p)
  BY <1>1, <1>2, <1>4, <1>6
<1>8. Len(v) = n - 1 /\ \A i \in 1..n - 1 : v[i] = IF i < p THEN w[i] ELSE w[i + 1]
  <2>1. RemovedAt(RemoveAt(w, p), Nodes, w, p)
    BY <1>4, RemoveAtPlaces
  <2> QED
    BY <1>4, <1>7, <2>1 DEF RemovedAt
<1>9. c = n - 1
  BY <1>6, <1>8
<1>10. PICK u : u = RemoveAt(s, p)
  OBVIOUS
<1>11. /\ u \in Seq(Data) /\ Len(u) = n - 1
       /\ \A i \in 1..n - 1 : u[i] = IF i < p THEN s[i] ELSE s[i + 1]
  <2>1. p \in 1..Len(s)
    BY <1>4
  <2>2. RemovedAt(u, Data, s, p)
    BY <1>10, <2>1, RemoveAtPlaces
  <2> QED
    BY <1>4, <2>2 DEF RemovedAt
<1>12. ASSUME NEW j \in 1..n, j # p PROVE g[w[j]].data = s[j]
  <2>1. w[j] # w[p] /\ p \in 1..n
    BY <1>4, <1>12
  <2>2. w[j] \in DOMAIN h \ {w[p]}
    BY <1>4, <2>1
  <2> QED
    BY <1>1, <1>4, <2>2
<1>13. ASSUME NEW i \in 1..n - 1 PROVE t[i] = u[i]
  <2>1. CASE i < p
    <3>1. i \in 1..n /\ i # p
      BY <1>4, <2>1
    <3>2. v[i] = w[i] /\ u[i] = s[i]
      BY <1>8, <1>11, <2>1
    <3> QED
      BY <1>6, <1>9, <1>12, <3>1, <3>2
  <2>2. CASE ~(i < p)
    <3>1. i + 1 \in 1..n /\ i + 1 # p
      BY <1>4, <2>2
    <3>2. v[i] = w[i + 1] /\ u[i] = s[i + 1]
      BY <1>8, <1>11, <2>2
    <3> QED
      BY <1>6, <1>9, <1>12, <3>1, <3>2
  <2> QED
    BY <2>1, <2>2
<1>14. t = u
  BY <1>6, <1>9, <1>11, <1>13, SameSequence
<1>15. ASSUME NEW m \in Walks \ {l} PROVE DataOf(g, V[m]) = DataOf(h, W[m])
  <2>1. V[m] = W[m] /\ W[m] \in Seq(Nodes)
    BY <1>1, <1>2
  <2>2. ASSUME NEW i \in 1..Len(W[m]) PROVE g[W[m][i]].data = h[W[m][i]].data
    <3>1. W[m][i] \in DOMAIN h /\ W[m][i] # W[l][p]
      BY DEF Laid
    <3> QED
      BY <1>1, <3>1
  <2>4. DataOf(g, W[m]) = DataOf(h, W[m])
    <3>1. W[m] \in Seq(Nodes)
      BY DEF Laid
    <3>2. Alike(h, g, W[m])
      BY <2>1, <2>2 DEF Alike
    <3> QED
      BY ONLY <3>1, <3>2, DataSame
  <2> QED
    BY <2>1, <2>4
<1> QED
  BY <1>4, <1>6, <1>10, <1>14, <1>15 DEF Becoming

LEMMA DataEmptied ==
  ASSUME NEW h, NEW W, Laid(h, W), NEW l \in Walks, NEW g, Laid(g, [W EXCEPT ![l] = <<>>]),
         \A x \in DOMAIN g : x \in DOMAIN h /\ g[x] = h[x]
  PROVE  Becoming(h, W, g, [W EXCEPT ![l] = <<>>], l, <<>>)
<1>1. PICK V : V = [W EXCEPT ![l] = <<>>]
  OBVIOUS
<1>2. W \in [Walks -> Seq(Nodes)] /\ Laid(g, V) /\ V[l] = <<>>
  BY <1>1 DEF Laid
<1>3. DataOf(g, V[l]) = <<>>
  BY <1>2 DEF DataOf
<1>4. ASSUME NEW m \in Walks \ {l} PROVE DataOf(g, V[m]) = DataOf(h, W[m])
  <2>1. V[m] = W[m] /\ W[m] \in Seq(Nodes)
    BY <1>1, <1>2
  <2>2. \A i \in 1..Len(W[m]) : W[m][i] \in DOMAIN g
    BY <1>2, <2>1 DEF Laid
  <2>3. \A i \in 1..Len(W[m]) : g[W[m][i]].data = h[W[m][i]].data
    BY <2>2
  <2>4. DataOf(g, W[m]) = DataOf(h, W[m])
    <3>1. W[m] \in Seq(Nodes) /\ Alike(h, g, W[m])
      BY <2>1, <2>3 DEF Alike
    <3> QED
      BY ONLY <3>1, Laid(h, W), DataSame
  <2> QED
    BY <2>1, <2>4
<1> QED
  BY <1>1, <1>3, <1>4 DEF Becoming

LEMMA DataReversed ==
  ASSUME NEW h, NEW W, Laid(h, W), NEW l \in Walks, NEW g, Laid(g, [W EXCEPT ![l] = Reverse(W[l])]),
         \A x \in DOMAIN h : g[x].data = h[x].data
  PROVE  Becoming(h, W, g, [W EXCEPT ![l] = Reverse(W[l])], l, Reverse(DataOf(h, W[l])))
<1>1. PICK V : V = [W EXCEPT ![l] = Reverse(W[l])]
  OBVIOUS
<1>2. W \in [Walks -> Seq(Nodes)] /\ Laid(g, V) /\ V \in [Walks -> Seq(Nodes)]
  BY <1>1 DEF Laid
<1>3. PICK w \in Seq(Nodes), n \in Nat :
        w = W[l] /\ n = Len(w) /\ \A i \in 1..n : w[i] \in DOMAIN h
  BY LaidAt DEF Laid
<1>4. PICK v \in Seq(Nodes) : v = V[l] /\ v = [i \in 1..n |-> w[(n - i) + 1]]
  BY <1>1, <1>2, <1>3 DEF Reverse
<1>5. Len(v) = n /\ DOMAIN v = 1..n
  BY <1>4
<1>6. PICK s \in Seq(Data) : s = DataOf(h, w) /\ Len(s) = n /\ \A i \in 1..n : s[i] = h[w[i]].data
  BY <1>3, DataOfIs
<1>7. DataOf(g, v) = [i \in 1..n |-> g[v[i]].data]
  BY <1>5 DEF DataOf
<1>8. Reverse(s) = [i \in 1..n |-> s[(n - i) + 1]]
  BY <1>6 DEF Reverse
<1>9. ASSUME NEW i \in 1..n PROVE g[v[i]].data = s[(n - i) + 1]
  <2>1. (n - i) + 1 \in 1..n
    BY <1>3
  <2> QED
    BY <1>3, <1>4, <1>6, <2>1
<1>10. DataOf(g, v) = Reverse(s)
  BY <1>7, <1>8, <1>9
<1>11. ASSUME NEW m \in Walks \ {l} PROVE DataOf(g, V[m]) = DataOf(h, W[m])
  <2>1. V[m] = W[m] /\ W[m] \in Seq(Nodes)
    BY <1>1, <1>2
  <2>2. \A i \in 1..Len(W[m]) : g[W[m][i]].data = h[W[m][i]].data
    BY DEF Laid
  <2>4. DataOf(g, W[m]) = DataOf(h, W[m])
    <3>1. W[m] \in Seq(Nodes) /\ Alike(h, g, W[m])
      BY <2>1, <2>2 DEF Alike
    <3> QED
      BY ONLY <3>1, Laid(h, W), DataSame
  <2> QED
    BY <2>1, <2>4
<1> QED
  BY <1>1, <1>3, <1>4, <1>6, <1>10, <1>11 DEF Becoming

LEMMA DataKept ==
  ASSUME NEW h, NEW W, Laid(h, W), NEW l \in Walks, NEW d, NEW g, NEW V, Laid(g, V),
         \A m \in Walks : m # l => V[m] = W[m],
         \A x \in DOMAIN g : x \in DOMAIN h /\ g[x].data = h[x].data,
         Leading(h, W[l], d, V[l], Len(W[l]), Len(V[l]))
  PROVE  Becoming(h, W, g, V, l, KeptOf(DataOf(h, W[l]), d)[Len(DataOf(h, W[l]))])
<1>1. PICK s \in Seq(Data), n \in Nat : s = DataOf(h, W[l]) /\ n = Len(W[l]) /\ Len(s) = n
  BY LaidAt, DataOfIs
<1>2. PICK k : k = KeptOf(s, d)[n]
  OBVIOUS
<1>3. k \in Seq(Data)
  <2>1. n \in 0..Len(s)
    BY <1>1
  <2> QED
    BY <1>2, <2>1, KeptOfIs
<1>4. PICK v \in Seq(Nodes), c \in Nat :
        v = V[l] /\ c = Len(v) /\ \A i \in 1..c : v[i] \in DOMAIN g
  BY LaidAt DEF Laid
<1>5. Len(k) = c /\ \A j \in 1..c : h[v[j]].data = k[j]
  BY <1>1, <1>2, <1>4 DEF Leading
<1>6. PICK t \in Seq(Data) : t = DataOf(g, v) /\ Len(t) = c /\ \A i \in 1..c : t[i] = g[v[i]].data
  BY <1>4, DataOfIs
<1>7. \A i \in 1..c : t[i] = k[i]
  BY <1>4, <1>5, <1>6
<1>8. t = k
  BY <1>3, <1>5, <1>6, <1>7, SameSequence
<1>9. ASSUME NEW m \in Walks \ {l} PROVE DataOf(g, V[m]) = DataOf(h, W[m])
  <2>1. V[m] = W[m] /\ W[m] \in Seq(Nodes)
    BY DEF Laid
  <2>2. \A i \in 1..Len(W[m]) : W[m][i] \in DOMAIN g
    BY <2>1 DEF Laid
  <2>3. \A i \in 1..Len(W[m]) : g[W[m][i]].data = h[W[m][i]].data
    BY <2>2
  <2>4. DataOf(g, W[m]) = DataOf(h, W[m])
    <3>1. W[m] \in Seq(Nodes) /\ Alike(h, g, W[m])
      BY <2>1, <2>3 DEF Alike
    <3> QED
      BY ONLY <3>1, Laid(h, W), DataSame
  <2> QED
    BY <2>1, <2>4
<1> QED
  BY <1>1, <1>2, <1>4, <1>6, <1>8, <1>9 DEF Becoming

\* Two lists change: l becomes s, m becomes t.
BothBecome(h, W, g, V, l, s, m, t) ==
  /\ DataOf(g, V[l]) = s /\ DataOf(g, V[m]) = t
  /\ \A r \in Walks \ {l, m} : DataOf(g, V[r]) = DataOf(h, W[r])

LEMMA DataJoined ==
  ASSUME NEW h, NEW W, Laid(h, W), NEW l \in Walks, NEW m \in Walks \ {l}, NEW g,
         Laid(g, Joined(W, l, m)), \A x \in DOMAIN h : g[x].data = h[x].data
  PROVE  BothBecome(h, W, g, Joined(W, l, m), l, DataOf(h, W[l]) \o DataOf(h, W[m]), m, <<>>)
<1>1. PICK V : V = Joined(W, l, m)
  OBVIOUS
<1>2. m \in Walks /\ m # l /\ W \in [Walks -> Seq(Nodes)]
  BY DEF Laid
<1>3. Laid(g, V)
  BY <1>1
<1>4. V[l] = W[l] \o W[m] /\ V[m] = <<>> /\ \A r \in Walks \ {l, m} : V[r] = W[r]
  <2>0. W \in [Walks -> Seq(Nodes)]
    BY <1>2
  <2>4. m \in Walks
    BY <1>2
  <2>5. m # l
    BY <1>2
  <2>1. /\ Joined(W, l, m) \in [Walks -> Seq(Nodes)]
        /\ Joined(W, l, m)[l] = W[l] \o W[m] /\ Joined(W, l, m)[m] = <<>>
        /\ \A r \in Walks : r # l /\ r # m => Joined(W, l, m)[r] = W[r]
    BY ONLY <2>0, <2>4, <2>5, l \in Walks, JoinedIs, Zenon
  <2>2. /\ V[l] = W[l] \o W[m] /\ V[m] = <<>>
        /\ \A r \in Walks : r # l /\ r # m => V[r] = W[r]
    BY ONLY <1>1, <2>1
  <2>3. \A r \in Walks \ {l, m} : V[r] = W[r]
    BY ONLY <2>2
  <2> QED
    BY ONLY <2>2, <2>3
<1>5. PICK w \in Seq(Nodes), n \in Nat, s \in Seq(Data) : Holds(h, W, l, w, n, s)
  BY ONLY l \in Walks, Laid(h, W), DataAt
<1>6. /\ w = W[l] /\ n = Len(w) /\ s = DataOf(h, W[l]) /\ Len(s) = n
      /\ \A i \in 1..n : w[i] \in DOMAIN h /\ s[i] = h[w[i]].data
      /\ \A i, j \in 1..n : w[i] = w[j] => i = j
  BY <1>5 DEF Holds
<1>7. PICK x \in Seq(Nodes), k \in Nat, r \in Seq(Data) : Holds(h, W, m, x, k, r)
  BY ONLY <1>2, Laid(h, W), DataAt
<1>8. /\ x = W[m] /\ k = Len(x) /\ r = DataOf(h, W[m]) /\ Len(r) = k
      /\ \A i \in 1..k : x[i] \in DOMAIN h /\ r[i] = h[x[i]].data
      /\ \A i, j \in 1..k : x[i] = x[j] => i = j
  BY <1>7 DEF Holds
<1>9. PICK v \in Seq(Nodes), c \in Nat, t \in Seq(Data) : Holds(g, V, l, v, c, t)
  BY ONLY l \in Walks, <1>3, DataAt
<1>10. /\ v = V[l] /\ c = Len(v) /\ t = DataOf(g, V[l]) /\ Len(t) = c
       /\ \A i \in 1..c : v[i] \in DOMAIN g /\ t[i] = g[v[i]].data
       /\ \A i, j \in 1..c : v[i] = v[j] => i = j
  BY <1>9 DEF Holds
<1>11. v = w \o x
  BY <1>4, <1>6, <1>8, <1>10
<1>12. c = n + k /\ \A i \in 1..n + k : v[i] = IF i <= n THEN w[i] ELSE x[i - n]
  <2>1. /\ Len(w \o x) = Len(w) + Len(x)
        /\ \A i \in 1..Len(w) + Len(x) : (w \o x)[i] = IF i <= Len(w) THEN w[i] ELSE x[i - Len(w)]
    BY ONLY w \in Seq(Nodes), x \in Seq(Nodes), ConcatProperties
  <2>2. /\ Len(v) = Len(w) + Len(x)
        /\ \A i \in 1..Len(w) + Len(x) : v[i] = IF i <= Len(w) THEN w[i] ELSE x[i - Len(w)]
    BY ONLY <2>1, <1>11
  <2>3. Len(w) = n /\ Len(x) = k /\ Len(v) = c
    BY <1>6, <1>8, <1>10
  <2> QED
    BY ONLY <2>2, <2>3
<1>13. PICK u : u = s \o r
  OBVIOUS
<1>14. u \in Seq(Data) /\ Len(u) = n + k /\ \A i \in 1..n + k : u[i] = IF i <= n THEN s[i] ELSE r[i - n]
  <2>1. /\ s \o r \in Seq(Data) /\ Len(s \o r) = Len(s) + Len(r)
        /\ \A i \in 1..Len(s) + Len(r) : (s \o r)[i] = IF i <= Len(s) THEN s[i] ELSE r[i - Len(s)]
    BY ConcatProperties
  <2> QED
    BY <1>6, <1>8, <1>13, <2>1
<1>15. ASSUME NEW i \in 1..n + k PROVE t[i] = u[i]
  <2>1. CASE i <= n
    <3>1. i \in 1..n /\ v[i] = w[i] /\ u[i] = s[i]
      BY <1>12, <1>14, <2>1
    <3>2. t[i] = g[v[i]].data
      BY <1>10, <1>12
    <3>3. g[w[i]].data = s[i]
      BY <1>6, <3>1
    <3> QED
      BY <3>1, <3>2, <3>3
  <2>2. CASE ~(i <= n)
    <3>1. PICK j \in 1..k : j = i - n
      BY <2>2
    <3>2. v[i] = x[j] /\ u[i] = r[j]
      BY <1>12, <1>14, <2>2, <3>1
    <3>3. t[i] = g[v[i]].data
      BY <1>10, <1>12
    <3>4. g[x[j]].data = r[j]
      BY <1>8, <3>1
    <3> QED
      BY <3>2, <3>3, <3>4
  <2> QED
    BY <2>1, <2>2
<1>16. t = u
  BY <1>10, <1>12, <1>14, <1>15, SameSequence
<1>17. DataOf(g, V[m]) = <<>>
  BY <1>4 DEF DataOf
<1>18. ASSUME NEW y \in Walks \ {l, m} PROVE DataOf(g, V[y]) = DataOf(h, W[y])
  <2>1. V[y] = W[y]
    BY <1>4
  <2>2. W[y] \in Seq(Nodes)
    BY DEF Laid
  <2>3. Alike(h, g, W[y])
    BY DEF Alike, Laid
  <2>4. DataOf(g, W[y]) = DataOf(h, W[y])
    BY ONLY <2>2, <2>3, DataSame
  <2> QED
    BY <2>1, <2>4
<1> QED
  BY <1>1, <1>6, <1>8, <1>10, <1>13, <1>16, <1>17, <1>18 DEF BothBecome

\* The place p of the list l becomes the list m.
LoosenedIn(h, W, g, V, l, p, m) ==
  /\ V[l] = RemoveAt(W[l], p) /\ V[m] = << W[l][p] >> /\ \A r \in Walks \ {l, m} : V[r] = W[r]
  /\ \A x \in DOMAIN h : g[x].data = h[x].data

LEMMA DataLoosened ==
  ASSUME NEW h, NEW W, Laid(h, W), NEW l \in Walks, NEW m \in Walks \ {l}, NEW p \in 1..Len(W[l]),
         NEW g, NEW V, Laid(g, V), LoosenedIn(h, W, g, V, l, p, m)
  PROVE  BothBecome(h, W, g, V, l, RemoveAt(DataOf(h, W[l]), p), m, << DataOf(h, W[l])[p] >>)
<1>1. /\ V[l] = RemoveAt(W[l], p) /\ V[m] = << W[l][p] >> /\ \A r \in Walks \ {l, m} : V[r] = W[r]
      /\ \A x \in DOMAIN h : g[x].data = h[x].data
  BY DEF LoosenedIn
<1>2. PICK w \in Seq(Nodes), n \in Nat, s \in Seq(Data) : Holds(h, W, l, w, n, s)
  BY ONLY l \in Walks, Laid(h, W), DataAt
<1>3. /\ w = W[l] /\ n = Len(w) /\ s = DataOf(h, W[l]) /\ Len(s) = n
      /\ \A i \in 1..n : w[i] \in DOMAIN h /\ s[i] = h[w[i]].data
      /\ \A i, j \in 1..n : w[i] = w[j] => i = j
  BY <1>2 DEF Holds
<1>4. PICK v \in Seq(Nodes), c \in Nat, t \in Seq(Data) : Holds(g, V, l, v, c, t)
  BY ONLY l \in Walks, Laid(g, V), DataAt
<1>5. /\ v = V[l] /\ c = Len(v) /\ t = DataOf(g, V[l]) /\ Len(t) = c
      /\ \A i \in 1..c : v[i] \in DOMAIN g /\ t[i] = g[v[i]].data
      /\ \A i, j \in 1..c : v[i] = v[j] => i = j
  BY <1>4 DEF Holds
<1>6. v = RemoveAt(w, p)
  BY <1>1, <1>3, <1>5
<1>7. c = n - 1 /\ \A i \in 1..n - 1 : v[i] = IF i < p THEN w[i] ELSE w[i + 1]
  <2>1. RemovedAt(RemoveAt(w, p), Nodes, w, p)
    BY <1>3, RemoveAtPlaces
  <2> QED
    BY <1>3, <1>5, <1>6, <2>1 DEF RemovedAt
<1>8. PICK u : u = RemoveAt(s, p)
  OBVIOUS
<1>9. u \in Seq(Data) /\ Len(u) = n - 1 /\ \A i \in 1..n - 1 : u[i] = IF i < p THEN s[i] ELSE s[i + 1]
  <2>1. p \in 1..Len(s)
    BY <1>3
  <2>2. RemovedAt(u, Data, s, p)
    BY <1>8, <2>1, RemoveAtPlaces
  <2> QED
    BY <1>3, <2>2 DEF RemovedAt
<1>10. ASSUME NEW i \in 1..n - 1 PROVE t[i] = u[i]
  <2>1. PICK j \in 1..n : j = IF i < p THEN i ELSE i + 1
    OBVIOUS
  <2>2. v[i] = w[j] /\ u[i] = s[j]
    BY <1>7, <1>9, <2>1
  <2>3. t[i] = g[v[i]].data
    BY <1>5, <1>7
  <2>4. g[w[j]].data = s[j]
    BY <1>1, <1>3
  <2> QED
    BY <2>2, <2>3, <2>4
<1>11. t = u
  <2>1. u \in Seq(Data) /\ Len(t) = Len(u) /\ \A i \in 1..Len(t) : t[i] = u[i]
    BY <1>5, <1>7, <1>9, <1>10
  <2> QED
    BY ONLY <2>1, t \in Seq(Data), SameSequence
<1>12. DataOf(g, V[m]) = << s[p] >>
  <2>1. PICK k : k = w[p]
    OBVIOUS
  <2>2. V[m] = << k >> /\ g[k].data = s[p]
    BY <1>1, <1>3, <2>1
  <2>3. DOMAIN << k >> = {1} /\ << k >>[1] = k
    OBVIOUS
  <2>4. DataOf(g, << k >>) = [i \in {1} |-> g[k].data]
    BY <2>3 DEF DataOf
  <2>5. << s[p] >> = [i \in {1} |-> s[p]]
    OBVIOUS
  <2> QED
    BY <2>2, <2>4, <2>5
<1>13. ASSUME NEW y \in Walks \ {l, m} PROVE DataOf(g, V[y]) = DataOf(h, W[y])
  <2>1. V[y] = W[y]
    BY <1>1
  <2>2. W[y] \in Seq(Nodes)
    BY DEF Laid
  <2>3. Alike(h, g, W[y])
    BY <1>1 DEF Alike, Laid
  <2>4. DataOf(g, W[y]) = DataOf(h, W[y])
    BY ONLY <2>2, <2>3, DataSame
  <2> QED
    BY <2>1, <2>4
<1> QED
  BY <1>3, <1>5, <1>8, <1>11, <1>12, <1>13 DEF BothBecome

LEMMA DataCopied ==
  ASSUME NEW h, NEW W, Laid(h, W), NEW l \in Walks, NEW m \in Walks \ {l}, NEW new \in Seq(Nodes),
         NEW g, CopiedIn(h, W, g, l, new)
  PROVE  Becoming(h, W, g, [W EXCEPT ![m] = new], m, DataOf(h, W[l]))
<1>1. /\ Len(new) = Len(W[l])
      /\ \A x \in DOMAIN h : g[x].data = h[x].data
      /\ \A i \in 1..Len(new) : g[new[i]].data = h[W[l][i]].data
  BY DEF CopiedIn
<1>2. PICK V : V = [W EXCEPT ![m] = new]
  OBVIOUS
<1>3. V[m] = new /\ \A y \in Walks \ {m} : V[y] = W[y]
  BY <1>2 DEF Laid
<1>4. DataOf(g, new) = DataOf(h, W[l])
  <2>1. PICK n \in Nat : n = Len(new) /\ DOMAIN new = 1..n
    BY LenProperties
  <2>2. DOMAIN W[l] = 1..n
    BY <1>1, <2>1, LenProperties DEF Laid
  <2>3. \A i \in 1..n : g[new[i]].data = h[W[l][i]].data
    BY <1>1, <2>1
  <2> QED
    BY <2>1, <2>2, <2>3 DEF DataOf
<1>5. ASSUME NEW y \in Walks \ {m} PROVE DataOf(g, V[y]) = DataOf(h, W[y])
  <2>1. V[y] = W[y]
    BY <1>3
  <2>2. W[y] \in Seq(Nodes)
    BY DEF Laid
  <2>3. Alike(h, g, W[y])
    BY <1>1 DEF Alike, Laid
  <2>4. DataOf(g, W[y]) = DataOf(h, W[y])
    BY ONLY <2>2, <2>3, DataSame
  <2> QED
    BY <2>1, <2>4
<1> QED
  BY <1>2, <1>3, <1>4, <1>5 DEF Becoming

\* What the lists and the queue store.
StoredIn(h, ls) == [l \in Names |-> DataOf(h, Chain(h, ls[l]))]
QueuedIn(h, q)  == DataOf(h, Chain(h, q.head))

LEMMA StoredIs ==
  /\ Stored = StoredIn(heap, list) /\ Queued = QueuedIn(heap, queue)
  /\ Stored' = StoredIn(heap', list') /\ Queued' = QueuedIn(heap', queue')
<1>1. Stored = StoredIn(heap, list)
  BY DEF Stored, StoredIn, DataAlong, NodesOf, DataOf
<1>2. Queued = QueuedIn(heap, queue)
  BY DEF Queued, QueuedIn, DataAlong, DataOf
<1>3. Stored' = StoredIn(heap', list')
  BY DEF Stored, StoredIn, DataAlong, NodesOf, DataOf
<1>4. Queued' = QueuedIn(heap', queue')
  BY DEF Queued, QueuedIn, DataAlong, DataOf
<1> QED
  BY <1>1, <1>2, <1>3, <1>4

LEMMA StoredLaid ==
  ASSUME NEW h, NEW ls, NEW q, NEW W, Arranged(h, ls, q, W)
  PROVE  /\ StoredIn(h, ls) = [l \in Names |-> DataOf(h, W[l])]
         /\ QueuedIn(h, q) = DataOf(h, W[Null])
<1>1. /\ Laid(h, W)
      /\ ls = [l \in Names |-> NodeAt(W[l], 1)]
      /\ q = EndsOf(W[Null])
  BY DEF Arranged
<1>2. \A l \in Walks : Chain(h, NodeAt(W[l], 1)) = W[l]
  BY <1>1, ChainIs
<1>3. \A l \in Names : Chain(h, ls[l]) = W[l]
  BY <1>1, <1>2 DEF Walks
<1>4. q.head = NodeAt(W[Null], 1)
  BY <1>1 DEF EndsOf
<1>5. Chain(h, q.head) = W[Null]
  BY <1>2, <1>4 DEF Walks
<1>6. StoredIn(h, ls) = [l \in Names |-> DataOf(h, W[l])]
  BY <1>3 DEF StoredIn
<1> QED
  BY <1>5, <1>6 DEF QueuedIn

\* A call that changes what is stored in one list.
LEMMA ListBecomes ==
  ASSUME NEW h, NEW ls, NEW q, NEW W, Arranged(h, ls, q, W),
         NEW g, NEW ms, NEW r, NEW V, Arranged(g, ms, r, V),
         NEW l \in Names, NEW t, Becoming(h, W, g, V, l, t)
  PROVE  /\ StoredIn(g, ms) = [StoredIn(h, ls) EXCEPT ![l] = t]
         /\ QueuedIn(g, r) = QueuedIn(h, q)
<1>1. PICK a : a = [m \in Names |-> DataOf(h, W[m])]
  OBVIOUS
<1>2. PICK b : b = [m \in Names |-> DataOf(g, V[m])]
  OBVIOUS
<1>3. StoredIn(h, ls) = a /\ QueuedIn(h, q) = DataOf(h, W[Null])
  BY <1>1, StoredLaid
<1>4. StoredIn(g, ms) = b /\ QueuedIn(g, r) = DataOf(g, V[Null])
  BY <1>2, StoredLaid
<1>5. /\ DataOf(g, V[l]) = t
      /\ \A m \in Walks \ {l} : DataOf(g, V[m]) = DataOf(h, W[m])
  BY DEF Becoming
<1>6. Null \in Walks \ {l} /\ \A m \in Names : m # l => m \in Walks \ {l}
  BY LinksAssumption DEF Walks
<1>7. b = [a EXCEPT ![l] = t]
  BY <1>1, <1>2, <1>5, <1>6
<1> QED
  BY <1>3, <1>4, <1>5, <1>6, <1>7

\* ... in the queue
LEMMA QueueBecomes ==
  ASSUME NEW h, NEW ls, NEW q, NEW W, Arranged(h, ls, q, W),
         NEW g, NEW ms, NEW r, NEW V, Arranged(g, ms, r, V),
         NEW t, Becoming(h, W, g, V, Null, t)
  PROVE  StoredIn(g, ms) = StoredIn(h, ls) /\ QueuedIn(g, r) = t
<1>1. PICK a : a = [m \in Names |-> DataOf(h, W[m])]
  OBVIOUS
<1>2. PICK b : b = [m \in Names |-> DataOf(g, V[m])]
  OBVIOUS
<1>3. StoredIn(h, ls) = a
  BY <1>1, StoredLaid
<1>4. StoredIn(g, ms) = b /\ QueuedIn(g, r) = DataOf(g, V[Null])
  BY <1>2, StoredLaid
<1>5. /\ DataOf(g, V[Null]) = t
      /\ \A m \in Walks \ {Null} : DataOf(g, V[m]) = DataOf(h, W[m])
  BY DEF Becoming
<1>6. \A m \in Names : m \in Walks \ {Null}
  BY LinksAssumption DEF Walks
<1>7. b = a
  BY <1>1, <1>2, <1>5, <1>6
<1> QED
  BY <1>3, <1>4, <1>5, <1>7

\* ... in two lists
LEMMA ListsBecome ==
  ASSUME NEW h, NEW ls, NEW q, NEW W, Arranged(h, ls, q, W),
         NEW g, NEW ms, NEW r, NEW V, Arranged(g, ms, r, V),
         NEW l \in Names, NEW m \in Names \ {l}, NEW s, NEW t, BothBecome(h, W, g, V, l, s, m, t)
  PROVE  /\ StoredIn(g, ms) = [StoredIn(h, ls) EXCEPT ![l] = s, ![m] = t]
         /\ QueuedIn(g, r) = QueuedIn(h, q)
<1>1. PICK a : a = [x \in Names |-> DataOf(h, W[x])]
  OBVIOUS
<1>2. PICK b : b = [x \in Names |-> DataOf(g, V[x])]
  OBVIOUS
<1>3. StoredIn(h, ls) = a /\ QueuedIn(h, q) = DataOf(h, W[Null])
  BY <1>1, StoredLaid
<1>4. StoredIn(g, ms) = b /\ QueuedIn(g, r) = DataOf(g, V[Null])
  BY <1>2, StoredLaid
<1>5. /\ DataOf(g, V[l]) = s /\ DataOf(g, V[m]) = t
      /\ \A x \in Walks \ {l, m} : DataOf(g, V[x]) = DataOf(h, W[x])
  BY DEF BothBecome
<1>6. Null \in Walks \ {l, m} /\ \A x \in Names : x # l /\ x # m => x \in Walks \ {l, m}
  BY LinksAssumption DEF Walks
<1>7. b = [a EXCEPT ![l] = s, ![m] = t]
  BY <1>1, <1>2, <1>5, <1>6
<1> QED
  BY <1>3, <1>4, <1>5, <1>6, <1>7

LEMMA StoredAt ==
  ASSUME NEW W, Arranged(heap, list, queue, W)
  PROVE  /\ \A l \in Names : Stored[l] = DataOf(heap, W[l])
         /\ Queued = DataOf(heap, W[Null])
BY StoredIs, StoredLaid

\* The operators of Sequences2 are the same as here.
LEMMA LinksInsertIs == ASSUME NEW s, NEW p, NEW e PROVE LinksAbstract!InsertAt(s, p, e) = InsertAt(s, p, e)
BY DEF LinksAbstract!InsertAt, InsertAt

LEMMA LinksRemoveIs == ASSUME NEW s, NEW p PROVE LinksAbstract!RemoveAt(s, p) = RemoveAt(s, p)
BY DEF LinksAbstract!RemoveAt, RemoveAt

LEMMA LinksReverseIs == ASSUME NEW s PROVE LinksAbstract!Reverse(s) = Reverse(s)
BY DEF LinksAbstract!Reverse, Reverse

LEMMA LinksMinIs == ASSUME NEW B PROVE LinksAbstract!Min(B) = Min(B)
BY DEF LinksAbstract!Min, Min

LEMMA WithoutIs ==
  ASSUME NEW s, NEW d
  PROVE  LinksAbstract!Without(s, d) = KeptOf(s, d)[Len(s)]
<1> DEFINE f == CHOOSE kept : kept = [i \in 0..Len(s) |->
                  IF i = 0 THEN <<>> ELSE IF s[i] = d THEN kept[i - 1] ELSE Append(kept[i - 1], s[i])]
<1>1. LinksAbstract!Without(s, d) = f[Len(s)]
  BY DEF LinksAbstract!Without
<1>2. f = KeptOf(s, d)
  BY DEF KeptOf, IsKept, KeptAt
<1> QED
  BY <1>1, <1>2

\* The place of a sorted insertion is the only one in front of all that is not smaller.
LEMMA SortedPlaceIs ==
  ASSUME NEW s \in Seq(Data), NEW n \in Nat, n = Len(s), NEW d \in Data, NEW p \in 1..n + 1,
         \A i \in 1..p - 1 : s[i] < d, p # n + 1 => s[p] >= d
  PROVE  LinksAbstract!SortedPlace(s, d) = p
<1> DEFINE Is(x) == /\ x \in 1..Len(s) + 1
                    /\ \A i \in 1..x - 1 : s[i] < d
                    /\ x <= Len(s) => s[x] >= d
<1>1. Is(p)
  OBVIOUS
<1>2. \A i \in 1..n : s[i] \in Int
  <2>1. \A i \in 1..n : s[i] \in Data
    OBVIOUS
  <2> QED
    BY <2>1, LinksAssumption
<1>3. d \in Int
  BY LinksAssumption
<1>4. ASSUME NEW x, Is(x) PROVE x = p
  <2>1. x \in 1..n + 1 /\ p \in 1..n + 1
    BY <1>4
  <2>2. ~(x < p)
    <3> SUFFICES ASSUME x < p PROVE FALSE
      OBVIOUS
    <3>1. x \in 1..p - 1 /\ x \in 1..n
      BY <2>1
    <3>2. s[x] < d /\ s[x] >= d /\ s[x] \in Int
      BY <1>2, <1>4, <3>1
    <3> QED
      BY <1>3, <3>2
  <2>3. ~(p < x)
    <3> SUFFICES ASSUME p < x PROVE FALSE
      OBVIOUS
    <3>1. p \in 1..x - 1 /\ p \in 1..n
      BY <2>1
    <3>2. s[p] < d /\ s[p] >= d /\ s[p] \in Int
      BY <1>2, <1>4, <3>1
    <3> QED
      BY <1>3, <3>2
  <2> QED
    BY <2>1, <2>2, <2>3
<1>5. LinksAbstract!SortedPlace(s, d) = CHOOSE x : Is(x)
  BY DEF LinksAbstract!SortedPlace
<1> HIDE DEF Is
<1> QED
  BY <1>1, <1>4, <1>5

-----------------------------------------------------------------------------
\* A call is one of the calls of Sequences2 when it does to Stored, or Queued, what
\* that one does to sequences.
LEMMA CallIs ==
  ASSUME NEW c, NEW l, NEW x, NEW i, Call(c, l, x, i)
  PROVE  done' # <<>> /\ done'[1] = c /\ done'[2] = l /\ done'[3] = x /\ done'[4] = i
BY DEF Call

LEMMA ListCall ==
  ASSUME NEW c, NEW l, NEW x, NEW i, Call(c, l, x, i), LinksAbstract!SList(c, l, x, i)
  PROVE  LinksAbstract!SNext
BY CallIs DEF LinksAbstract!SNext

LEMMA TwoCall ==
  ASSUME NEW c, NEW l, NEW x, NEW i, Call(c, l, x, i), LinksAbstract!STwo(c, l, x, i)
  PROVE  LinksAbstract!SNext
BY CallIs DEF LinksAbstract!SNext

LEMMA QueueCall ==
  ASSUME NEW c, NEW l, NEW x, NEW i, Call(c, l, x, i), LinksAbstract!SQueue(c, x)
  PROVE  LinksAbstract!SNext
BY CallIs DEF LinksAbstract!SNext

LEMMA NextBecomes ==
  ASSUME NEW W, Arranged(heap, list, queue, W), NEW V, Arranged(heap', list', queue', V),
         NEW l \in Names, NEW t, Becoming(heap, W, heap', V, l, t)
  PROVE  LinksAbstract!Becomes(l, t)
<1>1. /\ StoredIn(heap', list') = [StoredIn(heap, list) EXCEPT ![l] = t]
      /\ QueuedIn(heap', queue') = QueuedIn(heap, queue)
  BY ListBecomes
<1> QED
  BY <1>1, StoredIs DEF LinksAbstract!Becomes

LEMMA NextQueued ==
  ASSUME NEW W, Arranged(heap, list, queue, W), NEW V, Arranged(heap', list', queue', V),
         NEW t, Becoming(heap, W, heap', V, Null, t)
  PROVE  Stored' = Stored /\ Queued' = t
<1>1. StoredIn(heap', list') = StoredIn(heap, list) /\ QueuedIn(heap', queue') = t
  BY QueueBecomes
<1> QED
  BY <1>1, StoredIs

\* What is stored in the list l, or in the queue, and where.
LEMMA StoredReads ==
  ASSUME NEW W, Arranged(heap, list, queue, W), NEW l \in Names
  PROVE  /\ Stored[l] \in Seq(Data) /\ Len(Stored[l]) = Len(W[l]) /\ Len(W[l]) \in Nat
         /\ \A i \in 1..Len(W[l]) : Stored[l][i] = heap[W[l][i]].data
         /\ Stored[l] = DataOf(heap, W[l])
<1>1. Laid(heap, W) /\ l \in Walks
  BY DEF Arranged, Walks
<1>2. Stored[l] = DataOf(heap, W[l])
  BY StoredAt
<1>3. /\ DataOf(heap, W[l]) \in Seq(Data) /\ Len(DataOf(heap, W[l])) = Len(W[l])
      /\ \A i \in 1..Len(W[l]) : DataOf(heap, W[l])[i] = heap[W[l][i]].data
  BY <1>1, DataOfIs
<1>4. Len(W[l]) \in Nat
  BY <1>1, LaidAt
<1> QED
  BY <1>2, <1>3, <1>4

LEMMA QueuedReads ==
  ASSUME NEW W, Arranged(heap, list, queue, W)
  PROVE  /\ Queued \in Seq(Data) /\ Len(Queued) = Len(W[Null]) /\ Len(W[Null]) \in Nat
         /\ Queued = DataOf(heap, W[Null])
<1>1. Laid(heap, W) /\ Null \in Walks
  BY DEF Arranged, Walks
<1>2. Queued = DataOf(heap, W[Null])
  BY StoredAt
<1>3. DataOf(heap, W[Null]) \in Seq(Data) /\ Len(DataOf(heap, W[Null])) = Len(W[Null])
  BY <1>1, DataOfIs
<1>4. Len(W[Null]) \in Nat
  BY <1>1, LaidAt
<1> QED
  BY <1>2, <1>3, <1>4

LEMMA InsertedBecomes ==
  ASSUME NEW W, Arranged(heap, list, queue, W), NEW V, Arranged(heap', list', queue', V),
         NEW l \in Names, NEW p \in 1..Len(W[l]) + 1, NEW d \in Data,
         InsertedIn(heap, W, heap', V, l, p, d)
  PROVE  LinksAbstract!Becomes(l, InsertAt(Stored[l], p, d))
<1>1. Laid(heap, W) /\ Laid(heap', V) /\ l \in Walks
  BY DEF Arranged, Walks
<1>2. Becoming(heap, W, heap', V, l, InsertAt(DataOf(heap, W[l]), p, d))
  BY <1>1, DataInserted
<1>3. Stored[l] = DataOf(heap, W[l])
  BY StoredReads
<1> QED
  BY <1>2, <1>3, NextBecomes

LEMMA RemovedBecomes ==
  ASSUME NEW W, Arranged(heap, list, queue, W), NEW V, Arranged(heap', list', queue', V),
         NEW l \in Names, NEW p \in 1..Len(W[l]), RemovedIn(heap, W, heap', V, l, p)
  PROVE  LinksAbstract!Becomes(l, RemoveAt(Stored[l], p))
<1>1. Laid(heap, W) /\ Laid(heap', V) /\ l \in Walks
  BY DEF Arranged, Walks
<1>2. Becoming(heap, W, heap', V, l, RemoveAt(DataOf(heap, W[l]), p))
  BY <1>1, DataRemoved
<1>3. Stored[l] = DataOf(heap, W[l])
  BY StoredReads
<1> QED
  BY <1>2, <1>3, NextBecomes

LEMMA InsertedQueued ==
  ASSUME NEW W, Arranged(heap, list, queue, W), NEW V, Arranged(heap', list', queue', V),
         NEW p \in 1..Len(W[Null]) + 1, NEW d \in Data, InsertedIn(heap, W, heap', V, Null, p, d)
  PROVE  Stored' = Stored /\ Queued' = InsertAt(Queued, p, d)
<1>1. Laid(heap, W) /\ Laid(heap', V) /\ Null \in Walks
  BY DEF Arranged, Walks
<1>2. Becoming(heap, W, heap', V, Null, InsertAt(DataOf(heap, W[Null]), p, d))
  BY <1>1, DataInserted
<1>3. Queued = DataOf(heap, W[Null])
  BY QueuedReads
<1> QED
  BY <1>2, <1>3, NextQueued

LEMMA RemovedQueued ==
  ASSUME NEW W, Arranged(heap, list, queue, W), NEW V, Arranged(heap', list', queue', V),
         NEW p \in 1..Len(W[Null]), RemovedIn(heap, W, heap', V, Null, p)
  PROVE  Stored' = Stored /\ Queued' = RemoveAt(Queued, p)
<1>1. Laid(heap, W) /\ Laid(heap', V) /\ Null \in Walks
  BY DEF Arranged, Walks
<1>2. Becoming(heap, W, heap', V, Null, RemoveAt(DataOf(heap, W[Null]), p))
  BY <1>1, DataRemoved
<1>3. Queued = DataOf(heap, W[Null])
  BY QueuedReads
<1> QED
  BY <1>2, <1>3, NextQueued

\* A sequence with one member more or less at one of its ends
LEMMA EndsAre ==
  ASSUME NEW S, NEW s \in Seq(S), NEW d \in S
  PROVE  /\ InsertAt(s, Len(s) + 1, d) = Append(s, d)
         /\ InsertAt(s, 1, d) = << d >> \o s
         /\ Len(s) # 0 => RemoveAt(s, 1) = Tail(s) /\ RemoveAt(s, Len(s)) = LinksAbstract!Front(s)
<1>1. PICK n \in Nat : n = Len(s) /\ DOMAIN s = 1..n
  BY LenProperties
<1>2. InsertAt(s, Len(s) + 1, d) = Append(s, d)
  <2>1. PICK u, v : u = InsertAt(s, n + 1, d) /\ v = Append(s, d)
    OBVIOUS
  <2>2. n + 1 \in 1..Len(s) + 1
    BY <1>1
  <2>3. u \in Seq(S) /\ Len(u) = n + 1 /\ \A i \in 1..n + 1 : u[i] = IF i < n + 1 THEN s[i] ELSE IF i = n + 1 THEN d ELSE s[i - 1]
    <3>1. InsertedAt(InsertAt(s, n + 1, d), S, s, n + 1, d)
      BY <1>1, <2>2, InsertAtPlaces
    <3> QED
      BY <1>1, <2>1, <3>1 DEF InsertedAt
  <2>4. v \in Seq(S) /\ Len(v) = n + 1 /\ \A i \in 1..n + 1 : v[i] = IF i < n + 1 THEN s[i] ELSE d
    BY <1>1, <2>1, AppendProperties
  <2>5. \A i \in 1..n + 1 : u[i] = v[i]
    BY <2>3, <2>4
  <2> QED
    BY <1>1, <2>1, <2>3, <2>4, <2>5, SameSequence
<1>3. InsertAt(s, 1, d) = << d >> \o s
  <2>1. PICK u, e, v : u = InsertAt(s, 1, d) /\ e = << d >> /\ v = e \o s
    OBVIOUS
  <2>2. e \in Seq(S) /\ Len(e) = 1 /\ e[1] = d
    BY <2>1
  <2>3. /\ v \in Seq(S) /\ Len(v) = Len(e) + Len(s)
        /\ \A i \in 1..Len(e) + Len(s) : v[i] = IF i <= Len(e) THEN e[i] ELSE s[i - Len(e)]
    BY <2>1, <2>2, ConcatProperties
  <2>4. Len(v) = n + 1 /\ \A i \in 1..n + 1 : v[i] = IF i = 1 THEN d ELSE s[i - 1]
    BY <1>1, <2>2, <2>3
  <2>5. 1 \in 1..Len(s) + 1
    BY <1>1
  <2>6. u \in Seq(S) /\ Len(u) = n + 1 /\ \A i \in 1..n + 1 : u[i] = IF i < 1 THEN s[i] ELSE IF i = 1 THEN d ELSE s[i - 1]
    BY <1>1, <2>1, <2>5, InsertAtPlaces DEF InsertedAt
  <2>7. \A i \in 1..n + 1 : u[i] = v[i]
    BY <2>4, <2>6
  <2>8. u = v
    BY <2>3, <2>4, <2>6, <2>7, SameSequence
  <2> QED
    BY <2>1, <2>8
<1>4. ASSUME Len(s) # 0 PROVE RemoveAt(s, 1) = Tail(s)
  <2>1. PICK u, v : u = RemoveAt(s, 1) /\ v = Tail(s)
    OBVIOUS
  <2>2. 1 \in 1..Len(s) /\ s # <<>>
    BY <1>1, <1>4
  <2>3. u \in Seq(S) /\ Len(u) = n - 1 /\ \A i \in 1..n - 1 : u[i] = IF i < 1 THEN s[i] ELSE s[i + 1]
    BY <1>1, <2>1, <2>2, RemoveAtPlaces DEF RemovedAt
  <2>4. v \in Seq(S) /\ Len(v) = n - 1 /\ \A i \in 1..n - 1 : v[i] = s[i + 1]
    BY <1>1, <2>1, <2>2, HeadTailProperties
  <2>5. \A i \in 1..n - 1 : u[i] = v[i]
    BY <2>3, <2>4
  <2>6. u = v
    BY <1>1, <2>3, <2>4, <2>5, SameSequence
  <2> QED
    BY <2>1, <2>6
<1>5. ASSUME Len(s) # 0 PROVE RemoveAt(s, Len(s)) = LinksAbstract!Front(s)
  <2>1. PICK u, v : u = RemoveAt(s, n) /\ v = LinksAbstract!Front(s)
    OBVIOUS
  <2>2. n \in 1..Len(s)
    BY <1>1, <1>5
  <2>3. u \in Seq(S) /\ Len(u) = n - 1 /\ \A i \in 1..n - 1 : u[i] = IF i < n THEN s[i] ELSE s[i + 1]
    BY <1>1, <2>1, <2>2, RemoveAtPlaces DEF RemovedAt
  <2>4. v = SubSeq(s, 1, n - 1)
    BY <1>1, <2>1 DEF LinksAbstract!Front
  <2>5. v \in Seq(S) /\ Len(v) = n - 1 /\ \A i \in 1..n - 1 : v[i] = s[i]
    BY <1>1, <2>2, <2>4, SubSeqProperties
  <2>6. \A i \in 1..n - 1 : u[i] = v[i]
    BY <2>3, <2>5
  <2>7. u = v
    BY <1>1, <2>3, <2>5, <2>6, SameSequence
  <2> QED
    BY <1>1, <2>1, <2>7
<1> QED
  BY <1>2, <1>3, <1>4, <1>5

-----------------------------------------------------------------------------
\* What every call makes of the lists.
LEMMA AppendImplements ==
  ASSUME NEW W, Arranged(heap, list, queue, W), NEW l \in Names, NEW d \in Data, Append1(l, d)
  PROVE  LinksAbstract!Becomes(l, Append(Stored[l], d))
<1>1. PICK V : /\ Arranged(heap', list', queue', V)
               /\ InsertedIn(heap, W, heap', V, l, Len(W[l]) + 1, d)
  BY Append1Does
<1>2. /\ Stored[l] \in Seq(Data) /\ Len(Stored[l]) = Len(W[l]) /\ Len(W[l]) \in Nat
  BY StoredReads
<1>3. Len(W[l]) + 1 \in 1..Len(W[l]) + 1
  BY <1>2
<1>4. LinksAbstract!Becomes(l, InsertAt(Stored[l], Len(W[l]) + 1, d))
  BY <1>1, <1>3, InsertedBecomes
<1>5. InsertAt(Stored[l], Len(W[l]) + 1, d) = Append(Stored[l], d)
  BY <1>2, EndsAre
<1> QED
  BY <1>4, <1>5

LEMMA PrependImplements ==
  ASSUME NEW W, Arranged(heap, list, queue, W), NEW l \in Names, NEW d \in Data, Prepend(l, d)
  PROVE  LinksAbstract!Becomes(l, << d >> \o Stored[l])
<1>1. PICK V : /\ Arranged(heap', list', queue', V)
               /\ InsertedIn(heap, W, heap', V, l, 1, d)
  BY PrependDoes
<1>2. /\ Stored[l] \in Seq(Data) /\ Len(Stored[l]) = Len(W[l]) /\ Len(W[l]) \in Nat
  BY StoredReads
<1>3. 1 \in 1..Len(W[l]) + 1
  BY <1>2
<1>4. LinksAbstract!Becomes(l, InsertAt(Stored[l], 1, d))
  BY <1>1, <1>3, InsertedBecomes
<1>5. InsertAt(Stored[l], 1, d) = << d >> \o Stored[l]
  BY <1>2, EndsAre
<1> QED
  BY <1>4, <1>5

LEMMA InsertImplements ==
  ASSUME NEW W, Arranged(heap, list, queue, W), NEW l \in Names, NEW d \in Data,
         NEW p \in 1..Len(W[l]), Insert(l, d, W[l][p])
  PROVE  LinksAbstract!Becomes(l, LinksAbstract!InsertAt(Stored[l], p, d))
<1>1. PICK V : /\ Arranged(heap', list', queue', V) /\ InsertedIn(heap, W, heap', V, l, p, d)
  BY InsertDoes
<1>2. Len(W[l]) \in Nat
  BY StoredReads
<1>3. p \in 1..Len(W[l]) + 1
  BY <1>2
<1>4. LinksAbstract!Becomes(l, InsertAt(Stored[l], p, d))
  BY <1>1, <1>3, InsertedBecomes
<1> QED
  BY <1>4, LinksInsertIs

LEMMA InsertSortedImplements ==
  ASSUME NEW W, Arranged(heap, list, queue, W), NEW l \in Names, NEW d \in Data, InsertSorted(l, d)
  PROVE  LinksAbstract!Becomes(l, LinksAbstract!InsertAt(Stored[l], LinksAbstract!SortedPlace(Stored[l], d), d))
<1>1. PICK V : \E p \in 1..Len(W[l]) + 1 :
           /\ Arranged(heap', list', queue', V) /\ InsertedIn(heap, W, heap', V, l, p, d)
           /\ \A i \in 1..p - 1 : ~(heap[W[l][i]].data >= d)
           /\ p # Len(W[l]) + 1 => heap[W[l][p]].data >= d
  BY InsertSortedDoes
<1>2. PICK p \in 1..Len(W[l]) + 1 :
           /\ Arranged(heap', list', queue', V) /\ InsertedIn(heap, W, heap', V, l, p, d)
           /\ \A i \in 1..p - 1 : ~(heap[W[l][i]].data >= d)
           /\ p # Len(W[l]) + 1 => heap[W[l][p]].data >= d
  BY <1>1
<1>3. /\ Stored[l] \in Seq(Data) /\ Len(Stored[l]) = Len(W[l]) /\ Len(W[l]) \in Nat
      /\ \A i \in 1..Len(W[l]) : Stored[l][i] = heap[W[l][i]].data
  BY StoredReads
<1>4. PICK s \in Seq(Data), n \in Nat : s = Stored[l] /\ n = Len(s) /\ n = Len(W[l])
  BY <1>3
<1>5. \A i \in 1..n : s[i] = heap[W[l][i]].data /\ s[i] \in Int
  <2>1. \A i \in 1..n : s[i] \in Data
    BY ONLY <1>4, s \in Seq(Data), n \in Nat, LenProperties
  <2> QED
    BY <1>3, <1>4, <2>1, LinksAssumption
<1>6. d \in Int /\ p \in 1..n + 1
  BY <1>4, LinksAssumption
<1>7. ASSUME NEW i \in 1..p - 1 PROVE s[i] < d
  <2>1. i \in 1..n
    BY <1>6
  <2>2. ~(s[i] >= d)
    BY <1>2, <1>5, <2>1
  <2> QED
    BY <1>5, <1>6, <2>1, <2>2
<1>8. p # n + 1 => s[p] >= d
  <2> SUFFICES ASSUME p # n + 1 PROVE s[p] >= d
    OBVIOUS
  <2>1. p \in 1..n
    BY <1>6
  <2> QED
    BY <1>2, <1>4, <1>5, <2>1
<1>9. LinksAbstract!SortedPlace(s, d) = p
  BY ONLY <1>4, <1>6, <1>7, <1>8, d \in Data, SortedPlaceIs
<1>10. LinksAbstract!Becomes(l, InsertAt(Stored[l], p, d))
  BY <1>2, InsertedBecomes
<1>11. LinksAbstract!InsertAt(Stored[l], p, d) = InsertAt(Stored[l], p, d)
  BY LinksInsertIs
<1> QED
  BY <1>4, <1>9, <1>10, <1>11

LEMMA RemoveImplements ==
  ASSUME NEW W, Arranged(heap, list, queue, W), NEW l \in Names, NEW d \in Data, RemoveData(l, d)
  PROVE  LinksAbstract!Becomes(l, LinksAbstract!RemoveAt(Stored[l],
           LinksAbstract!Min({p \in DOMAIN Stored[l] : Stored[l][p] = d})))
<1>1. PICK V : \E p \in 1..Len(W[l]) :
           /\ Arranged(heap', list', queue', V) /\ RemovedIn(heap, W, heap', V, l, p)
           /\ heap[W[l][p]].data = d /\ \A i \in 1..p - 1 : heap[W[l][i]].data # d
  BY RemoveDataDoes
<1>2. PICK p \in 1..Len(W[l]) :
           /\ Arranged(heap', list', queue', V) /\ RemovedIn(heap, W, heap', V, l, p)
           /\ heap[W[l][p]].data = d /\ \A i \in 1..p - 1 : heap[W[l][i]].data # d
  BY <1>1
<1>3. /\ Stored[l] \in Seq(Data) /\ Len(Stored[l]) = Len(W[l]) /\ Len(W[l]) \in Nat
      /\ \A i \in 1..Len(W[l]) : Stored[l][i] = heap[W[l][i]].data
  BY StoredReads
<1>4. PICK s \in Seq(Data), n \in Nat : s = Stored[l] /\ n = Len(s) /\ n = Len(W[l])
  BY <1>3
<1>5. DOMAIN s = 1..n /\ p \in 1..n /\ \A i \in 1..n : s[i] = heap[W[l][i]].data
  BY <1>3, <1>4
<1>6. PICK B : B = {i \in DOMAIN s : s[i] = d}
  OBVIOUS
<1>7. p \in B /\ B \subseteq Nat /\ \A i \in B : ~(i < p)
  <2>1. p \in B
    BY <1>2, <1>5, <1>6
  <2>2. ASSUME NEW i \in B, i < p PROVE FALSE
    <3>1. i \in 1..n /\ s[i] = d
      BY <1>5, <1>6
    <3>2. i \in 1..p - 1
      BY <1>5, <2>2, <3>1
    <3>3. heap[W[l][i]].data # d
      BY <1>2, <3>2
    <3> QED
      BY <1>5, <3>1, <3>3
  <2> QED
    BY <1>5, <1>6, <2>1, <2>2
<1>8. PICK x : x = Min(B)
  OBVIOUS
<1>9. x \in B /\ \A i \in B : x <= i
  BY <1>7, <1>8, MinIs
<1>10. x = p
  BY <1>7, <1>9
<1>11. LinksAbstract!Min(B) = p
  BY <1>8, <1>10, LinksMinIs
<1>12. LinksAbstract!Becomes(l, RemoveAt(Stored[l], p))
  BY <1>2, RemovedBecomes
<1>13. LinksAbstract!RemoveAt(Stored[l], p) = RemoveAt(Stored[l], p)
  BY LinksRemoveIs
<1> QED
  BY <1>4, <1>6, <1>11, <1>12, <1>13

LEMMA RemoveAllImplements ==
  ASSUME NEW W, Arranged(heap, list, queue, W), NEW l \in Names, NEW d \in Data, RemoveAll(l, d)
  PROVE  LinksAbstract!Becomes(l, LinksAbstract!Without(Stored[l], d))
<1>1. PICK V : /\ Arranged(heap', list', queue', V)
               /\ \A m \in Walks : m # l => V[m] = W[m]
               /\ \A x \in DOMAIN heap' : x \in DOMAIN heap /\ heap'[x].data = heap[x].data
               /\ Leading(heap, W[l], d, V[l], Len(W[l]), Len(V[l]))
  BY RemoveAllDoes
<1>2. PICK h, g : h = heap /\ g = heap'
  OBVIOUS
<1>3. Laid(h, W) /\ Laid(g, V) /\ l \in Walks
  BY <1>1, <1>2 DEF Arranged, Walks
<1>4. \A x \in DOMAIN g : x \in DOMAIN h /\ g[x].data = h[x].data
  BY <1>1, <1>2
<1>5. Leading(h, W[l], d, V[l], Len(W[l]), Len(V[l]))
  BY <1>1, <1>2
<1>6. \A m \in Walks : m # l => V[m] = W[m]
  BY <1>1
<1>7. Becoming(h, W, g, V, l, KeptOf(DataOf(h, W[l]), d)[Len(DataOf(h, W[l]))])
  BY ONLY <1>3, <1>4, <1>5, <1>6, DataKept
<1>8. Stored[l] = DataOf(h, W[l])
  BY <1>2, StoredReads
<1>9. Becoming(heap, W, heap', V, l, LinksAbstract!Without(Stored[l], d))
  BY <1>2, <1>7, <1>8, WithoutIs
<1> QED
  BY <1>1, <1>9, NextBecomes

LEMMA DeleteImplements ==
  ASSUME NEW W, Arranged(heap, list, queue, W), NEW l \in Names,
         NEW p \in 1..Len(W[l]), DeleteLink(l, W[l][p])
  PROVE  LinksAbstract!Becomes(l, LinksAbstract!RemoveAt(Stored[l], p))
<1>1. PICK V : Arranged(heap', list', queue', V) /\ RemovedIn(heap, W, heap', V, l, p)
  BY DeleteDoes
<1>2. LinksAbstract!Becomes(l, RemoveAt(Stored[l], p))
  BY <1>1, RemovedBecomes
<1> QED
  BY <1>2, LinksRemoveIs

LEMMA ReverseImplements ==
  ASSUME NEW W, Arranged(heap, list, queue, W), NEW l \in Names, ReverseList(l)
  PROVE  LinksAbstract!Becomes(l, LinksAbstract!Reverse(Stored[l]))
<1>1. PICK h, g, V : h = heap /\ g = heap' /\ V = [W EXCEPT ![l] = Reverse(W[l])]
  OBVIOUS
<1>2. Arranged(heap', list', queue', V) /\ \A x \in DOMAIN h : g[x].data = h[x].data
  BY <1>1, ReverseListDoes
<1>3. Laid(h, W) /\ Laid(g, V) /\ l \in Walks
  BY <1>1, <1>2 DEF Arranged, Walks
<1>4. Becoming(h, W, g, V, l, Reverse(DataOf(h, W[l])))
  BY <1>1, <1>2, <1>3, DataReversed
<1>5. Stored[l] = DataOf(h, W[l])
  BY <1>1, StoredReads
<1>6. Becoming(heap, W, heap', V, l, LinksAbstract!Reverse(Stored[l]))
  BY <1>1, <1>4, <1>5, LinksReverseIs
<1> QED
  BY <1>2, <1>6, NextBecomes

LEMMA FreeImplements ==
  ASSUME NEW W, Arranged(heap, list, queue, W), NEW l \in Names, FreeList(l)
  PROVE  LinksAbstract!Becomes(l, <<>>)
<1>1. PICK h, g, V : h = heap /\ g = heap' /\ V = [W EXCEPT ![l] = <<>>]
  OBVIOUS
<1>2. Arranged(heap', list', queue', V) /\ \A x \in DOMAIN g : x \in DOMAIN h /\ g[x] = h[x]
  BY <1>1, FreeListDoes
<1>3. Laid(h, W) /\ Laid(g, V) /\ l \in Walks
  BY <1>1, <1>2 DEF Arranged, Walks
<1>4. Becoming(h, W, g, V, l, <<>>)
  BY <1>1, <1>2, <1>3, DataEmptied
<1> QED
  BY <1>1, <1>2, <1>4, NextBecomes

LEMMA CopyImplements ==
  ASSUME NEW W, Arranged(heap, list, queue, W), NEW l \in Names, NEW m \in Names \ {l}, Copy(l, m)
  PROVE  LinksAbstract!Becomes(m, Stored[l])
<1>1. PICK new \in Seq(Nodes) :
        /\ Arranged(heap', list', queue', [W EXCEPT ![m] = new])
        /\ CopiedIn(heap, W, heap', l, new)
  BY CopyDoes
<1>2. PICK h, g, V : h = heap /\ g = heap' /\ V = [W EXCEPT ![m] = new]
  OBVIOUS
<1>3. Laid(h, W) /\ l \in Walks /\ m \in Walks \ {l}
  BY <1>2 DEF Arranged, Walks
<1>4. CopiedIn(h, W, g, l, new)
  BY <1>1, <1>2
<1>5. Becoming(h, W, g, [W EXCEPT ![m] = new], m, DataOf(h, W[l]))
  BY ONLY <1>3, <1>4, new \in Seq(Nodes), DataCopied
<1>6. Stored[l] = DataOf(h, W[l])
  BY <1>2, StoredReads
<1>7. Becoming(heap, W, heap', V, m, Stored[l]) /\ Arranged(heap', list', queue', V) /\ m \in Names
  BY <1>1, <1>2, <1>5, <1>6
<1> QED
  BY <1>7, NextBecomes

LEMMA ConcatImplements ==
  ASSUME NEW W, Arranged(heap, list, queue, W), NEW l \in Names, NEW m \in Names \ {l}, Concat(l, m)
  PROVE  /\ Stored' = [Stored EXCEPT ![l] = Stored[l] \o Stored[m], ![m] = <<>>]
         /\ Queued' = Queued
<1>1. PICK h, g, V : h = heap /\ g = heap' /\ V = Joined(W, l, m)
  OBVIOUS
<1>2. Arranged(heap', list', queue', V) /\ \A x \in DOMAIN h : g[x].data = h[x].data
  BY <1>1, ConcatDoes
<1>3. Laid(h, W) /\ Laid(g, Joined(W, l, m)) /\ l \in Walks /\ m \in Walks \ {l}
  BY <1>1, <1>2 DEF Arranged, Walks
<1>4. BothBecome(h, W, g, Joined(W, l, m), l, DataOf(h, W[l]) \o DataOf(h, W[m]), m, <<>>)
  BY ONLY <1>2, <1>3, DataJoined
<1>5. Stored[l] = DataOf(h, W[l]) /\ Stored[m] = DataOf(h, W[m])
  BY <1>1, StoredReads
<1>6. PICK s : s = Stored[l] \o Stored[m]
  OBVIOUS
<1>7. BothBecome(heap, W, heap', V, l, s, m, <<>>)
  BY <1>1, <1>4, <1>5, <1>6
<1>8. /\ StoredIn(heap', list') = [StoredIn(heap, list) EXCEPT ![l] = s, ![m] = <<>>]
      /\ QueuedIn(heap', queue') = QueuedIn(heap, queue)
  BY <1>2, <1>7, ListsBecome
<1> QED
  BY <1>6, <1>8, StoredIs

LEMMA RemoveLinkImplements ==
  ASSUME NEW W, Arranged(heap, list, queue, W), NEW l \in Names, NEW m \in Names \ {l},
         NEW p \in 1..Len(W[l]), RemoveLink(l, W[l][p], m)
  PROVE  /\ Stored' = [Stored EXCEPT ![l] = LinksAbstract!RemoveAt(Stored[l], p), ![m] = << Stored[l][p] >>]
         /\ Queued' = Queued
<1>1. W[m] = <<>> /\ \A x \in DOMAIN heap : heap'[x].data = heap[x].data
  BY RemoveLinkDoes
<1>2. PICK U, V : /\ Arranged(heap', list', queue', V)
                  /\ U = [W EXCEPT ![l] = RemoveAt(W[l], p)]
                  /\ V = [U EXCEPT ![m] = InsertAt(<<>>, 1, W[l][p])]
  BY RemoveLinkDoes
<1>3. PICK h, g : h = heap /\ g = heap'
  OBVIOUS
<1>4. Laid(h, W) /\ Laid(g, V) /\ l \in Walks /\ m \in Walks \ {l}
  BY <1>2, <1>3 DEF Arranged, Walks
<1>5. PICK w \in Seq(Nodes), n \in Nat : w = W[l] /\ n = Len(w)
  BY <1>4, LaidAt
<1>6. PICK k \in Nodes : k = W[l][p]
  BY <1>5
<1>7. InsertAt(<<>>, 1, k) = << k >>
  <2>1. <<>> \in Seq(Nodes) /\ Len(<<>>) = 0
    OBVIOUS
  <2>2. InsertAt(<<>>, 1, k) = << k >> \o <<>>
    BY <2>1, EndsAre
  <2>3. << k >> \in Seq(Nodes)
    OBVIOUS
  <2>4. << k >> \o <<>> = << k >>
    BY <2>3, ConcatEmptySeq
  <2> QED
    BY <2>2, <2>4
<1>8. V[l] = RemoveAt(W[l], p) /\ V[m] = << W[l][p] >> /\ \A r \in Walks \ {l, m} : V[r] = W[r]
  <2>1. DOMAIN W = Walks
    BY <1>4 DEF Laid
  <2>2. PICK t : t = RemoveAt(W[l], p)
    OBVIOUS
  <2>3. U[l] = t /\ DOMAIN U = Walks /\ \A r \in Walks \ {l} : U[r] = W[r]
    BY <1>2, <1>4, <2>1, <2>2
  <2>4. PICK e : e = << k >>
    OBVIOUS
  <2>5. V = [U EXCEPT ![m] = e]
    BY <1>2, <1>6, <1>7, <2>4
  <2>6. V[m] = e /\ \A r \in Walks \ {m} : V[r] = U[r]
    BY <1>4, <2>3, <2>5
  <2> QED
    BY <1>4, <1>6, <2>2, <2>3, <2>4, <2>6
<1>9. LoosenedIn(h, W, g, V, l, p, m)
  BY <1>1, <1>3, <1>8 DEF LoosenedIn
<1>10. BothBecome(h, W, g, V, l, RemoveAt(DataOf(h, W[l]), p), m, << DataOf(h, W[l])[p] >>)
  BY ONLY <1>4, <1>9, p \in 1..Len(W[l]), DataLoosened
<1>11. Stored[l] = DataOf(h, W[l])
  BY <1>3, StoredReads
<1>12. PICK s, t : s = LinksAbstract!RemoveAt(Stored[l], p) /\ t = << Stored[l][p] >>
  OBVIOUS
<1>13. s = RemoveAt(Stored[l], p)
  BY <1>12, LinksRemoveIs
<1>14. BothBecome(heap, W, heap', V, l, s, m, t)
  BY <1>3, <1>10, <1>11, <1>12, <1>13
<1>15. /\ StoredIn(heap', list') = [StoredIn(heap, list) EXCEPT ![l] = s, ![m] = t]
       /\ QueuedIn(heap', queue') = QueuedIn(heap, queue)
  BY <1>2, <1>14, ListsBecome
<1> QED
  BY <1>12, <1>15, StoredIs

LEMMA PushHeadImplements ==
  ASSUME NEW W, Arranged(heap, list, queue, W), NEW d \in Data, PushHead(d)
  PROVE  Stored' = Stored /\ Queued' = << d >> \o Queued
<1>1. PICK V : Arranged(heap', list', queue', V) /\ InsertedIn(heap, W, heap', V, Null, 1, d)
  BY PushHeadDoes
<1>2. Queued \in Seq(Data) /\ Len(W[Null]) \in Nat
  BY QueuedReads
<1>3. 1 \in 1..Len(W[Null]) + 1
  BY <1>2
<1>4. Stored' = Stored /\ Queued' = InsertAt(Queued, 1, d)
  BY <1>1, <1>3, InsertedQueued
<1>5. InsertAt(Queued, 1, d) = << d >> \o Queued
  BY <1>2, EndsAre
<1> QED
  BY <1>4, <1>5

LEMMA PushTailImplements ==
  ASSUME NEW W, Arranged(heap, list, queue, W), NEW d \in Data, PushTail(d)
  PROVE  Stored' = Stored /\ Queued' = Append(Queued, d)
<1>1. PICK V : /\ Arranged(heap', list', queue', V)
               /\ InsertedIn(heap, W, heap', V, Null, Len(W[Null]) + 1, d)
  BY PushTailDoes
<1>2. Queued \in Seq(Data) /\ Len(Queued) = Len(W[Null]) /\ Len(W[Null]) \in Nat
  BY QueuedReads
<1>3. Len(W[Null]) + 1 \in 1..Len(W[Null]) + 1
  BY <1>2
<1>4. Stored' = Stored /\ Queued' = InsertAt(Queued, Len(W[Null]) + 1, d)
  BY <1>1, <1>3, InsertedQueued
<1>5. InsertAt(Queued, Len(W[Null]) + 1, d) = Append(Queued, d)
  BY <1>2, EndsAre
<1> QED
  BY <1>4, <1>5

LEMMA PopHeadImplements ==
  ASSUME NEW W, Arranged(heap, list, queue, W), PopHead
  PROVE  Stored' = Stored /\ Queued' = Tail(Queued)
<1>1. PICK V : /\ Arranged(heap', list', queue', V) /\ RemovedIn(heap, W, heap', V, Null, 1)
               /\ 1 \in 1..Len(W[Null])
  BY PopHeadDoes
<1>2. Queued \in Seq(Data) /\ Len(Queued) = Len(W[Null]) /\ Len(W[Null]) \in Nat
  BY QueuedReads
<1>3. Stored' = Stored /\ Queued' = RemoveAt(Queued, 1)
  BY <1>1, RemovedQueued
<1>4. Len(Queued) # 0
  BY <1>1, <1>2
<1>5. PICK d : d \in Data
  BY <1>2, <1>4
<1>6. RemoveAt(Queued, 1) = Tail(Queued)
  BY <1>2, <1>4, <1>5, EndsAre
<1> QED
  BY <1>3, <1>6

LEMMA PopTailImplements ==
  ASSUME NEW W, Arranged(heap, list, queue, W), PopTail
  PROVE  Stored' = Stored /\ Queued' = LinksAbstract!Front(Queued)
<1>1. PICK V : /\ Arranged(heap', list', queue', V)
               /\ RemovedIn(heap, W, heap', V, Null, Len(W[Null])) /\ Len(W[Null]) # 0
  BY PopTailDoes
<1>2. Queued \in Seq(Data) /\ Len(Queued) = Len(W[Null]) /\ Len(W[Null]) \in Nat
  BY QueuedReads
<1>3. Len(W[Null]) \in 1..Len(W[Null])
  BY <1>1, <1>2
<1>4. Stored' = Stored /\ Queued' = RemoveAt(Queued, Len(W[Null]))
  BY <1>1, <1>3, RemovedQueued
<1>5. Len(Queued) # 0
  BY <1>1, <1>2
<1>6. PICK d : d \in Data
  BY <1>2, <1>5
<1>7. RemoveAt(Queued, Len(W[Null])) = LinksAbstract!Front(Queued)
  BY <1>2, <1>5, <1>6, EndsAre
<1> QED
  BY <1>4, <1>7

LEMMA FreeQueueImplements ==
  ASSUME NEW W, Arranged(heap, list, queue, W), FreeQueue
  PROVE  Stored' = Stored /\ Queued' = <<>>
<1>1. PICK h, g, V : h = heap /\ g = heap' /\ V = [W EXCEPT ![Null] = <<>>]
  OBVIOUS
<1>2. Arranged(heap', list', queue', V) /\ \A x \in DOMAIN g : x \in DOMAIN h /\ g[x] = h[x]
  BY <1>1, FreeQueueDoes
<1>3. Laid(h, W) /\ Laid(g, V) /\ Null \in Walks
  BY <1>1, <1>2 DEF Arranged, Walks
<1>4. Becoming(h, W, g, V, Null, <<>>)
  BY <1>1, <1>2, <1>3, DataEmptied
<1> QED
  BY <1>1, <1>2, <1>4, NextQueued

-----------------------------------------------------------------------------
LEMMA OneListImplements ==
  ASSUME NEW W, Arranged(heap, list, queue, W), NEW l \in Names, OneList(l)
  PROVE  LinksAbstract!SNext
<1>1. NodesOf(l) = W[l] /\ DOMAIN W[l] = 1..Len(W[l])
  <2>1. W[l] \in Seq(Nodes)
    BY DEF Arranged, Laid, Walks
  <2> QED
    BY <2>1, LinksRead
<1>2. ASSUME ReverseList(l), Call("reverse", l, 0, 0) PROVE LinksAbstract!SNext
  <2>1. LinksAbstract!SList("reverse", l, 0, 0)
    BY <1>2, ReverseImplements DEF LinksAbstract!SList
  <2> QED
    BY <1>2, <2>1, ListCall
<1>3. ASSUME FreeList(l), Call("free", l, 0, 0) PROVE LinksAbstract!SNext
  <2>1. LinksAbstract!SList("free", l, 0, 0)
    BY <1>3, FreeImplements DEF LinksAbstract!SList
  <2> QED
    BY <1>3, <2>1, ListCall
<1>4. ASSUME NEW d \in Data, Append1(l, d), Call("append", l, d, 0) PROVE LinksAbstract!SNext
  <2>1. LinksAbstract!SList("append", l, d, 0)
    BY <1>4, AppendImplements DEF LinksAbstract!SList
  <2> QED
    BY <1>4, <2>1, ListCall
<1>5. ASSUME NEW d \in Data, Prepend(l, d), Call("prepend", l, d, 0) PROVE LinksAbstract!SNext
  <2>1. LinksAbstract!SList("prepend", l, d, 0)
    BY <1>5, PrependImplements DEF LinksAbstract!SList
  <2> QED
    BY <1>5, <2>1, ListCall
<1>6. ASSUME NEW d \in Data, InsertSorted(l, d), Call("insert_sorted", l, d, 0) PROVE LinksAbstract!SNext
  <2>1. LinksAbstract!SList("insert_sorted", l, d, 0)
    BY <1>6, InsertSortedImplements DEF LinksAbstract!SList
  <2> QED
    BY <1>6, <2>1, ListCall
<1>7. ASSUME NEW d \in Data, RemoveData(l, d), Call("remove", l, d, 0) PROVE LinksAbstract!SNext
  <2>1. LinksAbstract!SList("remove", l, d, 0)
    BY <1>7, RemoveImplements DEF LinksAbstract!SList
  <2> QED
    BY <1>7, <2>1, ListCall
<1>8. ASSUME NEW d \in Data, RemoveAll(l, d), Call("remove_all", l, d, 0) PROVE LinksAbstract!SNext
  <2>1. LinksAbstract!SList("remove_all", l, d, 0)
    BY <1>8, RemoveAllImplements DEF LinksAbstract!SList
  <2> QED
    BY <1>8, <2>1, ListCall
<1>9. ASSUME NEW d \in Data, NEW i \in DOMAIN NodesOf(l), Insert(l, d, NodesOf(l)[i]), Call("insert", l, d, i)
      PROVE  LinksAbstract!SNext
  <2>1. i \in 1..Len(W[l]) /\ Insert(l, d, W[l][i])
    BY <1>1, <1>9
  <2>2. LinksAbstract!Becomes(l, LinksAbstract!InsertAt(Stored[l], i, d))
    BY <2>1, InsertImplements
  <2>3. LinksAbstract!SList("insert", l, d, i)
    BY <2>2 DEF LinksAbstract!SList
  <2> QED
    BY <1>9, <2>3, ListCall
<1>10. ASSUME NEW i \in DOMAIN NodesOf(l), DeleteLink(l, NodesOf(l)[i]), Call("delete_link", l, 0, i)
       PROVE  LinksAbstract!SNext
  <2>1. i \in 1..Len(W[l]) /\ DeleteLink(l, W[l][i])
    BY <1>1, <1>10
  <2>2. LinksAbstract!Becomes(l, LinksAbstract!RemoveAt(Stored[l], i))
    BY <2>1, DeleteImplements
  <2>3. LinksAbstract!SList("delete_link", l, 0, i)
    BY <2>2 DEF LinksAbstract!SList
  <2> QED
    BY <1>10, <2>3, ListCall
<1> QED
  BY <1>2, <1>3, <1>4, <1>5, <1>6, <1>7, <1>8, <1>9, <1>10 DEF OneList

LEMMA TwoListsImplement ==
  ASSUME NEW W, Arranged(heap, list, queue, W), NEW l \in Names, NEW m \in Names \ {l}, TwoLists(l, m)
  PROVE  LinksAbstract!SNext
<1>1. NodesOf(l) = W[l] /\ DOMAIN W[l] = 1..Len(W[l])
  <2>1. W[l] \in Seq(Nodes)
    BY DEF Arranged, Laid, Walks
  <2> QED
    BY <2>1, LinksRead
<1>2. ASSUME Concat(l, m), Call("concat", l, m, 0) PROVE LinksAbstract!SNext
  <2>1. /\ Stored' = [Stored EXCEPT ![l] = Stored[l] \o Stored[m], ![m] = <<>>]
        /\ Queued' = Queued
    BY <1>2, ConcatImplements
  <2>2. LinksAbstract!STwo("concat", l, m, 0)
    BY <2>1 DEF LinksAbstract!STwo
  <2> QED
    BY <1>2, <2>2, TwoCall
<1>3. ASSUME Copy(l, m), Call("copy", l, m, 0) PROVE LinksAbstract!SNext
  <2>1. LinksAbstract!Becomes(m, Stored[l])
    BY <1>3, CopyImplements
  <2>2. LinksAbstract!STwo("copy", l, m, 0)
    BY <2>1 DEF LinksAbstract!STwo, LinksAbstract!Becomes
  <2> QED
    BY <1>3, <2>2, TwoCall
<1>4. ASSUME NEW i \in DOMAIN NodesOf(l), RemoveLink(l, NodesOf(l)[i], m), Call("remove_link", l, m, i)
      PROVE  LinksAbstract!SNext
  <2>1. i \in 1..Len(W[l]) /\ RemoveLink(l, W[l][i], m)
    BY <1>1, <1>4
  <2>2. /\ Stored' = [Stored EXCEPT ![l] = LinksAbstract!RemoveAt(Stored[l], i), ![m] = << Stored[l][i] >>]
        /\ Queued' = Queued
    BY <2>1, RemoveLinkImplements
  <2>3. LinksAbstract!STwo("remove_link", l, m, i)
    BY <2>2 DEF LinksAbstract!STwo
  <2> QED
    BY <1>4, <2>3, TwoCall
<1> QED
  BY <1>2, <1>3, <1>4 DEF TwoLists

LEMMA QueueImplements ==
  ASSUME NEW W, Arranged(heap, list, queue, W), Queue
  PROVE  LinksAbstract!SNext
<1>1. ASSUME NEW d \in Data, PushHead(d), Call("push_head", Null, d, 0) PROVE LinksAbstract!SNext
  <2>1. LinksAbstract!SQueue("push_head", d)
    BY <1>1, PushHeadImplements DEF LinksAbstract!SQueue
  <2> QED
    BY <1>1, <2>1, QueueCall
<1>2. ASSUME NEW d \in Data, PushTail(d), Call("push_tail", Null, d, 0) PROVE LinksAbstract!SNext
  <2>1. LinksAbstract!SQueue("push_tail", d)
    BY <1>2, PushTailImplements DEF LinksAbstract!SQueue
  <2> QED
    BY <1>2, <2>1, QueueCall
<1>3. ASSUME PopHead, Call("pop_head", Null, 0, 0) PROVE LinksAbstract!SNext
  <2>1. LinksAbstract!SQueue("pop_head", 0)
    BY <1>3, PopHeadImplements DEF LinksAbstract!SQueue
  <2> QED
    BY <1>3, <2>1, QueueCall
<1>4. ASSUME PopTail, Call("pop_tail", Null, 0, 0) PROVE LinksAbstract!SNext
  <2>1. LinksAbstract!SQueue("pop_tail", 0)
    BY <1>4, PopTailImplements DEF LinksAbstract!SQueue
  <2> QED
    BY <1>4, <2>1, QueueCall
<1>5. ASSUME FreeQueue, Call("queue_free", Null, 0, 0) PROVE LinksAbstract!SNext
  <2>1. LinksAbstract!SQueue("queue_free", 0)
    BY <1>5, FreeQueueImplements DEF LinksAbstract!SQueue
  <2> QED
    BY <1>5, <2>1, QueueCall
<1> QED
  BY <1>1, <1>2, <1>3, <1>4, <1>5 DEF Queue

LEMMA LinksImplementStep ==
  ASSUME LinksInv, [LinksNext]_links
  PROVE  [LinksAbstract!SNext]_<<Stored, Queued, done>>
<1>1. PICK W : Arranged(heap, list, queue, W)
  BY DEF LinksInv
<1>2. CASE UNCHANGED links
  <2>1. heap' = heap /\ list' = list /\ queue' = queue /\ done' = done
    BY <1>2 DEF links
  <2>2. Stored' = Stored /\ Queued' = Queued
    BY <2>1, StoredIs
  <2> QED
    BY <2>1, <2>2
<1>3. CASE Queue
  BY <1>1, <1>3, QueueImplements
<1>4. ASSUME NEW l \in Names, OneList(l) PROVE LinksAbstract!SNext
  BY <1>1, <1>4, OneListImplements
<1>5. ASSUME NEW l \in Names, NEW m \in Names \ {l}, TwoLists(l, m) PROVE LinksAbstract!SNext
  BY <1>1, <1>5, TwoListsImplement
<1> QED
  BY <1>2, <1>3, <1>4, <1>5 DEF LinksNext

LEMMA LinksImplementInit == LinksInit => LinksAbstract!SInit
<1> SUFFICES ASSUME LinksInit PROVE LinksAbstract!SInit
  OBVIOUS
<1>1. PICK W : Arranged(heap, list, queue, W)
  BY LinksInitially DEF LinksInv
<1>2. /\ \A l \in Names : NodeAt(W[l], 1) = Null
      /\ NodeAt(W[Null], 1) = Null
  BY <1>1 DEF LinksInit, Arranged, EndsOf
<1>3. Laid(heap, W) /\ \A l \in Walks : NodeAt(W[l], 1) = Null
  BY <1>1, <1>2 DEF Arranged, Walks
<1>4. ASSUME NEW l \in Walks PROVE DataOf(heap, W[l]) = <<>>
  <2>1. PICK w \in Seq(Nodes), n \in Nat : w = W[l] /\ n = Len(w) /\ DOMAIN w = 1..n
    BY <1>3, LaidAt
  <2>2. 1 \notin 1..n
    BY <1>3, <2>1, LaidAt
  <2>3. w = <<>>
    BY <2>1, <2>2, EmptySeq
  <2> QED
    BY <2>1, <2>3 DEF DataOf
<1>5. Stored = StoredIn(heap, list) /\ Queued = QueuedIn(heap, queue)
  BY StoredIs
<1>6. Stored = [l \in Names |-> DataOf(heap, W[l])] /\ Queued = DataOf(heap, W[Null])
  BY <1>1, <1>5, StoredLaid
<1>7. Stored = [l \in Names |-> <<>>] /\ Queued = <<>>
  BY <1>4, <1>6 DEF Walks
<1> QED
  BY <1>7 DEF LinksAbstract!SInit, LinksInit

\* Call by call, the linked nodes do to the data of the lists and of the queue what
\* the call says (xlist.c, xqueue.c), for any lists, data and nodes.
THEOREM LinksImplementCorrect == LinksSpec => LinksImplement
<1>1. LinksInit => LinksInv /\ LinksAbstract!SInit
  BY LinksInitially, LinksImplementInit
<1>2. LinksInv /\ [LinksNext]_links => LinksInv' /\ [LinksAbstract!SNext]_<<Stored, Queued, done>>
  BY LinksStep, LinksImplementStep
<1> QED
  BY <1>1, <1>2, PTL DEF LinksSpec, LinksImplement, LinksAbstract!SSpec, LinksAbstract!svars

-----------------------------------------------------------------------------
(* Every part keeps its types, and the lists and the idlist their shape.    *)

\* Every selector on the main thread is of an operation of its own that has posted it
\* and is not over; so the connection is set up at most once for every operation.
Over == {o \in Ops : op[o].at = "over"}
PostedOnce ==
  /\ \A i \in 1..Len(main) : op[main[i][1]].at = "posted"
  /\ \A i, j \in 1..Len(main) : main[i][1] = main[j][1] => i = j
SetupsCounted ==
  /\ cipc \in Ops \cup {Nothing} /\ answered \subseteq Ops
  /\ PostedOnce
  /\ setups \in Nat /\ setups <= Cardinality(Over)

\* A move that neither posts nor ends.
LEMMA MoveKeepsPosted ==
  ASSUME Shape, PostedOnce, NEW o \in Ops, op[o].at \notin {"posted", "over"}, UNCHANGED main,
         NEW x, x.at \notin {"posted", "over"}, op' = [op EXCEPT ![o] = x]
  PROVE  PostedOnce' /\ Over' = Over
<1>1. \A i \in 1..Len(main) : main[i][1] \in Ops
  BY DEF Shape
<1>2. DOMAIN op = Ops
  BY DEF Shape
<1>3. \A p \in Ops : op'[p] = IF p = o THEN x ELSE op[p]
  BY <1>2
<1>4. \A i \in 1..Len(main) : op'[main[i][1]].at = "posted"
  BY <1>1, <1>3 DEF PostedOnce
<1>5. Over' = Over
  BY <1>3 DEF Over
<1> QED
  BY <1>4, <1>5 DEF PostedOnce

LEMMA PostingKeepsPosted ==
  ASSUME Shape, PostedOnce, NEW o \in Ops, op[o].at \notin {"posted", "over"},
         NEW s \in {"didConnect", "errorOnConnect"}, Post(o, s), Moves(o, "posted")
  PROVE  PostedOnce' /\ Over' = Over
<1>1. PICK n \in Nat : n = Len(main)
  BY DEF Shape
<1>2. PICK x \in Ops \X {"didConnect", "errorOnConnect"} : x = <<o, s>> /\ x[1] = o
  <2>1. <<o, s>> \in Ops \X {"didConnect", "errorOnConnect"} /\ <<o, s>>[1] = o
    OBVIOUS
  <2> QED
    BY <2>1
<1>3. /\ Len(main') = n + 1 /\ main'[n + 1] = x /\ \A i \in 1..n : main'[i] = main[i]
  <2>1. main' = Append(main, x) /\ main \in Seq(Ops \X {"didConnect", "errorOnConnect"})
    BY <1>2 DEF Post, Shape
  <2> QED
    BY <1>1, <1>2, <2>1
<1>4. \A i \in 1..n : main[i][1] \in Ops
  BY <1>1 DEF Shape
<1>5. /\ \A p \in Ops : op'[p].at = IF p = o THEN "posted" ELSE op[p].at
  BY DEF Moves, Shape
<1>6. \A i \in 1..n : op[main[i][1]].at = "posted" /\ main[i][1] # o
  BY <1>1 DEF PostedOnce
<1>7. \A i \in 1..n + 1 : i \in 1..n \/ i = n + 1
  BY <1>1
<1>8. \A i \in 1..n + 1 : op'[main'[i][1]].at = "posted"
  BY <1>2, <1>3, <1>4, <1>5, <1>6, <1>7
<1>9. ASSUME NEW i \in 1..n + 1, NEW j \in 1..n + 1, main'[i][1] = main'[j][1]
      PROVE  i = j
  <2>1. CASE i \in 1..n /\ j \in 1..n
    <3>1. main[i][1] = main[j][1]
      BY <1>3, <1>9, <2>1
    <3> QED
      BY <1>1, <2>1, <3>1 DEF PostedOnce
  <2>2. CASE i \in 1..n /\ j = n + 1
    BY <1>2, <1>3, <1>6, <1>9, <2>2
  <2>3. CASE i = n + 1 /\ j \in 1..n
    BY <1>2, <1>3, <1>6, <1>9, <2>3
  <2> QED
    BY <1>7, <2>1, <2>2, <2>3
<1>10. Over' = Over
  BY <1>5 DEF Over
<1> QED
  BY <1>3, <1>8, <1>9, <1>10 DEF PostedOnce

LEMMA CallingCounts ==
  ASSUME Shape, SetupsCounted, CallMain
  PROVE  SetupsCounted'
<1>1. PICK n \in Nat : n = Len(main) /\ n >= 1
  <2>1. main \in Seq(Ops \X {"didConnect", "errorOnConnect"}) /\ main # <<>>
    BY DEF Shape, CallMain
  <2> QED
    BY <2>1
<1>2. PICK o \in Ops : o = main[1][1] /\ o = Head(main)[1] /\ op[o].at = "posted"
  <2>1. main[1] \in Ops \X {"didConnect", "errorOnConnect"} /\ Head(main) = main[1]
    BY <1>1 DEF Shape
  <2> QED
    BY <1>1, <2>1 DEF SetupsCounted, PostedOnce
<1>3. Len(main') = n - 1 /\ \A i \in 1..n - 1 : main'[i] = main[i + 1]
  <2>1. main' = Tail(main) /\ main \in Seq(Ops \X {"didConnect", "errorOnConnect"})
    BY DEF CallMain, Rest, Shape
  <2> QED
    BY <1>1, <2>1
<1>4. \A p \in Ops : op'[p].at = IF p = o THEN "over" ELSE op[p].at
  BY <1>2 DEF CallMain, Moves, Shape
<1>5. \A i \in 1..n - 1 : /\ main[i + 1][1] \in Ops /\ op[main[i + 1][1]].at = "posted"
                          /\ main[i + 1][1] # o
  <2> SUFFICES ASSUME NEW i \in 1..n - 1
               PROVE  /\ main[i + 1][1] \in Ops /\ op[main[i + 1][1]].at = "posted"
                      /\ main[i + 1][1] # o
    OBVIOUS
  <2>1. PICK j \in 1..n : j = i + 1 /\ j # 1
    BY <1>1
  <2>2. main[j] \in Ops \X {"didConnect", "errorOnConnect"}
    BY <1>1, <2>1 DEF Shape
  <2>3. op[main[j][1]].at = "posted" /\ (main[j][1] = main[1][1] => j = 1)
    BY <1>1, <2>1 DEF SetupsCounted, PostedOnce
  <2> QED
    BY <1>2, <2>1, <2>2, <2>3
<1>6. PostedOnce'
  <2>1. \A i \in 1..n - 1 : op'[main'[i][1]].at = "posted"
    BY <1>3, <1>4, <1>5
  <2>2. ASSUME NEW i \in 1..n - 1, NEW j \in 1..n - 1, main'[i][1] = main'[j][1]
        PROVE  i = j
    <3>1. main[i + 1][1] = main[j + 1][1]
      BY <1>3, <2>2
    <3>2. i + 1 \in 1..n /\ j + 1 \in 1..n
      BY <1>1
    <3>3. i + 1 = j + 1
      BY <1>1, <3>1, <3>2 DEF SetupsCounted, PostedOnce
    <3> QED
      BY <3>3
  <2> QED
    BY <1>3, <2>1, <2>2 DEF PostedOnce
<1>7. Over' = Over \cup {o} /\ o \notin Over
  BY <1>2, <1>4 DEF Over
<1>8. IsFiniteSet(Over) /\ Cardinality(Over) \in Nat
  <2>1. Over \subseteq Ops
    BY DEF Over
  <2> QED
    BY <2>1, ConnectAssumption, FS_Subset, FS_CardinalityType
<1>9. Cardinality(Over') = Cardinality(Over) + 1
  BY <1>7, <1>8, FS_AddElement
<1>10. setups' \in Nat /\ setups' <= Cardinality(Over')
  <2>1. setups' \in {setups, setups + 1}
    BY DEF CallMain
  <2> QED
    BY <1>8, <1>9, <2>1 DEF SetupsCounted
<1> QED
  BY <1>6, <1>10 DEF SetupsCounted, CallMain

LEMMA SetupsCountedStep ==
  ASSUME Shape, SetupsCounted, [ConnectNext]_connectVars
  PROVE  SetupsCounted'
<1>1. PostedOnce
  BY DEF SetupsCounted
<1>2. ASSUME NEW path \in Paths, ConnectToPath(path) PROVE SetupsCounted'
  <2>1. PICK o \in Ops : At(o, "unused") /\ Moves(o, "queued") /\ UNCHANGED main
    BY <1>2 DEF ConnectToPath
  <2>2. PICK x : x = [op[o] EXCEPT !.at = "queued"] /\ x.at = "queued" /\ op' = [op EXCEPT ![o] = x]
    BY <2>1 DEF Moves, Shape
  <2>3. PostedOnce' /\ Over' = Over
    BY <1>1, <2>1, <2>2, MoveKeepsPosted DEF At
  <2> QED
    BY <1>2, <2>3 DEF SetupsCounted, ConnectToPath
<1>3. ASSUME NEW o \in Ops, WritePath(o) PROVE SetupsCounted'
  <2>1. PICK x : x = [op[o] EXCEPT !.at = "written"] /\ x.at = "written" /\ op' = [op EXCEPT ![o] = x]
    BY <1>3 DEF WritePath, Moves, Shape
  <2>2. PostedOnce' /\ Over' = Over
    BY <1>1, <1>3, <2>1, MoveKeepsPosted DEF WritePath, At
  <2> QED
    BY <1>3, <2>2 DEF SetupsCounted, WritePath, phone
<1>4. ASSUME NEW o \in Ops, Dial(o) PROVE SetupsCounted'
  <2>1. PostedOnce' /\ Over' = Over
    <3>1. CASE op' = [op EXCEPT ![o] = [at |-> "dialled", path |-> cpath]] /\ UNCHANGED main
      <4>1. PICK x : /\ x = [at |-> "dialled", path |-> cpath] /\ x.at = "dialled"
                     /\ op' = [op EXCEPT ![o] = x]
        BY <3>1
      <4> QED
        BY <1>1, <1>4, <3>1, <4>1, MoveKeepsPosted DEF Dial, At
    <3>2. CASE Moves(o, "posted") /\ Post(o, "errorOnConnect")
      BY <1>1, <1>4, <3>2, PostingKeepsPosted DEF Dial, At
    <3> QED
      BY <1>4, <3>1, <3>2 DEF Dial
  <2> QED
    BY <1>4, <2>1 DEF SetupsCounted, Dial, phone
<1>5. ASSUME NEW o \in Ops, SetIpc(o) PROVE SetupsCounted'
  <2>1. PICK x : x = [op[o] EXCEPT !.at = "hello"] /\ x.at = "hello" /\ op' = [op EXCEPT ![o] = x]
    BY <1>5 DEF SetIpc, Moves, Shape
  <2>2. PostedOnce' /\ Over' = Over
    BY <1>1, <1>5, <2>1, MoveKeepsPosted DEF SetIpc, At
  <2> QED
    BY <1>5, <2>2 DEF SetupsCounted, SetIpc, phone
<1>6. ASSUME NEW o \in Ops, NEW answer, Answer(o, answer) PROVE SetupsCounted'
  <2>1. Verdict(answer) \in {"didConnect", "errorOnConnect"}
    BY DEF Verdict
  <2>2. PostedOnce' /\ Over' = Over
    BY <1>1, <1>6, <2>1, PostingKeepsPosted DEF Answer, At
  <2> QED
    BY <1>6, <2>2 DEF SetupsCounted, Answer, phone
<1>7. CASE CallMain
  BY <1>7, CallingCounts
<1>8. CASE UNCHANGED connectVars
  BY <1>8 DEF connectVars, SetupsCounted, PostedOnce, Over
<1> QED
  BY <1>2, <1>3, <1>4, <1>5, <1>6, <1>7, <1>8 DEF ConnectNext

LEMMA SetupsCountedInit == ConnectInit => SetupsCounted
<1> SUFFICES ASSUME ConnectInit PROVE SetupsCounted
  OBVIOUS
<1>1. Over = {}
  BY DEF ConnectInit, Over
<1>2. Cardinality(Over) = 0
  BY <1>1, FS_EmptySet
<1>3. PostedOnce
  BY DEF ConnectInit, PostedOnce
<1> QED
  BY <1>2, <1>3 DEF ConnectInit, SetupsCounted

LEMMA ConnectTyped == ASSUME Shape, SetupsCounted PROVE ConnectTypeOK
<1>1. Over \subseteq Ops
  BY DEF Over
<1>2. Cardinality(Over) <= Cardinality(Ops) /\ Cardinality(Over) \in Nat /\ Cardinality(Ops) \in Nat
  BY <1>1, ConnectAssumption, FS_Subset, FS_CardinalityType
<1>3. setups \in 0..Cardinality(Ops)
  BY <1>2 DEF SetupsCounted
<1>4. {isConnected, overlapped, broke} \subseteq BOOLEAN
  BY Zenon DEF Shape
<1>5. main \in Seq(Ops \X {"didConnect", "errorOnConnect"})
  BY DEF Shape
<1>6. op \in [Ops -> [at : {"unused", "queued", "written", "dialled", "hello", "posted", "over"},
                      path : Paths \cup {Nothing}]]
  BY DEF Shape, States
<1> QED
  BY <1>3, <1>4, <1>5, <1>6 DEF ConnectTypeOK, SetupsCounted, Shape

-----------------------------------------------------------------------------
PartsInv == CollInv /\ Shape /\ SetupsCounted /\ IdlInv /\ LinksInv /\ VisInv

LEMMA PartsMove ==
  [PartsNext]_PartsVars => /\ [Next]_vars /\ [IdlistNext]_idlist /\ [LinksNext]_links
                           /\ [ConnectNext]_connectVars /\ [Vis!Next]_vis
BY DEF PartsNext, PartsVars

LEMMA PartsInvStep == PartsInv /\ [PartsNext]_PartsVars => PartsInv'
<1> SUFFICES ASSUME PartsInv, [PartsNext]_PartsVars PROVE PartsInv'
  OBVIOUS
<1>1. /\ [Next]_vars /\ [IdlistNext]_idlist /\ [LinksNext]_links
      /\ [ConnectNext]_connectVars /\ [Vis!Next]_vis
  BY PartsMove
<1>2. CollInv'
  BY <1>1, CollInvStep DEF PartsInv
<1>3. Shape' /\ SetupsCounted'
  BY <1>1, ConnectShapeStep, SetupsCountedStep DEF PartsInv
<1>4. IdlInv'
  BY <1>1, IdlStep DEF PartsInv
<1>5. LinksInv'
  BY <1>1, LinksStep DEF PartsInv
<1>6. VisInv'
  BY <1>1, VisInvStep DEF PartsInv
<1> QED
  BY <1>2, <1>3, <1>4, <1>5, <1>6 DEF PartsInv

LEMMA PartsInvInit == PartsInit => PartsInv
<1> SUFFICES ASSUME PartsInit PROVE PartsInv
  OBVIOUS
<1>1. Init /\ IdlistInit /\ LinksInit /\ ConnectInit /\ Vis!Init
  BY DEF PartsInit
<1>2. Shape
  BY <1>1, ConnectInvInit DEF ConnectInv
<1> QED
  BY <1>1, <1>2, CollInvInit, SetupsCountedInit, IdlInitially, LinksInitially, VisInvInit DEF PartsInv

LEMMA VisTyped == VisType => Vis!TypeOK
<1> SUFFICES ASSUME VisType PROVE Vis!TypeOK
  OBVIOUS
<1>1. sync \in [of : Sets \cup {Nobody}, flying : 0..Rounds, got : 0..Rounds, lost : BOOLEAN]
  BY DEF VisType, Syncs
<1> QED
  BY <1>1 DEF VisType, Vis!TypeOK, DataSets, Replies, Faults

\* The five parts keep their types, with at most one set-up for every request; the ids
\* are found up to the first 0 (coll.c), lists and queue can be walked both ways, lose
\* no node, and the queue knows its ends (xlist.c, xqueue.c).
THEOREM WellFormedCorrect == PartsSpec => []WellFormed
<1>1. PartsInv => WellFormed
  <2> SUFFICES ASSUME PartsInv PROVE WellFormed
    OBVIOUS
  <2>1. TypeOK /\ ConnectTypeOK
    BY ConnectTyped DEF PartsInv, CollInv
  <2>2. IdlistTypeOK /\ ReadToZero
    BY IdlTypes, IdlReads DEF PartsInv
  <2>3. LinksTypeOK /\ TwoWay /\ NoneLost /\ QueueEnds
    BY LinksKept DEF PartsInv
  <2>4. Vis!TypeOK
    BY VisTyped DEF PartsInv, VisInv
  <2> QED
    BY <2>1, <2>2, <2>3, <2>4 DEF WellFormed
<1> QED
  BY <1>1, PartsInvInit, PartsInvStep, PTL DEF PartsSpec

\* The array of ids of coll.c and the linked lists of xlist.c and xqueue.c implement
\* sequences, call by call, when the parts run side by side.
THEOREM PartsImplementCorrect == PartsSpec => PartsImplement
<1>1. PartsInit => IdlInv /\ IdsAbstract!IInit /\ LinksInv /\ LinksAbstract!SInit
  BY IdlInitially, LinksInitially, LinksImplementInit DEF PartsInit
<1>2. IdlInv /\ LinksInv /\ [PartsNext]_PartsVars =>
        /\ IdlInv' /\ [IdsAbstract!INext]_<<Contents, asked>>
        /\ LinksInv' /\ [LinksAbstract!SNext]_<<Stored, Queued, done>>
  BY PartsMove, IdlStep, LinksStep, LinksImplementStep
<1> QED
  BY <1>1, <1>2, PTL DEF PartsSpec, PartsImplement, IdlistImplements, LinksImplement,
     IdsAbstract!ISpec, LinksAbstract!SSpec, LinksAbstract!svars
=============================================================================
