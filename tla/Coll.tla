-------------------------------- MODULE Coll --------------------------------
(***************************************************************************)
(* The collections of coll.c as a graph: a collection is kept by the       *)
(* references of the application and by the operand lists it stands in.    *)
(* XMMSCollection.m is such an application.                                *)
(*                                                                         *)
(* An operand list holds no collection twice, so that it is a set of edges *)
(* here, from the collection to the operand.  Freeing a collection frees   *)
(* its operand list, which gives the reference to every operand back, which*)
(* may free the operand: these nested calls are steps of their own, and    *)
(* nothing else happens between them.  The idlist is in Idlist.            *)
(***************************************************************************)
EXTENDS Integers, FiniteSets

CONSTANTS
  Colls,     \* the places in memory for a collection
  Fields,    \* the keys of attributes
  Texts,     \* the values of attributes
  None,      \* no collection
  MaxRef     \* bound: references of the application to one collection

ASSUME CollAssumption == IsFiniteSet(Colls) /\ None \notin Colls /\ MaxRef \in Nat \ {0}

VARIABLES
  ref,       \* coll->ref
  app,       \* the references that the application owns
  edges,     \* the entries of the operand lists: <<collection, operand>>
  attrs,     \* coll->attributes
  inside     \* the collection whose operand list is being changed

vars == <<ref, app, edges, attrs, inside>>

Into(c) == {e \in edges : e[2] = c}

\* An operand list is being freed when its collection has no reference any more.
Dying == {e \in edges : ref[e[1]] = 0}
Idle  == Dying = {} /\ inside = None

\* What the application may use: what it owns a reference to, and what it finds in
\* the operand lists of those.
Usable(c) ==
  \A S \in SUBSET Colls :
    /\ {d \in Colls : app[d] > 0} \subseteq S
    /\ \A e \in edges : e[1] \in S => e[2] \in S
    => c \in S

Init ==
  /\ ref = [c \in Colls |-> 0]
  /\ app = [c \in Colls |-> 0]
  /\ edges = {}
  /\ attrs = [c \in Colls |-> {}]
  /\ inside = None

-----------------------------------------------------------------------------
\* xmmsv_coll_new, and xmmsv_coll_universe with its attribute
New(c, initial) ==
  /\ Idle
  /\ ref[c] = 0
  /\ ref' = [ref EXCEPT ![c] = 1]
  /\ app' = [app EXCEPT ![c] = 1]
  /\ attrs' = [attrs EXCEPT ![c] = initial]
  /\ UNCHANGED <<edges, inside>>

\* xmmsv_coll_ref
Ref(c) ==
  /\ Idle /\ Usable(c)
  /\ app[c] < MaxRef
  /\ ref' = [ref EXCEPT ![c] = @ + 1]
  /\ app' = [app EXCEPT ![c] = @ + 1]
  /\ UNCHANGED <<edges, attrs, inside>>

\* xmmsv_coll_unref
Unref(c) ==
  /\ Idle
  /\ app[c] > 0
  /\ ref' = [ref EXCEPT ![c] = @ - 1]
  /\ app' = [app EXCEPT ![c] = @ - 1]
  /\ UNCHANGED <<edges, attrs, inside>>

\* Mutant: an operand is added again.
AddOperand_Again(c, op) ==
  /\ Idle /\ Usable(c) /\ Usable(op)
  /\ edges' = edges \cup {<<c, op>>}
  /\ ref' = [ref EXCEPT ![op] = @ + 1]
  /\ UNCHANGED <<app, attrs, inside>>

\* Mutant: the list takes no reference.
AddOperand_Borrows(c, op) ==
  /\ Idle /\ Usable(c) /\ Usable(op)
  /\ <<c, op>> \notin edges
  /\ edges' = edges \cup {<<c, op>>}
  /\ UNCHANGED <<ref, app, attrs, inside>>

\* xmmsv_coll_add_operand, for an operand that is not in the list yet
AddOperand(c, op) ==
  /\ Idle /\ Usable(c) /\ Usable(op)
  /\ <<c, op>> \notin edges
  /\ edges' = edges \cup {<<c, op>>}
  /\ ref' = [ref EXCEPT ![op] = @ + 1]
  /\ UNCHANGED <<app, attrs, inside>>

\* xmmsv_coll_remove_operand, for an operand that is in the list, up to the end of
\* xmmsv_list_iter_remove ...
RemoveOperand(c, op) ==
  /\ Idle /\ Usable(c)
  /\ <<c, op>> \in edges
  /\ edges' = edges \ {<<c, op>>}
  /\ ref' = [ref EXCEPT ![op] = @ - 1]
  /\ inside' = c
  /\ UNCHANGED <<app, attrs>>

\* ... and the rest: the iterator of the list is destroyed.
RemoveReturns ==
  /\ inside # None /\ Dying = {}
  /\ inside' = None
  /\ UNCHANGED <<ref, app, edges, attrs>>

\* Mutant: the operands keep the reference of the list that is freed.
Release_Forgets(e) ==
  /\ e \in Dying
  /\ edges' = edges \ {e}
  /\ UNCHANGED <<ref, app, attrs, inside>>

\* xmmsv_coll_free: an entry of the operand list is freed with the list.
Release(e) ==
  /\ e \in Dying
  /\ edges' = edges \ {e}
  /\ ref' = [ref EXCEPT ![e[2]] = @ - 1]
  /\ UNCHANGED <<app, attrs, inside>>

\* The attributes other than field
Others(c, field) == {a \in attrs[c] : a[1] # field}

\* xmmsv_coll_attribute_set, also with a value that is no string in UTF-8 (None),
\* which changes nothing, and xmmsv_coll_attribute_remove
AttributeSet(c, field, text) ==
  /\ Idle /\ Usable(c)
  /\ attrs' = [attrs EXCEPT ![c] = IF text = None THEN @ ELSE Others(c, field) \cup {<<field, text>>}]
  /\ UNCHANGED <<ref, app, edges, inside>>
AttributeRemove(c, field) ==
  /\ Idle /\ Usable(c)
  /\ attrs' = [attrs EXCEPT ![c] = Others(c, field)]
  /\ UNCHANGED <<ref, app, edges, inside>>

Next ==
  \/ \E c \in Colls :
       \/ New(c, {}) \/ Ref(c) \/ Unref(c)
       \/ \E f \in Fields, t \in Texts : New(c, {<<f, t>>})
       \/ \E op \in Colls : AddOperand(c, op) \/ RemoveOperand(c, op)
       \/ \E f \in Fields : AttributeRemove(c, f) \/ \E t \in Texts \cup {None} : AttributeSet(c, f, t)
  \/ RemoveReturns
  \/ \E e \in edges : Release(e)

Spec == Init /\ [][Next]_vars

-----------------------------------------------------------------------------
TypeOK ==
  /\ ref \in [Colls -> Nat] /\ app \in [Colls -> 0..MaxRef]
  /\ edges \subseteq Colls \X Colls
  /\ attrs \in [Colls -> SUBSET (Fields \X Texts)]
  /\ inside \in Colls \cup {None}

\* The count that decides when a collection is freed (coll.c:140) is the number of
\* those who can still get at it: the application, once for every reference that
\* it owns, and the operand lists, also those that are being freed.
RefCount == \A c \in Colls : ref[c] = app[c] + Cardinality(Into(c))

\* Nobody is left with a freed collection: not the application, not an operand
\* list, and not the function whose list has just lost an operand, however much
\* was freed with the operand.
NoneFreed ==
  /\ \A c \in Colls : app[c] > 0 => ref[c] > 0
  /\ \A e \in edges : ref[e[2]] > 0
  /\ inside # None => ref[inside] > 0

\* What the application cannot reach any more is freed, when all calls have
\* returned; only collections that are operands of themselves, and those that they
\* keep, stay for ever.
Below(c) == {d \in Colls : \A S \in SUBSET Colls :
               /\ \A e \in edges : e[1] = c \/ e[1] \in S => e[2] \in S
               => d \in S}
Circular == {c \in Colls : c \in Below(c)}
Reclaimed ==
  Idle => \A c \in Colls : ref[c] > 0 =>
    Usable(c) \/ c \in Circular \/ \E d \in Circular : c \in Below(d)
=============================================================================
