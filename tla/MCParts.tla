------------------------------ MODULE MCParts ------------------------------
(***************************************************************************)
(* Five parts that have nothing to do with each other, in one run: the     *)
(* first state chooses one, and the others stay as they begin.             *)
(***************************************************************************)
EXTENDS Coll, Connect, Idlist, XList

CONSTANTS
  Sets, Error, Nobody, Rounds,
  Parts      \* the parts to be checked

VARIABLES
  part,
  set, reply, server, sync, rude, again, faults

ASSUME PartsAssumption == Nobody \notin Sets /\ Rounds \in Nat

Vis == INSTANCE Visualization

MCLists == {<<1, 2, 1, 0>>}

vis == <<set, reply, server, sync, rude, again, faults>>
PartsVars == <<part, vars, idlist, links, connectVars, vis>>

PartsInit ==
  /\ part \in Parts
  /\ Init /\ IdlistInit /\ LinksInit /\ ConnectInit /\ Vis!Init

PartsNext ==
  /\ UNCHANGED part
  /\ \/ part = "coll"   /\ Next /\ UNCHANGED <<idlist, links, connectVars, vis>>
     \/ part = "idlist" /\ IdlistNext /\ UNCHANGED <<vars, links, connectVars, vis>>
     \/ part = "links"  /\ LinksNext /\ UNCHANGED <<vars, idlist, connectVars, vis>>
     \/ part = "phone"  /\ ConnectNext /\ UNCHANGED <<vars, idlist, links, vis>>
     \/ part = "vis"    /\ Vis!Next /\ UNCHANGED <<vars, idlist, links, connectVars>>

PartsSpec == PartsInit /\ [][PartsNext]_PartsVars /\ ConnectFairness /\ Vis!Fairness

-----------------------------------------------------------------------------
\* Every part keeps its types; who reads an idlist up to the 0 finds all ids up to
\* the first id 0 (coll.c:161); lists and queue can be walked in both directions, no
\* node is lost or freed while a list leads to it, and the queue knows its tail and
\* its length (xlist.c, xqueue.c).
WellFormed ==
  /\ TypeOK /\ ConnectTypeOK /\ IdlistTypeOK /\ LinksTypeOK /\ Vis!TypeOK
  /\ ReadToZero
  /\ TwoWay /\ NoneLost /\ QueueEnds

\* The array of ids implements a sequence of ids (coll.c), the lists and the queue
\* sequences of data (xlist.c, xqueue.c), call by call.
PartsImplement == IdlistImplements /\ LinksImplement

\* For an application that awaits and heeds every answer the visualization is safe,
\* and the server knows the data set that works (visualization/client.c).
DataSetsSafe == Vis!SafeIfPolite /\ Vis!Served

=============================================================================
