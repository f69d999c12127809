---------------------------- MODULE Visualization ----------------------------
(***************************************************************************)
(* The visualization client (client.c and udp.c of visualization/): data   *)
(* sets that are registered, started over UDP and shut down again.         *)
(*                                                                         *)
(* The server takes a command when it is sent; the answer waits until the  *)
(* application handles it, and carries a pointer to the data set.  The     *)
(* build has no shared memory (HAVE_SEMTIMEDOP is not defined): dummy.c.   *)
(* The thread stays in the exchange of time stamps, so that no call of the *)
(* application comes in between.  The server, which gives an id to one     *)
(* data set at a time, and the network are external.                       *)
(***************************************************************************)
EXTENDS Naturals

CONSTANTS
  Sets,      \* the data sets, the number being their place in c->visv
  Ids,       \* the ids the server gives; 0 may be one of them
  Error,     \* an answer that is an error
  Nobody,    \* whose an id is that the server does not know
  Rounds     \* the datagrams of one exchange: 10 in the code

VARIABLES
  set,       \* the data sets: type, state, id, grace, whether the sockets are open
  reply,     \* the answers that are not handled yet: data set, command, answer
  server,    \* the data set that an id stands for
  sync,      \* the exchange of time stamps that is under way
  rude,      \* the application did not await an answer, or took no notice (history)
  again,     \* a goodbye was sent with an id that was another's by then (history)
  faults     \* what went wrong (history)

vars == <<set, reply, server, sync, rude, again, faults>>

NoSync == [of |-> Nobody, flying |-> 0, got |-> 0, lost |-> FALSE]
Unused == [at |-> "unused", type |-> "shm", state |-> "new", id |-> 0, open |-> FALSE, grace |-> FALSE]

Init ==
  /\ set = [s \in Sets |-> Unused]
  /\ reply = {}
  /\ server = [i \in Ids |-> Nobody]
  /\ sync = NoSync
  /\ rude = FALSE /\ again = FALSE
  /\ faults = {}

Idle    == sync = NoSync
Live(s) == set[s].at = "live"
Knows(s, i) == i \in Ids /\ server[i] = s

\* A call that the answers so far do not ask for: a registration is handled and was
\* no error, no answer is due, and what is `asked' of the state is so.
Politely(s, asked) ==
  rude' = (rude \/ ~asked \/ set[s].type = "shm" \/ \E r \in reply : r.of = s)

Wrong(what) == faults' = faults \cup what

\* XMMS_IPC_CMD_VISUALIZATION_SHUTDOWN with the id i, sent for the data set s
Goodbye(i, s) ==
  /\ server' = [j \in Ids |-> IF j = i THEN Nobody ELSE server[j]]
  /\ again' = (again \/ (i \in Ids /\ server[i] \notin {s, Nobody}))

-----------------------------------------------------------------------------
\* xmmsc_visualization_init
Register(s) ==
  /\ Idle
  /\ set[s].at = "unused" /\ \A t \in Sets : t < s => set[t].at # "unused"
  /\ set' = [set EXCEPT ![s].at = "live"]
  /\ \/ \E i \in Ids : /\ server[i] = Nobody
                       /\ server' = [server EXCEPT ![i] = s]
                       /\ reply' = reply \cup {[of |-> s, to |-> "register", answer |-> i]}
     \/ /\ reply' = reply \cup {[of |-> s, to |-> "register", answer |-> Error]}
        /\ UNCHANGED server
  /\ UNCHANGED <<sync, rude, again, faults>>

Named(v, i) == [v EXCEPT !.id = i, !.type = "none"]

\* xmmsc_visualization_init_handle
RegisterHandle(r) ==
  /\ Idle
  /\ r.to = "register"
  /\ reply' = reply \ {r}
  /\ set' = IF r.answer # Error /\ Live(r.of) THEN [set EXCEPT ![r.of] = Named(@, r.answer)] ELSE set
  /\ Wrong(IF r.answer # Error /\ ~Live(r.of) THEN {"freed"} ELSE {})
  /\ UNCHANGED <<server, sync, rude, again>>

\* xmmsc_visualization_start with setup_udp_prepare.  The server opens a port for
\* an id it knows, or does not.
StartNew(s) ==
  /\ Idle /\ Live(s) /\ set[s].state = "new"
  /\ Politely(s, TRUE)
  /\ set' = [set EXCEPT ![s].type = "udp", ![s].state = "trying"]
  /\ \E answer \in {Error} \cup {i \in Ids : i = set[s].id /\ server[i] # Nobody} :
       reply' = reply \cup {[of |-> s, to |-> "start", answer |-> answer]}
  /\ UNCHANGED <<server, sync, again, faults>>

\* ... in another state: nothing is sent, and `res' was never set.
StartAgain(s) ==
  /\ Idle /\ Live(s) /\ set[s].state # "new"
  /\ Politely(s, FALSE)
  /\ set' = IF set[s].state = "trying" THEN [set EXCEPT ![s].state = "errored"] ELSE set
  /\ Wrong({"no result"})
  /\ UNCHANGED <<reply, server, sync, again>>

\* The ten datagrams of udp_timediff are sent, and the answers awaited.
Exchange(s) == sync' = [NoSync EXCEPT !.of = s, !.flying = Rounds]

\* Mutant: the data set keeps its type.
Failed_KeepsType(v) == [v EXCEPT !.state = "errored"]

Failed(v) == [v EXCEPT !.state = "errored", !.type = "none"]

\* xmmsc_visualization_start_handle with setup_udp_handle and setup_socket, which may
\* find no socket although the server has a port
StartHandle(r) ==
  /\ Idle
  /\ r.to = "start"
  /\ reply' = reply \ {r}
  /\ \/ /\ Live(r.of) /\ set[r.of].state = "trying"
        /\ set' = [set EXCEPT ![r.of] = Failed(@)]
        /\ Goodbye(set[r.of].id, r.of)
        /\ UNCHANGED <<sync, faults>>
     \/ /\ Live(r.of) /\ set[r.of].state = "trying" /\ r.answer # Error
        /\ set' = [set EXCEPT ![r.of].open = TRUE]
        /\ Exchange(r.of)
        /\ UNCHANGED <<server, again, faults>>
     \/ /\ Live(r.of) /\ set[r.of].state \in {"working", "errored"}
        /\ UNCHANGED <<set, sync, server, again, faults>>
     \/ /\ ~Live(r.of)
        /\ Wrong({"freed"})
        /\ UNCHANGED <<set, sync, server, again>>
  /\ UNCHANGED rude


Enough == sync.got >= Rounds

\* recv in udp_timediff; an answer, or the datagram it answers, may be lost.
Recv ==
  /\ sync.flying > 0
  /\ sync' = [sync EXCEPT !.flying = @ - 1, !.got = @ + 1]
  /\ UNCHANGED <<set, reply, server, rude, again, faults>>
Lose ==
  /\ sync.flying > 0
  /\ sync' = [sync EXCEPT !.flying = @ - 1, !.lost = TRUE]
  /\ UNCHANGED <<set, reply, server, rude, again, faults>>

\* The loop of udp_timediff ends: the start is done, or the chunk delivered.
Synced ==
  /\ ~Idle /\ Enough
  /\ sync' = NoSync
  /\ set' = [set EXCEPT ![sync.of].state = "working"]
  /\ UNCHANGED <<reply, server, rude, again, faults>>

\* xmmsc_visualization_chunk_get with read_do_udp: a chunk with little grace (below
\* 1000) after one with more brings a new exchange.
ChunkGet(s, much) ==
  /\ Idle /\ Live(s) /\ set[s].state = "working" /\ set[s].type = "udp"
  /\ set' = [set EXCEPT ![s].grace = much]
  /\ IF ~much /\ set[s].grace THEN Exchange(s) ELSE UNCHANGED sync
  /\ UNCHANGED <<reply, server, rude, again, faults>>

Closes(v) == v.type = "udp"

\* xmmsc_visualization_shutdown with cleanup_udp, which closes both sockets, opened
\* or not: descriptor 0 in a data set that was never connected
Shutdown(s) ==
  /\ Idle /\ Live(s)
  /\ Politely(s, TRUE)
  /\ Goodbye(set[s].id, s)
  /\ set' = [set EXCEPT ![s] = [Unused EXCEPT !.at = "freed"]]
  /\ Wrong(IF Closes(set[s]) = set[s].open THEN {}
           ELSE IF set[s].open THEN {"left open"} ELSE {"closed 0"})
  /\ UNCHANGED <<reply, sync>>

Next ==
  \/ \E s \in Sets : \/ Register(s) \/ StartNew(s) \/ StartAgain(s) \/ Shutdown(s)
                     \/ \E much \in BOOLEAN : ChunkGet(s, much)
  \/ \E r \in reply : RegisterHandle(r) \/ StartHandle(r)
  \/ Recv \/ Lose \/ Synced

\* What is in the air arrives or is lost, and the loop goes on.
Fairness == WF_vars(Recv \/ Lose) /\ WF_vars(Synced)
Spec == Init /\ [][Next]_vars /\ Fairness

-----------------------------------------------------------------------------
TypeOK ==
  /\ set \in [Sets -> [at : {"unused", "live", "freed"}, type : {"shm", "none", "udp"},
                       state : {"new", "trying", "working", "errored"}, id : Ids \cup {0},
                       open : BOOLEAN, grace : BOOLEAN]]
  /\ reply \subseteq [of : Sets, to : {"register", "start"}, answer : Ids \cup {Error}]
  /\ server \in [Ids -> Sets \cup {Nobody}]
  /\ sync \in [of : Sets \cup {Nobody}, flying : 0..Rounds, got : 0..Rounds, lost : BOOLEAN]
  /\ rude \in BOOLEAN /\ again \in BOOLEAN
  /\ faults \subseteq {"freed", "no result", "left open", "closed 0"}

\* An application that awaits and heeds every answer before its next call for a data
\* set is safe: no answer leads to a freed data set, sockets are closed exactly when
\* they were opened, and every call returns a result that it has made.
SafeIfPolite == ~rude => faults = {}

\* The server still knows the data set that works, by the id that it has, unless a
\* data set said goodbye a second time, with an id that was another's by then.
Served ==
  ~rude /\ ~again => \A s \in Sets : set[s].state = "working" => Knows(s, set[s].id)

\* The exchange of time stamps ends, if no datagram is lost.  (After a loss it never
\* ends: "TODO: handle lost packages!", udp.c:20.)
SyncEnds == (sync # NoSync /\ ~sync.lost) ~> (sync = NoSync \/ sync.lost)
=============================================================================
