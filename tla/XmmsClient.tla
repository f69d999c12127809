---------------------------- MODULE XmmsClient ----------------------------
(***************************************************************************)
(* The result dispatcher of the XMMS2 client library: the connection       *)
(* (xmmsclient.c), its message pump (ipc.c) and the reference-counted      *)
(* results with their notifiers (result.c), together with the parts it is  *)
(* used by and talks to: the application and the server.                   *)
(*                                                                         *)
(* The library has no thread of its own.  Everything happens on the stack  *)
(* of the application's thread, and re-entrancy is the difficult part: a   *)
(* notifier may call xmmsc_result_wait, which pumps the connection and     *)
(* dispatches other replies before the outer dispatch has finished.  The   *)
(* variable `stack' holds the activations that can be suspended in this    *)
(* way, innermost last:                                                    *)
(*   "in"    the read loop of xmmsc_ipc_io_in_callback,                    *)
(*   "run"   the notifier loop of xmmsc_result_run,                        *)
(*   "wait"  the loop of xmmsc_result_wait.                                *)
(*                                                                         *)
(* Results and notifier nodes are numbered in the order of their creation. *)
(* results_list is prepended to and notifiers appended to, so the list     *)
(* order is the descending, respectively ascending, order of the numbers,  *)
(* and both lists are represented by the set of their members.             *)
(***************************************************************************)
EXTENDS Integers, Sequences, FiniteSets

CONSTANTS
  MaxResults,    \* bound: results the application creates
  MaxNotifiers,  \* bound: notifier nodes attached over a behaviour
  MaxEmits,      \* bound: broadcasts and signals the server emits
  MaxDown,       \* bound: messages in flight from the server
  MaxDepth,      \* bound: activations under which a wait may still start
  CookieMod,     \* number of cookies: 2^32 in the code
  Classes,       \* the classes of result the application asks for
  SyncClasses,   \* classes whose notifiers may wait synchronously
  Values,        \* the values a reply can carry
  Payloads,      \* what a reply can be: a value, Error or Garbage
  Error,         \* an error value (xmmsv_new_error)
  Garbage,       \* a payload that does not deserialise
  Null           \* the NULL pointer

ResultClasses == {"default", "signal", "broadcast"}

ASSUME BoundsAssumption ==
  /\ MaxResults \in Nat
  /\ MaxNotifiers \in Nat
  /\ MaxEmits \in Nat
  /\ MaxDown \in Nat
  /\ MaxDepth \in Nat
  /\ CookieMod \in Nat \ {0}

ASSUME DataAssumption ==
  /\ Classes \subseteq ResultClasses
  /\ SyncClasses \subseteq ResultClasses
  /\ Payloads \subseteq Values \cup {Error, Garbage}
  /\ Null \notin Values \cup {Error}
  /\ Garbage \notin Values \cup {Error}
  /\ Error \notin Values

Results == 1..MaxResults
Nodes   == 1..MaxNotifiers
NoNode  == 0
Cookies == 0..CookieMod-1
Data    == Values \cup {Error, Null}

VARIABLES
  \* struct xmmsc_result_St, one entry per result
  phase,       \* "fresh" (not allocated), "live", "freed"
  class,       \* res->type
  ref,         \* res->ref
  cookie,      \* res->cookie
  parsed,      \* res->parsed
  data,        \* res->data
  notifiers,   \* res->notifiers, the set of its nodes
  \* struct xmmsc_ipc_St and struct xmmsc_connection_St
  resultsList, \* ipc->results_list, the set of its members
  outMsg,      \* ipc->out_msg
  disconnect,  \* ipc->disconnect; ipc->error is set with it
  disconnects, \* how often the disconnect callback was called
  connRef,     \* c->ref
  sent,        \* c->cookie before the reduction to 32 bits
  \* the application
  created,     \* results created so far
  attached,    \* notifier nodes created so far
  held,        \* the results whose user reference it still owns
  appConn,     \* it still owns its reference to the connection
  \* the server and the wire
  atServer,    \* requests the server has got and can answer
  down,        \* messages on their way to the client
  closed,      \* the server has closed its end
  emits,       \* broadcasts and signals emitted so far
  \* the C stack
  stack,
  freedAccess  \* the program has followed a pointer into freed memory

resultVars == <<phase, class, ref, cookie, parsed, data, notifiers>>
ipcVars    == <<resultsList, outMsg, disconnect, disconnects>>
connVars   == <<connRef, sent>>
appVars    == <<created, attached, held, appConn>>
netVars    == <<atServer, down, closed, emits>>
vars == <<resultVars, ipcVars, connVars, appVars, netVars, stack, freedAccess>>

-----------------------------------------------------------------------------
(* The records that travel and the activations on the stack.               *)

\* A request on its way to the server.  `res' and `class' stand for the
\* object, command and arguments; only the cookie identifies the result.
Requests == [cookie : Cookies, res : Results, class : ResultClasses]

\* A message from the server; `res' records who asked (history).
Messages == [cookie : Cookies, res : Results, payload : Values \cup {Error, Garbage}]

InFrames   == [kind : {"in"}]
WaitFrames == [kind : {"wait"}, res : Results, write : BOOLEAN]

\* cur and next are the C locals n and next; calling: the callback of cur is
\* executing; given: the value it was called with; val and req: the payload of
\* the dispatched message and the result that had asked for it (history).
RunFrames ==
  [kind : {"run"}, res : Results, cur : Nodes \cup {NoNode},
   next : Nodes \cup {NoNode}, calling : BOOLEAN, given : Data,
   val : Values \cup {Error}, req : Results]

Frames == InFrames \cup WaitFrames \cup RunFrames

Top         == stack[Len(stack)]
Pop         == SubSeq(stack, 1, Len(stack) - 1)
TopIs(kind) == stack # <<>> /\ Top.kind = kind
SetTop(f)   == [stack EXCEPT ![Len(stack)] = f]

Live(r) == phase[r] = "live"

\* The application's code runs between two turns of its main loop and inside
\* a notifier.
AppTurn == stack = <<>> \/ (TopIs("run") /\ Top.calling)

\* The result the application is blocked on in xmmsc_result_wait.
WaitedOn(r) == \E i \in 1..Len(stack) : stack[i].kind = "wait" /\ stack[i].res = r

-----------------------------------------------------------------------------
(* Helpers of the library.                                                 *)

\* Mutant: the list is walked from its tail.
First_Tail(S) == IF S = {} THEN {NoNode} ELSE {n \in S : \A m \in S : m <= n}

\* The head of a notifier list, or NoNode: the list is in ascending order.
First(S) == IF S = {} THEN {NoNode} ELSE {n \in S : \A m \in S : n <= m}

\* Mutant: `next' is read too late and is the node itself.
After_Self(S, n) == First({m \in S : n <= m})

\* x_list_next: the node after n in a notifier list, or NoNode.
After(S, n) == First({m \in S : n < m})

\* The first member of results_list with this cookie: the newest one.
WithCookie(c) == {r \in resultsList : cookie[r] = c}
Lookup(c) == {r \in WithCookie(c) : \A q \in WithCookie(c) : q <= r}

\* Mutant: the counter does not advance.
NextId_Stuck == 0

\* xmmsc_next_id: a 32-bit counter.
NextId == sent % CookieMod

\* xmmsc_write_msg_to_ipc: number a request and queue it.
WriteRequest(r, cls) ==
  /\ outMsg' = Append(outMsg, [cookie |-> NextId, res |-> r, class |-> cls])
  /\ sent' = sent + 1

\* Mutant: the new reference is not counted.
AddRef_Lost(r) == UNCHANGED ref

\* xmmsc_result_ref
AddRef(r) == ref' = [ref EXCEPT ![r] = @ + 1]

\* Mutant: a freed result stays in results_list.
Unregister_Not(r) == UNCHANGED resultsList

\* xmmsc_ipc_result_unregister: takes the first result with r's cookie out.
Unregister(r) == resultsList' = resultsList \ Lookup(cookie[r])

\* Mutant: a freed result keeps its reference to the connection.
FreeResult_KeepsConnection(r) ==
  /\ phase' = [phase EXCEPT ![r] = "freed"]
  /\ Unregister(r)
  /\ UNCHANGED connRef

\* xmmsc_result_free: the result is unregistered and lets go of the connection.
\* Its notifiers are gone by then, for each of them owned a reference.
FreeResult(r) ==
  /\ phase' = [phase EXCEPT ![r] = "freed"]
  /\ Unregister(r)
  /\ connRef' = connRef - 1

\* xmmsc_result_unref
DropRef(r) ==
  /\ ref' = IF ref[r] < 1 THEN ref ELSE [ref EXCEPT ![r] = @ - 1]
  /\ IF ref[r] = 1 THEN FreeResult(r)
     ELSE UNCHANGED <<phase, resultsList, connRef>>

\* xmmsc_result_parse_msg: an error message or a value that deserialises.
Parses(msg) == msg.payload # Garbage

\* Mutant: the value of an earlier message is kept.
Store_KeepsOld(r, msg) ==
  /\ parsed' = [parsed EXCEPT ![r] = TRUE]
  /\ data' = IF data[r] = Null THEN [data EXCEPT ![r] = msg.payload] ELSE data

\* Its effect on the result.
Store(r, msg) ==
  /\ parsed' = [parsed EXCEPT ![r] = TRUE]
  /\ data' = [data EXCEPT ![r] = msg.payload]

\* Mutant: the test of the queue is inverted.
WantOut_Inverted == outMsg = <<>> /\ ~disconnect

\* xmmsc_ipc_io_out: there is output and a connection to write it to.
WantOut == outMsg # <<>> /\ ~disconnect

\* xmmsc_ipc_disconnect
IpcDisconnect ==
  /\ disconnect' = TRUE
  /\ disconnects' = disconnects + 1

\* Mutant: the last message written stays in the queue.
Unwritten_Last(k) == SubSeq(outMsg, IF k = 0 THEN 1 ELSE k, Len(outMsg))

\* The queue after its first k messages have been written and popped.
Unwritten(k) == SubSeq(outMsg, k + 1, Len(outMsg))

\* xmmsc_ipc_io_out_callback: the transport takes some of the queued messages,
\* in order, and may then report that the peer has gone.  What is written to a
\* peer that has gone is lost.
IoOut ==
  \E k \in 0..Len(outMsg), disco \in BOOLEAN :
    /\ disco => closed
    /\ k = 0 => disco
    /\ outMsg' = Unwritten(k)
    /\ atServer' = IF closed THEN atServer
                   ELSE atServer \cup {outMsg[i] : i \in 1..k}
    /\ IF disco THEN IpcDisconnect ELSE UNCHANGED <<disconnect, disconnects>>

\* The socket is readable: data or an end of file is waiting.
Readable == down # <<>> \/ closed

-----------------------------------------------------------------------------
Init ==
  /\ phase = [r \in Results |-> "fresh"]
  /\ class = [r \in Results |-> "default"]
  /\ ref = [r \in Results |-> 0]
  /\ cookie = [r \in Results |-> 0]
  /\ parsed = [r \in Results |-> FALSE]
  /\ data = [r \in Results |-> Null]
  /\ notifiers = [r \in Results |-> {}]
  /\ resultsList = {}
  /\ outMsg = <<>>
  /\ disconnect = FALSE
  /\ disconnects = 0
  /\ connRef = 1
  /\ sent = 0
  /\ created = 0
  /\ attached = 0
  /\ held = {}
  /\ appConn = TRUE
  /\ atServer = {}
  /\ down = <<>>
  /\ closed = FALSE
  /\ emits = 0
  /\ stack = <<>>
  /\ freedAccess = FALSE

-----------------------------------------------------------------------------
(* The application.  It uses a result only while it owns a reference to it  *)
(* and gives back every reference at most once.                             *)

\* xmmsc_result_new: a registered result with one reference, the user's, that
\* refers to the connection.
NewResult(r, cls, c) ==
  /\ phase' = [phase EXCEPT ![r] = "live"]
  /\ class' = [class EXCEPT ![r] = cls]
  /\ ref' = [ref EXCEPT ![r] = 1]
  /\ cookie' = [cookie EXCEPT ![r] = c]
  /\ resultsList' = resultsList \cup {r}
  /\ connRef' = connRef + 1

\* A command, signal or broadcast request: the message is queued under the next
\* cookie and a result is made for it.
SendMsg(cls) ==
  /\ AppTurn
  /\ appConn
  /\ created < MaxResults
  /\ LET r == created + 1
     IN /\ created' = r
        /\ WriteRequest(r, cls)
        /\ NewResult(r, cls, NextId)
        /\ held' = held \cup {r}
  /\ UNCHANGED <<parsed, data, notifiers, disconnect, disconnects, attached,
                 appConn, netVars, stack, freedAccess>>

\* xmmsc_result_notifier_set: "The pending call takes one ref".
NotifierSet(r) ==
  /\ AppTurn
  /\ r \in held
  /\ attached < MaxNotifiers
  /\ attached' = attached + 1
  /\ AddRef(r)
  /\ notifiers' = [notifiers EXCEPT ![r] = @ \cup {attached'}]
  /\ UNCHANGED <<phase, class, cookie, parsed, data, ipcVars, connVars, created,
                 held, appConn, netVars, stack, freedAccess>>

\* xmmsc_result_unref by the application: it gives the user reference back,
\* but not under a wait of its own for the same result.
Unref(r) ==
  /\ AppTurn
  /\ r \in held
  /\ ~WaitedOn(r)
  /\ held' = held \ {r}
  /\ DropRef(r)
  /\ UNCHANGED <<class, cookie, parsed, data, notifiers, outMsg, disconnect,
                 disconnects, sent, created, attached, appConn, netVars,
                 stack, freedAccess>>

\* xmmsc_result_disconnect: for a signal or a broadcast, an unref and no more.
Disconnect(r) ==
  /\ AppTurn
  /\ r \in held
  /\ class[r] \in {"signal", "broadcast"}
  /\ held' = held \ {r}
  /\ DropRef(r)
  /\ UNCHANGED <<class, cookie, parsed, data, notifiers, outMsg, disconnect,
                 disconnects, sent, created, attached, appConn, netVars, stack,
                 freedAccess>>

\* xmmsc_unref: the application leaves its main loop and lets go of the
\* connection, which stays allocated while results refer to it.
UnrefConnection ==
  /\ stack = <<>>
  /\ appConn
  /\ appConn' = FALSE
  /\ connRef' = connRef - 1
  /\ UNCHANGED <<resultVars, ipcVars, sent, created, attached, held,
                 netVars, stack, freedAccess>>

\* xmmsc_result_wait is called, for the result of a command, from the main loop
\* or from a notifier of one of the classes in SyncClasses.  (For a result that
\* is parsed already the call returns at once and changes nothing.)
Wait(r) ==
  /\ AppTurn
  /\ r \in held
  /\ class[r] = "default"
  /\ ~parsed[r]
  /\ stack # <<>> => class[Top.res] \in SyncClasses
  /\ Len(stack) < MaxDepth
  /\ stack' = Append(stack, [kind |-> "wait", res |-> r, write |-> FALSE])
  /\ UNCHANGED <<resultVars, ipcVars, connVars, appVars, netVars, freedAccess>>

-----------------------------------------------------------------------------
(* The main loop (CoreFoundation, or any other) and xmmsc_result_wait.      *)

\* xmmsc_io_in_handle enters the read loop.
MainIn ==
  /\ stack = <<>>
  /\ appConn
  /\ ~disconnect
  /\ Readable
  /\ stack' = <<[kind |-> "in"]>>
  /\ UNCHANGED <<resultVars, ipcVars, connVars, appVars, netVars, freedAccess>>

\* xmmsc_io_out_handle.
MainOut ==
  /\ stack = <<>>
  /\ appConn
  /\ WantOut
  /\ IoOut
  /\ UNCHANGED <<resultVars, resultsList, connVars, appVars, down, closed, emits,
                 stack, freedAccess>>

\* The loop of xmmsc_result_wait ends.  After an error the result gets an error
\* value, and stays unparsed.
WaitReturn ==
  /\ TopIs("wait")
  /\ ~Top.write
  /\ parsed[Top.res] \/ disconnect
  /\ data' = IF parsed[Top.res] THEN data ELSE [data EXCEPT ![Top.res] = Error]
  /\ stack' = Pop
  /\ UNCHANGED <<phase, class, ref, cookie, parsed, notifiers, ipcVars, connVars,
                 appVars, netVars, freedAccess>>

\* xmmsc_ipc_wait_for_event: select finds the socket readable, writable or both.
\* Input is handled first; `write' remembers that output is still to follow.
WaitSelect ==
  /\ TopIs("wait")
  /\ ~Top.write
  /\ ~parsed[Top.res] /\ ~disconnect
  /\ \E wr \in BOOLEAN :
       /\ wr => WantOut
       /\ Readable \/ wr
       /\ stack' = SetTop([Top EXCEPT !.write = wr]) \o
                   (IF Readable THEN <<[kind |-> "in"]>> ELSE <<>>)
  /\ UNCHANGED <<resultVars, ipcVars, connVars, appVars, netVars, freedAccess>>

\* The output half of xmmsc_ipc_wait_for_event; once disconnected, or when the
\* dispatched notifiers have emptied the queue, it does nothing.
WaitWrite ==
  /\ TopIs("wait")
  /\ Top.write
  /\ stack' = SetTop([Top EXCEPT !.write = FALSE])
  /\ IF WantOut THEN IoOut
     ELSE UNCHANGED <<outMsg, disconnect, disconnects, atServer>>
  /\ UNCHANGED <<resultVars, resultsList, connVars, appVars, down, closed, emits,
                 freedAccess>>

-----------------------------------------------------------------------------
(* The read loop and the dispatch of one message.                           *)

\* The beginning of xmmsc_result_run: the result takes the message's value over
\* and is kept alive by a reference while its notifiers run.
Dispatch(r, msg) ==
  /\ Parses(msg)
  /\ Store(r, msg)
  /\ AddRef(r)
  /\ \E n \in First(notifiers[r]) :
       stack' = Append(stack,
         [kind |-> "run", res |-> r, cur |-> n, next |-> NoNode,
          calling |-> FALSE, given |-> Null, val |-> msg.payload, req |-> msg.res])

\* A whole message has been read and xmmsc_ipc_exec_msg looks its result up.  A
\* message nobody waits for and one that does not parse are dropped.
Receive ==
  /\ TopIs("in")
  /\ down # <<>>
  /\ LET msg == Head(down)
     IN \/ /\ Lookup(msg.cookie) = {} \/ ~Parses(msg)
           /\ UNCHANGED <<ref, parsed, data, stack>>
        \/ \E r \in Lookup(msg.cookie) : Dispatch(r, msg)
  /\ down' = Tail(down)
  /\ UNCHANGED <<phase, class, cookie, notifiers, ipcVars, connVars, appVars,
                 atServer, closed, emits, freedAccess>>

\* The transport would block: the read loop ends.
WouldBlock ==
  /\ TopIs("in")
  /\ ~Readable
  /\ stack' = Pop
  /\ UNCHANGED <<resultVars, ipcVars, connVars, appVars, netVars, freedAccess>>

\* Mutant: the end of the stream is taken for a read that would block.
EndOfFile_Blocks ==
  /\ TopIs("in")
  /\ down = <<>> /\ closed
  /\ stack' = SubSeq(stack, 1, Len(stack) - 1)
  /\ UNCHANGED <<resultVars, ipcVars, connVars, appVars, netVars, freedAccess>>

\* The transport reports the end of the connection.  A wait that was pumping
\* skips its output half, for xmmsc_ipc_io_in_callback returns false.
EndOfFile ==
  /\ TopIs("in")
  /\ down = <<>> /\ closed
  /\ IpcDisconnect
  /\ stack' = [i \in 1..Len(stack) - 1 |->
                 IF i = Len(stack) - 1 /\ stack[i].kind = "wait"
                 THEN [stack[i] EXCEPT !.write = FALSE] ELSE stack[i]]
  /\ UNCHANGED <<resultVars, resultsList, outMsg, connVars, appVars, netVars,
                 freedAccess>>

\* The notifier loop of xmmsc_result_run: the next node is read before the
\* callback is called with the value the result holds now.
CallNotifier ==
  /\ TopIs("run")
  /\ ~Top.calling
  /\ Top.cur # NoNode
  /\ LET r == Top.res
     IN IF Top.cur \in notifiers[r]
        THEN /\ \E n \in After(notifiers[r], Top.cur) :
                  stack' = SetTop([Top EXCEPT !.next = n, !.calling = TRUE,
                                              !.given = data[r]])
             /\ UNCHANGED freedAccess
        ELSE /\ freedAccess' = TRUE
             /\ UNCHANGED stack
  /\ UNCHANGED <<resultVars, ipcVars, connVars, appVars, netVars>>

\* xmmsc_result_notifier_delete: the node and its reference to the result go.
DeleteNode(r, n) ==
  /\ notifiers' = [notifiers EXCEPT ![r] = @ \ {n}]
  /\ DropRef(r)

\* The callback returns.  The node of a command, and of a callback that does not
\* want to be kept, is deleted.
CallbackReturn(keep) ==
  /\ TopIs("run")
  /\ Top.calling
  /\ LET r == Top.res
         delete == ~keep \/ class[r] = "default"
         stale == delete /\ Top.cur \notin notifiers[r]
     IN /\ IF delete /\ ~stale
           THEN DeleteNode(r, Top.cur)
           ELSE UNCHANGED <<notifiers, ref, phase, resultsList, connRef>>
        /\ freedAccess' = (freedAccess \/ stale)
        /\ stack' = SetTop([Top EXCEPT !.cur = Top.next, !.next = NoNode,
                                       !.calling = FALSE, !.given = Null])
  /\ UNCHANGED <<class, cookie, parsed, data, outMsg, disconnect, disconnects,
                 sent, appVars, netVars>>

\* xmmsc_result_restart: the same result is requested again, by a new cookie.
Restart(r) ==
  /\ WriteRequest(r, "signal")
  /\ cookie' = [cookie EXCEPT ![r] = NextId]

\* The end of xmmsc_result_run: a signal that still has notifiers is requested
\* again under a new cookie, a broadcast forgets its value, and the reference
\* of the dispatch is given back.
RunFinish ==
  /\ TopIs("run")
  /\ ~Top.calling
  /\ Top.cur = NoNode
  /\ LET r == Top.res
     IN /\ IF class[r] = "signal" /\ notifiers[r] # {}
           THEN Restart(r)
           ELSE UNCHANGED <<outMsg, sent, cookie>>
        /\ data' = IF class[r] = "broadcast" THEN [data EXCEPT ![r] = Null] ELSE data
        /\ DropRef(r)
  /\ stack' = Pop
  /\ UNCHANGED <<class, parsed, notifiers, disconnect, disconnects, appVars,
                 netVars, freedAccess>>

-----------------------------------------------------------------------------
(* The server, as the client library sees it.                               *)

\* A command gets one reply, a signal request one signal when the server has
\* something to tell, and a broadcast request any number of messages.
ServerSend(req) ==
  /\ req \in atServer
  /\ ~closed
  /\ Len(down) < MaxDown
  /\ req.class # "default" => emits < MaxEmits
  /\ emits' = IF req.class = "default" THEN emits ELSE emits + 1
  /\ \E p \in Payloads :
       down' = Append(down, [cookie |-> req.cookie, res |-> req.res, payload |-> p])
  /\ atServer' = IF req.class = "broadcast" THEN atServer ELSE atServer \ {req}
  /\ UNCHANGED <<resultVars, ipcVars, connVars, appVars, closed, stack, freedAccess>>

\* The server quits or the connection breaks.
ServerClose ==
  /\ ~closed
  /\ closed' = TRUE
  /\ atServer' = {}
  /\ UNCHANGED <<resultVars, ipcVars, connVars, appVars, down, emits, stack,
                 freedAccess>>

-----------------------------------------------------------------------------
AppCall == \/ \E cls \in Classes : SendMsg(cls)
           \/ \E r \in Results : NotifierSet(r) \/ Unref(r) \/ Disconnect(r) \/ Wait(r)
           \/ UnrefConnection

Library == \/ MainIn \/ MainOut
           \/ WaitReturn \/ WaitSelect \/ WaitWrite
           \/ Receive \/ WouldBlock \/ EndOfFile
           \/ CallNotifier \/ (\E keep \in BOOLEAN : CallbackReturn(keep))
           \/ RunFinish

Server == (\E req \in atServer : ServerSend(req)) \/ ServerClose

\* After an access to freed memory nothing is known of the program any more.
Next == ~freedAccess /\ (AppCall \/ Library \/ Server)

Spec == Init /\ [][Next]_vars

\* The main loop reacts to the socket, a wait keeps pumping, and the server
\* answers commands.  A callback returns in the end, whatever it waits for in
\* between (hence the strong fairness).
Fairness ==
  /\ WF_vars(~freedAccess /\ MainIn)
  /\ WF_vars(~freedAccess /\ MainOut)
  /\ WF_vars(~freedAccess /\ (WaitReturn \/ WaitWrite))
  /\ WF_vars(~freedAccess /\ WaitSelect)
  /\ WF_vars(~freedAccess /\ (Receive \/ WouldBlock \/ EndOfFile))
  /\ WF_vars(~freedAccess /\ (CallNotifier \/ RunFinish))
  /\ SF_vars(~freedAccess /\ \E keep \in BOOLEAN : CallbackReturn(keep))
  /\ WF_vars(\E req \in atServer : ~freedAccess /\ req.class = "default" /\ ServerSend(req))

FairSpec == Spec /\ Fairness

-----------------------------------------------------------------------------
(* Properties.                                                              *)

\* Every variable stays in its domain, and the stack is made of activations.
TypeOK ==
  /\ phase \in [Results -> {"fresh", "live", "freed"}]
  /\ class \in [Results -> ResultClasses]
  /\ ref \in [Results -> Nat]
  /\ cookie \in [Results -> Cookies]
  /\ parsed \in [Results -> BOOLEAN]
  /\ data \in [Results -> Data]
  /\ notifiers \in [Results -> SUBSET Nodes]
  /\ resultsList \subseteq Results
  /\ outMsg \in Seq(Requests)
  /\ disconnect \in BOOLEAN
  /\ disconnects \in Nat
  /\ connRef \in Int
  /\ sent \in Nat
  /\ created \in 0..MaxResults
  /\ attached \in 0..MaxNotifiers
  /\ held \subseteq Results
  /\ appConn \in BOOLEAN
  /\ atServer \subseteq Requests
  /\ down \in Seq(Messages)
  /\ closed \in BOOLEAN
  /\ emits \in Nat
  /\ stack \in Seq(Frames)
  /\ freedAccess \in BOOLEAN

\* The places in a stack s at which result r is being dispatched.
RunsOn(s, r) == {i \in 1..Len(s) : s[i].kind = "run" /\ s[i].res = r}
Running(r) == RunsOn(stack, r)

\* Those who own a reference to r.
Owners(r) == (IF r \in held THEN 1 ELSE 0) + Cardinality(notifiers[r])
             + Cardinality(Running(r))

\* A result's reference count is exactly what its owners account for: the
\* application, one reference per pending notifier and one per dispatch that is
\* suspended on the stack (result.c: ref, notifier_set, notifier_remove, run).
RefCount == \A r \in Results : ref[r] = Owners(r)

\* results_list holds the live results and nothing else, and no activation on
\* the stack works on a freed result: unregistering by cookie never takes
\* another result out, so that a reply never reaches freed memory.
Registered ==
  /\ resultsList = {r \in Results : Live(r)}
  /\ \A i \in 1..Len(stack) : stack[i].kind # "in" => Live(stack[i].res)

\* "holds the command id that will be used to map the result back to the right
\* caller" (xmmsclient.c:70): a reply is dispatched to the result that asked.
RightCaller ==
  \A i \in 1..Len(stack) : stack[i].kind = "run" => stack[i].res = stack[i].req

\* While a notifier runs, and its callback may pump the connection, it has been
\* given the value of the very message that is being dispatched.
CallbackGetsAnswer ==
  \A i \in 1..Len(stack) :
    stack[i].kind = "run" /\ stack[i].calling => stack[i].given = stack[i].val

\* The notifier loop never follows a node that a nested dispatch has deleted.
NoFreedAccess == ~freedAccess

InFlight(r) ==
  Cardinality({i \in 1..Len(outMsg) : outMsg[i].res = r})
  + Cardinality({q \in atServer : q.res = r})
  + Cardinality({i \in 1..Len(down) : down[i].res = r})

\* A command and a signal have at most one request, reply or dispatch under way;
\* as long as the server is there and its replies parse, a command that has not
\* been answered has exactly one: nothing is lost, and nothing asked twice.
ExactlyOnce ==
  \A r \in Results :
    Live(r) /\ class[r] # "broadcast" =>
      LET n == InFlight(r) + Cardinality(Running(r))
      IN /\ n <= 1
         /\ class[r] = "default" /\ ~parsed[r] /\ ~closed /\ Garbage \notin Payloads
              => n = 1

\* The connection is kept alive by the application and by every live result.
ConnRefCount ==
  connRef = (IF appConn THEN 1 ELSE 0) + Cardinality({r \in Results : Live(r)})

\* A notifier attached to a command that is not answered yet is called (and
\* deleted) in the end, unless the connection ends.
NotifierCalled ==
  \A r \in Results, n \in Nodes :
    (n \in notifiers[r] /\ class[r] = "default" /\ ~parsed[r])
      ~> (n \notin notifiers[r] \/ closed \/ ~appConn)

\* The loss of the connection is reported to the application in the end, in
\* whatever depth of nested waits it happens.
LossReported == closed ~> (disconnects > 0 \/ ~appConn)

\* xmmsc_result_wait "Will return when the server replyed" (result.c:339), or
\* when the connection is lost, however deeply waits are nested.
WaitReturns == \A r \in Results : WaitedOn(r) ~> ~WaitedOn(r)
=============================================================================
