------------------------------- MODULE Connect -------------------------------
(***************************************************************************)
(* How the application connects (XMMSClient.m, ServerBrowserController.m): *)
(* a tap resolves a service and calls connectToPath on the main thread;    *)
(* an operation runs xmmsc_connect, which blocks, on a thread of its own   *)
(* and posts didConnect or errorOnConnect to the main thread.              *)
(*                                                                         *)
(* All operations work on the one xmmsc_connection_t.  The steps of an     *)
(* operation are the reads and writes of what it shares.  The servers and  *)
(* the network are external: an answer comes, or the connection breaks.    *)
(***************************************************************************)
EXTENDS Naturals, Sequences, FiniteSets

CONSTANTS
  Ops,        \* the operations, one for every call that is not refused
  Paths,      \* the servers' paths
  Nothing

ASSUME ConnectAssumption == IsFiniteSet(Ops)

VARIABLES
  isConnected, xmmsPath,   \* of the XMMSClient
  op,          \* where every operation is, and the path it has dialled
  cpath,       \* c->path
  cipc,        \* the operation whose xmmsc_ipc_t c->ipc is
  main,        \* the selectors posted to the main thread
  setups,      \* how often didConnect has set up the connection
  answered,    \* the operations whose server has accepted the hello
  overlapped,  \* a request was made while another was under way (history)
  broke        \* a connection broke while the hello was awaited (history)

connectVars == <<isConnected, xmmsPath, op, cpath, cipc, main, setups, answered, overlapped, broke>>
phone == <<isConnected, xmmsPath, setups, overlapped>>

ConnectInit ==
  /\ isConnected = FALSE /\ xmmsPath = Nothing
  /\ op = [o \in Ops |-> [at |-> "unused", path |-> Nothing]]
  /\ cpath = Nothing /\ cipc = Nothing
  /\ main = <<>> /\ setups = 0
  /\ answered = {} /\ overlapped = FALSE /\ broke = FALSE

UnderWay(o) == op[o].at \notin {"unused", "over"}
At(o, from) == op[o].at = from
Moves(o, to) == op' = [op EXCEPT ![o].at = to]

\* Mutant: a second connection is not refused.
Refused_Never == FALSE

Refused == isConnected

\* netServiceDidResolveAddress: connectToPath with a new operation
ConnectToPath(path) ==
  /\ ~Refused
  /\ \E o \in Ops :
       /\ At(o, "unused") /\ Moves(o, "queued")
       /\ overlapped' = (overlapped \/ \E p \in Ops : UnderWay(p))
  /\ xmmsPath' = path
  /\ UNCHANGED <<isConnected, cpath, cipc, main, setups, answered, broke>>

\* xmmsc_connect: c->path is written ...
WritePath(o) ==
  /\ At(o, "queued") /\ Moves(o, "written")
  /\ cpath' = xmmsPath
  /\ UNCHANGED <<phone, cipc, main, answered, broke>>

\* performSelectorOnMainThread, the last thing an operation does
Post(o, selector) == main' = Append(main, <<o, selector>>)

\* ... read again and dialled, ...
Dial(o) ==
  /\ At(o, "written")
  /\ \/ op' = [op EXCEPT ![o] = [at |-> "dialled", path |-> cpath]] /\ UNCHANGED main
     \/ Moves(o, "posted") /\ Post(o, "errorOnConnect")
  /\ UNCHANGED <<phone, cpath, cipc, answered, broke>>

\* ... c->ipc set, the hello sent ...
SetIpc(o) ==
  /\ At(o, "dialled") /\ Moves(o, "hello")
  /\ cipc' = o
  /\ UNCHANGED <<phone, cpath, main, answered, broke>>

\* Mutant: the answer is not looked at.
Verdict_Good(answer) == "didConnect"

\* When the connection breaks, xmmsc_result_wait stores an error, but the result is
\* not parsed, and xmmsc_result_get_value gives NULL, which is no error.
Verdict(answer) == IF answer = "refused" THEN "errorOnConnect" ELSE "didConnect"

\* ... and awaited.
Answer(o, answer) ==
  /\ At(o, "hello") /\ Moves(o, "posted")
  /\ Post(o, Verdict(answer))
  /\ answered' = IF answer = "accepted" THEN answered \cup {o} ELSE answered
  /\ broke' = (broke \/ answer = "broken")
  /\ UNCHANGED <<phone, cpath, cipc>>

Rest == Tail(main)

\* didConnect: run-loop source, broadcasts and first requests; errorOnConnect tells
\* the delegate, which does not listen.
CallMain ==
  /\ main # <<>>
  /\ main' = Rest /\ Moves(Head(main)[1], "over")
  /\ IF Head(main)[2] = "didConnect"
     THEN isConnected' = TRUE /\ setups' = setups + 1 ELSE UNCHANGED <<isConnected, setups>>
  /\ UNCHANGED <<xmmsPath, cpath, cipc, answered, overlapped, broke>>

ConnectNext ==
  \/ \E path \in Paths : ConnectToPath(path)
  \/ \E o \in Ops : \/ WritePath(o) \/ Dial(o) \/ SetIpc(o)
                    \/ \E answer \in {"accepted", "refused", "broken"} : Answer(o, answer)
  \/ CallMain

\* Every thread goes on, every server answers or its connection breaks.
Step(o) == WritePath(o) \/ Dial(o) \/ SetIpc(o) \/ Answer(o, "accepted") \/ Answer(o, "refused")
           \/ Answer(o, "broken")
ConnectFairness == WF_connectVars(CallMain) /\ \A o \in Ops : WF_connectVars(Step(o))
ConnectSpec == ConnectInit /\ [][ConnectNext]_connectVars /\ ConnectFairness

-----------------------------------------------------------------------------
ConnectTypeOK ==
  /\ {isConnected, overlapped, broke} \subseteq BOOLEAN
  /\ {xmmsPath, cpath} \subseteq Paths \cup {Nothing}
  /\ op \in [Ops -> [at : {"unused", "queued", "written", "dialled", "hello", "posted", "over"},
                     path : Paths \cup {Nothing}]]
  /\ cipc \in Ops \cup {Nothing} /\ answered \subseteq Ops
  /\ main \in Seq(Ops \X {"didConnect", "errorOnConnect"})
  /\ setups \in 0..Cardinality(Ops)

\* "Already connected" (XMMSClient.m:147): the connection is set up once, with one
\* run-loop source and one set of broadcasts and one playlist on the screen, however
\* often the user taps, as long as he waits for the outcome of a tap before the next.
SetUpOnce == setups > 1 => overlapped

\* What is on the screen is the server that was asked for last: connected means that
\* c->ipc leads to it and that it has accepted the hello, unless requests overlapped
\* or the connection broke in the middle of the hello.
ConnectedAsAsked ==
  isConnected /\ ~overlapped /\ ~broke =>
    cipc \in answered /\ op[cipc].path = xmmsPath /\ cpath = xmmsPath

\* Every request comes to an end on the main thread, overlapping or not.
EveryTapEnds == \A o \in Ops : At(o, "queued") ~> At(o, "over")
=============================================================================
