----------------------------- MODULE Transport -----------------------------
(***************************************************************************)
(* Messages as bytes on the socket: the output queue and partial writes    *)
(* (xmms_ipc_msg_write_transport), partial reads and the header's length   *)
(* (xmms_ipc_msg_read_transport), the loops of ipc.c around them, the wait *)
(* that pumps both, and the CoreFoundation glue, whose write callback      *)
(* fires once every time it is enabled (xmmsclient-cf.m).                  *)
(*                                                                         *)
(* One call of send or recv is one step, so that bytes come and go between *)
(* two calls.  A byte is <<number of its message, place in the message>>;  *)
(* a header is the first HeadLen bytes of a message and tells the length   *)
(* of what follows.  What the messages mean is the business of XmmsClient. *)
(***************************************************************************)
EXTENDS Integers, Sequences, SequencesExt

CONSTANTS
  HeadLen,      \* XMMS_IPC_MSG_HEAD_LEN
  DefaultSize,  \* XMMS_IPC_MSG_DEFAULT_SIZE
  Modulus,      \* lengths are added modulo this, 2^32 in the code
  UpLens,       \* lengths of bodies the application sends
  DownLens,     \* lengths of bodies the server sends
  Space,        \* room of the socket's send buffer
  MaxUp,        \* bound: messages sent by the application
  MaxDown,      \* bound: messages sent by the server
  MaxDepth,     \* bound: a wait starts only on a stack below this height
  NoMsg         \* no message is being read

ASSUME TransportAssumption ==
  /\ HeadLen \in Nat \ {0}
  /\ DefaultSize \in Nat /\ DefaultSize >= HeadLen
  /\ Modulus \in Nat /\ Modulus > DefaultSize
  /\ UpLens \subseteq 0..Modulus - HeadLen - 1
  /\ DownLens \subseteq 0..Modulus - 1
  /\ Space \in Nat \ {0}
  /\ MaxUp \in Nat /\ MaxDown \in Nat /\ MaxDepth \in Nat

\* NULL is no message.
ASSUME NoMsgAssumption == NoMsg \notin [buf : Seq(Nat \X Nat), size : Nat, len : Nat]

VARIABLES
  upLens,     \* lengths of the messages queued so far (history)
  outMsg,     \* ipc->out_msg: the messages [id, len, xfered]
  up,         \* the bytes written to the socket so far (history)
  taken,      \* how many of them the server has taken
  downLens,   \* lengths of the messages sent by the server so far (history)
  transit,    \* bytes of the server that have not arrived yet
  rcvbuf,     \* the socket's receive buffer
  closed,     \* the server has closed the connection
  readMsg,    \* ipc->read_msg: [buf, size, len], the bytes read, the room, the
              \* header's length once the header is there
  delivered,  \* the messages handed to xmmsc_ipc_exec_msg (history)
  disconnect, \* ipc->disconnect
  cf,         \* the connection is in the run loop
  armed,      \* the write callback of the CFSocket is enabled
  stack       \* activations of the library and of callbacks

upVars   == <<upLens, outMsg, up, taken>>
downVars == <<downLens, transit, rcvbuf, closed>>
vars == <<upVars, downVars, readMsg, delivered, disconnect, cf, armed, stack>>

Frames == [kind : {"in", "out", "cb"}] \cup [kind : {"wait"}, got : Nat, write : BOOLEAN]

\* The bytes of message i with a body of length n, and of all messages.
Bytes(i, n)   == [k \in 1..HeadLen + n |-> <<i, k>>]
AllBytes(lens) == FlattenSeq([i \in DOMAIN lens |-> Bytes(i, lens[i])])

\* Lengths are sums of unsigned 32-bit numbers.
Total(n) == (HeadLen + n) % Modulus

Smaller(a, b) == IF a < b THEN a ELSE b

Init ==
  /\ upLens = <<>> /\ outMsg = <<>> /\ up = <<>> /\ taken = 0
  /\ downLens = <<>> /\ transit = <<>> /\ rcvbuf = <<>> /\ closed = FALSE
  /\ readMsg = NoMsg
  /\ delivered = <<>>
  /\ disconnect = FALSE
  /\ cf = FALSE
  /\ armed = FALSE
  /\ stack = <<>>

Top == stack[Len(stack)]
TopIs(kind) == stack # <<>> /\ Top.kind = kind
Below == SubSeq(stack, 1, Len(stack) - 1)
Push(frame) == stack' = Append(stack, frame)

\* The application may call the library: from its main loop or from a callback.
AppRuns == stack = <<>> \/ TopIs("cb")

Room == Space - (Len(up) - taken)
Readable == rcvbuf # <<>> \/ (closed /\ transit = <<>>)
Writable == Room > 0 \/ closed

\* xmmsc_ipc_io_out
IoOut == outMsg # <<>> /\ ~disconnect

\* Mutant: the main loop is told only when the queue was empty before.
NeedOut_First(flag) ==
  armed' = IF cf /\ (~flag \/ outMsg = <<>>) THEN flag ELSE armed

\* need_out_callback, xmmsc_io_cf_toggle_socket_flags
NeedOut(flag) == armed' = IF cf THEN flag ELSE armed

-----------------------------------------------------------------------------
\* The application.

\* xmmsc_ipc_msg_write
MsgWrite(len) ==
  /\ AppRuns
  /\ Len(upLens) < MaxUp
  /\ upLens' = Append(upLens, len)
  /\ outMsg' = Append(outMsg, [id |-> Len(upLens'), len |-> len, xfered |-> 0])
  /\ NeedOut(TRUE)
  /\ UNCHANGED <<up, taken, downVars, readMsg, delivered, disconnect, cf, stack>>

\* xmmsc_result_wait for an answer: any message that is delivered from now on.
Wait ==
  /\ AppRuns
  /\ ~disconnect
  /\ Len(stack) < MaxDepth
  /\ Push([kind |-> "wait", got |-> Len(delivered), write |-> FALSE])
  /\ UNCHANGED <<upVars, downVars, readMsg, delivered, disconnect, cf, armed>>

\* xmmsc_mainloop_cf_init: a new CFSocket has its callbacks enabled.
MainloopInit ==
  /\ stack = <<>>
  /\ ~cf
  /\ cf' = TRUE
  /\ armed' = TRUE
  /\ UNCHANGED <<upVars, downVars, readMsg, delivered, disconnect, stack>>

CallbackReturn ==
  /\ TopIs("cb")
  /\ stack' = Below
  /\ UNCHANGED <<upVars, downVars, readMsg, delivered, disconnect, cf, armed>>

-----------------------------------------------------------------------------
\* The run loop: xmmsc_io_cf_event_callback.

\* Reading goes on being reported; xmmsc_io_in_handle refuses when disconnected.
ReadEvent ==
  /\ stack = <<>>
  /\ cf
  /\ Readable
  /\ ~disconnect
  /\ Push([kind |-> "in"])
  /\ UNCHANGED <<upVars, downVars, readMsg, delivered, disconnect, cf, armed>>

\* A write callback is reported once and then has to be enabled again;
\* xmmsc_io_out_handle refuses without pending output.
WriteEvent ==
  /\ stack = <<>>
  /\ cf
  /\ armed
  /\ Writable
  /\ armed' = FALSE
  /\ IF IoOut THEN Push([kind |-> "out"]) ELSE UNCHANGED stack
  /\ UNCHANGED <<upVars, downVars, readMsg, delivered, disconnect, cf>>

-----------------------------------------------------------------------------
\* xmmsc_ipc_wait_for_event, as long as nothing has been delivered.

Satisfied == Len(delivered) > Top.got \/ disconnect

\* select
WaitSelect ==
  /\ TopIs("wait")
  /\ ~Top.write
  /\ ~Satisfied
  /\ LET w == IoOut /\ Writable
         frame == [Top EXCEPT !.write = w]
     IN /\ Readable \/ w
        /\ stack' = Append(Below, frame) \o (IF Readable THEN <<[kind |-> "in"]>> ELSE <<>>)
  /\ UNCHANGED <<upVars, downVars, readMsg, delivered, disconnect, cf, armed>>

\* The output half, after the input half.
WaitWrite ==
  /\ TopIs("wait")
  /\ Top.write
  /\ LET frame == [Top EXCEPT !.write = FALSE]
     IN stack' = Append(Below, frame) \o (IF disconnect THEN <<>> ELSE <<[kind |-> "out"]>>)
  /\ UNCHANGED <<upVars, downVars, readMsg, delivered, disconnect, cf, armed>>

WaitReturn ==
  /\ TopIs("wait")
  /\ ~Top.write
  /\ Satisfied
  /\ stack' = Below
  /\ UNCHANGED <<upVars, downVars, readMsg, delivered, disconnect, cf, armed>>

-----------------------------------------------------------------------------
\* xmmsc_ipc_io_out_callback

\* xmmsc_ipc_disconnect.  A wait whose input half returns false skips its output
\* half.
IpcDisconnect ==
  /\ disconnect' = TRUE
  /\ readMsg' = NoMsg
  /\ stack' = IF Top.kind = "in" /\ Below # <<>> /\ Last(Below).kind = "wait"
              THEN [Below EXCEPT ![Len(Below)].write = FALSE] ELSE Below

\* Mutant: a message counts as written when a part of it is.
Sent_Part(n) == Tail(outMsg)

\* The queue after n bytes of its first message have been written.
Sent(n) ==
  IF Head(outMsg).xfered + n = Total(Head(outMsg).len) THEN Tail(outMsg)
  ELSE [outMsg EXCEPT ![1].xfered = @ + n]

\* xmms_ipc_msg_write_transport: send takes what there is room for.
Send ==
  /\ TopIs("out")
  /\ outMsg # <<>>
  /\ Room > 0
  /\ LET m == Head(outMsg)
         n == Smaller(Total(m.len) - m.xfered, Room)
     IN /\ up' = up \o SubSeq(Bytes(m.id, m.len), m.xfered + 1, m.xfered + n)
        /\ outMsg' = Sent(n)
  /\ UNCHANGED <<upLens, taken, downVars, readMsg, delivered, disconnect, cf, armed, stack>>

\* Nothing left to write, or no room.
OutReturn ==
  /\ TopIs("out")
  /\ outMsg = <<>> \/ (Room = 0 /\ ~closed)
  /\ NeedOut(IoOut)
  /\ stack' = Below
  /\ UNCHANGED <<upVars, downVars, readMsg, delivered, disconnect, cf>>

\* send fails for good.
SendFails ==
  /\ TopIs("out")
  /\ outMsg # <<>>
  /\ closed
  /\ IpcDisconnect
  /\ UNCHANGED <<upVars, downVars, delivered, cf, armed>>

-----------------------------------------------------------------------------
\* xmmsc_ipc_io_in_callback, xmms_ipc_msg_read_transport

\* xmms_ipc_msg_alloc
Reading == IF readMsg = NoMsg THEN [buf |-> <<>>, size |-> DefaultSize, len |-> 0]
           ELSE readMsg

\* The length of the message so far as the reader knows it.
Expected(m) == IF Len(m.buf) >= HeadLen THEN Total(m.len) ELSE HeadLen

\* A buffer starts with the header of one message.
IsHeader(buf) == \A k \in 1..HeadLen : buf[k] = <<buf[1][1], k>>

\* The header's length field: the sender's when the bytes are a header, and
\* anything when they are not.
HeaderLens(buf) == {n \in DownLens : IsHeader(buf) => n = downLens[buf[1][1]]}

\* Mutant: the header is asked for again with the body.
Wanted_Whole(m) == Expected(m)

\* What is asked of recv.
Wanted(m) == Expected(m) - Len(m.buf)

\* Mutant: the buffer is never enlarged.
Grown_Not(m) == m

\* realloc before the body is read
Grown(m) == IF Expected(m) > m.size THEN [m EXCEPT !.size = Expected(m)] ELSE m

\* recv with data in the receive buffer.
Recv ==
  /\ TopIs("in")
  /\ Wanted(Reading) > 0
  /\ rcvbuf # <<>>
  /\ LET n == Smaller(Wanted(Reading), Len(rcvbuf))
         buf == Reading.buf \o SubSeq(rcvbuf, 1, n)
         got == [Grown(Reading) EXCEPT !.buf = buf]
     IN /\ rcvbuf' = SubSeq(rcvbuf, n + 1, Len(rcvbuf))
        /\ \/ /\ Len(Reading.buf) < HeadLen /\ Len(buf) >= HeadLen
              /\ \E len \in HeaderLens(buf) : readMsg' = [got EXCEPT !.len = len]
           \/ /\ ~(Len(Reading.buf) < HeadLen /\ Len(buf) >= HeadLen)
              /\ readMsg' = got
  /\ UNCHANGED <<upVars, downLens, transit, closed, delivered, disconnect, cf, armed, stack>>

\* "must unset read_msg here, because exec_msg can cause reentrancy"
Handed_Over == readMsg' = NoMsg

\* The message is complete: xmmsc_ipc_exec_msg runs callbacks.
Complete ==
  /\ TopIs("in")
  /\ readMsg # NoMsg
  /\ Len(readMsg.buf) >= HeadLen
  /\ Len(readMsg.buf) = Total(readMsg.len)
  /\ delivered' = Append(delivered, readMsg.buf)
  /\ Handed_Over
  /\ Push([kind |-> "cb"])
  /\ UNCHANGED <<upVars, downVars, disconnect, cf, armed>>

\* recv would block; or the length, with the header, has wrapped around and is
\* below what has been read: "x_return_val_if_fail (msg->xfered < len, false)".
InReturn ==
  /\ TopIs("in")
  /\ \/ Wanted(Reading) > 0 /\ rcvbuf = <<>> /\ ~(closed /\ transit = <<>>)
     \/ Wanted(Reading) < 0
  /\ readMsg' = Grown(Reading)
  /\ stack' = Below
  /\ UNCHANGED <<upVars, downVars, delivered, disconnect, cf, armed>>

\* recv reports the end of the stream.
EndOfFile ==
  /\ TopIs("in")
  /\ Wanted(Reading) > 0
  /\ rcvbuf = <<>> /\ closed /\ transit = <<>>
  /\ IpcDisconnect
  /\ UNCHANGED <<upVars, downVars, delivered, cf, armed>>

-----------------------------------------------------------------------------
\* The server and the network.

Take ==
  /\ taken < Len(up)
  /\ taken' = Len(up)
  /\ UNCHANGED <<upLens, outMsg, up, downVars, readMsg, delivered, disconnect, cf, armed, stack>>

ServerSend(len) ==
  /\ ~closed
  /\ Len(downLens) < MaxDown
  /\ downLens' = Append(downLens, len)
  /\ transit' = transit \o Bytes(Len(downLens'), len)
  /\ UNCHANGED <<upVars, rcvbuf, closed, readMsg, delivered, disconnect, cf, armed, stack>>

Arrive(n) ==
  /\ rcvbuf' = rcvbuf \o SubSeq(transit, 1, n)
  /\ transit' = SubSeq(transit, n + 1, Len(transit))
  /\ UNCHANGED <<upVars, downLens, closed, readMsg, delivered, disconnect, cf, armed, stack>>

\* The server goes away; only n bytes of what it has sent will still arrive.
ServerClose(n) ==
  /\ ~closed
  /\ closed' = TRUE
  /\ transit' = SubSeq(transit, 1, n)
  /\ UNCHANGED <<upVars, downLens, rcvbuf, readMsg, delivered, disconnect, cf, armed, stack>>

-----------------------------------------------------------------------------
Library == Send \/ OutReturn \/ SendFails \/ Recv \/ Complete \/ InReturn \/ EndOfFile
           \/ WaitWrite \/ WaitReturn

App == \/ \E len \in UpLens : MsgWrite(len)
       \/ Wait \/ MainloopInit \/ CallbackReturn

World == \/ Take
         \/ \E len \in DownLens : ServerSend(len)
         \/ \E n \in 1..Len(transit) : Arrive(n)
         \/ \E n \in 0..Len(transit) : ServerClose(n)

Next == Library \/ App \/ World \/ ReadEvent \/ WriteEvent \/ WaitSelect

Spec == Init /\ [][Next]_vars

\* The library is sequential code, the run loop and select report what is ready,
\* the server keeps taking, bytes arrive, callbacks return (in between they may
\* wait, hence strong fairness), and the application joins the run loop.
Fairness ==
  /\ WF_vars(Library)
  /\ WF_vars(ReadEvent)
  /\ SF_vars(WriteEvent)
  /\ WF_vars(WaitSelect)
  /\ SF_vars(CallbackReturn)
  /\ SF_vars(MainloopInit)
  /\ WF_vars(Take)
  /\ WF_vars(\E n \in 1..Len(transit) : Arrive(n))

FairSpec == Spec /\ Fairness

-----------------------------------------------------------------------------
TypeOK ==
  /\ upLens \in Seq(UpLens) /\ downLens \in Seq(DownLens)
  /\ outMsg \in Seq([id : 1..MaxUp, len : UpLens, xfered : Nat])
  /\ taken \in 0..Len(up) /\ Len(up) - taken <= Space
  /\ closed \in BOOLEAN /\ disconnect \in BOOLEAN
  /\ cf \in BOOLEAN /\ armed \in BOOLEAN
  /\ stack \in Seq(Frames)
  /\ readMsg # NoMsg => readMsg.size \in Nat /\ readMsg.len \in DownLens \cup {0}

\* What is still to be written of the queue.
Unwritten ==
  FlattenSeq([i \in DOMAIN outMsg |->
    SubSeq(Bytes(outMsg[i].id, outMsg[i].len), outMsg[i].xfered + 1, HeadLen + outMsg[i].len)])

\* However a message is cut up by the socket: what was written and what is still
\* queued are the bytes of all messages, each once and in the order of the calls
\* ("so that the transport functions know not to write already written data next
\* time", msg.c).
WrittenInOrder == up \o Unwritten = AllBytes(upLens)

\* As long as the connection is not given up, the messages handed over, the one
\* being read and what is on its way are the server's bytes, each once and in
\* order, and every message handed over is one of the server's, whole.
ReadInOrder ==
  ~disconnect =>
    /\ IsPrefix(FlattenSeq(delivered) \o Reading.buf \o rcvbuf \o transit,
                AllBytes(downLens))
    /\ \A i \in DOMAIN delivered : delivered[i] = Bytes(i, downLens[i])

\* Nothing is read beyond the room of the buffer, whatever the header says.
WithinBuffer == readMsg # NoMsg => Len(readMsg.buf) <= readMsg.size

\* In the run loop, output that is pending is never forgotten: the one-shot
\* callback is enabled, or the output loop is running and will see to it.
OutputArmed ==
  cf /\ outMsg # <<>> /\ ~disconnect => armed \/ \E i \in DOMAIN stack : stack[i].kind = "out"

\* "@returns TRUE if message is fully read" (msg.c:243): what is handed over is a
\* whole message of the server, also after the connection has been given up.
HandedOverWhole ==
  \A i \in DOMAIN delivered :
    \E j \in DOMAIN downLens : delivered[i] = Bytes(j, downLens[j])

\* Every message of the application reaches the socket whole, if the connection
\* lasts.
Flushed ==
  \A i \in 1..MaxUp :
    Len(upLens) >= i ~> (disconnect \/ \A j \in DOMAIN outMsg : outMsg[j].id > i)

\* Every message of the server is handed over, unless the connection ends or the
\* length of a message wraps around.
Fits(n) == HeadLen + n < Modulus
HandedOver ==
  \A i \in 1..MaxDown :
    Len(downLens) >= i ~> (disconnect \/ Len(delivered) >= i
                            \/ \E j \in DOMAIN downLens : j <= i /\ ~Fits(downLens[j]))

\* Byte for byte, both directions keep the order in which messages were put in
\* (msg.c, ipc.c), and the state its types.
InOrder == TypeOK /\ WrittenInOrder /\ ReadInOrder

\* Nothing is stuck in either direction (ipc.c, xmmsclient-cf.m).
NothingStuck == Flushed /\ HandedOver
=============================================================================
