-------------------------- MODULE Transport_proofs --------------------------
(***************************************************************************)
(* Theorems about Transport for every value of its constants: output that  *)
(* is pending in the run loop is never forgotten, the reader never writes  *)
(* past its buffer, and both directions keep the order of the bytes.       *)
(***************************************************************************)
EXTENDS Transport, SequenceFacts

\* An output loop is among the activations of s.
OutOn(s) == \E i \in DOMAIN s : s[i].kind = "out"

\* Taking away an activation that is not an output loop leaves those there are.
LEMMA PopFacts ==
  ASSUME NEW s \in Seq(Frames), s # <<>>
  PROVE  /\ SubSeq(s, 1, Len(s) - 1) \in Seq(Frames)
         /\ s[Len(s)] \in Frames
         /\ s[Len(s)].kind # "out" /\ OutOn(s) => OutOn(SubSeq(s, 1, Len(s) - 1))
<1> DEFINE t == SubSeq(s, 1, Len(s) - 1)
<1>1. Len(s) \in Nat \ {0} /\ DOMAIN s = 1..Len(s)
  OBVIOUS
<1>2. t \in Seq(Frames) /\ Len(t) = Len(s) - 1 /\ \A i \in 1..Len(s) - 1 : t[i] = s[i]
  BY <1>1
<1>3. s[Len(s)] \in Frames
  BY <1>1
<1>4. ASSUME s[Len(s)].kind # "out", OutOn(s) PROVE OutOn(t)
  <2>1. PICK i \in DOMAIN s : s[i].kind = "out"
    BY <1>4 DEF OutOn
  <2>2. i \in 1..Len(s) - 1
    BY <1>1, <1>4, <2>1
  <2>3. i \in DOMAIN t /\ t[i].kind = "out"
    BY <1>2, <2>1, <2>2
  <2> QED
    BY <2>3 DEF OutOn
<1> QED
  BY <1>2, <1>3, <1>4

\* Putting an activation on top keeps what is below.
LEMMA PushFacts ==
  ASSUME NEW s \in Seq(Frames), NEW f \in Frames
  PROVE  /\ Append(s, f) \in Seq(Frames)
         /\ OutOn(s) => OutOn(Append(s, f))
         /\ f.kind = "out" => OutOn(Append(s, f))
<1> DEFINE t == Append(s, f)
<1>1. t \in Seq(Frames) /\ Len(t) = Len(s) + 1 /\ t[Len(s) + 1] = f
      /\ \A i \in 1..Len(s) : t[i] = s[i]
  OBVIOUS
<1>2. DOMAIN s = 1..Len(s) /\ DOMAIN t = 1..Len(s) + 1 /\ Len(s) \in Nat
  BY <1>1
<1>3. ASSUME OutOn(s) PROVE OutOn(t)
  <2>1. PICK i \in DOMAIN s : s[i].kind = "out"
    BY <1>3 DEF OutOn
  <2>2. i \in DOMAIN t /\ t[i].kind = "out"
    BY <1>1, <1>2, <2>1
  <2> QED
    BY <2>2 DEF OutOn
<1>4. ASSUME f.kind = "out" PROVE OutOn(t)
  <2>1. Len(s) + 1 \in DOMAIN t /\ t[Len(s) + 1].kind = "out"
    BY <1>1, <1>2, <1>4
  <2> QED
    BY <2>1 DEF OutOn
<1> QED
  BY <1>1, <1>3, <1>4

\* Replacing the top by another activation of the same kind.
LEMMA ReplaceFacts ==
  ASSUME NEW s \in Seq(Frames), s # <<>>, s[Len(s)].kind = "wait", NEW w \in BOOLEAN
  PROVE  LET t == Append(SubSeq(s, 1, Len(s) - 1), [s[Len(s)] EXCEPT !.write = w])
         IN t \in Seq(Frames) /\ (OutOn(s) => OutOn(t))
<1> DEFINE b == SubSeq(s, 1, Len(s) - 1)
           f == [s[Len(s)] EXCEPT !.write = w]
<1>1. b \in Seq(Frames) /\ s[Len(s)] \in Frames /\ (OutOn(s) => OutOn(b))
  BY PopFacts
<1>2. f \in Frames
  BY <1>1 DEF Frames
<1>3. Append(b, f) \in Seq(Frames) /\ (OutOn(b) => OutOn(Append(b, f)))
  BY <1>1, <1>2, PushFacts
<1> QED
  BY <1>1, <1>3

-----------------------------------------------------------------------------
\* The invariant behind OutputArmed: the stack is made of activations.
StackOK  == stack \in Seq(Frames)
ArmedInv == StackOK /\ OutputArmed

LEMMA InFrames ==
  /\ [kind |-> "in"] \in Frames /\ [kind |-> "out"] \in Frames /\ [kind |-> "cb"] \in Frames
  /\ \A n \in Nat, w \in BOOLEAN : [kind |-> "wait", got |-> n, write |-> w] \in Frames
  BY DEF Frames

\* An activation other than the output loop ends; the rest stays as it is.
LEMMA PopKeeps ==
  ASSUME ArmedInv, stack # <<>>, Top.kind # "out", stack' = Below,
         UNCHANGED <<outMsg, disconnect, cf, armed>>
  PROVE  ArmedInv'
<1>1. stack' \in Seq(Frames) /\ (OutOn(stack) => OutOn(stack'))
  BY PopFacts DEF ArmedInv, StackOK, Top, Below
<1>2. OutputArmed'
  BY <1>1 DEF ArmedInv, OutputArmed, OutOn
<1> QED
  BY <1>1, <1>2 DEF ArmedInv, StackOK

\* An activation begins; the rest stays as it is.
LEMMA PushKeeps ==
  ASSUME ArmedInv, NEW f \in Frames, Push(f), UNCHANGED <<outMsg, disconnect, cf, armed>>
  PROVE  ArmedInv'
<1>1. stack' \in Seq(Frames) /\ (OutOn(stack) => OutOn(stack'))
  BY PushFacts DEF ArmedInv, StackOK, Push
<1>2. OutputArmed'
  BY <1>1 DEF ArmedInv, OutputArmed, OutOn
<1> QED
  BY <1>1, <1>2 DEF ArmedInv, StackOK

\* Once the connection is given up, nothing is promised of the output.
LEMMA DisconnectKeeps ==
  ASSUME ArmedInv, stack # <<>>, IpcDisconnect
  PROVE  ArmedInv'
<1>1. Below \in Seq(Frames)
  BY PopFacts DEF ArmedInv, StackOK, Below
<1>2. CASE Below # <<>> /\ Last(Below).kind = "wait"
  <2> DEFINE b == Below
             t == [b EXCEPT ![Len(b)].write = FALSE]
  <2>1. Len(b) \in 1..Len(b) /\ Last(b) = b[Len(b)] /\ Last(b) \in Frames
    BY <1>1, <1>2 DEF Last
  <2>2. [b[Len(b)] EXCEPT !.write = FALSE] \in Frames
    BY <1>2, <2>1 DEF Frames
  <2>3. t \in Seq(Frames)
    BY <1>1, <2>1, <2>2
  <2>4. stack' \in Seq(Frames)
    BY <1>1, <2>3 DEF IpcDisconnect
  <2> QED
    BY <2>4 DEF ArmedInv, StackOK, OutputArmed, IpcDisconnect
<1>3. CASE ~(Below # <<>> /\ Last(Below).kind = "wait")
  BY <1>1, <1>3 DEF ArmedInv, StackOK, OutputArmed, IpcDisconnect
<1> QED
  BY <1>2, <1>3

\* In the run loop, the main loop hears of every change of the queue.
LEMMA AppKeeps == ArmedInv /\ App => ArmedInv'
<1> SUFFICES ASSUME ArmedInv, App PROVE ArmedInv'
  OBVIOUS
<1>1. ASSUME NEW len \in UpLens, MsgWrite(len) PROVE ArmedInv'
  BY <1>1 DEF ArmedInv, StackOK, OutputArmed, MsgWrite, NeedOut
<1>2. CASE Wait
  <2>1. Len(delivered) \in Nat => [kind |-> "wait", got |-> Len(delivered), write |-> FALSE] \in Frames
    BY InFrames
  <2> QED
    BY <1>2, <2>1, PushKeeps DEF Wait, upVars
<1>3. CASE MainloopInit
  BY <1>3 DEF ArmedInv, StackOK, OutputArmed, MainloopInit
<1>4. CASE CallbackReturn
  BY <1>4, PopKeeps DEF CallbackReturn, TopIs, upVars
<1> QED
  BY <1>1, <1>2, <1>3, <1>4 DEF App

\* The end of an output loop is what needs care: only then may pending output be
\* left without the loop, and there the callback is told whether any is pending.
LEMMA LibraryKeeps == ArmedInv /\ Library => ArmedInv'
<1> SUFFICES ASSUME ArmedInv, Library PROVE ArmedInv'
  OBVIOUS
<1>1. CASE Send
  <2>1. outMsg # <<>> /\ UNCHANGED <<disconnect, cf, armed, stack>>
    BY <1>1 DEF Send
  <2> QED
    BY <2>1 DEF ArmedInv, StackOK, OutputArmed
<1>2. CASE OutReturn
  <2>1. stack' \in Seq(Frames)
    BY <1>2, PopFacts DEF OutReturn, TopIs, ArmedInv, StackOK, Below
  <2>2. OutputArmed'
    BY <1>2 DEF OutReturn, NeedOut, IoOut, OutputArmed, upVars
  <2> QED
    BY <2>1, <2>2 DEF ArmedInv, StackOK
<1>3. CASE SendFails
  BY <1>3, DisconnectKeeps DEF SendFails, TopIs
<1>4. CASE Recv
  BY <1>4 DEF Recv, ArmedInv, StackOK, OutputArmed, upVars
<1>5. CASE Complete
  BY <1>5, PushKeeps, InFrames DEF Complete, upVars
<1>6. CASE InReturn
  BY <1>6, PopKeeps DEF InReturn, TopIs, upVars
<1>7. CASE EndOfFile
  BY <1>7, DisconnectKeeps DEF EndOfFile, TopIs
<1>8. CASE WaitWrite
  <2>1. stack # <<>> /\ stack[Len(stack)].kind = "wait" /\ stack \in Seq(Frames)
    BY <1>8 DEF WaitWrite, TopIs, Top, ArmedInv, StackOK
  <2>2. PICK t : t = Append(Below, [Top EXCEPT !.write = FALSE])
    OBVIOUS
  <2>3. t \in Seq(Frames) /\ (OutOn(stack) => OutOn(t))
    BY <2>1, <2>2, ReplaceFacts DEF Below, Top
  <2>4. stack' = t \/ stack' = Append(t, [kind |-> "out"])
    BY <1>8, <2>2, <2>3 DEF WaitWrite
  <2>5. stack' \in Seq(Frames) /\ (OutOn(stack) => OutOn(stack'))
    BY <2>3, <2>4, PushFacts, InFrames
  <2> QED
    BY <1>8, <2>5 DEF WaitWrite, ArmedInv, StackOK, OutputArmed, OutOn, upVars
<1>9. CASE WaitReturn
  BY <1>9, PopKeeps DEF WaitReturn, TopIs, upVars
<1> QED
  BY <1>1, <1>2, <1>3, <1>4, <1>5, <1>6, <1>7, <1>8, <1>9 DEF Library

LEMMA WorldKeeps == ArmedInv /\ World => ArmedInv'
<1>1. World => UNCHANGED <<outMsg, disconnect, cf, armed, stack>>
  BY DEF World, Take, ServerSend, Arrive, ServerClose, upVars
<1> QED
  BY <1>1 DEF ArmedInv, StackOK, OutputArmed

\* The run loop disables the callback only to start the output loop, and select
\* starts the input half before the output half.
LEMMA LoopKeeps == ArmedInv /\ (ReadEvent \/ WriteEvent \/ WaitSelect) => ArmedInv'
<1> SUFFICES ASSUME ArmedInv, ReadEvent \/ WriteEvent \/ WaitSelect PROVE ArmedInv'
  OBVIOUS
<1>1. CASE ReadEvent
  BY <1>1, PushKeeps, InFrames DEF ReadEvent, upVars
<1>2. CASE WriteEvent
  <2>1. CASE ~IoOut
    BY <1>2, <2>1 DEF WriteEvent, IoOut, ArmedInv, StackOK, OutputArmed, upVars
  <2>2. CASE IoOut
    <3>1. stack' \in Seq(Frames) /\ OutOn(stack')
      BY <1>2, <2>2, PushFacts, InFrames DEF WriteEvent, Push, ArmedInv, StackOK
    <3> QED
      BY <3>1 DEF ArmedInv, StackOK, OutputArmed, OutOn
  <2> QED
    BY <2>1, <2>2
<1>3. CASE WaitSelect
  <2>1. stack # <<>> /\ stack[Len(stack)].kind = "wait" /\ stack \in Seq(Frames)
    BY <1>3 DEF WaitSelect, TopIs, Top, ArmedInv, StackOK
  <2>2. PICK w \in BOOLEAN : w <=> (IoOut /\ Writable)
    OBVIOUS
  <2>3. PICK t : t = Append(Below, [Top EXCEPT !.write = w])
    OBVIOUS
  <2>4. t \in Seq(Frames) /\ (OutOn(stack) => OutOn(t))
    BY <2>1, <2>2, <2>3, ReplaceFacts DEF Below, Top
  <2>5. (IoOut /\ Writable) = w
    BY <2>2 DEF IoOut, Writable
  <2>6. stack' = t \o (IF Readable THEN <<[kind |-> "in"]>> ELSE <<>>)
    BY <1>3, <2>3, <2>5 DEF WaitSelect
  <2>7. stack' = t \/ stack' = Append(t, [kind |-> "in"])
    BY <2>4, <2>6
  <2>8. stack' \in Seq(Frames) /\ (OutOn(stack) => OutOn(stack'))
    BY <2>4, <2>7, PushFacts, InFrames
  <2> QED
    BY <1>3, <2>8 DEF WaitSelect, ArmedInv, StackOK, OutputArmed, OutOn, upVars
<1> QED
  BY <1>1, <1>2, <1>3

LEMMA ArmedStep == ArmedInv /\ [Next]_vars => ArmedInv'
<1> SUFFICES ASSUME ArmedInv, [Next]_vars PROVE ArmedInv'
  OBVIOUS
<1>1. CASE Next
  BY <1>1, LibraryKeeps, AppKeeps, WorldKeeps, LoopKeeps DEF Next
<1>2. CASE UNCHANGED vars
  BY <1>2 DEF vars, upVars, ArmedInv, StackOK, OutputArmed
<1> QED
  BY <1>1, <1>2

\* In the run loop, output that is pending is never forgotten (the write callback
\* of xmmsclient-cf.m fires once every time it is enabled).
THEOREM OutputArmedCorrect == Spec => []OutputArmed
<1>1. Init => ArmedInv
  BY DEF Init, ArmedInv, StackOK, OutputArmed
<1>2. ArmedInv /\ [Next]_vars => ArmedInv'
  BY ArmedStep
<1>3. ArmedInv => OutputArmed
  BY DEF ArmedInv
<1> QED
  BY <1>1, <1>2, <1>3, PTL DEF Spec

-----------------------------------------------------------------------------
\* The invariant behind WithinBuffer: what is on its way and what has been read
\* are bytes, and the header's length is one the server can send.
Byte     == Nat \X Nat
Messages == [buf : Seq(Byte), size : Nat, len : Nat]

Fitting(m) == m \in Messages /\ Len(m.buf) <= m.size

BufferInv ==
  /\ downLens \in Seq(DownLens)
  /\ transit \in Seq(Byte)
  /\ rcvbuf \in Seq(Byte)
  /\ readMsg # NoMsg => Fitting(readMsg)

\* Lengths are natural numbers, wrapped around or not.
LEMMA ExpectedFacts ==
  ASSUME NEW m \in Messages
  PROVE  Expected(m) \in Nat
<1>1. HeadLen \in Nat /\ Modulus \in Nat \ {0} /\ m.len \in Nat
  BY TransportAssumption DEF Messages
<1>2. HeadLen + m.len \in Nat
  BY <1>1
<1>3. (HeadLen + m.len) % Modulus \in Nat
  BY <1>1, <1>2
<1> QED
  BY <1>1, <1>3 DEF Expected, Total

LEMMA ReadingFacts == BufferInv => Fitting(Reading)
<1>1. DefaultSize \in Nat
  BY TransportAssumption
<1>2. Fitting([buf |-> <<>>, size |-> DefaultSize, len |-> 0])
  BY <1>1 DEF Fitting, Messages
<1> QED
  BY <1>2 DEF BufferInv, Reading

\* Enlarging the buffer makes room for what the header announces.
LEMMA GrownFacts ==
  ASSUME NEW m, Fitting(m)
  PROVE  /\ Fitting(Grown(m))
         /\ Grown(m).buf = m.buf /\ Grown(m).len = m.len
         /\ Expected(m) <= Grown(m).size
<1>1. m \in Messages /\ Expected(m) \in Nat /\ Len(m.buf) <= m.size /\ Len(m.buf) \in Nat
  BY ExpectedFacts DEF Fitting, Messages
<1>2. CASE Expected(m) > m.size
  <2>1. Grown(m) = [m EXCEPT !.size = Expected(m)]
    BY <1>2 DEF Grown
  <2> QED
    BY <1>1, <1>2, <2>1 DEF Fitting, Messages
<1>3. CASE ~(Expected(m) > m.size)
  BY <1>1, <1>3 DEF Grown, Fitting, Messages
<1> QED
  BY <1>2, <1>3

LEMMA BytesFacts ==
  ASSUME NEW i \in Nat, NEW n \in Nat
  PROVE  Bytes(i, n) \in Seq(Byte)
<1>1. HeadLen + n \in Nat /\ \A k \in 1..HeadLen + n : <<i, k>> \in Byte
  BY TransportAssumption DEF Byte
<1> QED
  BY <1>1 DEF Bytes

\* One call of recv stays within what was asked for, and that within the buffer.
LEMMA RecvKeeps == BufferInv /\ Recv => BufferInv'
<1> SUFFICES ASSUME BufferInv, Recv PROVE BufferInv'
  OBVIOUS
<1>1. PICK m : m = Reading
  OBVIOUS
<1>2. Fitting(m) /\ m \in Messages /\ Expected(m) \in Nat
  BY <1>1, ReadingFacts, ExpectedFacts DEF Fitting
<1>3. m.buf \in Seq(Byte) /\ Len(m.buf) \in Nat /\ rcvbuf \in Seq(Byte) /\ Len(rcvbuf) \in Nat
  BY <1>2 DEF Messages, BufferInv
<1>4. Expected(m) - Len(m.buf) > 0
  BY <1>1 DEF Recv, Wanted
<1>5. PICK n : n = Smaller(Expected(m) - Len(m.buf), Len(rcvbuf))
  OBVIOUS
<1>6. n \in 0..Len(rcvbuf) /\ n <= Expected(m) - Len(m.buf)
  BY <1>2, <1>3, <1>4, <1>5 DEF Smaller
<1>7. PICK buf : buf = m.buf \o SubSeq(rcvbuf, 1, n)
  OBVIOUS
<1>8. buf \in Seq(Byte) /\ Len(buf) = Len(m.buf) + n
  <2>1. PICK part : part = SubSeq(rcvbuf, 1, n)
    OBVIOUS
  <2>2. part \in Seq(Byte)
    BY <1>3, <1>6, <2>1
  <2>3. Len(part) = n
    BY <1>3, <1>6, <2>1
  <2> QED
    BY <1>3, <1>7, <2>1, <2>2, <2>3
<1>9. PICK g : g = Grown(m)
  OBVIOUS
<1>10. g \in Messages /\ Expected(m) <= g.size
  BY <1>2, <1>9, GrownFacts DEF Fitting
<1>11. Len(buf) <= g.size
  BY <1>2, <1>3, <1>6, <1>8, <1>10 DEF Messages
<1>12. PICK got : got = [g EXCEPT !.buf = buf]
  OBVIOUS
<1>13. Fitting(got)
  BY <1>8, <1>10, <1>11, <1>12 DEF Fitting, Messages
<1>14. \A len \in HeaderLens(buf) : len \in Nat
  BY TransportAssumption DEF HeaderLens
<1>15. \A len \in HeaderLens(buf) : Fitting([got EXCEPT !.len = len])
  BY <1>13, <1>14 DEF Fitting, Messages
<1>16. readMsg' = got \/ \E len \in HeaderLens(buf) : readMsg' = [got EXCEPT !.len = len]
  BY <1>1, <1>5, <1>7, <1>9, <1>12 DEF Recv, Wanted
<1>17. Fitting(readMsg')
  <2>1. CASE readMsg' = got
    BY <1>13, <2>1
  <2>2. ASSUME NEW len \in HeaderLens(buf), readMsg' = [got EXCEPT !.len = len]
        PROVE  Fitting(readMsg')
    <3>1. Fitting([got EXCEPT !.len = len])
      BY <1>15
    <3> QED
      BY <2>2, <3>1
  <2> QED
    BY <1>16, <2>1, <2>2
<1>18. rcvbuf' = SubSeq(rcvbuf, n + 1, Len(rcvbuf))
  BY <1>1, <1>5 DEF Recv, Wanted
<1>19. rcvbuf' \in Seq(Byte)
  BY <1>3, <1>6, <1>18
<1> QED
  BY <1>17, <1>19 DEF BufferInv, Recv, Fitting

LEMMA ReaderKeeps == BufferInv /\ Library => BufferInv'
<1> SUFFICES ASSUME BufferInv, Library PROVE BufferInv'
  OBVIOUS
<1>1. CASE Recv
  BY <1>1, RecvKeeps
<1>2. CASE Complete
  BY <1>2 DEF Complete, Handed_Over, BufferInv, downVars
<1>3. CASE InReturn
  <2>1. Fitting(readMsg')
    BY <1>3, ReadingFacts, GrownFacts DEF InReturn
  <2> QED
    BY <1>3, <2>1 DEF InReturn, BufferInv, downVars, Fitting
<1>4. CASE SendFails \/ EndOfFile
  BY <1>4 DEF SendFails, EndOfFile, IpcDisconnect, BufferInv, downVars
<1>5. CASE Send \/ OutReturn \/ WaitWrite \/ WaitReturn
  BY <1>5 DEF Send, OutReturn, WaitWrite, WaitReturn, BufferInv, downVars, Fitting
<1> QED
  BY <1>1, <1>2, <1>3, <1>4, <1>5 DEF Library

\* The network hands on bytes and nothing else.
LEMMA NetworkKeeps == BufferInv /\ World => BufferInv'
<1> SUFFICES ASSUME BufferInv, World PROVE BufferInv'
  OBVIOUS
<1>1. CASE Take
  BY <1>1 DEF Take, BufferInv, downVars, Fitting
<1>2. ASSUME NEW len \in DownLens, ServerSend(len) PROVE BufferInv'
  <2>1. len \in Nat
    BY TransportAssumption
  <2>2. downLens' \in Seq(DownLens)
    BY <1>2 DEF ServerSend, BufferInv
  <2>3. Len(downLens') \in Nat
    BY <2>2
  <2>4. transit' \in Seq(Byte)
    BY <1>2, <2>1, <2>3, BytesFacts DEF ServerSend, BufferInv
  <2> QED
    BY <1>2, <2>2, <2>4 DEF ServerSend, BufferInv, Fitting
<1>3. ASSUME NEW n \in 1..Len(transit), Arrive(n) PROVE BufferInv'
  <2>1. transit \in Seq(Byte) /\ rcvbuf \in Seq(Byte) /\ Len(transit) \in Nat
    BY DEF BufferInv
  <2>2. SubSeq(transit, 1, n) \in Seq(Byte) /\ SubSeq(transit, n + 1, Len(transit)) \in Seq(Byte)
    BY <2>1
  <2> QED
    BY <1>3, <2>1, <2>2 DEF Arrive, BufferInv, Fitting
<1>4. ASSUME NEW n \in 0..Len(transit), ServerClose(n) PROVE BufferInv'
  <2>1. SubSeq(transit, 1, n) \in Seq(Byte)
    BY DEF BufferInv
  <2> QED
    BY <1>4, <2>1 DEF ServerClose, BufferInv, Fitting
<1> QED
  BY <1>1, <1>2, <1>3, <1>4 DEF World

LEMMA BufferStep == BufferInv /\ [Next]_vars => BufferInv'
<1> SUFFICES ASSUME BufferInv, [Next]_vars PROVE BufferInv'
  OBVIOUS
<1>1. CASE Library
  BY <1>1, ReaderKeeps
<1>2. CASE World
  BY <1>2, NetworkKeeps
<1>3. CASE App
  BY <1>3 DEF App, MsgWrite, Wait, MainloopInit, CallbackReturn, BufferInv, downVars, Fitting
<1>4. CASE ReadEvent \/ WriteEvent \/ WaitSelect
  BY <1>4 DEF ReadEvent, WriteEvent, WaitSelect, BufferInv, downVars, Fitting
<1>5. CASE UNCHANGED vars
  BY <1>5 DEF vars, downVars, BufferInv, Fitting
<1> QED
  BY <1>1, <1>2, <1>3, <1>4, <1>5 DEF Next

\* Nothing is read beyond the room of the buffer, also when the length of a
\* message wraps around or is read from bytes that are no header
\* (xmms_ipc_msg_read_transport).
THEOREM WithinBufferCorrect == Spec => []WithinBuffer
<1>1. Init => BufferInv
  BY DEF Init, BufferInv
<1>2. BufferInv /\ [Next]_vars => BufferInv'
  BY BufferStep
<1>3. BufferInv => WithinBuffer
  BY DEF BufferInv, WithinBuffer, Fitting
<1> QED
  BY <1>1, <1>2, <1>3, PTL DEF Spec

-----------------------------------------------------------------------------
\* g holds the concatenations of the first members of s.
Glue(a, b) == a \o b
FlatAt(g, s, i) == IF i = 1 THEN s[i] ELSE Glue(g[i - 1], s[i])
Flattens(g, s, n) == g = [i \in 1..n |-> FlatAt(g, s, i)]

LEMMA FlattensExists ==
  ASSUME NEW s
  PROVE  \A n \in Nat : \E g : Flattens(g, s, n)
<1> DEFINE T == {n \in Nat : \E g : Flattens(g, s, n)}
<1>1. 0 \in T
  <2>1. Flattens([i \in 1..0 |-> 0], s, 0)
    BY DEF Flattens
  <2>2. QED
    BY <2>1
<1>2. ASSUME NEW n \in Nat, n \in T PROVE n + 1 \in T
  <2>1. PICK g : Flattens(g, s, n)
    BY <1>2
  <2> DEFINE h == [i \in 1..n + 1 |-> FlatAt(g, s, i)]
  <2>2. \A i \in 1..n : h[i] = g[i]
    <3>1. \A i \in 1..n : g[i] = FlatAt(g, s, i)
      BY <2>1 DEF Flattens
    <3>2. \A i \in 1..n : h[i] = FlatAt(g, s, i)
      OBVIOUS
    <3> QED
      BY <3>1, <3>2
  <2>3. \A i \in 1..n + 1 : FlatAt(h, s, i) = FlatAt(g, s, i)
    <3> HIDE DEF h
    <3>1. \A i \in 1..n + 1 : i # 1 => i - 1 \in 1..n
      OBVIOUS
    <3> QED
      BY <2>2, <3>1 DEF FlatAt
  <2>4. Flattens(h, s, n + 1)
    BY <2>3 DEF Flattens
  <2> HIDE DEF h
  <2> QED
    BY <2>4
<1> HIDE DEF T
<1>3. \A n \in Nat : n \in T
  BY <1>1, <1>2, NatInd
<1> QED
  BY <1>3 DEF T

LEMMA FlattensUnique ==
  ASSUME NEW s, NEW m \in Nat, NEW g, Flattens(g, s, m), NEW h, Flattens(h, s, m)
  PROVE  g = h
<1> DEFINE T == {n \in Nat : \A i \in 1..m : i <= n => g[i] = h[i]}
<1>1. 0 \in T
  OBVIOUS
<1>0. \A i \in 1..m : g[i] = FlatAt(g, s, i) /\ h[i] = FlatAt(h, s, i)
  BY DEF Flattens
<1>2. ASSUME NEW n \in Nat, n \in T PROVE n + 1 \in T
  <2>1. ASSUME NEW i \in 1..m, i <= n + 1 PROVE g[i] = h[i]
    <3>1. CASE i = 1
      BY <1>0, <3>1 DEF FlatAt
    <3>2. CASE i # 1
      <4>1. i - 1 \in 1..m /\ i - 1 <= n
        BY <2>1, <3>2
      <4>2. g[i - 1] = h[i - 1]
        BY <1>2, <4>1
      <4> QED
        BY <1>0, <3>2, <4>2 DEF FlatAt
    <3> QED
      BY <3>1, <3>2
  <2> QED
    BY <2>1
<1> HIDE DEF T
<1>3. \A n \in Nat : n \in T
  BY <1>1, <1>2, NatInd
<1>4. \A i \in 1..m : g[i] = h[i]
  BY <1>3 DEF T
<1> QED
  BY <1>4 DEF Flattens

LEMMA FlattenIs ==
  ASSUME NEW s, Len(s) \in Nat, Len(s) # 0
  PROVE  \E g : Flattens(g, s, Len(s)) /\ FlattenSeq(s) = g[Len(s)]
<1> DEFINE f == CHOOSE h : h = [i \in 1..Len(s) |-> IF i = 1 THEN s[i] ELSE h[i - 1] \o s[i]]
<1>1. FlattenSeq(s) = f[Len(s)]
  BY DEF FlattenSeq
<1>2. f = CHOOSE h : Flattens(h, s, Len(s))
  BY DEF Flattens, FlatAt, Glue
<1> HIDE DEF f
<1>3. Flattens(f, s, Len(s))
  BY <1>2, FlattensExists
<1> QED
  BY <1>1, <1>3

LEMMA FlattenAppend ==
  ASSUME NEW S, NEW s \in Seq(Seq(S)), NEW x \in Seq(S)
  PROVE  FlattenSeq(Append(s, x)) = FlattenSeq(s) \o x
<1> DEFINE t == Append(s, x)
<1>1. /\ t \in Seq(Seq(S)) /\ Len(t) = Len(s) + 1 /\ Len(s) \in Nat /\ t[Len(s) + 1] = x
      /\ \A i \in 1..Len(s) : t[i] = s[i]
  BY LenProperties, AppendProperties
<1> HIDE DEF t
<1>2. PICK h : Flattens(h, t, Len(t)) /\ FlattenSeq(t) = h[Len(t)]
  <2>1. Len(t) \in Nat /\ Len(t) # 0
    BY <1>1
  <2> QED
    BY <2>1, FlattenIs
<1>3. \A i \in 1..Len(t) : h[i] = FlatAt(h, t, i)
  BY <1>2 DEF Flattens
<1>4. CASE Len(s) = 0
  <2>1. s = <<>> /\ FlattenSeq(s) = s
    BY <1>4, EmptySeq DEF FlattenSeq
  <2>2. FlattenSeq(t) = x
    BY <1>1, <1>2, <1>3, <1>4 DEF FlatAt
  <2> QED
    BY <2>1, <2>2, ConcatEmptySeq DEF t
<1>5. CASE Len(s) # 0
  <2>1. PICK g : Flattens(g, s, Len(s)) /\ FlattenSeq(s) = g[Len(s)]
    BY <1>1, <1>5, FlattenIs
  <2> DEFINE k == [i \in 1..Len(s) |-> h[i]]
  <2>2. Flattens(k, s, Len(s))
    <3>1. \A i \in 1..Len(s) : i # 1 => i - 1 \in 1..Len(s)
      BY <1>1
    <3>2. \A i \in 1..Len(s) : FlatAt(h, t, i) = FlatAt(k, s, i)
      BY <1>1, <3>1 DEF FlatAt
    <3>3. \A i \in 1..Len(s) : h[i] = FlatAt(k, s, i)
      BY <1>1, <1>3, <3>2
    <3>4. k = [i \in 1..Len(s) |-> FlatAt(k, s, i)]
      BY <3>3
    <3> QED
      BY <3>4 DEF Flattens
  <2> HIDE DEF k
  <2>3. k = g
    BY <1>1, <2>1, <2>2, FlattensUnique
  <2>4. h[Len(s)] = g[Len(s)]
    BY <1>1, <1>5, <2>3 DEF k
  <2>5. FlattenSeq(t) = Glue(h[Len(s)], x)
    <3>1. Len(t) \in 1..Len(t) /\ Len(t) # 1 /\ Len(t) - 1 = Len(s) /\ t[Len(t)] = x
      BY <1>1, <1>5
    <3>2. h[Len(t)] = FlatAt(h, t, Len(t))
      BY <1>3, <3>1
    <3> QED
      BY <1>2, <3>1, <3>2 DEF FlatAt
  <2> QED
    BY <2>1, <2>4, <2>5 DEF Glue, t
<1> QED
  BY <1>4, <1>5

\* Sequences are built by appending.
LEMMA SeqInd ==
  ASSUME NEW S, NEW T, <<>> \in T, \A s \in Seq(S), x \in S : s \in T => Append(s, x) \in T
  PROVE  \A s \in Seq(S) : s \in T
<1> DEFINE U == {n \in Nat : \A s \in Seq(S) : Len(s) = n => s \in T}
<1>1. 0 \in U
  BY EmptySeq
<1>2. ASSUME NEW n \in Nat, n \in U PROVE n + 1 \in U
  <2>1. ASSUME NEW s \in Seq(S), Len(s) = n + 1 PROVE s \in T
    <3>1. s # <<>>
      BY <2>1, EmptySeq
    <3>2. PICK t \in Seq(S), x \in S : s = Append(t, x)
      BY <3>1, SequenceEmptyOrAppend
    <3>3. Len(t) = n
      BY <2>1, <3>2, AppendProperties, LenProperties
    <3> QED
      BY <1>2, <3>2, <3>3
  <2> QED
    BY <2>1
<1> HIDE DEF U
<1>3. \A n \in Nat : n \in U
  BY <1>1, <1>2, NatInd
<1> QED
  BY <1>3, LenProperties DEF U

LEMMA FlattenEmpty == FlattenSeq(<<>>) = <<>>
  BY EmptySeq DEF FlattenSeq

LEMMA FlattenType ==
  ASSUME NEW S, NEW s \in Seq(Seq(S))
  PROVE  FlattenSeq(s) \in Seq(S)
<1> DEFINE T == {t \in Seq(Seq(S)) : FlattenSeq(t) \in Seq(S)}
<1>1. <<>> \in T
  BY FlattenEmpty, EmptySeq
<1>2. ASSUME NEW t \in Seq(Seq(S)), NEW x \in Seq(S), t \in T PROVE Append(t, x) \in T
  <2>1. FlattenSeq(Append(t, x)) = FlattenSeq(t) \o x
    BY FlattenAppend
  <2>2. FlattenSeq(t) \in Seq(S) /\ Append(t, x) \in Seq(Seq(S))
    BY <1>2, AppendProperties
  <2> QED
    BY <2>1, <2>2, ConcatProperties
<1> HIDE DEF T
<1>3. \A t \in Seq(Seq(S)) : t \in T
  BY <1>1, <1>2, SeqInd
<1> QED
  BY <1>3 DEF T

LEMMA FlattenPrepend ==
  ASSUME NEW S, NEW a \in Seq(S), NEW s \in Seq(Seq(S))
  PROVE  FlattenSeq(<<a>> \o s) = a \o FlattenSeq(s)
<1> DEFINE T == {t \in Seq(Seq(S)) : FlattenSeq(<<a>> \o t) = a \o FlattenSeq(t)}
<1>0. <<a>> \in Seq(Seq(S)) /\ <<>> \in Seq(Seq(S)) /\ Append(<<>>, a) = <<a>>
  BY EmptySeq
<1>1. <<>> \in T
  <2>1. <<a>> \o <<>> = <<a>> /\ a \o <<>> = a /\ <<>> \o a = a
    BY <1>0, ConcatEmptySeq
  <2>2. FlattenSeq(<<a>>) = a
    BY <1>0, <2>1, FlattenAppend, FlattenEmpty
  <2> QED
    BY <1>0, <2>1, <2>2, FlattenEmpty
<1>2. ASSUME NEW t \in Seq(Seq(S)), NEW x \in Seq(S), t \in T PROVE Append(t, x) \in T
  <2>1. <<a>> \o Append(t, x) = Append(<<a>> \o t, x)
    <3>1. Append(t, x) = t \o <<x>> /\ <<x>> \in Seq(Seq(S)) /\ <<a>> \o t \in Seq(Seq(S))
      BY <1>0, AppendIsConcat, ConcatProperties
    <3>2. Append(<<a>> \o t, x) = (<<a>> \o t) \o <<x>>
      BY <3>1, AppendIsConcat
    <3> QED
      BY <1>0, <3>1, <3>2, ConcatAssociative
  <2>2. FlattenSeq(Append(<<a>> \o t, x)) = FlattenSeq(<<a>> \o t) \o x
    <3>1. <<a>> \o t \in Seq(Seq(S))
      BY <1>0, ConcatProperties
    <3> QED
      BY <3>1, FlattenAppend
  <2>3. FlattenSeq(Append(t, x)) = FlattenSeq(t) \o x
    BY FlattenAppend
  <2>4. FlattenSeq(<<a>> \o t) = a \o FlattenSeq(t) /\ FlattenSeq(t) \in Seq(S)
    BY <1>2, FlattenType
  <2>5. (a \o FlattenSeq(t)) \o x = a \o (FlattenSeq(t) \o x)
    BY <2>4, ConcatAssociative
  <2>6. Append(t, x) \in Seq(Seq(S))
    BY AppendProperties
  <2> QED
    BY <2>1, <2>2, <2>3, <2>4, <2>5, <2>6
<1> HIDE DEF T
<1>3. \A t \in Seq(Seq(S)) : t \in T
  BY <1>1, <1>2, SeqInd
<1> QED
  BY <1>3 DEF T

-----------------------------------------------------------------------------
\* The bytes of messages.

\* Reducing a number below the modulus leaves it as it is.
LEMMA ModSmall ==
  ASSUME NEW a \in Nat, NEW m \in Nat, a < m
  PROVE  a % m = a
  OBVIOUS

LEMMA PrefixOf ==
  ASSUME NEW S, NEW s \in Seq(S), NEW r \in Seq(S)
  PROVE  IsPrefix(s, s \o r)
<1>1. Len(s) \in Nat /\ Len(r) \in Nat /\ Len(s \o r) = Len(s) + Len(r)
  BY LenProperties, ConcatProperties
<1>2. SubSeq(s \o r, 1, Len(s)) = SubSeq(s, 1, Len(s))
  <2>1. CASE Len(s) = 0
    BY <2>1, SubSeqEmpty
  <2>2. CASE Len(s) # 0
    <3>1. 1 \in 1..Len(s) /\ Len(s) \in 1..Len(s)
      BY <1>1, <2>2
    <3> QED
      BY <3>1, SubSeqOfConcat1
  <2> QED
    BY <2>1, <2>2
<1> QED
  BY <1>1, <1>2 DEF IsPrefix

\* A sequence is what is cut off from its head and what remains.
LEMMA CutFacts ==
  ASSUME NEW S, NEW s \in Seq(S), NEW k \in 0..Len(s)
  PROVE  /\ SubSeq(s, 1, k) \in Seq(S) /\ SubSeq(s, k + 1, Len(s)) \in Seq(S)
         /\ Len(SubSeq(s, 1, k)) = k
         /\ SubSeq(s, 1, k) \o SubSeq(s, k + 1, Len(s)) = s
<1>1. Len(s) \in Nat /\ \A i \in 1..Len(s) : s[i] \in S
  BY LenProperties, ElementOfSeq
<1>2. SubSeq(s, 1, k) \in Seq(S) /\ Len(SubSeq(s, 1, k)) = k
  BY <1>1, SubSeqProperties
<1>3. SubSeq(s, k + 1, Len(s)) \in Seq(S)
  BY <1>1, SubSeqProperties
<1>4. SubSeq(s, 1, k) \o SubSeq(s, k + 1, Len(s)) = SubSeq(s, 1, Len(s))
  <2>1. 1 \in 1..Len(s) + 1 /\ k \in 1 - 1..Len(s) /\ Len(s) \in k..Len(s)
    BY <1>1
  <2> QED
    BY <2>1, ConcatAdjacentSubSeq
<1> QED
  BY <1>2, <1>3, <1>4, SubSeqFull

LEMMA BytesAssociative ==
  ASSUME NEW a \in Seq(Byte), NEW b \in Seq(Byte), NEW c \in Seq(Byte)
  PROVE  (a \o b) \o c = a \o (b \o c)
BY ConcatAssociative

\* The heads of equal concatenations are equal when they are equally long.
LEMMA SameHeads ==
  ASSUME NEW S, NEW a \in Seq(S), NEW b \in Seq(S), NEW x \in Seq(S), NEW y \in Seq(S),
         a \o x = b \o y, Len(a) = Len(b)
  PROVE  a = b /\ x = y
<1>1. a = b
  <2>1. Len(a) \in Nat /\ Len(x) \in Nat /\ Len(y) \in Nat
    BY LenProperties
  <2>2. ASSUME NEW i \in 1..Len(a) PROVE a[i] = b[i]
    <3>1. (a \o x)[i] = a[i]
      BY <2>1, ConcatProperties
    <3>2. (b \o y)[i] = b[i]
      BY <2>1, ConcatProperties
    <3> QED
      BY <3>1, <3>2
  <2> QED
    BY <2>2, SeqEqual
<1> QED
  BY <1>1, ConcatSimplifications

LEMMA BytesIs ==
  ASSUME NEW i \in Nat, NEW n \in Nat
  PROVE  /\ Bytes(i, n) \in Seq(Byte) /\ Len(Bytes(i, n)) = HeadLen + n
         /\ \A k \in 1..HeadLen + n : Bytes(i, n)[k] = <<i, k>>
<1>1. HeadLen + n \in Nat
  BY TransportAssumption
<1>2. Len(Bytes(i, n)) = HeadLen + n
  BY <1>1 DEF Bytes
<1> QED
  BY <1>2, BytesFacts DEF Bytes

BytesOf(lens) == [i \in DOMAIN lens |-> Bytes(i, lens[i])]

LEMMA BytesOfFacts ==
  ASSUME NEW lens \in Seq(Nat)
  PROVE  BytesOf(lens) \in Seq(Seq(Byte)) /\ AllBytes(lens) = FlattenSeq(BytesOf(lens))
<1>1. Len(lens) \in Nat /\ DOMAIN lens = 1..Len(lens)
  BY LenProperties
<1>2. \A i \in 1..Len(lens) : Bytes(i, lens[i]) \in Seq(Byte)
  <2> TAKE i \in 1..Len(lens)
  <2>1. i \in Nat /\ lens[i] \in Nat
    BY ElementOfSeq
  <2> QED
    BY <2>1, BytesIs
<1>3. BytesOf(lens) \in Seq(Seq(Byte))
  <2> DEFINE Z == Seq(Byte)
  <2>1. \A i \in 1..Len(lens) : Bytes(i, lens[i]) \in Z
    BY <1>2
  <2> HIDE DEF Z
  <2>2. BytesOf(lens) \in [1..Len(lens) -> Z]
    BY <1>1, <2>1 DEF BytesOf
  <2>3. BytesOf(lens) \in Seq(Z)
    BY <1>1, <2>2
  <2> QED
    BY <2>3 DEF Z
<1> QED
  BY <1>3 DEF AllBytes, BytesOf

LEMMA AllBytesAppend ==
  ASSUME NEW lens \in Seq(Nat), NEW n \in Nat
  PROVE  /\ AllBytes(lens) \in Seq(Byte)
         /\ AllBytes(Append(lens, n)) = AllBytes(lens) \o Bytes(Len(lens) + 1, n)
<1>1. /\ Append(lens, n) \in Seq(Nat) /\ Len(Append(lens, n)) = Len(lens) + 1
      /\ \A i \in 1..Len(lens) : Append(lens, n)[i] = lens[i]
      /\ Append(lens, n)[Len(lens) + 1] = n /\ Len(lens) \in Nat
  BY AppendProperties, LenProperties
<1> DEFINE B == BytesOf(lens)
           C == BytesOf(Append(lens, n))
           b == Bytes(Len(lens) + 1, n)
<1>2. /\ B \in Seq(Seq(Byte)) /\ AllBytes(lens) = FlattenSeq(B)
      /\ C \in Seq(Seq(Byte)) /\ AllBytes(Append(lens, n)) = FlattenSeq(C)
  BY <1>1, BytesOfFacts
<1>3. b \in Seq(Byte)
  BY <1>1, BytesIs
<1>4. /\ Len(B) = Len(lens) /\ Len(C) = Len(lens) + 1
      /\ \A i \in 1..Len(lens) : B[i] = Bytes(i, lens[i])
      /\ \A i \in 1..Len(lens) + 1 : C[i] = Bytes(i, Append(lens, n)[i])
  <2>1. DOMAIN lens = 1..Len(lens) /\ DOMAIN Append(lens, n) = 1..Len(lens) + 1
    BY <1>1, LenProperties
  <2>2. DOMAIN B = 1..Len(lens) /\ DOMAIN C = 1..Len(lens) + 1
    BY <2>1 DEF BytesOf
  <2>3. Len(B) = Len(lens) /\ Len(C) = Len(lens) + 1
    <3>1. DOMAIN B = 1..Len(B) /\ DOMAIN C = 1..Len(C) /\ Len(B) \in Nat /\ Len(C) \in Nat
      BY <1>2, LenProperties
    <3> HIDE DEF B, C
    <3> QED
      BY <1>1, <2>2, <3>1
  <2> QED
    BY <2>1, <2>3 DEF BytesOf
<1>5. C = Append(B, b)
  <2>1. /\ Append(B, b) \in Seq(Seq(Byte)) /\ Len(Append(B, b)) = Len(B) + 1
        /\ \A i \in 1..Len(B) : Append(B, b)[i] = B[i]
        /\ Append(B, b)[Len(B) + 1] = b
    BY <1>2, <1>3, AppendProperties
  <2>2. \A i \in 1..Len(C) : C[i] = Append(B, b)[i]
    <3> TAKE i \in 1..Len(C)
    <3>1. CASE i = Len(lens) + 1
      BY <1>1, <1>4, <2>1, <3>1
    <3>2. CASE i # Len(lens) + 1
      <4>1. i \in 1..Len(lens) /\ i \in 1..Len(lens) + 1
        BY <1>1, <1>4, <3>2
      <4> HIDE DEF B, C, b
      <4> QED
        BY <1>1, <1>4, <2>1, <4>1
    <3> QED
      BY <3>1, <3>2
  <2> HIDE DEF B, C, b
  <2> QED
    BY <1>2, <1>4, <2>1, <2>2, SeqEqual
<1> HIDE DEF B, C, b
<1>6. FlattenSeq(C) = FlattenSeq(B) \o b /\ FlattenSeq(B) \in Seq(Byte)
  BY <1>2, <1>3, <1>5, FlattenAppend, FlattenType
<1> QED
  BY <1>2, <1>6 DEF b

-----------------------------------------------------------------------------
\* The output: what is written and what is still queued.

Queueable == {m \in [id : 1..MaxUp, len : UpLens, xfered : Nat] : m.xfered < HeadLen + m.len}

\* What is still to be written of message m, and of the messages of queue q.
Rest(m)    == SubSeq(Bytes(m.id, m.len), m.xfered + 1, HeadLen + m.len)
RestsOf(q) == [i \in DOMAIN q |-> Rest(q[i])]

LEMMA UnwrittenIs == Unwritten = FlattenSeq(RestsOf(outMsg))
  BY DEF Unwritten, RestsOf, Rest

LEMMA QueueableFacts ==
  ASSUME NEW m \in Queueable
  PROVE  /\ m.id \in Nat /\ m.id \in 1..MaxUp /\ m.len \in Nat /\ m.len \in UpLens
         /\ m.xfered \in Nat /\ m.xfered < HeadLen + m.len
         /\ HeadLen + m.len \in Nat /\ Total(m.len) = HeadLen + m.len
<1>1. /\ m.id \in 1..MaxUp /\ m.len \in UpLens /\ m.xfered \in Nat
      /\ m.xfered < HeadLen + m.len
  BY DEF Queueable
<1>2. HeadLen \in Nat /\ Modulus \in Nat /\ m.len \in 0..Modulus - HeadLen - 1
  BY <1>1, TransportAssumption
<1>3. HeadLen + m.len \in Nat /\ HeadLen + m.len < Modulus
  BY <1>2
<1>4. Total(m.len) = HeadLen + m.len
  BY <1>2, <1>3, ModSmall DEF Total
<1> QED
  BY <1>1, <1>2, <1>3, <1>4, TransportAssumption

\* n bytes from the head of what remains of a message.
LEMMA RestFacts ==
  ASSUME NEW m \in Queueable, NEW n \in Nat, m.xfered + n <= HeadLen + m.len
  PROVE  LET p == SubSeq(Bytes(m.id, m.len), m.xfered + 1, m.xfered + n)
             r == SubSeq(Bytes(m.id, m.len), m.xfered + n + 1, HeadLen + m.len)
         IN  /\ Rest(m) \in Seq(Byte) /\ p \in Seq(Byte) /\ r \in Seq(Byte)
             /\ Len(p) = n
             /\ Rest(m) = p \o r
             /\ m.xfered + n = HeadLen + m.len => r = <<>>
<1> DEFINE b == Bytes(m.id, m.len)
           x == m.xfered
           e == HeadLen + m.len
           p == SubSeq(b, x + 1, x + n)
           r == SubSeq(b, x + n + 1, e)
<1>1. b \in Seq(Byte) /\ Len(b) = e /\ e \in Nat /\ x \in Nat /\ x < e /\ x + n <= e
  BY QueueableFacts, BytesIs
<1>2. \A i \in 1..Len(b) : b[i] \in Byte
  BY <1>1, ElementOfSeq
<1> HIDE DEF b, x, e
<1>3. p \in Seq(Byte) /\ Len(p) = n
  <2>1. /\ x + 1 \in Int /\ x + n \in Int
        /\ \A i \in x + 1..x + n : b[i] \in Byte
    BY <1>1, <1>2
  <2>2. p \in Seq(Byte) /\ Len(p) = IF x + 1 <= x + n THEN (x + n) - (x + 1) + 1 ELSE 0
    BY <2>1, SubSeqProperties
  <2> QED
    BY <1>1, <2>2
<1>4. r \in Seq(Byte)
  <2>1. /\ x + n + 1 \in Int /\ e \in Int
        /\ \A i \in x + n + 1..e : b[i] \in Byte
    BY <1>1, <1>2
  <2> QED
    BY <2>1, SubSeqProperties
<1>5. p \o r = SubSeq(b, x + 1, e)
  <2>1. x + 1 \in 1..Len(b) + 1 /\ x + n \in (x + 1) - 1..Len(b) /\ e \in x + n..Len(b)
    BY <1>1
  <2> QED
    BY <1>1, <2>1, ConcatAdjacentSubSeq
<1>6. x + n = e => r = <<>>
  <2>1. ASSUME x + n = e PROVE r = <<>>
    <3>1. e < x + n + 1 /\ x + n + 1 \in Int /\ e \in Int
      BY <1>1, <2>1
    <3> QED
      BY <3>1, SubSeqEmpty
  <2> QED
    BY <2>1
<1>7. SubSeq(b, x + 1, e) \in Seq(Byte)
  BY <1>3, <1>4, <1>5, ConcatProperties
<1> QED
  BY <1>3, <1>4, <1>5, <1>6, <1>7 DEF Rest, b, x, e

LEMMA RestsType ==
  ASSUME NEW q \in Seq(Queueable)
  PROVE  /\ RestsOf(q) \in Seq(Seq(Byte)) /\ Len(RestsOf(q)) = Len(q)
         /\ \A i \in 1..Len(q) : RestsOf(q)[i] = Rest(q[i])
<1>1. Len(q) \in Nat /\ DOMAIN q = 1..Len(q)
  BY LenProperties
<1> DEFINE Z == Seq(Byte)
<1>2. \A i \in 1..Len(q) : Rest(q[i]) \in Z
  <2> TAKE i \in 1..Len(q)
  <2>1. q[i] \in Queueable /\ 0 \in Nat
    BY ElementOfSeq
  <2>2. q[i].xfered + 0 <= HeadLen + q[i].len
    BY <2>1, QueueableFacts
  <2> QED
    BY <2>1, <2>2, RestFacts
<1> HIDE DEF Z
<1>3. RestsOf(q) \in [1..Len(q) -> Z]
  BY <1>1, <1>2 DEF RestsOf
<1>4. RestsOf(q) \in Seq(Z) /\ Len(RestsOf(q)) = Len(q)
  BY <1>1, <1>3
<1> QED
  BY <1>1, <1>4 DEF RestsOf, Z

LEMMA RestsAppend ==
  ASSUME NEW q \in Seq(Queueable), NEW m \in Queueable
  PROVE  /\ FlattenSeq(RestsOf(q)) \in Seq(Byte)
         /\ FlattenSeq(RestsOf(Append(q, m))) = FlattenSeq(RestsOf(q)) \o Rest(m)
<1> DEFINE t == Append(q, m)
           R == RestsOf(q)
           A == Append(R, Rest(m))
<1>1. /\ t \in Seq(Queueable) /\ Len(t) = Len(q) + 1 /\ Len(q) \in Nat
      /\ \A i \in 1..Len(q) : t[i] = q[i]
      /\ t[Len(q) + 1] = m
  BY AppendProperties, LenProperties
<1>2. Rest(m) \in Seq(Byte)
  <2>1. 0 \in Nat /\ m.xfered + 0 <= HeadLen + m.len
    BY QueueableFacts
  <2> QED
    BY <2>1, RestFacts
<1>3. /\ R \in Seq(Seq(Byte)) /\ Len(R) = Len(q)
      /\ \A i \in 1..Len(q) : R[i] = Rest(q[i])
  BY RestsType
<1>4. /\ A \in Seq(Seq(Byte)) /\ Len(A) = Len(R) + 1
      /\ \A i \in 1..Len(R) : A[i] = R[i]
      /\ A[Len(R) + 1] = Rest(m)
  <2> DEFINE x == Rest(m)
  <2>1. R \in Seq(Seq(Byte)) /\ x \in Seq(Byte)
    BY <1>2, <1>3
  <2> HIDE DEF R, x
  <2> QED
    BY <2>1, AppendProperties DEF x
<1>5. /\ RestsOf(t) \in Seq(Seq(Byte)) /\ Len(RestsOf(t)) = Len(t)
      /\ \A i \in 1..Len(t) : RestsOf(t)[i] = Rest(t[i])
  BY <1>1, RestsType
<1> HIDE DEF t, R, A
<1>6. \A i \in 1..Len(t) : RestsOf(t)[i] = A[i]
  <2> TAKE i \in 1..Len(t)
  <2>1. CASE i = Len(q) + 1
    BY <1>1, <1>3, <1>4, <1>5, <2>1
  <2>2. CASE i # Len(q) + 1
    <3>1. i \in 1..Len(q)
      BY <1>1, <2>2
    <3> QED
      BY <1>1, <1>3, <1>4, <1>5, <3>1
  <2> QED
    BY <2>1, <2>2
<1>7. RestsOf(t) = A
  BY <1>1, <1>3, <1>4, <1>5, <1>6, SeqEqual
<1>8. FlattenSeq(Append(R, Rest(m))) = FlattenSeq(R) \o Rest(m) /\ FlattenSeq(R) \in Seq(Byte)
  BY <1>2, <1>3, FlattenAppend, FlattenType
<1> QED
  BY <1>7, <1>8 DEF t, R, A

\* What remains of the first message, and then of the others.
LEMMA RestsHead ==
  ASSUME NEW q \in Seq(Queueable), q # <<>>, NEW t \in Seq(Queueable),
         Len(t) = Len(q) - 1, \A i \in 1..Len(q) - 1 : t[i] = q[i + 1]
  PROVE  FlattenSeq(RestsOf(q)) = Rest(q[1]) \o FlattenSeq(RestsOf(t))
<1> DEFINE R == RestsOf(q)
           T == RestsOf(t)
           a == Rest(q[1])
           C == <<a>> \o T
<1>1. Len(q) \in Nat /\ Len(q) >= 1 /\ q[1] \in Queueable
  BY EmptySeq, LenProperties, ElementOfSeq
<1>2. a \in Seq(Byte)
  <2>1. 0 \in Nat /\ q[1].xfered + 0 <= HeadLen + q[1].len
    BY <1>1, QueueableFacts
  <2> QED
    BY <1>1, <2>1, RestFacts
<1>3. /\ R \in Seq(Seq(Byte)) /\ Len(R) = Len(q)
      /\ \A i \in 1..Len(q) : R[i] = Rest(q[i])
      /\ T \in Seq(Seq(Byte)) /\ Len(T) = Len(q) - 1
      /\ \A i \in 1..Len(q) - 1 : T[i] = Rest(q[i + 1])
  BY RestsType
<1>4. /\ <<a>> \in Seq(Seq(Byte)) /\ Len(<<a>>) = 1 /\ <<a>>[1] = a
  BY <1>2
<1>5. /\ C \in Seq(Seq(Byte)) /\ Len(C) = 1 + Len(T)
      /\ \A i \in 1..1 + Len(T) : C[i] = IF i <= 1 THEN a ELSE T[i - 1]
  <2>1. /\ C \in Seq(Seq(Byte)) /\ Len(C) = Len(<<a>>) + Len(T)
        /\ \A i \in 1..Len(<<a>>) + Len(T) :
             C[i] = IF i <= Len(<<a>>) THEN <<a>>[i] ELSE T[i - Len(<<a>>)]
    BY <1>3, <1>4, ConcatProperties
  <2> HIDE DEF a, T, C
  <2>2. \A i \in 1..1 + Len(T) : i <= 1 => i = 1
    BY <1>1, <1>3
  <2> QED
    BY <1>4, <2>1, <2>2
<1>6. FlattenSeq(C) = a \o FlattenSeq(T)
  BY <1>2, <1>3, FlattenPrepend
<1> HIDE DEF R, T, C
<1>7. \A i \in 1..Len(R) : R[i] = C[i]
  <2> TAKE i \in 1..Len(R)
  <2>1. CASE i = 1
    BY <1>1, <1>3, <1>5, <2>1
  <2>2. CASE i # 1
    <3>1. i - 1 \in 1..Len(q) - 1 /\ i \in 1..1 + Len(T) /\ ~(i <= 1) /\ (i - 1) + 1 = i
      BY <1>1, <1>3, <2>2
    <3>2. C[i] = T[i - 1] /\ T[i - 1] = Rest(q[(i - 1) + 1])
      BY <1>3, <1>5, <3>1
    <3> QED
      BY <1>1, <1>3, <3>1, <3>2
  <2> QED
    BY <2>1, <2>2
<1>8. R = C
  <2>1. Len(R) = Len(C)
    BY <1>1, <1>3, <1>5
  <2> QED
    BY <1>3, <1>5, <1>7, <2>1, SeqEqual
<1> QED
  BY <1>6, <1>8 DEF R, T

-----------------------------------------------------------------------------
\* The invariant of the output.
OutInv ==
  /\ upLens \in Seq(UpLens) /\ Len(upLens) <= MaxUp
  /\ up \in Seq(Byte)
  /\ outMsg \in Seq(Queueable)
  /\ taken \in 0..Len(up) /\ Len(up) - taken <= Space
  /\ WrittenInOrder

\* Lengths are natural numbers.
LEMMA LensAreNat ==
  /\ UpLens \subseteq Nat /\ DownLens \subseteq Nat
  /\ \A s \in Seq(UpLens) : s \in Seq(Nat)
  /\ \A s \in Seq(DownLens) : s \in Seq(Nat)
<1>1. UpLens \subseteq Nat /\ DownLens \subseteq Nat
  BY TransportAssumption
<1>2. ASSUME NEW S, S \subseteq Nat, NEW s \in Seq(S) PROVE s \in Seq(Nat)
  <2>1. Len(s) \in Nat /\ s \in [1..Len(s) -> S]
    BY LenProperties
  <2>2. s \in [1..Len(s) -> Nat]
    BY <1>2, <2>1
  <2> QED
    BY <2>1, <2>2
<1> QED
  BY <1>1, <1>2

\* A new message is queued whole, behind the others.
LEMMA WriteKeeps ==
  ASSUME OutInv, NEW len \in UpLens, MsgWrite(len)
  PROVE  OutInv'
<1>1. /\ upLens \in Seq(UpLens) /\ upLens \in Seq(Nat) /\ Len(upLens) \in Nat /\ Len(upLens) < MaxUp
      /\ up \in Seq(Byte) /\ outMsg \in Seq(Queueable) /\ len \in Nat /\ MaxUp \in Nat
  BY LensAreNat, LenProperties, TransportAssumption DEF OutInv, MsgWrite
<1>2. PICK i \in 1..MaxUp : i = Len(upLens) + 1
  BY <1>1
<1>3. PICK u \in Seq(UpLens) : u = Append(upLens, len)
  BY <1>1, AppendProperties
<1>4. Len(u) = i /\ u \in Seq(Nat)
  BY <1>1, <1>2, <1>3, AppendProperties, LensAreNat
<1> DEFINE m == [id |-> i, len |-> len, xfered |-> 0]
<1>5. m \in Queueable /\ Rest(m) = Bytes(i, len) /\ Bytes(i, len) \in Seq(Byte)
  <2>1. HeadLen \in Nat \ {0} /\ i \in Nat
    BY <1>1, TransportAssumption
  <2>2. m \in Queueable
    BY <1>1, <2>1 DEF Queueable
  <2>3. Bytes(i, len) \in Seq(Byte) /\ Len(Bytes(i, len)) = HeadLen + len
    BY <1>1, <2>1, BytesIs
  <2>4. Rest(m) = SubSeq(Bytes(i, len), 1, HeadLen + len)
    <3>1. m.id = i /\ m.len = len /\ m.xfered + 1 = 1
      OBVIOUS
    <3> HIDE DEF m
    <3> QED
      BY <3>1 DEF Rest
  <2> QED
    BY <2>2, <2>3, <2>4, SubSeqFull
<1>6. upLens' = u /\ outMsg' = Append(outMsg, m) /\ UNCHANGED <<up, taken>>
  BY <1>3, <1>4 DEF MsgWrite
<1> HIDE DEF m
<1>7. PICK q \in Seq(Queueable) : q = Append(outMsg, m)
  BY <1>1, <1>5, AppendProperties
<1>8. FlattenSeq(RestsOf(q)) = FlattenSeq(RestsOf(outMsg)) \o Rest(m) /\ FlattenSeq(RestsOf(outMsg)) \in Seq(Byte)
  BY <1>1, <1>5, <1>7, RestsAppend
<1>9. AllBytes(u) = AllBytes(upLens) \o Bytes(i, len)
  BY <1>1, <1>2, <1>3, AllBytesAppend
<1>10. up \o FlattenSeq(RestsOf(outMsg)) = AllBytes(upLens)
  BY UnwrittenIs DEF OutInv, WrittenInOrder
<1>11. up \o FlattenSeq(RestsOf(q)) = AllBytes(u)
  <2> DEFINE F == FlattenSeq(RestsOf(outMsg))
             b == Bytes(i, len)
  <2>1. F \in Seq(Byte) /\ b \in Seq(Byte)
    BY <1>5, <1>8
  <2>0. up \in Seq(Byte)
    BY <1>1
  <2> HIDE DEF F, b
  <2>2. (up \o F) \o b = up \o (F \o b)
    BY <2>0, <2>1, BytesAssociative
  <2> QED
    BY <1>5, <1>8, <1>9, <1>10, <2>2 DEF F, b
<1>12. Unwritten' = FlattenSeq(RestsOf(q))
  <2>1. Unwritten' = FlattenSeq(RestsOf(outMsg'))
    BY DEF Unwritten, RestsOf, Rest
  <2> QED
    BY <1>6, <1>7, <2>1
<1>13. WrittenInOrder'
  BY <1>6, <1>11, <1>12 DEF WrittenInOrder
<1>14. upLens' \in Seq(UpLens) /\ Len(upLens') <= MaxUp
  BY <1>3, <1>4, <1>6
<1> QED
  BY <1>6, <1>7, <1>13, <1>14 DEF OutInv

\* What send takes off the queue goes to the socket, and what it leaves stays at
\* the head of the queue.
LEMMA SendKeeps ==
  ASSUME OutInv, Send
  PROVE  OutInv'
<1>1. /\ up \in Seq(Byte) /\ Len(up) \in Nat /\ outMsg \in Seq(Queueable)
      /\ outMsg # <<>> /\ taken \in 0..Len(up) /\ Len(up) - taken <= Space /\ Space \in Nat
  BY LenProperties, TransportAssumption DEF OutInv, Send
<1>2. PICK m \in Queueable : m = outMsg[1]
  <2>1. 1 \in 1..Len(outMsg)
    BY <1>1, EmptySeq, LenProperties
  <2> QED
    BY <1>1, <2>1, ElementOfSeq
<1>3. /\ m.len \in Nat /\ m.len \in UpLens /\ m.id \in 1..MaxUp /\ m.xfered \in Nat
      /\ m.xfered < HeadLen + m.len /\ HeadLen + m.len \in Nat /\ Total(m.len) = HeadLen + m.len
  BY QueueableFacts
<1>4. PICK n : n = Smaller(Total(m.len) - m.xfered, Room)
  OBVIOUS
<1>5. n \in Nat /\ n > 0 /\ m.xfered + n <= HeadLen + m.len /\ n <= Space - (Len(up) - taken)
  BY <1>1, <1>3, <1>4 DEF Smaller, Room, Send
<1>6. Head(outMsg) = m
  BY <1>1, <1>2
<1> DEFINE p == SubSeq(Bytes(m.id, m.len), m.xfered + 1, m.xfered + n)
           r == SubSeq(Bytes(m.id, m.len), m.xfered + n + 1, HeadLen + m.len)
<1>7. up' = up \o p /\ outMsg' = Sent(n) /\ UNCHANGED <<upLens, taken>>
  BY <1>4, <1>6 DEF Send
<1>8. /\ Rest(m) \in Seq(Byte) /\ p \in Seq(Byte) /\ r \in Seq(Byte)
      /\ Len(p) = n
      /\ Rest(m) = p \o r
      /\ m.xfered + n = HeadLen + m.len => r = <<>>
  BY <1>5, RestFacts
<1>9. PICK t \in Seq(Queueable) : t = Tail(outMsg)
  BY <1>1, HeadTailProperties
<1>10. Len(t) = Len(outMsg) - 1 /\ \A i \in 1..Len(outMsg) - 1 : t[i] = outMsg[i + 1]
  BY <1>1, <1>9, HeadTailProperties
<1>11. FlattenSeq(RestsOf(outMsg)) = Rest(m) \o FlattenSeq(RestsOf(t))
  BY <1>1, <1>2, <1>9, <1>10, RestsHead
<1>12. FlattenSeq(RestsOf(t)) \in Seq(Byte)
  BY RestsType, FlattenType
<1>13. \E q \in Seq(Queueable) : outMsg' = q /\ FlattenSeq(RestsOf(q)) = r \o FlattenSeq(RestsOf(t))
  <2>1. CASE m.xfered + n = HeadLen + m.len
    <3>1. outMsg' = t
      BY <1>3, <1>6, <1>7, <1>9, <2>1 DEF Sent
    <3>2. r = <<>>
      BY <1>8, <2>1
    <3> HIDE DEF r
    <3>3. <<>> \o FlattenSeq(RestsOf(t)) = FlattenSeq(RestsOf(t))
      BY <1>12, ConcatEmptySeq
    <3> QED
      BY <3>1, <3>2, <3>3
  <2>2. CASE m.xfered + n # HeadLen + m.len
    <3> DEFINE k == [m EXCEPT !.xfered = m.xfered + n]
    <3>1. k \in Queueable /\ k.id = m.id /\ k.len = m.len /\ k.xfered = m.xfered + n
      <4>1. PICK x \in Nat : x = m.xfered + n /\ x < HeadLen + m.len
        BY <1>3, <1>5, <2>2
      <4>2. k = [m EXCEPT !.xfered = x]
        BY <4>1
      <4>3. m \in [id : 1..MaxUp, len : UpLens, xfered : Nat]
        BY DEF Queueable
      <4>4. k \in [id : 1..MaxUp, len : UpLens, xfered : Nat]
            /\ k.id = m.id /\ k.len = m.len /\ k.xfered = x
        BY <4>2, <4>3
      <4> HIDE DEF k
      <4> QED
        BY <4>1, <4>4 DEF Queueable
    <3>2. Rest(k) = r
      BY <3>1 DEF Rest
    <3>3. outMsg' = [outMsg EXCEPT ![1].xfered = m.xfered + n]
      BY <1>2, <1>3, <1>6, <1>7, <2>2 DEF Sent
    <3>4. outMsg' = [outMsg EXCEPT ![1] = k]
      BY <1>2, <3>3
    <3> HIDE DEF k
    <3>5. PICK q : q = [outMsg EXCEPT ![1] = k]
      OBVIOUS
    <3>6. /\ q \in Seq(Queueable) /\ Len(q) = Len(outMsg) /\ q[1] = k /\ q # <<>>
          /\ \A i \in 1..Len(q) - 1 : t[i] = q[i + 1]
      <4>1. q \in Seq(Queueable) /\ Len(q) = Len(outMsg)
        BY <1>1, <3>1, <3>5
      <4>2. Len(outMsg) \in Nat /\ Len(outMsg) # 0
        BY <1>1, EmptySeq, LenProperties
      <4>3. DOMAIN outMsg = 1..Len(outMsg)
        BY <1>1, LenProperties
      <4>4. q[1] = k /\ \A i \in 1..Len(outMsg) - 1 : q[i + 1] = outMsg[i + 1]
        BY <3>5, <4>2, <4>3
      <4> QED
        BY <1>10, <4>1, <4>2, <4>4, EmptySeq
    <3>7. FlattenSeq(RestsOf(q)) = r \o FlattenSeq(RestsOf(t))
      <4>1. Len(t) = Len(q) - 1
        BY <1>10, <3>6
      <4> HIDE DEF r
      <4> QED
        BY <3>2, <3>6, <4>1, RestsHead
    <3> QED
      BY <3>4, <3>5, <3>6, <3>7
  <2> QED
    BY <2>1, <2>2
<1> HIDE DEF p, r
<1>14. PICK q \in Seq(Queueable) : outMsg' = q /\ FlattenSeq(RestsOf(q)) = r \o FlattenSeq(RestsOf(t))
  BY <1>13
<1>15. PICK v \in Seq(Byte) : v = up \o p
  BY <1>1, <1>8, ConcatProperties
<1>16. Len(v) = Len(up) + n
  BY <1>1, <1>8, <1>15, ConcatProperties
<1>17. v \o FlattenSeq(RestsOf(q)) = up \o FlattenSeq(RestsOf(outMsg))
  <2> DEFINE F == FlattenSeq(RestsOf(t))
             G == FlattenSeq(RestsOf(outMsg))
             H == FlattenSeq(RestsOf(q))
  <2>1. F \in Seq(Byte) /\ G = (p \o r) \o F /\ H = r \o F
    BY <1>8, <1>11, <1>12, <1>14
  <2> HIDE DEF F, G, H
  <2>2. (p \o r) \o F = p \o (r \o F) /\ r \o F \in Seq(Byte)
    BY <1>8, <2>1, BytesAssociative, ConcatProperties
  <2>3. (up \o p) \o (r \o F) = up \o (p \o (r \o F))
    BY <1>1, <1>8, <2>2, BytesAssociative
  <2> QED
    BY <1>15, <2>1, <2>2, <2>3 DEF G, H
<1>18. WrittenInOrder'
  <2>1. Unwritten' = FlattenSeq(RestsOf(q))
    <3>1. Unwritten' = FlattenSeq(RestsOf(outMsg'))
      BY DEF Unwritten, RestsOf, Rest
    <3> QED
      BY <1>14, <3>1
  <2>2. up \o FlattenSeq(RestsOf(outMsg)) = AllBytes(upLens)
    BY UnwrittenIs DEF OutInv, WrittenInOrder
  <2> QED
    BY <1>7, <1>15, <1>17, <2>1, <2>2 DEF WrittenInOrder
<1>19. taken' \in 0..Len(up') /\ Len(up') - taken' <= Space
  BY <1>1, <1>5, <1>7, <1>15, <1>16
<1> QED
  BY <1>7, <1>14, <1>15, <1>18, <1>19 DEF OutInv

\* The other actions do not touch the output, but for the server's taking.
LEMMA OutKeeps == OutInv /\ [Next]_vars => OutInv'
<1> SUFFICES ASSUME OutInv, [Next]_vars PROVE OutInv'
  OBVIOUS
<1>1. CASE Send
  BY <1>1, SendKeeps
<1>2. ASSUME NEW len \in UpLens, MsgWrite(len) PROVE OutInv'
  BY <1>2, WriteKeeps
<1>3. CASE Take
  <2>1. Len(up) \in Nat /\ Space \in Nat
    BY LenProperties, TransportAssumption DEF OutInv
  <2>2. taken' \in 0..Len(up') /\ Len(up') - taken' <= Space
    BY <1>3, <2>1 DEF Take
  <2> QED
    BY <1>3, <2>2 DEF Take, OutInv, WrittenInOrder, Unwritten
<1>4. CASE UNCHANGED upVars
  BY <1>4 DEF upVars, OutInv, WrittenInOrder, Unwritten
<1>5. Next => Send \/ (\E len \in UpLens : MsgWrite(len)) \/ Take \/ UNCHANGED upVars
  BY DEF Next, Library, App, World, OutReturn, SendFails, Recv, Complete, InReturn, EndOfFile,
         WaitWrite, WaitReturn, Wait, MainloopInit, CallbackReturn, ServerSend, Arrive,
         ServerClose, ReadEvent, WriteEvent, WaitSelect
<1> QED
  BY <1>1, <1>2, <1>3, <1>4, <1>5 DEF vars

-----------------------------------------------------------------------------
\* The input: the bytes of the messages after the first d.
BytesFrom(lens, d) == [i \in 1..Len(lens) - d |-> Bytes(d + i, lens[d + i])]
FromBytes(lens, d) == FlattenSeq(BytesFrom(lens, d))

LEMMA BytesFromFacts ==
  ASSUME NEW lens \in Seq(Nat), NEW d \in 0..Len(lens)
  PROVE  /\ BytesFrom(lens, d) \in Seq(Seq(Byte)) /\ Len(BytesFrom(lens, d)) = Len(lens) - d
         /\ \A i \in 1..Len(lens) - d : BytesFrom(lens, d)[i] = Bytes(d + i, lens[d + i])
         /\ FromBytes(lens, d) \in Seq(Byte)
<1>1. Len(lens) \in Nat /\ Len(lens) - d \in Nat
  BY LenProperties
<1> DEFINE Z == Seq(Byte)
           l == Len(lens) - d
           s == BytesFrom(lens, d)
<1>2. \A i \in 1..l : Bytes(d + i, lens[d + i]) \in Z
  <2> TAKE i \in 1..l
  <2>1. d + i \in 1..Len(lens) /\ d + i \in Nat
    BY <1>1
  <2>2. lens[d + i] \in Nat
    BY <2>1, ElementOfSeq
  <2> QED
    BY <2>1, <2>2, BytesIs
<1> HIDE DEF Z
<1>3. s \in [1..l -> Z]
  BY <1>2 DEF BytesFrom
<1>4. \A i \in 1..l : s[i] = Bytes(d + i, lens[d + i])
  BY DEF BytesFrom
<1> HIDE DEF l, s
<1>5. s \in Seq(Z) /\ Len(s) = l
  <2>1. l \in Nat
    BY <1>1 DEF l
  <2> QED
    BY <1>3, <2>1
<1>6. FlattenSeq(s) \in Seq(Byte)
  BY <1>5, FlattenType DEF Z
<1> QED
  BY <1>4, <1>5, <1>6 DEF Z, l, s, FromBytes

LEMMA FromAll ==
  ASSUME NEW lens \in Seq(Nat)
  PROVE  FromBytes(lens, 0) = AllBytes(lens)
<1>1. Len(lens) \in Nat /\ DOMAIN lens = 1..Len(lens) /\ 0 \in 0..Len(lens)
  BY LenProperties
<1>2. Len(lens) - 0 = Len(lens) /\ \A i \in 1..Len(lens) : 0 + i = i
  BY <1>1
<1>3. BytesFrom(lens, 0) = [i \in 1..Len(lens) |-> Bytes(i, lens[i])]
  BY <1>2 DEF BytesFrom
<1> QED
  BY <1>1, <1>3 DEF FromBytes, AllBytes

LEMMA FromEnd ==
  ASSUME NEW lens \in Seq(Nat)
  PROVE  FromBytes(lens, Len(lens)) = <<>>
<1>1. Len(lens) \in Nat /\ Len(lens) \in 0..Len(lens)
  BY LenProperties
<1>2. BytesFrom(lens, Len(lens)) \in Seq(Seq(Byte)) /\ Len(BytesFrom(lens, Len(lens))) = 0
  BY <1>1, BytesFromFacts
<1>3. BytesFrom(lens, Len(lens)) = <<>>
  BY <1>2, EmptySeq
<1> QED
  BY <1>3, FlattenEmpty DEF FromBytes

LEMMA FromNext ==
  ASSUME NEW lens \in Seq(Nat), NEW d \in 0..Len(lens), d < Len(lens)
  PROVE  /\ lens[d + 1] \in Nat /\ Bytes(d + 1, lens[d + 1]) \in Seq(Byte)
         /\ FromBytes(lens, d) = Bytes(d + 1, lens[d + 1]) \o FromBytes(lens, d + 1)
<1>1. Len(lens) \in Nat /\ d + 1 \in 0..Len(lens) /\ d + 1 \in 1..Len(lens) /\ d + 1 \in Nat
  BY LenProperties
<1> DEFINE a == Bytes(d + 1, lens[d + 1])
           s == BytesFrom(lens, d)
           t == BytesFrom(lens, d + 1)
           c == <<a>> \o t
<1>2. lens[d + 1] \in Nat /\ a \in Seq(Byte)
  <2>1. lens[d + 1] \in Nat
    BY <1>1, ElementOfSeq
  <2> QED
    BY <1>1, <2>1, BytesIs
<1>3. /\ s \in Seq(Seq(Byte)) /\ Len(s) = Len(lens) - d
      /\ \A i \in 1..Len(lens) - d : s[i] = Bytes(d + i, lens[d + i])
  BY BytesFromFacts
<1>4. PICK e \in 0..Len(lens) : e = d + 1
  BY <1>1
<1>5. /\ t \in Seq(Seq(Byte)) /\ Len(t) = Len(lens) - e
      /\ \A i \in 1..Len(lens) - e : t[i] = Bytes(e + i, lens[e + i])
  BY <1>4, BytesFromFacts
<1>6. <<a>> \in Seq(Seq(Byte)) /\ Len(<<a>>) = 1 /\ <<a>>[1] = a
  BY <1>2
<1>7. /\ c \in Seq(Seq(Byte)) /\ Len(c) = 1 + Len(t)
      /\ \A i \in 1..1 + Len(t) : c[i] = IF i <= 1 THEN a ELSE t[i - 1]
  <2>1. /\ c \in Seq(Seq(Byte)) /\ Len(c) = Len(<<a>>) + Len(t)
        /\ \A i \in 1..Len(<<a>>) + Len(t) :
             c[i] = IF i <= Len(<<a>>) THEN <<a>>[i] ELSE t[i - Len(<<a>>)]
    BY <1>5, <1>6, ConcatProperties
  <2> HIDE DEF a, t, c
  <2>2. \A i \in 1..1 + Len(t) : i <= 1 => i = 1
    BY <1>1, <1>4, <1>5
  <2> QED
    BY <1>6, <2>1, <2>2
<1>8. FlattenSeq(c) = a \o FlattenSeq(t)
  BY <1>2, <1>5, FlattenPrepend
<1>9. s[1] = a
  <2>1. 1 \in 1..Len(lens) - d
    BY <1>1
  <2> QED
    BY <1>3, <2>1
<1> HIDE DEF a, s, t, c
<1>10. \A i \in 1..Len(s) : s[i] = c[i]
  <2> TAKE i \in 1..Len(s)
  <2>1. CASE i = 1
    BY <1>1, <1>3, <1>4, <1>5, <1>7, <1>9, <2>1
  <2>2. CASE i # 1
    <3>1. /\ i - 1 \in 1..Len(lens) - e /\ i \in 1..1 + Len(t) /\ ~(i <= 1)
          /\ e + (i - 1) = d + i /\ i \in 1..Len(lens) - d
      BY <1>1, <1>3, <1>4, <1>5, <2>2
    <3>2. t[i - 1] = Bytes(d + i, lens[d + i])
      BY <1>5, <3>1
    <3>3. c[i] = t[i - 1]
      BY <1>7, <3>1
    <3> QED
      BY <1>3, <3>1, <3>2, <3>3
  <2> QED
    BY <2>1, <2>2
<1>11. s = c
  <2>1. Len(s) = Len(c)
    BY <1>1, <1>3, <1>4, <1>5, <1>7
  <2> QED
    BY <1>3, <1>7, <1>10, <2>1, SeqEqual
<1> QED
  BY <1>2, <1>8, <1>11 DEF a, s, t, FromBytes

LEMMA FromAppend ==
  ASSUME NEW lens \in Seq(Nat), NEW n \in Nat, NEW d \in 0..Len(lens)
  PROVE  FromBytes(Append(lens, n), d) = FromBytes(lens, d) \o Bytes(Len(lens) + 1, n)
<1>1. PICK more \in Seq(Nat) : more = Append(lens, n)
  BY AppendProperties
<1>2. /\ Len(more) = Len(lens) + 1 /\ Len(lens) \in Nat /\ more[Len(lens) + 1] = n
      /\ \A i \in 1..Len(lens) : more[i] = lens[i]
  BY <1>1, AppendProperties, LenProperties
<1> DEFINE b == Bytes(Len(lens) + 1, n)
           s == BytesFrom(lens, d)
           t == BytesFrom(more, d)
           a == Append(s, b)
<1>3. /\ s \in Seq(Seq(Byte)) /\ Len(s) = Len(lens) - d
      /\ \A i \in 1..Len(lens) - d : s[i] = Bytes(d + i, lens[d + i])
  BY BytesFromFacts
<1>4. /\ t \in Seq(Seq(Byte)) /\ Len(t) = Len(more) - d
      /\ \A i \in 1..Len(more) - d : t[i] = Bytes(d + i, more[d + i])
  <2>1. d \in 0..Len(more)
    BY <1>2
  <2> QED
    BY <2>1, BytesFromFacts
<1>5. b \in Seq(Byte)
  BY <1>2, BytesIs
<1>6. /\ a \in Seq(Seq(Byte)) /\ Len(a) = Len(s) + 1 /\ a[Len(s) + 1] = b
      /\ \A i \in 1..Len(s) : a[i] = s[i]
  BY <1>3, <1>5, AppendProperties
<1>7. t[Len(s) + 1] = b
  <2>1. Len(s) + 1 \in 1..Len(more) - d /\ d + (Len(s) + 1) = Len(lens) + 1
    BY <1>2, <1>3
  <2>2. t[Len(s) + 1] = Bytes(d + (Len(s) + 1), more[d + (Len(s) + 1)])
    BY <1>4, <2>1
  <2> QED
    BY <1>2, <2>1, <2>2
<1> HIDE DEF a, b, s, t
<1>8. \A i \in 1..Len(t) : t[i] = a[i]
  <2> TAKE i \in 1..Len(t)
  <2>1. CASE i = Len(s) + 1
    BY <1>6, <1>7, <2>1
  <2>2. CASE i # Len(s) + 1
    <3>0. /\ Len(s) = Len(lens) - d /\ Len(t) = Len(lens) + 1 - d /\ Len(lens) \in Nat
          /\ Len(more) = Len(lens) + 1
      BY <1>2, <1>3, <1>4
    <3>1. /\ i \in 1..Len(lens) - d /\ i \in 1..Len(s) /\ i \in 1..Len(more) - d
          /\ d + i \in 1..Len(lens)
      BY <2>2, <3>0
    <3> QED
      BY <1>2, <1>3, <1>4, <1>6, <3>1
  <2> QED
    BY <2>1, <2>2
<1>9. t = a
  <2>1. Len(t) = Len(a)
    BY <1>2, <1>3, <1>4, <1>6
  <2> QED
    BY <1>4, <1>6, <1>8, <2>1, SeqEqual
<1>10. FlattenSeq(Append(s, b)) = FlattenSeq(s) \o b
  BY <1>3, <1>5, FlattenAppend
<1> QED
  BY <1>1, <1>9, <1>10 DEF a, b, s, t, FromBytes

\* The messages del are the first ones the server has sent, whole.
Given(del, lens) ==
  /\ del \in Seq(Seq(Byte)) /\ Len(del) <= Len(lens)
  /\ \A i \in 1..Len(del) : del[i] = Bytes(i, lens[i])
  /\ AllBytes(lens) = FlattenSeq(del) \o FromBytes(lens, Len(del))

\* The bytes p are the next ones of the server after d messages, and all there
\* are as long as it has not closed the connection.
Pending(p, lens, d, c) ==
  \E rest \in Seq(Byte) : p \o rest = FromBytes(lens, d) /\ (~c => rest = <<>>)

\* A header that has been read is that of the next message.
HeaderIs(b, len, lens, d) ==
  Len(b) >= HeadLen => d < Len(lens) /\ len = lens[d + 1]

\* Another message of the server is one more to come.
LEMMA GivenSend ==
  ASSUME NEW lens \in Seq(Nat), NEW n \in Nat, NEW del, Given(del, lens)
  PROVE  Given(del, Append(lens, n))
<1>1. /\ del \in Seq(Seq(Byte)) /\ Len(del) \in Nat /\ Len(lens) \in Nat /\ Len(del) \in 0..Len(lens)
      /\ \A i \in 1..Len(del) : del[i] = Bytes(i, lens[i])
      /\ AllBytes(lens) = FlattenSeq(del) \o FromBytes(lens, Len(del))
  BY LenProperties DEF Given
<1>2. PICK more \in Seq(Nat) : more = Append(lens, n)
  BY AppendProperties
<1>3. /\ Len(more) = Len(lens) + 1
      /\ \A i \in 1..Len(lens) : more[i] = lens[i]
  BY <1>1, <1>2, AppendProperties
<1>4. PICK d \in 0..Len(lens) : d = Len(del)
  BY <1>1
<1> DEFINE F == FlattenSeq(del)
           G == FromBytes(lens, d)
           b == Bytes(Len(lens) + 1, n)
<1>5. F \in Seq(Byte) /\ G \in Seq(Byte) /\ b \in Seq(Byte)
  <2>1. Len(lens) + 1 \in Nat
    BY <1>1
  <2> QED
    BY <1>1, <2>1, FlattenType, BytesFromFacts, BytesIs
<1>6. AllBytes(more) = AllBytes(lens) \o b
  BY <1>2, AllBytesAppend
<1>7. FromBytes(more, d) = G \o b
  BY <1>2, FromAppend
<1>8. AllBytes(lens) = F \o G
  BY <1>1, <1>4
<1> HIDE DEF F, G, b
<1>9. (F \o G) \o b = F \o (G \o b)
  BY <1>5, BytesAssociative
<1>10. AllBytes(more) = FlattenSeq(del) \o FromBytes(more, Len(del))
  BY <1>4, <1>6, <1>7, <1>8, <1>9 DEF F
<1>11. Len(del) <= Len(more) /\ \A i \in 1..Len(del) : del[i] = Bytes(i, more[i])
  <2>1. Len(del) <= Len(more) /\ \A i \in 1..Len(del) : i \in 1..Len(lens)
    BY <1>1, <1>3
  <2> QED
    BY <1>1, <1>3, <2>1
<1> QED
  BY <1>1, <1>2, <1>10, <1>11 DEF Given

LEMMA PendingSend ==
  ASSUME NEW lens \in Seq(Nat), NEW n \in Nat, NEW d \in 0..Len(lens), NEW p \in Seq(Byte),
         NEW t \in Seq(Byte), Pending(p \o t, lens, d, FALSE)
  PROVE  Pending(p \o (t \o Bytes(Len(lens) + 1, n)), Append(lens, n), d, FALSE)
<1> DEFINE b == Bytes(Len(lens) + 1, n)
<1>1. b \in Seq(Byte) /\ <<>> \in Seq(Byte)
  <2>1. Len(lens) + 1 \in Nat
    BY LenProperties
  <2> QED
    BY <2>1, BytesIs, EmptySeq
<1>2. FromBytes(Append(lens, n), d) = FromBytes(lens, d) \o b
  BY FromAppend
<1>3. (p \o t) \o <<>> = FromBytes(lens, d)
  BY DEF Pending
<1> HIDE DEF b
<1>4. PICK pt \in Seq(Byte) : pt = p \o t
  BY ConcatProperties
<1>5. pt = FromBytes(lens, d)
  BY <1>3, <1>4, ConcatEmptySeq
<1>6. PICK q \in Seq(Byte) : q = p \o (t \o b)
  BY <1>1, ConcatProperties
<1>7. q = pt \o b
  <2>1. (p \o t) \o b = p \o (t \o b)
    BY <1>1, BytesAssociative
  <2> QED
    BY <1>4, <1>6, <2>1
<1>8. q \o <<>> = FromBytes(Append(lens, n), d)
  BY <1>2, <1>5, <1>7, ConcatEmptySeq
<1> QED
  BY <1>1, <1>6, <1>8 DEF Pending, b

\* Bytes that will not arrive any more are missing at the end.
LEMMA PendingClose ==
  ASSUME NEW lens \in Seq(Nat), NEW d \in 0..Len(lens), NEW p \in Seq(Byte),
         NEW t \in Seq(Byte), NEW n \in 0..Len(t), Pending(p \o t, lens, d, FALSE)
  PROVE  Pending(p \o SubSeq(t, 1, n), lens, d, TRUE)
<1> DEFINE u == SubSeq(t, 1, n)
           v == SubSeq(t, n + 1, Len(t))
<1>1. u \in Seq(Byte) /\ v \in Seq(Byte) /\ u \o v = t
  BY CutFacts
<1>2. (p \o t) \o <<>> = FromBytes(lens, d)
  BY DEF Pending
<1>3. p \o t = FromBytes(lens, d)
  <2>1. p \o t \in Seq(Byte)
    BY ConcatProperties
  <2> QED
    BY <1>2, <2>1, ConcatEmptySeq
<1> HIDE DEF u, v
<1>4. (p \o u) \o v = p \o (u \o v)
  BY <1>1, BytesAssociative
<1>5. (p \o u) \o v = FromBytes(lens, d)
  BY <1>1, <1>3, <1>4
<1> QED
  BY <1>1, <1>5 DEF Pending, u

\* The header of the next message, once all of it is there.
LEMMA HeaderRead ==
  ASSUME NEW lens \in Seq(DownLens), NEW d \in 0..Len(lens), NEW buf \in Seq(Byte),
         NEW p \in Seq(Byte), NEW c, Pending(buf \o p, lens, d, c), Len(buf) = HeadLen
  PROVE  /\ d < Len(lens)
         /\ (\A k \in 1..HeadLen : buf[k] = <<buf[1][1], k>>)
         /\ buf[1][1] = d + 1
<1>1. lens \in Seq(Nat) /\ Len(lens) \in Nat /\ HeadLen \in Nat \ {0}
  BY LensAreNat, LenProperties, TransportAssumption
<1>2. PICK rest \in Seq(Byte) : (buf \o p) \o rest = FromBytes(lens, d)
  BY DEF Pending
<1>3. PICK more \in Seq(Byte) : more = p \o rest /\ buf \o more = FromBytes(lens, d)
  <2>1. (buf \o p) \o rest = buf \o (p \o rest) /\ p \o rest \in Seq(Byte)
    BY BytesAssociative, ConcatProperties
  <2> QED
    BY <1>2, <2>1
<1>4. d < Len(lens)
  <2>1. SUFFICES ASSUME d = Len(lens) PROVE FALSE
    BY <1>1
  <2>2. buf \o more = <<>>
    BY <1>1, <1>3, <2>1, FromEnd
  <2>3. Len(buf \o more) = Len(buf) + Len(more) /\ Len(more) \in Nat
    BY ConcatProperties, LenProperties
  <2>4. Len(buf \o more) = 0
    BY <2>2
  <2> QED
    BY <1>1, <2>3, <2>4
<1>5. PICK l \in Nat : l = lens[d + 1] /\ Bytes(d + 1, l) \in Seq(Byte)
                       /\ FromBytes(lens, d) = Bytes(d + 1, l) \o FromBytes(lens, d + 1)
  BY <1>1, <1>4, FromNext
<1>6. PICK b \in Seq(Byte) : b = Bytes(d + 1, l)
  BY <1>5
<1>7. Len(b) = HeadLen + l /\ \A k \in 1..HeadLen + l : b[k] = <<d + 1, k>>
  <2>1. d + 1 \in Nat
    BY <1>1
  <2> QED
    BY <1>6, <2>1, BytesIs
<1>8. PICK tail \in Seq(Byte) : tail = FromBytes(lens, d + 1)
  <2>1. d + 1 \in 0..Len(lens)
    BY <1>1, <1>4
  <2> QED
    BY <1>1, <2>1, BytesFromFacts
<1>9. buf \o more = b \o tail
  BY <1>3, <1>5, <1>6, <1>8
<1>10. \A k \in 1..HeadLen : buf[k] = <<d + 1, k>>
  <2> TAKE k \in 1..HeadLen
  <2>1. k \in 1..Len(buf) /\ k \in 1..Len(b) /\ k \in 1..HeadLen + l
    BY <1>1, <1>7
  <2>2. (buf \o more)[k] = buf[k]
    BY <2>1, ConcatProperties, LenProperties
  <2>3. (b \o tail)[k] = b[k]
    BY <2>1, ConcatProperties, LenProperties
  <2> QED
    BY <1>7, <1>9, <2>1, <2>2, <2>3
<1>11. buf[1][1] = d + 1
  <2>1. 1 \in 1..HeadLen
    BY <1>1
  <2> QED
    BY <1>10, <2>1
<1> QED
  BY <1>4, <1>10, <1>11

\* A length that wraps around is smaller than the header.
LEMMA ModWrap ==
  ASSUME NEW a \in Nat, NEW m \in Nat, m <= a, a < m + m
  PROVE  a % m = a - m
  OBVIOUS

\* A message that is complete by its header is the next one of the server, whole.
LEMMA MessageRead ==
  ASSUME NEW lens \in Seq(DownLens), NEW del, Given(del, lens), NEW buf \in Seq(Byte),
         NEW p \in Seq(Byte), NEW c, Pending(buf \o p, lens, Len(del), c),
         HeaderIs(buf, lens[Len(del) + 1], lens, Len(del)),
         Len(buf) >= HeadLen, Len(buf) = Total(lens[Len(del) + 1])
  PROVE  Given(Append(del, buf), lens) /\ Pending(p, lens, Len(del) + 1, c)
<1>1. lens \in Seq(Nat) /\ Len(lens) \in Nat /\ HeadLen \in Nat \ {0} /\ Modulus \in Nat
      /\ HeadLen < Modulus
  BY LensAreNat, LenProperties, TransportAssumption
<1>2. PICK d \in 0..Len(lens) : d = Len(del) /\ d < Len(lens)
  BY LenProperties DEF Given, HeaderIs
<1>3. PICK e \in 1..Len(lens) : e = d + 1 /\ e \in 0..Len(lens) /\ e \in Nat
  BY <1>1, <1>2
<1>4. PICK l \in DownLens : l = lens[e] /\ l \in 0..Modulus - 1 /\ l \in Nat
  <2>1. lens[e] \in DownLens
    BY ElementOfSeq
  <2>2. lens[e] \in 0..Modulus - 1
    BY <2>1, TransportAssumption
  <2>3. lens[e] \in Nat
    BY <1>1, <2>2
  <2> QED
    BY <2>1, <2>2, <2>3
<1>5. Len(buf) = Total(l)
  BY <1>2, <1>3, <1>4
<1>6. Len(buf) = HeadLen + l
  <2>1. HeadLen + l \in Nat /\ HeadLen + l < Modulus + Modulus
    <3>1. PICK h, m \in Nat : h = HeadLen /\ m = Modulus
      BY <1>1
    <3>2. h < m
      BY ONLY <1>1, <3>1
    <3>3. l <= m - 1
      BY ONLY <1>4, <3>1
    <3>4. l \in Nat
      BY <1>4
    <3>5. h + l \in Nat /\ h + l < m + m
      BY ONLY <3>1, <3>2, <3>3, <3>4, h \in Nat, m \in Nat
    <3> QED
      BY ONLY <3>1, <3>5
  <2>2. CASE HeadLen + l < Modulus
    BY <1>1, <1>5, <2>1, <2>2, ModSmall DEF Total
  <2>3. CASE HeadLen + l >= Modulus
    <3>1. PICK a \in Nat : a = HeadLen + l
      BY <2>1
    <3>2. Modulus <= a /\ a < Modulus + Modulus
      BY <2>1, <2>3, <3>1
    <3>3. a % Modulus = a - Modulus
      BY <1>1, <3>2, ModWrap
    <3>4. Total(l) = HeadLen + l - Modulus
      <4>1. Total(l) = a % Modulus
        BY ONLY <3>1 DEF Total
      <4> QED
        BY <1>1, <1>4, <3>1, <3>3, <4>1
    <3>5. Total(l) < HeadLen
      BY <1>1, <1>4, <3>4
    <3>6. Len(buf) \in Nat
      BY LenProperties
    <3> QED
      BY <1>1, <1>5, <3>5, <3>6
  <2> QED
    BY <1>1, <2>1, <2>2, <2>3
<1>7. PICK b \in Seq(Byte) : b = Bytes(e, l)
  BY <1>3, <1>4, BytesIs
<1>8. Len(b) = HeadLen + l
  BY <1>3, <1>4, <1>7, BytesIs
<1>9. PICK tail \in Seq(Byte) : tail = FromBytes(lens, e)
  BY <1>1, <1>3, BytesFromFacts
<1>10. FromBytes(lens, d) = b \o tail
  BY <1>1, <1>2, <1>3, <1>4, <1>7, <1>9, FromNext
<1>11. PICK rest \in Seq(Byte) : (buf \o p) \o rest = FromBytes(lens, d) /\ (~c => rest = <<>>)
  BY <1>2 DEF Pending
<1>12. PICK more \in Seq(Byte) : more = p \o rest /\ buf \o more = b \o tail
  <2>1. (buf \o p) \o rest = buf \o (p \o rest) /\ p \o rest \in Seq(Byte)
    BY BytesAssociative, ConcatProperties
  <2> QED
    BY <1>10, <1>11, <2>1
<1>13. buf = b /\ more = tail
  <2>1. Len(buf) = Len(b)
    BY ONLY <1>6, <1>8
  <2>2. buf \o more = b \o tail
    BY ONLY <1>12
  <2> QED
    BY ONLY <2>1, <2>2, SameHeads, buf \in Seq(Byte), b \in Seq(Byte),
            more \in Seq(Byte), tail \in Seq(Byte)
<1>14. Pending(p, lens, Len(del) + 1, c)
  BY <1>2, <1>3, <1>9, <1>11, <1>12, <1>13 DEF Pending
<1>15. PICK new \in Seq(Seq(Byte)) : new = Append(del, buf)
  BY AppendProperties DEF Given
<1>16. /\ Len(new) = e /\ new[e] = buf
       /\ \A i \in 1..d : new[i] = del[i]
  BY <1>2, <1>3, <1>15, AppendProperties DEF Given
<1>17. \A i \in 1..Len(new) : new[i] = Bytes(i, lens[i])
  <2> TAKE i \in 1..Len(new)
  <2>1. CASE i = e
    BY <1>4, <1>7, <1>13, <1>16, <2>1
  <2>2. CASE i # e
    <3>1. i \in 1..d
      BY <1>3, <1>16, <2>2
    <3> QED
      BY <1>2, <1>16, <3>1 DEF Given
  <2> QED
    BY <2>1, <2>2
<1>18. AllBytes(lens) = FlattenSeq(new) \o FromBytes(lens, Len(new))
  <2>1. PICK F \in Seq(Byte) : F = FlattenSeq(del)
    BY FlattenType DEF Given
  <2>2. FlattenSeq(new) = F \o buf
    BY <1>15, <2>1, FlattenAppend DEF Given
  <2>3. AllBytes(lens) = F \o (b \o tail)
    BY <1>2, <1>10, <2>1 DEF Given
  <2>4. (F \o b) \o tail = F \o (b \o tail)
    BY BytesAssociative
  <2> QED
    BY <1>9, <1>13, <1>16, <2>2, <2>3, <2>4
<1>19. Given(new, lens)
  BY <1>3, <1>16, <1>17, <1>18 DEF Given
<1> QED
  BY <1>14, <1>15, <1>19

-----------------------------------------------------------------------------
\* The invariant of the input.
Way == Reading.buf \o (rcvbuf \o transit)

LenInv == readMsg # NoMsg => readMsg.len \in DownLens \cup {0}

ReadInv ==
  ~disconnect =>
    /\ Given(delivered, downLens)
    /\ Pending(Way, downLens, Len(delivered), closed)
    /\ HeaderIs(Reading.buf, Reading.len, downLens, Len(delivered))

InInv == BufferInv /\ LenInv /\ ReadInv

\* What the invariant says of the types of what it relates.
LEMMA InFacts ==
  ASSUME BufferInv
  PROVE  /\ downLens \in Seq(DownLens) /\ downLens \in Seq(Nat) /\ Len(downLens) \in Nat
         /\ transit \in Seq(Byte) /\ rcvbuf \in Seq(Byte)
         /\ Reading.buf \in Seq(Byte) /\ Reading \in Messages
<1>1. Reading \in Messages
  BY ReadingFacts DEF Fitting
<1> QED
  BY <1>1, LensAreNat, LenProperties DEF BufferInv, Messages

\* A message that is being read is there.
LEMMA MessageIsOne ==
  ASSUME NEW m \in Messages
  PROVE  m # NoMsg
BY NoMsgAssumption DEF Messages, Byte

\* The header's length field is one the server can send.
LEMMA LenKeeps == BufferInv /\ LenInv /\ [Next]_vars => LenInv'
<1> SUFFICES ASSUME BufferInv, LenInv, [Next]_vars PROVE LenInv'
  OBVIOUS
<1>1. PICK m \in Messages : m = Reading
  BY InFacts
<1>2. m.len \in DownLens \cup {0}
  BY <1>1 DEF LenInv, Reading
<1>3. PICK g : g = Grown(m)
  OBVIOUS
<1>4. g \in Messages /\ g.len = m.len
  BY <1>1, <1>3, ReadingFacts, GrownFacts DEF Fitting
<1>5. CASE Recv
  <2>1. PICK n, buf : \/ readMsg' = [g EXCEPT !.buf = buf]
                      \/ \E len \in HeaderLens(buf) : readMsg' = [[g EXCEPT !.buf = buf] EXCEPT !.len = len]
    BY <1>1, <1>3, <1>5 DEF Recv
  <2>2. readMsg'.len \in DownLens \cup {0}
    BY <1>2, <1>4, <2>1 DEF HeaderLens, Messages
  <2> QED
    BY <2>2 DEF LenInv
<1>6. CASE InReturn
  <2>1. readMsg' = g
    BY <1>1, <1>3, <1>6 DEF InReturn
  <2> QED
    BY <1>2, <1>4, <2>1 DEF LenInv
<1>7. CASE readMsg' = NoMsg \/ UNCHANGED readMsg
  BY <1>7 DEF LenInv
<1>8. Next => Recv \/ InReturn \/ readMsg' = NoMsg \/ UNCHANGED readMsg
  BY DEF Next, Library, App, World, OutReturn, SendFails, Send, Complete, Handed_Over, EndOfFile,
         IpcDisconnect, WaitWrite, WaitReturn, Wait, MainloopInit, CallbackReturn, Take, MsgWrite,
         ServerSend, Arrive, ServerClose, ReadEvent, WriteEvent, WaitSelect
<1> QED
  BY <1>5, <1>6, <1>7, <1>8 DEF vars

\* What recv takes out of the receive buffer is the next part of the message.
LEMMA RecvInOrder ==
  ASSUME BufferInv, ReadInv, Recv
  PROVE  ReadInv'
<1> SUFFICES ASSUME ~disconnect PROVE ReadInv'
  BY DEF ReadInv, Recv
<1>1. PICK m \in Messages : m = Reading /\ m.buf \in Seq(Byte) /\ Len(m.buf) \in Nat
  BY InFacts, LenProperties
<1>2. /\ downLens \in Seq(DownLens) /\ downLens \in Seq(Nat)
      /\ transit \in Seq(Byte) /\ rcvbuf \in Seq(Byte) /\ Len(rcvbuf) \in Nat
      /\ HeadLen \in Nat /\ HeadLen > 0
  BY InFacts, LenProperties, TransportAssumption
<1>3. PICK d \in 0..Len(downLens) : d = Len(delivered)
  BY LenProperties DEF ReadInv, Given
<1>4. PICK n : n = Smaller(Expected(m) - Len(m.buf), Len(rcvbuf))
  OBVIOUS
<1>5. n \in 0..Len(rcvbuf) /\ n <= Expected(m) - Len(m.buf)
  <2>1. Expected(m) \in Nat /\ Expected(m) - Len(m.buf) > 0
    BY <1>1, ExpectedFacts DEF Recv, Wanted
  <2> QED
    BY <1>1, <1>2, <1>4, <2>1 DEF Smaller
<1> DEFINE u == SubSeq(rcvbuf, 1, n)
           v == SubSeq(rcvbuf, n + 1, Len(rcvbuf))
<1>6. u \in Seq(Byte) /\ v \in Seq(Byte) /\ Len(u) = n /\ u \o v = rcvbuf
  BY <1>2, <1>5, CutFacts
<1>7. PICK buf \in Seq(Byte) : buf = m.buf \o u
  BY <1>1, <1>6, ConcatProperties
<1>8. Len(buf) = Len(m.buf) + n
  BY <1>1, <1>6, <1>7, ConcatProperties
<1>9. PICK g : g = Grown(m)
  OBVIOUS
<1>10. g \in Messages /\ g.len = m.len
  BY <1>1, <1>9, ReadingFacts, GrownFacts DEF Fitting
<1>11. /\ rcvbuf' = v
       /\ \/ /\ Len(m.buf) < HeadLen /\ Len(buf) >= HeadLen
             /\ \E len \in HeaderLens(buf) : readMsg' = [[g EXCEPT !.buf = buf] EXCEPT !.len = len]
          \/ /\ ~(Len(m.buf) < HeadLen /\ Len(buf) >= HeadLen)
             /\ readMsg' = [g EXCEPT !.buf = buf]
       /\ UNCHANGED <<downLens, transit, closed, delivered, disconnect>>
  BY <1>1, <1>4, <1>7, <1>9 DEF Recv, Wanted
<1> HIDE DEF u, v
<1>12. PICK w \in Seq(Byte) : w = v \o transit
  BY <1>2, <1>6, ConcatProperties
<1>13. buf \o w = Way
  <2>1. (m.buf \o u) \o w = m.buf \o (u \o w)
    BY <1>1, <1>6, BytesAssociative
  <2>2. PICK t \in Seq(Byte) : t = transit
    BY <1>2
  <2>3. (u \o v) \o t = u \o (v \o t)
    BY <1>6, BytesAssociative
  <2>4. u \o w = rcvbuf \o transit
    BY <1>6, <1>12, <2>2, <2>3
  <2> QED
    BY <1>1, <1>7, <2>1, <2>4 DEF Way
<1>14. Pending(buf \o w, downLens, d, closed)
  BY <1>3, <1>13 DEF ReadInv
<1>15. PICK k \in Messages : readMsg' = k /\ k.buf = buf /\ HeaderIs(buf, k.len, downLens, d)
  <2>1. CASE Len(m.buf) < HeadLen /\ Len(buf) >= HeadLen
    <3>1. PICK len \in HeaderLens(buf) : readMsg' = [[g EXCEPT !.buf = buf] EXCEPT !.len = len]
      BY <1>11, <2>1
    <3>2. Len(buf) = HeadLen
      BY <1>1, <1>2, <1>5, <1>8, <2>1 DEF Expected
    <3>3. /\ d < Len(downLens)
          /\ (\A j \in 1..HeadLen : buf[j] = <<buf[1][1], j>>)
          /\ buf[1][1] = d + 1
      BY <1>2, <1>12, <1>14, <3>2, HeaderRead
    <3>4. len = downLens[d + 1] /\ len \in DownLens
      BY <3>1, <3>3 DEF HeaderLens, IsHeader
    <3>5. len \in Nat
      BY <3>4, LensAreNat
    <3> DEFINE k == [[g EXCEPT !.buf = buf] EXCEPT !.len = len]
    <3>6. k \in Messages /\ k.buf = buf /\ k.len = len
      BY <1>10, <3>5 DEF Messages
    <3> HIDE DEF k
    <3> QED
      BY <3>1, <3>3, <3>4, <3>6 DEF k, HeaderIs
  <2>2. CASE ~(Len(m.buf) < HeadLen /\ Len(buf) >= HeadLen)
    <3> DEFINE k == [g EXCEPT !.buf = buf]
    <3>1. k \in Messages /\ k.buf = buf /\ k.len = m.len
      BY <1>10 DEF Messages
    <3>2. readMsg' = k
      BY <1>11, <2>2
    <3> HIDE DEF k
    <3>3. HeaderIs(m.buf, m.len, downLens, d)
      BY <1>1, <1>3 DEF ReadInv
    <3>4. Len(buf) >= HeadLen => Len(m.buf) >= HeadLen
      BY <1>1, <1>2, <2>2
    <3>5. HeaderIs(buf, m.len, downLens, d)
      BY <3>3, <3>4 DEF HeaderIs
    <3> QED
      BY <3>1, <3>2, <3>5
  <2> QED
    BY <2>1, <2>2
<1>16. Reading' = k
  <2>1. k # NoMsg
    BY MessageIsOne
  <2> QED
    BY <1>15, <2>1 DEF Reading
<1>17. Way' = buf \o w
  BY <1>11, <1>12, <1>15, <1>16 DEF Way
<1>18. Given(delivered, downLens)
  BY DEF ReadInv
<1> QED
  BY <1>3, <1>11, <1>14, <1>15, <1>16, <1>17, <1>18 DEF ReadInv, Given, Pending, HeaderIs

\* A message that is complete is the next one.
LEMMA CompleteInOrder ==
  ASSUME BufferInv, ReadInv, Complete
  PROVE  ReadInv'
<1> SUFFICES ASSUME ~disconnect PROVE ReadInv'
  BY DEF ReadInv, Complete
<1>1. PICK m : m = readMsg
  OBVIOUS
<1>2. /\ Reading = m /\ m.buf \in Seq(Byte) /\ Len(m.buf) >= HeadLen
      /\ Len(m.buf) = Total(m.len)
  BY <1>1, InFacts DEF Complete, Reading
<1>3. /\ downLens \in Seq(DownLens) /\ transit \in Seq(Byte) /\ rcvbuf \in Seq(Byte)
      /\ HeadLen \in Nat /\ HeadLen > 0
  BY InFacts, TransportAssumption
<1>4. PICK p \in Seq(Byte) : p = rcvbuf \o transit
  BY <1>3, ConcatProperties
<1>5. /\ Given(delivered, downLens)
      /\ Pending(m.buf \o p, downLens, Len(delivered), closed)
      /\ HeaderIs(m.buf, m.len, downLens, Len(delivered))
  BY <1>2, <1>4 DEF ReadInv, Way
<1>6. m.len = downLens[Len(delivered) + 1]
  BY <1>2, <1>5 DEF HeaderIs
<1>7. Given(Append(delivered, m.buf), downLens) /\ Pending(p, downLens, Len(delivered) + 1, closed)
  BY <1>2, <1>3, <1>5, <1>6, MessageRead
<1>8. delivered' = Append(delivered, m.buf) /\ readMsg' = NoMsg
      /\ UNCHANGED <<downLens, transit, rcvbuf, closed>>
  BY <1>1 DEF Complete, Handed_Over, downVars
<1>9. PICK b \in Seq(Byte) : b = m.buf
  BY <1>2
<1>10. PICK new \in Seq(Seq(Byte)) : new = Append(delivered, b) /\ Len(new) = Len(delivered) + 1
  <2>1. delivered \in Seq(Seq(Byte))
    BY <1>5 DEF Given
  <2> QED
    BY <2>1, AppendProperties
<1>11. Reading'.buf = <<>> /\ Len(<<>>) = 0
  BY <1>8 DEF Reading
<1>12. Way' = p
  <2>1. Way' = <<>> \o (rcvbuf \o transit)
    BY <1>8, <1>11 DEF Way
  <2> QED
    BY <1>4, <2>1, ConcatEmptySeq
<1>13. HeaderIs(<<>>, Reading'.len, downLens, Len(new))
  BY <1>3, <1>11 DEF HeaderIs
<1> QED
  BY <1>7, <1>8, <1>9, <1>10, <1>11, <1>12, <1>13 DEF ReadInv, Given, Pending, HeaderIs

\* What enters and leaves the network keeps its place.
LEMMA NetworkInOrder ==
  ASSUME BufferInv, ReadInv, World
  PROVE  ReadInv'
<1> SUFFICES ASSUME ~disconnect PROVE ReadInv'
  BY DEF ReadInv, World, Take, ServerSend, Arrive, ServerClose
<1>0. PICK b \in Seq(Byte) : b = Reading.buf
  BY InFacts
<1>1. PICK h : b = Reading.buf /\ h = Reading.len
  BY <1>0
<1>2. /\ downLens \in Seq(DownLens) /\ downLens \in Seq(Nat) /\ Len(downLens) \in Nat
      /\ DownLens \subseteq Nat
  BY InFacts, LensAreNat
<1>3. PICK t \in Seq(Byte), r \in Seq(Byte) : t = transit /\ r = rcvbuf /\ Len(t) \in Nat
  BY InFacts, LenProperties
<1>4. PICK d \in 0..Len(downLens) : d = Len(delivered)
  BY LenProperties DEF ReadInv, Given
<1>5. PICK p \in Seq(Byte) : p = b \o r
  BY ConcatProperties
<1>6. /\ Given(delivered, downLens) /\ HeaderIs(b, h, downLens, d)
      /\ Pending(b \o (r \o t), downLens, d, closed)
  BY <1>1, <1>3, <1>4 DEF ReadInv, Way
<1>7. Pending(p \o t, downLens, d, closed)
  <2>1. (b \o r) \o t = b \o (r \o t)
    BY BytesAssociative
  <2> QED
    BY <1>5, <1>6, <2>1
<1>8. CASE Take
  <2>1. Way' = Way /\ Reading' = Reading /\ UNCHANGED <<downLens, closed, delivered, disconnect>>
    BY <1>8 DEF Take, downVars, Way, Reading
  <2> QED
    BY <2>1 DEF ReadInv, Given, Pending, HeaderIs
<1>9. ASSUME NEW len \in DownLens, ServerSend(len) PROVE ReadInv'
  <2>1. ~closed /\ closed = FALSE /\ len \in Nat
    BY <1>2, <1>9 DEF ServerSend
  <2>2. PICK more \in Seq(Nat) : more = Append(downLens, len)
    BY <1>2, <2>1, AppendProperties
  <2>3. Len(more) = Len(downLens) + 1 /\ \A i \in 1..Len(downLens) : more[i] = downLens[i]
    BY <1>2, <2>1, <2>2, AppendProperties
  <2>4. PICK s \in Seq(Byte) : s = t \o Bytes(Len(downLens) + 1, len)
    <3>1. Bytes(Len(downLens) + 1, len) \in Seq(Byte)
      BY <1>2, <2>1, BytesIs
    <3> QED
      BY <3>1, ConcatProperties
  <2>5. /\ downLens' = more /\ transit' = s
        /\ UNCHANGED <<rcvbuf, closed, readMsg, delivered, disconnect>>
    BY <1>3, <1>9, <2>2, <2>3, <2>4 DEF ServerSend
  <2>6. Given(delivered, more)
    BY <1>2, <1>6, <2>1, <2>2, GivenSend
  <2>7. Pending(p \o s, more, d, FALSE)
    BY <1>2, <1>7, <2>1, <2>2, <2>4, PendingSend
  <2>8. HeaderIs(b, h, more, d)
    <3>1. d < Len(downLens) => d < Len(more) /\ d + 1 \in 1..Len(downLens)
      BY <1>2, <2>3
    <3> QED
      BY <1>6, <2>3, <3>1 DEF HeaderIs
  <2>9. Way' = p \o s
    <3>1. Way' = b \o (r \o s)
      BY <1>1, <1>3, <2>5 DEF Way, Reading
    <3>2. (b \o r) \o s = b \o (r \o s)
      BY BytesAssociative
    <3> QED
      BY <1>5, <3>1, <3>2
  <2>10. Reading'.buf = b /\ Reading'.len = h
    BY <1>1, <2>5 DEF Reading
  <2> QED
    BY <1>4, <2>1, <2>5, <2>6, <2>7, <2>8, <2>9, <2>10 DEF ReadInv, Given, Pending, HeaderIs
<1>10. ASSUME NEW n \in 1..Len(transit), Arrive(n) PROVE ReadInv'
  <2> DEFINE u == SubSeq(t, 1, n)
             v == SubSeq(t, n + 1, Len(t))
  <2>1. u \in Seq(Byte) /\ v \in Seq(Byte) /\ u \o v = t
    <3>1. n \in 0..Len(t)
      BY <1>3
    <3> QED
      BY <3>1, CutFacts
  <2>2. /\ rcvbuf' = r \o u /\ transit' = v
        /\ UNCHANGED <<downLens, closed, readMsg, delivered, disconnect>>
    BY <1>3, <1>10 DEF Arrive
  <2> HIDE DEF u, v
  <2>3. (r \o u) \o v = r \o (u \o v)
    BY <2>1, BytesAssociative
  <2>4. Way' = Way /\ Reading' = Reading
    BY <1>3, <2>1, <2>2, <2>3 DEF Way, Reading
  <2> QED
    BY <2>2, <2>4 DEF ReadInv, Given, Pending, HeaderIs
<1>11. ASSUME NEW n \in 0..Len(transit), ServerClose(n) PROVE ReadInv'
  <2>1. closed = FALSE
    BY <1>11 DEF ServerClose
  <2>2. PICK u \in Seq(Byte) : u = SubSeq(t, 1, n)
    <3>1. n \in 0..Len(t)
      BY <1>3
    <3> QED
      BY <3>1, CutFacts
  <2>3. Pending(p \o u, downLens, d, TRUE)
    <3>1. n \in 0..Len(t)
      BY <1>3
    <3> QED
      BY <1>2, <1>7, <2>1, <2>2, <3>1, PendingClose
  <2>4. /\ transit' = u /\ closed' = TRUE
        /\ UNCHANGED <<downLens, rcvbuf, readMsg, delivered, disconnect>>
    BY <1>3, <1>11, <2>2 DEF ServerClose
  <2>5. Way' = p \o u
    <3>1. Way' = b \o (r \o u)
      BY <1>1, <1>3, <2>4 DEF Way, Reading
    <3>2. (b \o r) \o u = b \o (r \o u)
      BY BytesAssociative
    <3> QED
      BY <1>5, <3>1, <3>2
  <2>6. Reading'.buf = b /\ Reading'.len = h
    BY <1>1, <2>4 DEF Reading
  <2> QED
    BY <1>4, <1>6, <2>3, <2>4, <2>5, <2>6 DEF ReadInv, Given, Pending, HeaderIs
<1> QED
  BY <1>8, <1>9, <1>10, <1>11 DEF World

\* Once the connection is given up, nothing is promised of the input; the other
\* steps of the library and of the application leave what is on its way alone.
LEMMA InKeeps == BufferInv /\ ReadInv /\ [Next]_vars => ReadInv'
<1> SUFFICES ASSUME BufferInv, ReadInv, [Next]_vars PROVE ReadInv'
  OBVIOUS
<1>1. CASE Recv
  BY <1>1, RecvInOrder
<1>2. CASE Complete
  BY <1>2, CompleteInOrder
<1>3. CASE World
  BY <1>3, NetworkInOrder
<1>4. CASE InReturn
  <2>1. PICK m : m = Reading
    OBVIOUS
  <2>2. PICK g : g = Grown(m)
    OBVIOUS
  <2>3. m \in Messages /\ g \in Messages /\ g.buf = m.buf /\ g.len = m.len
    BY <2>1, <2>2, ReadingFacts, GrownFacts DEF Fitting
  <2>4. readMsg' = g /\ UNCHANGED <<downLens, rcvbuf, transit, closed, delivered, disconnect>>
    BY <1>4, <2>1, <2>2 DEF InReturn, downVars
  <2>5. Reading' = g
    BY <2>3, <2>4, MessageIsOne DEF Reading
  <2>6. Way' = Way /\ Reading'.buf = Reading.buf /\ Reading'.len = Reading.len
    BY <2>1, <2>3, <2>4, <2>5 DEF Way
  <2> QED
    BY <2>4, <2>6 DEF ReadInv, Given, Pending, HeaderIs
<1>5. CASE disconnect' = TRUE
  BY <1>5 DEF ReadInv
<1>6. CASE UNCHANGED <<downVars, readMsg, delivered, disconnect>>
  <2>1. Way' = Way /\ Reading' = Reading
    BY <1>6 DEF downVars, Way, Reading
  <2> QED
    BY <1>6, <2>1 DEF downVars, ReadInv, Given, Pending, HeaderIs
<1>7. Next => \/ Recv \/ Complete \/ World \/ InReturn \/ disconnect' = TRUE
              \/ UNCHANGED <<downVars, readMsg, delivered, disconnect>>
  BY DEF Next, Library, App, OutReturn, SendFails, Send, EndOfFile, IpcDisconnect, WaitWrite,
         WaitReturn, Wait, MainloopInit, CallbackReturn, MsgWrite, ReadEvent, WriteEvent, WaitSelect
<1> QED
  BY <1>1, <1>2, <1>3, <1>4, <1>5, <1>6, <1>7 DEF vars

\* What has been read, with what may be missing, is what the server has sent.
LEMMA InOrderIsRead == BufferInv /\ ReadInv => ReadInOrder
<1> SUFFICES ASSUME BufferInv, ReadInv, ~disconnect
             PROVE  /\ IsPrefix(FlattenSeq(delivered) \o Reading.buf \o rcvbuf \o transit,
                                AllBytes(downLens))
                    /\ \A i \in DOMAIN delivered : delivered[i] = Bytes(i, downLens[i])
  BY DEF ReadInOrder
<1>1. PICK b : b = Reading.buf /\ b \in Seq(Byte)
  BY InFacts
<1>2. PICK r, t : r = rcvbuf /\ t = transit /\ r \in Seq(Byte) /\ t \in Seq(Byte)
  BY InFacts
<1>3. PICK F : F = FlattenSeq(delivered) /\ F \in Seq(Byte)
  BY FlattenType DEF ReadInv, Given
<1>4. PICK rt : rt = r \o t /\ rt \in Seq(Byte)
  BY <1>2, ConcatProperties
<1>5. PICK p : p = b \o rt /\ p \in Seq(Byte)
  BY <1>1, <1>4, ConcatProperties
<1>6. PICK rest : p \o rest = FromBytes(downLens, Len(delivered)) /\ rest \in Seq(Byte)
  BY <1>1, <1>2, <1>4, <1>5 DEF ReadInv, Way, Pending
<1>7. PICK all : all = F \o p /\ all \in Seq(Byte)
  BY <1>3, <1>5, ConcatProperties
<1>8. AllBytes(downLens) = all \o rest
  <2>1. (F \o p) \o rest = F \o (p \o rest)
    BY <1>3, <1>5, <1>6, BytesAssociative
  <2>2. AllBytes(downLens) = F \o (p \o rest)
    BY <1>3, <1>6 DEF ReadInv, Given
  <2> QED
    BY <1>7, <2>1, <2>2
<1>9. all = ((F \o b) \o r) \o t
  <2>1. PICK Fb : Fb = F \o b /\ Fb \in Seq(Byte)
    BY <1>1, <1>3, ConcatProperties
  <2>2. (Fb \o r) \o t = Fb \o (r \o t)
    BY <1>2, <2>1, BytesAssociative
  <2>3. (F \o b) \o rt = F \o (b \o rt)
    BY <1>1, <1>3, <1>4, BytesAssociative
  <2> QED
    BY <1>4, <1>5, <1>7, <2>1, <2>2, <2>3
<1>10. IsPrefix(all, all \o rest)
  BY <1>6, <1>7, PrefixOf
<1>11. DOMAIN delivered = 1..Len(delivered)
  BY LenProperties DEF ReadInv, Given
<1> QED
  BY <1>1, <1>2, <1>3, <1>8, <1>9, <1>10, <1>11 DEF ReadInv, Given

BoolInv == /\ closed \in BOOLEAN /\ disconnect \in BOOLEAN
           /\ cf \in BOOLEAN /\ armed \in BOOLEAN

LEMMA BoolKeeps == BoolInv /\ [Next]_vars => BoolInv'
<1> SUFFICES ASSUME BoolInv, [Next]_vars PROVE BoolInv'
  OBVIOUS
<1>1. closed' = closed \/ closed' = TRUE
  BY DEF Next, Library, App, World, OutReturn, SendFails, Send, Recv, Complete, InReturn, EndOfFile,
         IpcDisconnect, WaitWrite, WaitReturn, Wait, MainloopInit, CallbackReturn, Take, MsgWrite,
         ServerSend, Arrive, ServerClose, ReadEvent, WriteEvent, WaitSelect, vars, downVars
<1>2. disconnect' = disconnect \/ disconnect' = TRUE
  BY DEF Next, Library, App, World, OutReturn, SendFails, Send, Recv, Complete, InReturn, EndOfFile,
         IpcDisconnect, WaitWrite, WaitReturn, Wait, MainloopInit, CallbackReturn, Take, MsgWrite,
         ServerSend, Arrive, ServerClose, ReadEvent, WriteEvent, WaitSelect, vars
<1>3. cf' = cf \/ cf' = TRUE
  BY DEF Next, Library, App, World, OutReturn, SendFails, Send, Recv, Complete, InReturn, EndOfFile,
         WaitWrite, WaitReturn, Wait, MainloopInit, CallbackReturn, Take, MsgWrite,
         ServerSend, Arrive, ServerClose, ReadEvent, WriteEvent, WaitSelect, vars
<1>4. armed' = armed \/ armed' = TRUE \/ armed' = FALSE
  <2>1. NeedOut(IoOut) => armed' = armed \/ armed' = TRUE \/ armed' = FALSE
    BY DEF NeedOut, IoOut
  <2>2. NeedOut(TRUE) => armed' = armed \/ armed' = TRUE
    BY DEF NeedOut
  <2> QED
    BY <2>1, <2>2
       DEF Next, Library, App, World, OutReturn, SendFails, Send, Recv, Complete, InReturn, EndOfFile,
           WaitWrite, WaitReturn, Wait, MainloopInit, CallbackReturn, Take, MsgWrite,
           ServerSend, Arrive, ServerClose, ReadEvent, WriteEvent, WaitSelect, vars
<1> QED
  BY <1>1, <1>2, <1>3, <1>4 DEF BoolInv

OrderInv == ArmedInv /\ BufferInv /\ OutInv /\ LenInv /\ ReadInv /\ BoolInv

LEMMA OrderInit == Init => OrderInv
<1> SUFFICES ASSUME Init PROVE OrderInv
  OBVIOUS
<1>1. ArmedInv /\ BufferInv /\ LenInv /\ BoolInv
  <2>1. ArmedInv
    BY DEF Init, ArmedInv, StackOK, OutputArmed
  <2>2. BufferInv
    BY DEF Init, BufferInv
  <2>3. LenInv /\ BoolInv
    BY DEF Init, LenInv, BoolInv
  <2> QED
    BY <2>1, <2>2, <2>3
<1>2. FlattenSeq(RestsOf(<<>>)) = <<>> /\ AllBytes(<<>>) = <<>>
  <2>1. RestsOf(<<>>) = <<>> /\ BytesOf(<<>>) = <<>>
    BY DEF RestsOf, BytesOf
  <2> QED
    BY <2>1, FlattenEmpty DEF AllBytes, BytesOf
<1>3. <<>> \o <<>> = <<>>
  OBVIOUS
<1>4. OutInv
  <2>1. Unwritten = <<>>
    BY <1>2, UnwrittenIs DEF Init
  <2>2. WrittenInOrder
    BY <1>2, <1>3, <2>1 DEF WrittenInOrder, Init
  <2> QED
    BY <2>2, TransportAssumption DEF OutInv, Init
<1>5. ReadInv
  <2>1. <<>> \in Seq(Nat) /\ <<>> \in Seq(Byte) /\ <<>> \in Seq(Seq(Byte)) /\ Len(<<>>) = 0
    OBVIOUS
  <2>2. FromBytes(<<>>, 0) = <<>>
    BY <1>2, <2>1, FromAll
  <2>3. Reading.buf = <<>> /\ Way = <<>>
    BY <1>3 DEF Init, Reading, Way
  <2>4. Given(<<>>, <<>>)
    <3>1. AllBytes(<<>>) = FlattenSeq(<<>>) \o FromBytes(<<>>, Len(<<>>))
      BY <1>2, <1>3, <2>1, <2>2, FlattenEmpty
    <3>2. 1..Len(<<>>) = {}
      BY <2>1
    <3> QED
      BY <2>1, <3>1, <3>2 DEF Given
  <2>5. Pending(<<>>, <<>>, 0, FALSE)
    BY <1>3, <2>1, <2>2 DEF Pending
  <2>6. HeaderIs(<<>>, Reading.len, <<>>, 0)
    BY <2>1, TransportAssumption DEF HeaderIs
  <2> QED
    BY <2>1, <2>3, <2>4, <2>5, <2>6 DEF ReadInv, Init
<1> QED
  BY <1>1, <1>4, <1>5 DEF OrderInv

LEMMA OrderTypes == OrderInv => TypeOK
<1> SUFFICES ASSUME OrderInv PROVE TypeOK
  OBVIOUS
<1>1. outMsg \in Seq([id : 1..MaxUp, len : UpLens, xfered : Nat])
  <2> DEFINE S == [id : 1..MaxUp, len : UpLens, xfered : Nat]
  <2>1. outMsg \in Seq(Queueable) /\ Queueable \subseteq S
    BY DEF OrderInv, OutInv, Queueable
  <2>2. Len(outMsg) \in Nat /\ outMsg \in [1..Len(outMsg) -> Queueable]
    BY <2>1, LenProperties
  <2> HIDE DEF S
  <2>3. outMsg \in [1..Len(outMsg) -> S]
    BY <2>1, <2>2
  <2>4. outMsg \in Seq(S)
    BY <2>2, <2>3
  <2> QED
    BY <2>4 DEF S
<1>2. readMsg # NoMsg => readMsg.size \in Nat
  BY DEF OrderInv, BufferInv, Fitting, Messages
<1> QED
  BY <1>1, <1>2 DEF TypeOK, OrderInv, OutInv, BufferInv, BoolInv, ArmedInv, StackOK, LenInv

\* Byte for byte, both directions keep the order in which messages were put in,
\* however the socket cuts them up: what was written and what is still queued are
\* the bytes of all messages (xmms_ipc_msg_write_transport), and what is handed over
\* is the server's messages, whole, until the connection is given up
\* (xmms_ipc_msg_read_transport).
THEOREM InOrderCorrect == Spec => []InOrder
<1>1. Init => OrderInv
  BY OrderInit
<1>2. OrderInv /\ [Next]_vars => OrderInv'
  <2> SUFFICES ASSUME OrderInv, [Next]_vars PROVE OrderInv'
    OBVIOUS
  <2>1. ArmedInv'
    BY ArmedStep DEF OrderInv
  <2>2. BufferInv'
    BY BufferStep DEF OrderInv
  <2>3. OutInv'
    BY OutKeeps DEF OrderInv
  <2>4. LenInv'
    BY LenKeeps DEF OrderInv
  <2>5. ReadInv'
    BY InKeeps DEF OrderInv
  <2>6. BoolInv'
    BY BoolKeeps DEF OrderInv
  <2> QED
    BY <2>1, <2>2, <2>3, <2>4, <2>5, <2>6 DEF OrderInv
<1>3. OrderInv => InOrder
  <2>1. OrderInv => WrittenInOrder /\ ReadInOrder
    BY InOrderIsRead DEF OrderInv, OutInv
  <2> QED
    BY <2>1, OrderTypes DEF InOrder
<1> QED
  BY <1>1, <1>2, <1>3, PTL DEF Spec
=============================================================================
