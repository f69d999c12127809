------------------------ MODULE XmmsClient_proofs ------------------------
(***************************************************************************)
(* Theorems about XmmsClient for every value of its constants.             *)
(***************************************************************************)
EXTENDS XmmsClient, SequenceTheorems, FiniteSetTheorems, TLAPS

-----------------------------------------------------------------------------
(* Sequences and stacks.                                                    *)

\* A prefix of a sequence.
LEMMA PrefixFacts ==
  ASSUME NEW S, NEW s \in Seq(S), NEW n \in 0..Len(s)
  PROVE  /\ SubSeq(s, 1, n) \in Seq(S)
         /\ Len(SubSeq(s, 1, n)) = n
         /\ \A i \in 1..n : SubSeq(s, 1, n)[i] = s[i]
<1>1. Len(s) \in Nat /\ n \in Int /\ 1 \in Int
  BY LenProperties
<1>2. \A i \in 1..n : s[i] \in S
  BY <1>1, ElementOfSeq
<1>3. /\ SubSeq(s, 1, n) \in Seq(S)
      /\ Len(SubSeq(s, 1, n)) = IF 1 <= n THEN n - 1 + 1 ELSE 0
      /\ \A i \in 1..n - 1 + 1 : SubSeq(s, 1, n)[i] = s[1 + i - 1]
  BY <1>1, <1>2, SubSeqProperties
<1>4. \A i \in 1..n : i \in 1..n - 1 + 1 /\ 1 + i - 1 = i
  BY <1>1
<1>5. n >= 0 /\ (n >= 1 => n - 1 + 1 = n)
  BY <1>1
<1>6. QED
  BY <1>1, <1>3, <1>4, <1>5

\* What is left of a sequence without its first k elements.
LEMMA SuffixFacts ==
  ASSUME NEW S, NEW s \in Seq(S), NEW k \in 0..Len(s)
  PROVE  /\ SubSeq(s, k + 1, Len(s)) \in Seq(S)
         /\ Len(SubSeq(s, k + 1, Len(s))) = Len(s) - k
         /\ \A i \in 1..Len(s) - k : SubSeq(s, k + 1, Len(s))[i] = s[k + i]
<1>1. Len(s) \in Nat /\ Len(s) \in Int /\ k + 1 \in Int /\ k \in Nat
  BY LenProperties
<1>2. \A i \in k + 1..Len(s) : s[i] \in S
  BY <1>1, ElementOfSeq
<1>3. /\ SubSeq(s, k + 1, Len(s)) \in Seq(S)
      /\ Len(SubSeq(s, k + 1, Len(s))) =
           IF k + 1 <= Len(s) THEN Len(s) - (k + 1) + 1 ELSE 0
      /\ \A i \in 1..Len(s) - (k + 1) + 1 :
           SubSeq(s, k + 1, Len(s))[i] = s[k + 1 + i - 1]
  BY <1>1, <1>2, SubSeqProperties
<1>4. \A i \in 1..Len(s) - k : i \in 1..Len(s) - (k + 1) + 1 /\ k + 1 + i - 1 = k + i
  BY <1>1
<1>5. /\ k + 1 <= Len(s) => Len(s) - (k + 1) + 1 = Len(s) - k
      /\ ~(k + 1 <= Len(s)) => Len(s) - k = 0
  BY <1>1
<1>6. QED
  BY <1>1, <1>3, <1>4, <1>5

\* What is known of a stack whose top activation is of kind k.
LEMMA TopFacts ==
  ASSUME stack \in Seq(Frames), NEW k, TopIs(k)
  PROVE  /\ Len(stack) \in Nat /\ Len(stack) >= 1
         /\ Top \in Frames /\ Top = stack[Len(stack)] /\ Top.kind = k
         /\ Pop \in Seq(Frames)
         /\ Len(Pop) = Len(stack) - 1
         /\ \A i \in 1..Len(stack) - 1 : Pop[i] = stack[i]
<1>1. Len(stack) \in Nat /\ Len(stack) >= 1
  BY EmptySeq, LenProperties DEF TopIs
<1>2. \A i \in 1..Len(stack) - 1 : stack[i] \in Frames
  BY <1>1, ElementOfSeq
<1>3. Top \in Frames
  BY <1>1, ElementOfSeq DEF Top
<1>4. /\ Pop \in Seq(Frames)
      /\ Len(Pop) = Len(stack) - 1
      /\ \A i \in 1..Len(stack) - 1 : Pop[i] = stack[i]
  <2>1. Len(stack) - 1 \in 0..Len(stack)
    BY <1>1
  <2>2. QED
    BY <2>1, PrefixFacts DEF Pop
<1>5. QED
  BY <1>1, <1>3, <1>4 DEF TopIs, Top

\* Replacing the top activation.
LEMMA SetTopFacts ==
  ASSUME stack \in Seq(Frames), stack # <<>>, NEW f \in Frames
  PROVE  /\ SetTop(f) \in Seq(Frames)
         /\ Len(SetTop(f)) = Len(stack)
         /\ \A i \in 1..Len(stack) :
              SetTop(f)[i] = IF i = Len(stack) THEN f ELSE stack[i]
<1>1. Len(stack) \in 1..Len(stack)
  BY EmptySeq, LenProperties
<1>2. QED
  BY <1>1, ExceptSeq, LenProperties DEF SetTop

\* An activation is of the record set its kind names.
LEMMA FrameKinds ==
  ASSUME NEW f \in Frames
  PROVE  /\ f.kind = "run" => f \in RunFrames
         /\ f.kind = "wait" => f \in WaitFrames
         /\ f.kind = "in" => f \in InFrames
  BY DEF Frames, RunFrames, WaitFrames, InFrames

-----------------------------------------------------------------------------
(* Types.                                                                   *)

LEMMA NextIdType ==
  ASSUME sent \in Nat
  PROVE  NextId \in Cookies
  BY BoundsAssumption DEF NextId, Cookies

LEMMA FirstType ==
  ASSUME NEW S \in SUBSET Nodes, NEW n \in First(S)
  PROVE  n \in Nodes \cup {NoNode}
  BY DEF First

LEMMA WriteRequestType ==
  ASSUME TypeOK, NEW r \in Results, NEW cls \in ResultClasses, WriteRequest(r, cls)
  PROVE  outMsg' \in Seq(Requests) /\ sent' \in Nat
<1>1. [cookie |-> NextId, res |-> r, class |-> cls] \in Requests
  BY NextIdType DEF Requests, TypeOK
<1>2. QED
  BY <1>1, AppendProperties DEF WriteRequest, TypeOK

LEMMA DropRefType ==
  ASSUME TypeOK, NEW r \in Results, DropRef(r)
  PROVE  /\ ref' \in [Results -> Nat]
         /\ phase' \in [Results -> {"fresh", "live", "freed"}]
         /\ resultsList' \subseteq Results
         /\ connRef' \in Int
<1>1. ref' \in [Results -> Nat]
  <2>1. ref[r] \in Nat /\ (~(ref[r] < 1) => ref[r] - 1 \in Nat)
    BY DEF TypeOK
  <2>2. QED
    BY <2>1 DEF TypeOK, DropRef
<1>2. CASE ref[r] = 1
  <2>1. /\ phase' = [phase EXCEPT ![r] = "freed"]
        /\ resultsList' = resultsList \ Lookup(cookie[r])
        /\ connRef' = connRef - 1
    BY <1>2 DEF DropRef, FreeResult, Unregister
  <2>2. phase' \in [Results -> {"fresh", "live", "freed"}]
    BY <2>1 DEF TypeOK
  <2>3. resultsList' \subseteq Results /\ connRef' \in Int
    BY <2>1 DEF TypeOK
  <2>4. QED
    BY <1>1, <2>2, <2>3
<1>3. CASE ref[r] # 1
  BY <1>1, <1>3 DEF TypeOK, DropRef
<1>4. QED
  BY <1>2, <1>3

LEMMA IoOutType ==
  ASSUME TypeOK, IoOut
  PROVE  /\ outMsg' \in Seq(Requests) /\ atServer' \subseteq Requests
         /\ disconnect' \in BOOLEAN /\ disconnects' \in Nat
<1>1. PICK k \in 0..Len(outMsg), disco \in BOOLEAN :
        /\ outMsg' = SubSeq(outMsg, k + 1, Len(outMsg))
        /\ atServer' = IF closed THEN atServer
                       ELSE atServer \cup {outMsg[i] : i \in 1..k}
        /\ IF disco THEN IpcDisconnect ELSE UNCHANGED <<disconnect, disconnects>>
  BY DEF IoOut, Unwritten
<1>2. Len(outMsg) \in Nat /\ \A i \in 1..Len(outMsg) : outMsg[i] \in Requests
  BY LenProperties, ElementOfSeq DEF TypeOK
<1>3. outMsg' \in Seq(Requests)
  BY <1>1, SuffixFacts DEF TypeOK
<1>4. atServer' \subseteq Requests
  BY <1>1, <1>2 DEF TypeOK
<1>5. disconnect' \in BOOLEAN /\ disconnects' \in Nat
  <2>1. CASE disco
    BY <1>1, <2>1 DEF TypeOK, IpcDisconnect
  <2>2. CASE ~disco
    BY <1>1, <2>2 DEF TypeOK
  <2>3. QED
    BY <2>1, <2>2
<1>6. QED
  BY <1>3, <1>4, <1>5

LEMMA TypeInit == Init => TypeOK
<1>1. ASSUME Init PROVE TypeOK
  <2>1. <<>> \in Seq(Requests) /\ <<>> \in Seq(Messages) /\ <<>> \in Seq(Frames)
    BY EmptySeq
  <2>2. 0 \in Cookies
    BY BoundsAssumption DEF Cookies
  <2>3. 0 \in 0..MaxResults /\ 0 \in 0..MaxNotifiers
    BY BoundsAssumption
  <2>4. /\ phase \in [Results -> {"fresh", "live", "freed"}]
        /\ class \in [Results -> ResultClasses]
        /\ ref \in [Results -> Nat]
        /\ cookie \in [Results -> Cookies]
    BY <1>1, <2>2 DEF Init, ResultClasses
  <2>5. /\ parsed \in [Results -> BOOLEAN]
        /\ data \in [Results -> Data]
        /\ notifiers \in [Results -> SUBSET Nodes]
    BY <1>1 DEF Init, Data
  <2>6. /\ resultsList \subseteq Results /\ outMsg \in Seq(Requests)
        /\ disconnect \in BOOLEAN
        /\ disconnects \in Nat /\ connRef \in Int /\ sent \in Nat
    <3>1. resultsList = {} /\ outMsg = <<>> /\ disconnect \in BOOLEAN
      BY <1>1 DEF Init
    <3>2. disconnects = 0 /\ connRef = 1 /\ sent = 0
      BY <1>1 DEF Init
    <3>3. QED
      BY <2>1, <3>1, <3>2
  <2>7. /\ created \in 0..MaxResults /\ attached \in 0..MaxNotifiers
        /\ held \subseteq Results
        /\ appConn \in BOOLEAN
    BY <1>1, <2>3 DEF Init
  <2>8. /\ atServer \subseteq Requests /\ down \in Seq(Messages)
        /\ closed \in BOOLEAN /\ emits \in Nat
        /\ stack \in Seq(Frames) /\ freedAccess \in BOOLEAN
    BY <1>1, <2>1 DEF Init
  <2>9. QED
    BY <2>4, <2>5, <2>6, <2>7, <2>8 DEF TypeOK
<1>2. QED
  BY <1>1

LEMMA TypeStep == ASSUME TypeOK, [Next]_vars PROVE TypeOK'
<1> USE DEF resultVars, ipcVars, connVars, appVars, netVars
<1>1. ASSUME NEW cls \in Classes, SendMsg(cls) PROVE TypeOK'
  <2> DEFINE r == created + 1
  <2>1. r \in Results /\ r \in 0..MaxResults /\ cls \in ResultClasses
    BY <1>1, BoundsAssumption, DataAssumption DEF SendMsg, TypeOK, Results
  <2>2. /\ created' = r /\ WriteRequest(r, cls) /\ NewResult(r, cls, NextId)
        /\ held' = held \cup {r}
        /\ UNCHANGED <<parsed, data, notifiers, disconnect, disconnects, attached,
                       appConn, netVars, stack, freedAccess>>
    BY <1>1 DEF SendMsg
  <2>3. outMsg' \in Seq(Requests) /\ sent' \in Nat
    BY <2>1, <2>2, WriteRequestType
  <2>4. NextId \in Cookies
    BY NextIdType DEF TypeOK
  <2>5. /\ phase' \in [Results -> {"fresh", "live", "freed"}]
        /\ class' \in [Results -> ResultClasses]
        /\ ref' \in [Results -> Nat]
        /\ cookie' \in [Results -> Cookies]
        /\ resultsList' \subseteq Results
        /\ connRef' \in Int
    BY <2>1, <2>2, <2>4 DEF NewResult, TypeOK
  <2>6. QED
    BY <2>1, <2>2, <2>3, <2>5 DEF TypeOK
<1>2. ASSUME NEW r \in Results, NotifierSet(r) PROVE TypeOK'
  <2>1. attached' \in Nodes /\ attached' \in 0..MaxNotifiers
    BY <1>2, BoundsAssumption DEF NotifierSet, TypeOK, Nodes
  <2>2. ref' \in [Results -> Nat] /\ notifiers' \in [Results -> SUBSET Nodes]
    BY <1>2, <2>1 DEF NotifierSet, AddRef, TypeOK
  <2>3. QED
    BY <1>2, <2>1, <2>2 DEF NotifierSet, TypeOK
<1>3. ASSUME NEW r \in Results, Unref(r) PROVE TypeOK'
  BY <1>3, DropRefType DEF Unref, TypeOK
<1>4. ASSUME NEW r \in Results, Disconnect(r) PROVE TypeOK'
  BY <1>4, DropRefType DEF Disconnect, TypeOK
<1>5. ASSUME NEW r \in Results, Wait(r) PROVE TypeOK'
  <2>1. [kind |-> "wait", res |-> r, write |-> FALSE] \in Frames
    BY DEF Frames, WaitFrames
  <2>2. stack' \in Seq(Frames)
    BY <1>5, <2>1, AppendProperties DEF Wait, TypeOK
  <2>3. QED
    BY <1>5, <2>2 DEF Wait, TypeOK
<1>6. ASSUME UnrefConnection PROVE TypeOK'
  <2>1. connRef' \in Int /\ appConn' \in BOOLEAN
    <3>1. connRef' = connRef - 1 /\ connRef \in Int
      BY <1>6 DEF UnrefConnection, TypeOK
    <3>2. appConn' \in BOOLEAN
      BY <1>6 DEF UnrefConnection
    <3>3. QED
      BY <3>1, <3>2
  <2>2. UNCHANGED <<resultVars, ipcVars, sent, created, attached, held,
                    netVars, stack, freedAccess>>
    BY <1>6 DEF UnrefConnection
  <2>3. QED
    BY <2>1, <2>2 DEF TypeOK
<1>7. ASSUME MainIn PROVE TypeOK'
  <2>1. <<[kind |-> "in"]>> \in Seq(Frames)
    BY DEF Frames, InFrames
  <2>2. QED
    BY <1>7, <2>1 DEF MainIn, TypeOK
<1>8. ASSUME MainOut PROVE TypeOK'
  BY <1>8, IoOutType DEF MainOut, TypeOK
<1>9. ASSUME WaitReturn PROVE TypeOK'
  <2>1. Top \in WaitFrames /\ Pop \in Seq(Frames)
    BY <1>9, TopFacts, FrameKinds DEF WaitReturn, TypeOK
  <2>2. data' \in [Results -> Data]
    BY <1>9, <2>1 DEF WaitReturn, TypeOK, WaitFrames, Data
  <2>3. QED
    BY <1>9, <2>1, <2>2 DEF WaitReturn, TypeOK
<1>10. ASSUME WaitSelect PROVE TypeOK'
  <2>1. PICK wr \in BOOLEAN :
          stack' = SetTop([Top EXCEPT !.write = wr]) \o
                   (IF Readable THEN <<[kind |-> "in"]>> ELSE <<>>)
    BY <1>10 DEF WaitSelect
  <2>2. stack # <<>> /\ Top \in WaitFrames
    BY <1>10, TopFacts, FrameKinds DEF WaitSelect, TopIs, TypeOK
  <2>3. [Top EXCEPT !.write = wr] \in Frames
    BY <2>2 DEF Frames, WaitFrames
  <2>4. SetTop([Top EXCEPT !.write = wr]) \in Seq(Frames)
    BY <2>2, <2>3, SetTopFacts DEF TypeOK
  <2>5. (IF Readable THEN <<[kind |-> "in"]>> ELSE <<>>) \in Seq(Frames)
    <3>1. [kind |-> "in"] \in Frames
      BY DEF Frames, InFrames
    <3>2. <<[kind |-> "in"]>> \in Seq(Frames) /\ <<>> \in Seq(Frames)
      BY <3>1
    <3>3. QED
      BY <3>2
  <2>6. stack' \in Seq(Frames)
    BY <2>1, <2>4, <2>5, ConcatProperties
  <2>7. QED
    BY <1>10, <2>6 DEF WaitSelect, TypeOK
<1>11. ASSUME WaitWrite PROVE TypeOK'
  <2>1. stack # <<>> /\ Top \in WaitFrames
    BY <1>11, TopFacts, FrameKinds DEF WaitWrite, TopIs, TypeOK
  <2>2. [Top EXCEPT !.write = FALSE] \in Frames
    BY <2>1 DEF Frames, WaitFrames
  <2>3. stack' \in Seq(Frames)
    BY <1>11, <2>1, <2>2, SetTopFacts DEF WaitWrite, TypeOK
  <2>4. /\ outMsg' \in Seq(Requests) /\ atServer' \subseteq Requests
        /\ disconnect' \in BOOLEAN /\ disconnects' \in Nat
    BY <1>11, IoOutType DEF WaitWrite, TypeOK
  <2>5. QED
    BY <1>11, <2>3, <2>4 DEF WaitWrite, TypeOK
<1>12. ASSUME Receive PROVE TypeOK'
  <2> DEFINE msg == Head(down)
  <2>1. msg \in Messages /\ down' \in Seq(Messages)
    BY <1>12, HeadTailProperties DEF Receive, TypeOK
  <2>2. CASE UNCHANGED <<ref, parsed, data, stack>>
    BY <1>12, <2>1, <2>2 DEF Receive, TypeOK
  <2>3. ASSUME NEW r \in Lookup(msg.cookie), Dispatch(r, msg) PROVE TypeOK'
    <3>1. r \in Results
      BY <2>3 DEF Lookup, WithCookie, TypeOK
    <3>2. msg.payload \in Values \cup {Error} /\ msg.res \in Results
      BY <2>1, <2>3 DEF Dispatch, Parses, Messages
    <3>3. /\ ref' \in [Results -> Nat]
          /\ parsed' \in [Results -> BOOLEAN]
          /\ data' \in [Results -> Data]
      BY <2>3, <3>1, <3>2 DEF Dispatch, Store, AddRef, TypeOK, Data
    <3>4. PICK n \in First(notifiers[r]) :
            stack' = Append(stack,
              [kind |-> "run", res |-> r, cur |-> n, next |-> NoNode,
               calling |-> FALSE, given |-> Null, val |-> msg.payload,
               req |-> msg.res])
      BY <2>3 DEF Dispatch
    <3>5. n \in Nodes \cup {NoNode}
      BY <3>1, FirstType DEF TypeOK
    <3>6. [kind |-> "run", res |-> r, cur |-> n, next |-> NoNode,
           calling |-> FALSE, given |-> Null, val |-> msg.payload,
           req |-> msg.res] \in Frames
      BY <3>1, <3>2, <3>5 DEF Frames, RunFrames, Data
    <3>7. stack' \in Seq(Frames)
      BY <3>4, <3>6, AppendProperties DEF TypeOK
    <3>8. QED
      BY <1>12, <2>1, <3>3, <3>7 DEF Receive, TypeOK
  <2>4. QED
    BY <1>12, <2>2, <2>3 DEF Receive
<1>13. ASSUME WouldBlock PROVE TypeOK'
  BY <1>13, TopFacts DEF WouldBlock, TypeOK
<1>14. ASSUME EndOfFile PROVE TypeOK'
  <2>1. Len(stack) \in Nat /\ Len(stack) >= 1
    BY <1>14, TopFacts DEF EndOfFile, TypeOK
  <2>2. \A i \in 1..Len(stack) - 1 :
          (IF i = Len(stack) - 1 /\ stack[i].kind = "wait"
           THEN [stack[i] EXCEPT !.write = FALSE] ELSE stack[i]) \in Frames
    <3>1. ASSUME NEW i \in 1..Len(stack) - 1
          PROVE  /\ stack[i] \in Frames
                 /\ stack[i].kind = "wait" => [stack[i] EXCEPT !.write = FALSE] \in Frames
      <4>1. stack[i] \in Frames
        BY <2>1, ElementOfSeq DEF TypeOK
      <4>2. stack[i].kind = "wait" => stack[i] \in WaitFrames
        BY <4>1, FrameKinds
      <4>3. QED
        BY <4>1, <4>2 DEF Frames, WaitFrames
    <3>2. QED
      BY <3>1
  <2>3. stack' \in Seq(Frames)
    BY <1>14, <2>1, <2>2, IsASeq DEF EndOfFile
  <2>4. QED
    BY <1>14, <2>3 DEF EndOfFile, IpcDisconnect, TypeOK
<1>15. ASSUME CallNotifier PROVE TypeOK'
  <2>1. stack # <<>> /\ Top \in RunFrames
    BY <1>15, TopFacts, FrameKinds DEF CallNotifier, TopIs, TypeOK
  <2>2. CASE UNCHANGED stack
    BY <1>15, <2>2 DEF CallNotifier, TypeOK
  <2>3. ASSUME NEW n \in After(notifiers[Top.res], Top.cur),
               stack' = SetTop([Top EXCEPT !.next = n, !.calling = TRUE,
                                           !.given = data[Top.res]])
        PROVE  TypeOK'
    <3>1. Top.res \in Results
      BY <2>1 DEF RunFrames
    <3>2. n \in Nodes \cup {NoNode}
      BY <2>3, <3>1, FirstType DEF After, TypeOK
    <3>3. [Top EXCEPT !.next = n, !.calling = TRUE, !.given = data[Top.res]] \in Frames
      BY <2>1, <3>1, <3>2 DEF Frames, RunFrames, TypeOK
    <3>4. stack' \in Seq(Frames)
      BY <2>1, <2>3, <3>3, SetTopFacts DEF TypeOK
    <3>5. QED
      BY <1>15, <3>4 DEF CallNotifier, TypeOK
  <2>4. QED
    BY <1>15, <2>2, <2>3 DEF CallNotifier
<1>16. ASSUME NEW keep \in BOOLEAN, CallbackReturn(keep) PROVE TypeOK'
  <2>1. stack # <<>> /\ Top \in RunFrames /\ Top.res \in Results
    BY <1>16, TopFacts, FrameKinds DEF CallbackReturn, TopIs, TypeOK, RunFrames
  <2>2. [Top EXCEPT !.cur = Top.next, !.next = NoNode, !.calling = FALSE,
                    !.given = Null] \in Frames
    BY <2>1 DEF Frames, RunFrames, Data
  <2>3. stack' \in Seq(Frames)
    BY <1>16, <2>1, <2>2, SetTopFacts DEF CallbackReturn, TypeOK
  <2>4. /\ freedAccess' \in BOOLEAN
        /\ UNCHANGED <<class, cookie, parsed, data, outMsg, disconnect, disconnects,
                       sent, appVars, netVars>>
    BY <1>16 DEF CallbackReturn, TypeOK
  <2>5. CASE UNCHANGED <<notifiers, ref, phase, resultsList, connRef>>
    BY <2>3, <2>4, <2>5 DEF TypeOK
  <2>6. CASE DeleteNode(Top.res, Top.cur)
    <3>1. notifiers' \in [Results -> SUBSET Nodes] /\ DropRef(Top.res)
      BY <2>1, <2>6 DEF DeleteNode, TypeOK
    <3>2. QED
      BY <2>1, <2>3, <2>4, <3>1, DropRefType DEF TypeOK
  <2>7. QED
    BY <1>16, <2>5, <2>6 DEF CallbackReturn
<1>17. ASSUME RunFinish PROVE TypeOK'
  <2> DEFINE r == Top.res
  <2>1. r \in Results /\ Pop \in Seq(Frames)
    BY <1>17, TopFacts, FrameKinds DEF RunFinish, TypeOK, RunFrames
  <2>2. outMsg' \in Seq(Requests) /\ sent' \in Nat /\ cookie' \in [Results -> Cookies]
    <3>1. CASE Restart(r)
      <4>1. WriteRequest(r, "signal") /\ cookie' = [cookie EXCEPT ![r] = NextId]
        BY <3>1 DEF Restart
      <4>2. QED
        BY <2>1, <4>1, WriteRequestType, NextIdType DEF TypeOK, ResultClasses
    <3>2. CASE UNCHANGED <<outMsg, sent, cookie>>
      BY <3>2 DEF TypeOK
    <3>3. QED
      BY <1>17, <3>1, <3>2 DEF RunFinish
  <2>3. data' \in [Results -> Data]
    BY <1>17, <2>1 DEF RunFinish, TypeOK, Data
  <2>4. DropRef(r)
    BY <1>17 DEF RunFinish
  <2>5. QED
    BY <1>17, <2>1, <2>2, <2>3, <2>4, DropRefType DEF RunFinish, TypeOK
<1>18. ASSUME NEW req \in atServer, ServerSend(req) PROVE TypeOK'
  <2>1. PICK p \in Payloads :
          down' = Append(down, [cookie |-> req.cookie, res |-> req.res, payload |-> p])
    BY <1>18 DEF ServerSend
  <2>2. [cookie |-> req.cookie, res |-> req.res, payload |-> p] \in Messages
    BY DataAssumption DEF TypeOK, Requests, Messages
  <2>3. down' \in Seq(Messages)
    BY <2>1, <2>2, AppendProperties DEF TypeOK
  <2>4. QED
    BY <1>18, <2>3 DEF ServerSend, TypeOK
<1>19. ASSUME ServerClose PROVE TypeOK'
  BY <1>19 DEF ServerClose, TypeOK
<1>20. ASSUME UNCHANGED vars PROVE TypeOK'
  BY <1>20 DEF vars, TypeOK
<1>21. QED
  BY <1>1, <1>2, <1>3, <1>4, <1>5, <1>6, <1>7, <1>8, <1>9, <1>10, <1>11, <1>12, <1>13,
     <1>14, <1>15, <1>16, <1>17, <1>18, <1>19, <1>20
     DEF Next, AppCall, Library, Server

\* Type correctness: every variable stays in its domain, whatever the bounds,
\* the classes of result and the application's habits.
THEOREM TypeCorrect == Spec => []TypeOK
<1>1. Init => TypeOK
  BY TypeInit
<1>2. TypeOK /\ [Next]_vars => TypeOK'
  BY TypeStep
<1>3. QED
  BY <1>1, <1>2, PTL DEF Spec

-----------------------------------------------------------------------------
(* Counting the dispatches of a result on the stack.                        *)

LEMMA RunsFinite ==
  ASSUME NEW s \in Seq(Frames), NEW r
  PROVE  /\ RunsOn(s, r) \subseteq 1..Len(s)
         /\ IsFiniteSet(RunsOn(s, r))
         /\ Cardinality(RunsOn(s, r)) \in Nat
<1>1. Len(s) \in Nat
  BY LenProperties
<1>2. RunsOn(s, r) \subseteq 1..Len(s)
  BY DEF RunsOn
<1>3. IsFiniteSet(1..Len(s))
  BY <1>1, FS_Interval
<1>4. IsFiniteSet(RunsOn(s, r))
  BY <1>2, <1>3, FS_Subset
<1>5. QED
  BY <1>2, <1>4, FS_CardinalityType

\* Two stacks with the same activations, whatever their local variables hold.
SameRuns(s, t, n) ==
  \A i \in 1..n : /\ t[i].kind = s[i].kind
                  /\ s[i].kind = "run" => t[i].res = s[i].res

LEMMA RunsSame ==
  ASSUME NEW s \in Seq(Frames), NEW t \in Seq(Frames), Len(t) = Len(s),
         SameRuns(s, t, Len(s)), NEW r
  PROVE  RunsOn(t, r) = RunsOn(s, r)
  BY DEF RunsOn, SameRuns

LEMMA RunsPush ==
  ASSUME NEW s \in Seq(Frames), NEW f \in Frames, NEW r
  PROVE  Cardinality(RunsOn(Append(s, f), r)) =
           Cardinality(RunsOn(s, r)) + (IF f.kind = "run" /\ f.res = r THEN 1 ELSE 0)
<1> DEFINE t == Append(s, f)
           n == Len(s) + 1
<1>1. /\ Len(s) \in Nat /\ Len(t) = n /\ t[n] = f
      /\ \A i \in 1..Len(s) : t[i] = s[i]
  BY LenProperties, AppendProperties
<1>2. n \notin RunsOn(s, r) /\ 1..n = (1..Len(s)) \cup {n}
  BY <1>1 DEF RunsOn
<1>3. RunsOn(t, r) = IF f.kind = "run" /\ f.res = r THEN RunsOn(s, r) \cup {n}
                     ELSE RunsOn(s, r)
  BY <1>1, <1>2 DEF RunsOn
<1>4. IsFiniteSet(RunsOn(s, r)) /\ Cardinality(RunsOn(s, r)) \in Nat
  BY RunsFinite
<1>5. Cardinality(RunsOn(s, r) \cup {n}) = Cardinality(RunsOn(s, r)) + 1
  BY <1>2, <1>4, FS_AddElement
<1>6. QED
  BY <1>3, <1>4, <1>5

LEMMA RunsPop ==
  ASSUME NEW s \in Seq(Frames), s # <<>>, NEW t \in Seq(Frames),
         Len(t) = Len(s) - 1, SameRuns(s, t, Len(s) - 1), NEW r
  PROVE  LET n == Len(s)
         IN IF s[n].kind = "run" /\ s[n].res = r
            THEN Cardinality(RunsOn(s, r)) = Cardinality(RunsOn(t, r)) + 1
            ELSE RunsOn(t, r) = RunsOn(s, r)
<1> DEFINE n == Len(s)
<1>1. n \in Nat /\ n >= 1
  BY EmptySeq, LenProperties
<1>2. n \notin RunsOn(t, r) /\ 1..n = (1..n-1) \cup {n}
  BY <1>1 DEF RunsOn
<1>3. RunsOn(s, r) = IF s[n].kind = "run" /\ s[n].res = r THEN RunsOn(t, r) \cup {n}
                     ELSE RunsOn(t, r)
  BY <1>1, <1>2 DEF RunsOn, SameRuns
<1>4. IsFiniteSet(RunsOn(t, r))
  BY RunsFinite
<1>5. Cardinality(RunsOn(t, r) \cup {n}) = Cardinality(RunsOn(t, r)) + 1
  BY <1>2, <1>4, FS_AddElement
<1>6. QED
  BY <1>3, <1>5

LEMMA NotifiersFinite ==
  ASSUME TypeOK, NEW r \in Results
  PROVE  IsFiniteSet(notifiers[r]) /\ Cardinality(notifiers[r]) \in Nat
<1>1. IsFiniteSet(Nodes)
  BY BoundsAssumption, FS_Interval DEF Nodes
<1>2. QED
  BY <1>1, FS_Subset, FS_CardinalityType DEF TypeOK

-----------------------------------------------------------------------------
(* Reference counts.                                                        *)

\* The inductive invariant: RefCount, and what makes the numbers of a new result
\* and of a new node fresh.
RefInv ==
  /\ RefCount
  /\ \A r \in Results : r > created => ref[r] = 0
  /\ \A r \in resultsList : r <= created
  /\ \A r \in Results : \A n \in notifiers[r] : n <= attached

\* Whoever owns a reference keeps the count above zero, and nobody owns one to
\* a result whose count is zero.
LEMMA OwnersFacts ==
  ASSUME TypeOK, RefCount, NEW r \in Results
  PROVE  /\ r \in held => ref[r] >= 1
         /\ notifiers[r] # {} => ref[r] >= 1
         /\ Running(r) # {} => ref[r] >= 1
         /\ ref[r] = 0 => r \notin held /\ notifiers[r] = {} /\ Running(r) = {}
<1>1. IsFiniteSet(notifiers[r]) /\ Cardinality(notifiers[r]) \in Nat
  BY NotifiersFinite
<1>2. IsFiniteSet(Running(r)) /\ Cardinality(Running(r)) \in Nat
  BY RunsFinite DEF Running, TypeOK
<1>3. /\ Cardinality(notifiers[r]) = 0 <=> notifiers[r] = {}
      /\ Cardinality(Running(r)) = 0 <=> Running(r) = {}
  BY <1>1, <1>2, FS_EmptySet
<1> DEFINE a == Cardinality(notifiers[r])
           b == Cardinality(Running(r))
<1>4. /\ r \in held => ref[r] = 1 + a + b
      /\ r \notin held => ref[r] = 0 + a + b
  BY DEF RefCount, Owners
<1> HIDE DEF a, b
<1>5. /\ a \in Nat /\ b \in Nat
      /\ a = 0 <=> notifiers[r] = {}
      /\ b = 0 <=> Running(r) = {}
  BY <1>1, <1>2, <1>3 DEF a, b
<1>6. r \in held => ref[r] >= 1
  BY <1>4, <1>5
<1>7. a # 0 \/ b # 0 => ref[r] >= 1
  BY <1>4, <1>5
<1>8. ref[r] = 0 => r \notin held /\ a = 0 /\ b = 0
  BY <1>6, <1>7
<1>9. QED
  BY <1>5, <1>6, <1>7, <1>8

LEMMA DropRefFacts ==
  ASSUME TypeOK, NEW r \in Results, ref[r] >= 1, DropRef(r)
  PROVE  /\ ref' = [ref EXCEPT ![r] = @ - 1]
         /\ resultsList' \subseteq resultsList
<1>1. ref[r] \in Nat /\ ~(ref[r] < 1)
  BY DEF TypeOK
<1>2. QED
  BY <1>1 DEF DropRef, FreeResult, Unregister

\* When the counts and the owners of every result change alike, the invariant
\* is kept.
LEMMA RefKept ==
  ASSUME TypeOK, RefInv,
         \A q \in Results : ref'[q] = Owners(q)',
         \A q \in Results : q > created' => ref'[q] = 0,
         \A q \in resultsList' : q <= created',
         \A q \in Results : \A n \in notifiers'[q] : n <= attached'
  PROVE  RefInv'
  BY DEF RefInv, RefCount

\* Steps that change neither a count nor an owner.
LEMMA RefUnchanged ==
  ASSUME TypeOK, RefInv, UNCHANGED <<ref, held, notifiers, created, attached>>,
         resultsList' \subseteq resultsList,
         \A q \in Results : Cardinality(Running(q)') = Cardinality(Running(q))
  PROVE  RefInv'
<1>1. \A q \in Results : Owners(q)' = Owners(q)
  BY DEF Owners
<1>2. QED
  BY <1>1 DEF RefInv, RefCount

\* Replacing the top activation by one of the same kind and result.
LEMMA RunsSetTop ==
  ASSUME stack \in Seq(Frames), stack # <<>>, NEW f \in Frames,
         f.kind = Top.kind, f.kind = "run" => f.res = Top.res, NEW r
  PROVE  RunsOn(SetTop(f), r) = RunsOn(stack, r)
<1>1. /\ SetTop(f) \in Seq(Frames) /\ Len(SetTop(f)) = Len(stack)
      /\ \A i \in 1..Len(stack) :
           SetTop(f)[i] = IF i = Len(stack) THEN f ELSE stack[i]
  BY SetTopFacts
<1>2. SameRuns(stack, SetTop(f), Len(stack))
  BY <1>1 DEF SameRuns, Top
<1>3. QED
  BY <1>1, <1>2, RunsSame

\* Leaving the top activation.
LEMMA RunsPopTop ==
  ASSUME stack \in Seq(Frames), NEW k, TopIs(k), NEW r
  PROVE  IF k = "run" /\ Top.res = r
         THEN Cardinality(RunsOn(stack, r)) = Cardinality(RunsOn(Pop, r)) + 1
         ELSE RunsOn(Pop, r) = RunsOn(stack, r)
<1>1. /\ stack # <<>> /\ Top.kind = k /\ Top = stack[Len(stack)]
      /\ Pop \in Seq(Frames) /\ Len(Pop) = Len(stack) - 1
      /\ \A i \in 1..Len(stack) - 1 : Pop[i] = stack[i]
  BY TopFacts DEF TopIs
<1>2. SameRuns(stack, Pop, Len(stack) - 1)
  BY <1>1 DEF SameRuns
<1>3. QED
  BY <1>1, <1>2, RunsPop

\* The steps that keep the dispatches on the stack.
LEMMA RunsKept ==
  ASSUME TypeOK, TypeOK',
         \/ \E r \in Results : Wait(r)
         \/ MainIn \/ WaitReturn \/ WaitSelect \/ WaitWrite \/ WouldBlock
         \/ EndOfFile \/ CallNotifier \/ \E keep \in BOOLEAN : CallbackReturn(keep)
         \/ UNCHANGED stack
  PROVE  \A q \in Results :
           Cardinality(RunsOn(stack', q)) = Cardinality(RunsOn(stack, q))
<1> USE DEF resultVars, ipcVars, connVars, appVars, netVars
<1>0. stack \in Seq(Frames) /\ stack' \in Seq(Frames)
  BY DEF TypeOK
<1> DEFINE Kept == \A q \in Results : Cardinality(RunsOn(stack', q)) = Cardinality(RunsOn(stack, q))
<1>1. ASSUME NEW r \in Results, Wait(r) PROVE Kept
  <2> DEFINE f == [kind |-> "wait", res |-> r, write |-> FALSE]
  <2>1. f \in Frames /\ f.kind # "run"
    BY DEF Frames, WaitFrames
  <2>2. stack' = Append(stack, f)
    BY <1>1 DEF Wait
  <2>3. \A q : Cardinality(RunsOn(stack, q)) \in Nat
    BY <1>0, RunsFinite
  <2> HIDE DEF f
  <2>4. QED
    BY <1>0, <2>1, <2>2, <2>3, RunsPush
<1>2. ASSUME MainIn PROVE Kept
  <2>1. \A q : RunsOn(stack, q) = {} /\ RunsOn(stack', q) = {}
    BY <1>2 DEF MainIn, RunsOn
  <2>2. QED
    BY <2>1
<1>3. ASSUME WaitReturn \/ WouldBlock PROVE Kept
  <2>1. stack' = Pop /\ (TopIs("wait") \/ TopIs("in"))
    BY <1>3 DEF WaitReturn, WouldBlock
  <2>2. QED
    BY <1>0, <2>1, RunsPopTop
<1>4. ASSUME WaitSelect PROVE Kept
  <2>1. PICK wr \in BOOLEAN :
          stack' = SetTop([Top EXCEPT !.write = wr]) \o
                   (IF Readable THEN <<[kind |-> "in"]>> ELSE <<>>)
    BY <1>4 DEF WaitSelect
  <2> DEFINE f == [Top EXCEPT !.write = wr]
  <2>2. stack # <<>> /\ Top \in WaitFrames
    BY <1>0, <1>4, TopFacts, FrameKinds DEF WaitSelect, TopIs
  <2>3. f \in Frames /\ f.kind = Top.kind /\ f.kind # "run"
    BY <2>2 DEF Frames, WaitFrames
  <2> HIDE DEF f
  <2>4. SetTop(f) \in Seq(Frames) /\ \A q : RunsOn(SetTop(f), q) = RunsOn(stack, q)
    BY <1>0, <2>2, <2>3, SetTopFacts, RunsSetTop
  <2>5. CASE Readable
    <3>1. [kind |-> "in"] \in Frames /\ [kind |-> "in"].kind # "run"
      BY DEF Frames, InFrames
    <3>2. stack' = Append(SetTop(f), [kind |-> "in"])
      BY <2>1, <2>4, <2>5, <3>1, AppendIsConcat DEF f
    <3>3. \A q : Cardinality(RunsOn(SetTop(f), q)) \in Nat
      BY <2>4, RunsFinite
    <3>4. \A q : Cardinality(RunsOn(stack', q)) = Cardinality(RunsOn(SetTop(f), q))
      BY <2>4, <3>1, <3>2, <3>3, RunsPush
    <3>5. QED
      BY <2>4, <3>4
  <2>6. CASE ~Readable
    <3>1. stack' = SetTop(f)
      BY <2>1, <2>4, <2>6, ConcatEmptySeq DEF f
    <3>2. QED
      BY <2>4, <3>1
  <2>7. QED
    BY <2>5, <2>6
<1>5. ASSUME WaitWrite PROVE Kept
  <2> DEFINE f == [Top EXCEPT !.write = FALSE]
  <2>1. stack # <<>> /\ Top \in WaitFrames /\ stack' = SetTop(f)
    BY <1>0, <1>5, TopFacts, FrameKinds DEF WaitWrite, TopIs
  <2>2. f \in Frames /\ f.kind = Top.kind /\ f.kind # "run"
    BY <2>1 DEF Frames, WaitFrames
  <2> HIDE DEF f
  <2>3. QED
    BY <1>0, <2>1, <2>2, RunsSetTop
<1>6. ASSUME EndOfFile PROVE Kept
  <2>1. /\ stack # <<>> /\ Len(stack) \in Nat /\ Len(stack) >= 1
        /\ stack[Len(stack)].kind = "in"
    BY <1>0, <1>6, TopFacts DEF EndOfFile, TopIs
  <2>2. stack' = [i \in 1..Len(stack) - 1 |->
                    IF i = Len(stack) - 1 /\ stack[i].kind = "wait"
                    THEN [stack[i] EXCEPT !.write = FALSE] ELSE stack[i]]
    BY <1>6 DEF EndOfFile
  <2>3. Len(stack') = Len(stack) - 1
    BY <1>0, <2>1, <2>2, LenProperties
  <2>4. SameRuns(stack, stack', Len(stack) - 1)
    <3>1. ASSUME NEW i \in 1..Len(stack) - 1
          PROVE  /\ stack'[i].kind = stack[i].kind
                 /\ stack[i].kind = "run" => stack'[i].res = stack[i].res
      <4>1. stack[i] \in Frames
        BY <1>0, <2>1, ElementOfSeq
      <4>2. stack[i].kind = "wait" => stack[i] \in WaitFrames
        BY <4>1, FrameKinds
      <4>3. QED
        BY <2>2, <4>2 DEF WaitFrames
    <3>2. QED
      BY <3>1 DEF SameRuns
  <2>5. QED
    BY <1>0, <2>1, <2>3, <2>4, RunsPop
<1>7. ASSUME CallNotifier PROVE Kept
  <2>1. stack # <<>> /\ Top \in RunFrames /\ Top.res \in Results
    BY <1>0, <1>7, TopFacts, FrameKinds DEF CallNotifier, TopIs, RunFrames
  <2>2. CASE UNCHANGED stack
    BY <2>2
  <2>3. ASSUME NEW n \in After(notifiers[Top.res], Top.cur),
               stack' = SetTop([Top EXCEPT !.next = n, !.calling = TRUE,
                                           !.given = data[Top.res]])
        PROVE  Kept
    <3> DEFINE f == [Top EXCEPT !.next = n, !.calling = TRUE, !.given = data[Top.res]]
    <3>1. n \in Nodes \cup {NoNode} /\ data[Top.res] \in Data
      BY <2>1, <2>3, FirstType DEF After, TypeOK
    <3>2. f \in Frames /\ f.kind = Top.kind /\ f.res = Top.res
      BY <2>1, <3>1 DEF Frames, RunFrames
    <3> HIDE DEF f
    <3>3. QED
      BY <1>0, <2>1, <2>3, <3>2, RunsSetTop DEF f
  <2>4. QED
    BY <1>7, <2>2, <2>3 DEF CallNotifier
<1>8. ASSUME NEW keep \in BOOLEAN, CallbackReturn(keep) PROVE Kept
  <2> DEFINE f == [Top EXCEPT !.cur = Top.next, !.next = NoNode, !.calling = FALSE,
                              !.given = Null]
  <2>1. stack # <<>> /\ Top \in RunFrames
    BY <1>0, <1>8, TopFacts, FrameKinds DEF CallbackReturn, TopIs
  <2>2. f \in Frames /\ f.kind = Top.kind /\ f.res = Top.res /\ stack' = SetTop(f)
    BY <1>8, <2>1 DEF Frames, RunFrames, Data, CallbackReturn
  <2> HIDE DEF f
  <2>3. QED
    BY <1>0, <2>1, <2>2, RunsSetTop
<1>9. CASE UNCHANGED stack
  BY <1>9
<1>10. QED
  BY <1>1, <1>2, <1>3, <1>4, <1>5, <1>6, <1>7, <1>8, <1>9

\* The steps that do not touch the references.
LEMMA RefStepStack ==
  ASSUME TypeOK, TypeOK', RefInv,
         \/ \E r \in Results : Wait(r)
         \/ MainIn \/ WaitReturn \/ WaitSelect \/ WaitWrite \/ WouldBlock
         \/ EndOfFile \/ CallNotifier
  PROVE  RefInv'
<1>1. \A q \in Results : Cardinality(RunsOn(stack', q)) = Cardinality(RunsOn(stack, q))
  BY RunsKept
<1>2. UNCHANGED <<ref, held, notifiers, created, attached, resultsList>>
  BY DEF Wait, MainIn, WaitReturn, WaitSelect, WaitWrite, WouldBlock, EndOfFile,
         CallNotifier, resultVars, ipcVars, appVars
<1>3. QED
  BY <1>1, <1>2, RefUnchanged DEF Running

LEMMA RefStepSend ==
  ASSUME TypeOK, TypeOK', RefInv, NEW cls \in Classes, SendMsg(cls)
  PROVE  RefInv'
<1>0. created \in Nat /\ created + 1 \in Results
  BY BoundsAssumption DEF SendMsg, TypeOK, Results
<1>1. PICK r \in Results : r = created + 1
  BY <1>0
<1>2. /\ created' = r /\ ref' = [ref EXCEPT ![r] = 1] /\ held' = held \cup {r}
      /\ resultsList' = resultsList \cup {r}
      /\ UNCHANGED <<notifiers, attached, stack>>
  BY <1>1 DEF SendMsg, NewResult
<1>3. ref[r] = 0
  BY <1>0, <1>1 DEF RefInv
<1>4. r \notin held /\ notifiers[r] = {} /\ Running(r) = {}
  BY <1>1, <1>3, OwnersFacts DEF RefInv
<1>5. \A q \in Results : Running(q)' = Running(q)
  BY <1>2 DEF Running
<1>6. \A q \in Results : ref'[q] = Owners(q)'
  <2>1. ASSUME NEW q \in Results, q # r PROVE ref'[q] = Owners(q)'
    <3>1. ref'[q] = ref[q] /\ (q \in held' <=> q \in held)
      BY <1>1, <1>2, <2>1 DEF TypeOK
    <3>2. Owners(q)' = Owners(q)
      BY <1>2, <1>5, <3>1 DEF Owners
    <3>3. QED
      BY <3>1, <3>2 DEF RefInv, RefCount
  <2>2. ref'[r] = Owners(r)'
    <3>1. ref'[r] = 1 /\ r \in held'
      BY <1>1, <1>2 DEF TypeOK
    <3>2. Cardinality(notifiers'[r]) = 0 /\ Cardinality(Running(r)') = 0
      BY <1>1, <1>2, <1>4, <1>5, FS_EmptySet
    <3>3. QED
      BY <3>1, <3>2 DEF Owners
  <2>3. QED
    BY <2>1, <2>2
<1>7. \A q \in Results : q > created' => ref'[q] = 0
  BY <1>0, <1>1, <1>2 DEF RefInv, TypeOK, Results
<1>8. \A q \in resultsList' : q <= created'
  BY <1>0, <1>1, <1>2 DEF RefInv, TypeOK, Results
<1>9. QED
  BY <1>2, <1>6, <1>7, <1>8, RefKept DEF RefInv

LEMMA RefStepNotifier ==
  ASSUME TypeOK, TypeOK', RefInv, NEW r \in Results, NotifierSet(r)
  PROVE  RefInv'
<1>1. /\ r \in held /\ attached' = attached + 1
      /\ ref' = [ref EXCEPT ![r] = @ + 1]
      /\ notifiers' = [notifiers EXCEPT ![r] = @ \cup {attached'}]
      /\ UNCHANGED <<held, created, resultsList, stack>>
  BY DEF NotifierSet, AddRef, appVars, ipcVars
<1>2. attached \in Nat
  BY DEF TypeOK
<1>3. ref[r] >= 1
  BY <1>1, OwnersFacts DEF RefInv
<1>4. attached' \notin notifiers[r]
  BY <1>1, <1>2 DEF RefInv
<1>5. Cardinality(notifiers[r] \cup {attached'}) = Cardinality(notifiers[r]) + 1
  BY <1>4, NotifiersFinite, FS_AddElement
<1>6. \A q \in Results : Running(q)' = Running(q)
  BY <1>1 DEF Running
<1>7. \A q \in Results : ref'[q] = Owners(q)'
  <2>1. ASSUME NEW q \in Results, q # r PROVE ref'[q] = Owners(q)'
    <3>1. ref'[q] = ref[q] /\ notifiers'[q] = notifiers[q]
      BY <1>1, <2>1 DEF TypeOK
    <3>2. Owners(q)' = Owners(q)
      BY <1>1, <1>6, <3>1 DEF Owners
    <3>3. QED
      BY <3>1, <3>2 DEF RefInv, RefCount
  <2>2. ref'[r] = Owners(r)'
    <3>1. ref'[r] = ref[r] + 1 /\ notifiers'[r] = notifiers[r] \cup {attached'}
      BY <1>1 DEF TypeOK
    <3>2. /\ Cardinality(notifiers'[r]) = Cardinality(notifiers[r]) + 1
          /\ Cardinality(notifiers[r]) \in Nat
          /\ Cardinality(Running(r)) \in Nat
      BY <1>5, <3>1, NotifiersFinite, RunsFinite DEF Running, TypeOK
    <3>3. ref[r] = 1 + Cardinality(notifiers[r]) + Cardinality(Running(r))
      BY <1>1 DEF RefInv, RefCount, Owners
    <3>4. Owners(r)' = 1 + Cardinality(notifiers'[r]) + Cardinality(Running(r))
      BY <1>1, <1>6 DEF Owners
    <3>5. QED
      BY <3>1, <3>2, <3>3, <3>4
  <2>3. QED
    BY <2>1, <2>2
<1>8. \A q \in Results : q > created' => ref'[q] = 0
  BY <1>1, <1>3 DEF RefInv, TypeOK
<1>9. \A q \in Results : \A n \in notifiers'[q] : n <= attached'
  <2>1. ASSUME NEW q \in Results, NEW n \in notifiers'[q] PROVE n <= attached'
    <3>1. n \in Nat
      BY DEF TypeOK, Nodes
    <3>2. n \in notifiers[q] \/ n = attached'
      BY <1>1 DEF TypeOK
    <3>3. QED
      BY <1>1, <1>2, <3>1, <3>2 DEF RefInv
  <2>2. QED
    BY <2>1
<1>10. QED
  BY <1>1, <1>7, <1>8, <1>9, RefKept DEF RefInv

LEMMA RefStepUnref ==
  ASSUME TypeOK, TypeOK', RefInv, NEW r \in Results, Unref(r) \/ Disconnect(r)
  PROVE  RefInv'
<1>1. /\ r \in held /\ held' = held \ {r} /\ DropRef(r)
      /\ UNCHANGED <<notifiers, attached, created, stack>>
  BY DEF Unref, Disconnect
<1>2. ref[r] >= 1
  BY <1>1, OwnersFacts DEF RefInv
<1>3. ref' = [ref EXCEPT ![r] = @ - 1] /\ resultsList' \subseteq resultsList
  BY <1>1, <1>2, DropRefFacts
<1>4. \A q \in Results : Running(q)' = Running(q)
  BY <1>1 DEF Running
<1>5. \A q \in Results : ref'[q] = Owners(q)'
  <2>1. ASSUME NEW q \in Results, q # r PROVE ref'[q] = Owners(q)'
    <3>1. ref'[q] = ref[q] /\ (q \in held' <=> q \in held)
      BY <1>1, <1>3, <2>1 DEF TypeOK
    <3>2. Owners(q)' = Owners(q)
      BY <1>1, <1>4, <3>1 DEF Owners
    <3>3. QED
      BY <3>1, <3>2 DEF RefInv, RefCount
  <2>2. ref'[r] = Owners(r)'
    <3>1. ref'[r] = ref[r] - 1 /\ r \notin held'
      BY <1>1, <1>3 DEF TypeOK
    <3>2. Cardinality(notifiers[r]) \in Nat /\ Cardinality(Running(r)) \in Nat
      BY NotifiersFinite, RunsFinite DEF Running, TypeOK
    <3>3. ref[r] = 1 + Cardinality(notifiers[r]) + Cardinality(Running(r))
      BY <1>1 DEF RefInv, RefCount, Owners
    <3>4. Owners(r)' = 0 + Cardinality(notifiers[r]) + Cardinality(Running(r))
      BY <1>1, <1>4, <3>1 DEF Owners
    <3>5. QED
      BY <3>1, <3>2, <3>3, <3>4
  <2>3. QED
    BY <2>1, <2>2
<1>6. \A q \in Results : q > created' => ref'[q] = 0
  BY <1>1, <1>2, <1>3 DEF RefInv, TypeOK
<1>7. QED
  BY <1>1, <1>3, <1>5, <1>6, RefKept DEF RefInv

LEMMA RefStepReceive ==
  ASSUME TypeOK, TypeOK', RefInv, Receive
  PROVE  RefInv'
<1> DEFINE msg == Head(down)
<1>1. UNCHANGED <<held, notifiers, attached, created, resultsList>>
  BY DEF Receive, ipcVars, appVars
<1>2. CASE UNCHANGED <<ref, stack>>
  BY <1>1, <1>2, RefUnchanged DEF Running
<1>3. ASSUME NEW r \in Lookup(msg.cookie), Dispatch(r, msg) PROVE RefInv'
  <2>1. r \in Results /\ r <= created /\ created \in Nat
    BY DEF Lookup, WithCookie, TypeOK, RefInv
  <2>2. msg.payload \in Values \cup {Error} /\ msg.res \in Results
    <3>1. msg \in Messages
      BY HeadTailProperties DEF Receive, TypeOK
    <3>2. QED
      BY <1>3, <3>1 DEF Dispatch, Parses, Messages
  <2>3. PICK n \in First(notifiers[r]) :
          stack' = Append(stack,
            [kind |-> "run", res |-> r, cur |-> n, next |-> NoNode,
             calling |-> FALSE, given |-> Null, val |-> msg.payload,
             req |-> msg.res])
    BY <1>3 DEF Dispatch
  <2> DEFINE f == [kind |-> "run", res |-> r, cur |-> n, next |-> NoNode,
                   calling |-> FALSE, given |-> Null, val |-> msg.payload,
                   req |-> msg.res]
  <2>4. f \in Frames /\ f.kind = "run" /\ f.res = r
    BY <2>1, <2>2, FirstType DEF Frames, RunFrames, Data, TypeOK
  <2>5. stack \in Seq(Frames) /\ stack' = Append(stack, f)
    BY <2>3 DEF TypeOK
  <2> HIDE DEF f
  <2>6. \A q \in Results : /\ Cardinality(RunsOn(stack', q)) =
                                Cardinality(RunsOn(stack, q)) + (IF q = r THEN 1 ELSE 0)
                           /\ Cardinality(RunsOn(stack, q)) \in Nat
    BY <2>4, <2>5, RunsPush, RunsFinite
  <2>7. ref' = [ref EXCEPT ![r] = @ + 1]
    BY <1>3 DEF Dispatch, AddRef
  <2>8. \A q \in Results : ref'[q] = Owners(q)'
    <3>1. ASSUME NEW q \in Results, q # r PROVE ref'[q] = Owners(q)'
      <4>1. Owners(q)' = Owners(q)
        BY <1>1, <2>6, <3>1 DEF Owners, Running
      <4>2. QED
        BY <2>7, <3>1, <4>1 DEF RefInv, RefCount, TypeOK
    <3>2. ref'[r] = Owners(r)'
      <4> DEFINE h == IF r \in held THEN 1 ELSE 0
      <4>1. h \in Nat
        OBVIOUS
      <4>2. /\ Owners(r) = h + Cardinality(notifiers[r]) + Cardinality(RunsOn(stack, r))
            /\ Owners(r)' = h + Cardinality(notifiers[r]) + Cardinality(RunsOn(stack', r))
        BY <1>1 DEF Owners, Running
      <4>3. Cardinality(notifiers[r]) \in Nat
        BY <2>1, NotifiersFinite
      <4>4. ref'[r] = ref[r] + 1 /\ ref[r] = Owners(r)
        BY <2>1, <2>7 DEF RefInv, RefCount, TypeOK
      <4> HIDE DEF h
      <4>5. QED
        BY <2>1, <2>6, <4>1, <4>2, <4>3, <4>4
    <3>3. QED
      BY <3>1, <3>2
  <2>9. ASSUME NEW q \in Results, q > created' PROVE ref'[q] = 0
    <3>1. q \in Int /\ r \in Int /\ q > created /\ q # r
      BY <1>1, <2>1, <2>9 DEF Results
    <3>2. ref'[q] = ref[q]
      BY <2>7, <3>1 DEF TypeOK
    <3>3. QED
      BY <3>1, <3>2 DEF RefInv
  <2>10. QED
    BY <1>1, <2>8, <2>9, RefKept DEF RefInv
<1>4. QED
  BY <1>2, <1>3 DEF Receive

LEMMA RefStepReturn ==
  ASSUME TypeOK, TypeOK', RefInv, NEW keep \in BOOLEAN, CallbackReturn(keep)
  PROVE  RefInv'
<1>1. UNCHANGED <<held, attached, created>>
  BY DEF CallbackReturn, appVars
<1>2. stack # <<>> /\ Top \in RunFrames /\ stack \in Seq(Frames)
  BY TopFacts, FrameKinds DEF CallbackReturn, TopIs, TypeOK
<1>3. PICK r \in Results : r = Top.res
  BY <1>2 DEF RunFrames
<1> DEFINE f == [Top EXCEPT !.cur = Top.next, !.next = NoNode, !.calling = FALSE,
                            !.given = Null]
<1>4. f \in Frames /\ f.kind = Top.kind /\ f.res = Top.res /\ stack' = SetTop(f)
  BY <1>2 DEF Frames, RunFrames, Data, CallbackReturn
<1> HIDE DEF f
<1>5. \A q : RunsOn(stack', q) = RunsOn(stack, q)
  BY <1>2, <1>4, RunsSetTop
<1>6. CASE UNCHANGED <<notifiers, ref, phase, resultsList, connRef>>
  BY <1>1, <1>5, <1>6, RefUnchanged DEF Running
<1>7. CASE DeleteNode(r, Top.cur) /\ Top.cur \in notifiers[r]
  <2>1. PICK n \in notifiers[r] : n = Top.cur
    BY <1>7
  <2>2. notifiers' = [notifiers EXCEPT ![r] = @ \ {n}] /\ DropRef(r)
    BY <1>7, <2>1 DEF DeleteNode
  <2>3. ref[r] >= 1
    BY <2>1, OwnersFacts DEF RefInv
  <2>4. ref' = [ref EXCEPT ![r] = @ - 1] /\ resultsList' \subseteq resultsList
    BY <2>2, <2>3, DropRefFacts
  <2>5. /\ Cardinality(notifiers[r]) \in Nat
        /\ Cardinality(notifiers[r] \ {n}) = Cardinality(notifiers[r]) - 1
    BY <2>1, NotifiersFinite, FS_RemoveElement
  <2>6. \A q \in Results : ref'[q] = Owners(q)'
    <3>1. ASSUME NEW q \in Results, q # r PROVE ref'[q] = Owners(q)'
      <4>1. Owners(q)' = Owners(q)
        BY <1>1, <1>5, <2>2, <3>1 DEF Owners, Running, TypeOK
      <4>2. QED
        BY <2>4, <3>1, <4>1 DEF RefInv, RefCount, TypeOK
    <3>2. ref'[r] = Owners(r)'
      <4> DEFINE h == IF r \in held THEN 1 ELSE 0
      <4>1. h \in Nat /\ Cardinality(RunsOn(stack, r)) \in Nat
        BY <1>2, RunsFinite
      <4>2. notifiers'[r] = notifiers[r] \ {n}
        BY <2>2 DEF TypeOK
      <4>3. /\ Owners(r) = h + Cardinality(notifiers[r]) + Cardinality(RunsOn(stack, r))
            /\ Owners(r)' = h + Cardinality(notifiers'[r]) + Cardinality(RunsOn(stack, r))
        BY <1>1, <1>5 DEF Owners, Running
      <4>4. ref'[r] = ref[r] - 1 /\ ref[r] = Owners(r)
        BY <2>4 DEF RefInv, RefCount, TypeOK
      <4> HIDE DEF h
      <4>5. QED
        BY <2>5, <4>1, <4>2, <4>3, <4>4
    <3>3. QED
      BY <3>1, <3>2
  <2>7. \A q \in Results : q > created' => ref'[q] = 0
    BY <1>1, <2>3, <2>4 DEF RefInv, TypeOK
  <2>8. \A q \in Results : \A m \in notifiers'[q] : m <= attached'
    BY <1>1, <2>2 DEF RefInv, TypeOK
  <2>9. QED
    BY <1>1, <2>4, <2>6, <2>7, <2>8, RefKept DEF RefInv
<1>8. QED
  BY <1>3, <1>6, <1>7 DEF CallbackReturn

LEMMA RefStepFinish ==
  ASSUME TypeOK, TypeOK', RefInv, RunFinish
  PROVE  RefInv'
<1>1. UNCHANGED <<held, attached, created, notifiers>>
  BY DEF RunFinish, appVars
<1>2. /\ TopIs("run") /\ stack # <<>> /\ Top \in RunFrames
      /\ stack \in Seq(Frames) /\ stack' = Pop
  BY TopFacts, FrameKinds DEF RunFinish, TopIs, TypeOK
<1>3. PICK r \in Results : r = Top.res
  BY <1>2 DEF RunFrames
<1>4. /\ Cardinality(RunsOn(stack, r)) = Cardinality(RunsOn(stack', r)) + 1
      /\ \A q \in Results : q # r => RunsOn(stack', q) = RunsOn(stack, q)
  BY <1>2, <1>3, RunsPopTop
<1>5. /\ Cardinality(RunsOn(stack', r)) \in Nat
      /\ Cardinality(notifiers[r]) \in Nat
  BY RunsFinite, NotifiersFinite DEF TypeOK
<1> DEFINE h == IF r \in held THEN 1 ELSE 0
<1>6. /\ h \in Nat
      /\ Owners(r) = h + Cardinality(notifiers[r]) + Cardinality(RunsOn(stack, r))
      /\ Owners(r)' = h + Cardinality(notifiers[r]) + Cardinality(RunsOn(stack', r))
      /\ ref[r] = Owners(r)
  BY <1>1 DEF Owners, Running, RefInv, RefCount
<1> HIDE DEF h
<1>7. ref[r] >= 1
  BY <1>4, <1>5, <1>6
<1>8. ref' = [ref EXCEPT ![r] = @ - 1] /\ resultsList' \subseteq resultsList
  BY <1>3, <1>7, DropRefFacts DEF RunFinish
<1>9. \A q \in Results : ref'[q] = Owners(q)'
  <2>1. ASSUME NEW q \in Results, q # r PROVE ref'[q] = Owners(q)'
    <3>1. Owners(q)' = Owners(q)
      BY <1>1, <1>4, <2>1 DEF Owners, Running
    <3>2. QED
      BY <1>8, <2>1, <3>1 DEF RefInv, RefCount, TypeOK
  <2>2. ref'[r] = Owners(r)'
    <3>1. ref'[r] = ref[r] - 1
      BY <1>8 DEF TypeOK
    <3>2. QED
      BY <1>4, <1>5, <1>6, <3>1
  <2>3. QED
    BY <2>1, <2>2
<1>10. \A q \in Results : q > created' => ref'[q] = 0
  BY <1>1, <1>7, <1>8 DEF RefInv, TypeOK
<1>11. QED
  BY <1>1, <1>8, <1>9, <1>10, RefKept DEF RefInv

LEMMA RefStep == ASSUME TypeOK, TypeOK', RefInv, [Next]_vars PROVE RefInv'
<1> USE DEF resultVars, ipcVars, connVars, appVars, netVars
<1>1. CASE \E cls \in Classes : SendMsg(cls)
  BY <1>1, RefStepSend
<1>2. CASE \E r \in Results : NotifierSet(r)
  BY <1>2, RefStepNotifier
<1>3. CASE \E r \in Results : Unref(r) \/ Disconnect(r)
  BY <1>3, RefStepUnref
<1>4. CASE \/ \E r \in Results : Wait(r)
           \/ MainIn \/ WaitReturn \/ WaitSelect \/ WaitWrite \/ WouldBlock
           \/ EndOfFile \/ CallNotifier
  BY <1>4, RefStepStack
<1>5. CASE Receive
  BY <1>5, RefStepReceive
<1>6. CASE \E keep \in BOOLEAN : CallbackReturn(keep)
  BY <1>6, RefStepReturn
<1>7. CASE RunFinish
  BY <1>7, RefStepFinish
<1>8. CASE \/ UnrefConnection \/ MainOut \/ ServerClose \/ UNCHANGED vars
           \/ \E req \in atServer : ServerSend(req)
  <2>1. UNCHANGED <<ref, held, notifiers, created, attached, resultsList, stack>>
    BY <1>8 DEF UnrefConnection, MainOut, ServerClose, ServerSend, vars
  <2>2. QED
    BY <2>1, RefUnchanged DEF Running
<1>9. QED
  BY <1>1, <1>2, <1>3, <1>4, <1>5, <1>6, <1>7, <1>8 DEF Next, AppCall, Library, Server

LEMMA RefInit == Init => RefInv
<1>1. ASSUME Init, NEW r \in Results PROVE ref[r] = Owners(r)
  <2>1. notifiers[r] = {} /\ Running(r) = {} /\ r \notin held /\ ref[r] = 0
    BY <1>1 DEF Init, Running, RunsOn
  <2>2. Cardinality({}) = 0
    BY FS_EmptySet
  <2>3. QED
    BY <2>1, <2>2 DEF Owners
<1>2. QED
  BY <1>1 DEF RefInv, RefCount, Init

\* The reference count of every result is, in every reachable state, exactly the
\* number of its owners: no reference is lost and none is given back twice,
\* however dispatches, waits and callbacks are nested.
THEOREM RefCountCorrect == Spec => []RefCount
<1>1. TypeOK /\ RefInv /\ [Next]_vars => TypeOK' /\ RefInv'
  BY TypeStep, RefStep
<1>2. Init => TypeOK /\ RefInv
  BY TypeInit, RefInit
<1>3. RefInv => RefCount
  BY DEF RefInv
<1>4. QED
  BY <1>1, <1>2, <1>3, PTL DEF Spec

-----------------------------------------------------------------------------
(* Routing: cookies and registration, while the cookie counter has not      *)
(* wrapped around.                                                          *)

Fits == sent <= CookieMod

\* Cookie c was given out for result r and for no other.
Ours(c, r) ==
  /\ r <= created
  /\ c < sent
  /\ \A q \in Results : q <= created /\ cookie[q] = c => q = r

\* Every cookie in the client, on the wire or at the server is the right one.
CookieInv ==
  /\ \A r \in Results : r <= created => Ours(cookie[r], r)
  /\ \A i \in 1..Len(outMsg) : Ours(outMsg[i].cookie, outMsg[i].res)
  /\ \A q \in atServer : Ours(q.cookie, q.res)
  /\ \A i \in 1..Len(down) : Ours(down[i].cookie, down[i].res)
  /\ RightCaller

\* The application does not let go of a command it is waiting for.
WaitsInOrder ==
  \A i \in 1..Len(stack) :
    stack[i].kind = "wait" => stack[i].res \in held /\ class[stack[i].res] = "default"

\* The live results are those with a reference and those in results_list.
LiveInv ==
  /\ resultsList = {r \in Results : Live(r)}
  /\ \A r \in Results : Live(r) <=> ref[r] >= 1
  /\ WaitsInOrder

\* A step that gives out no cookie.
LEMMA OursUnchanged ==
  ASSUME UNCHANGED <<created, sent, cookie>>, NEW c, NEW r
  PROVE  Ours(c, r)' <=> Ours(c, r)
  BY DEF Ours

\* A step that gives the next cookie to r, new or not.
LEMMA OursNext ==
  ASSUME TypeOK, TypeOK', NEW r \in Results, Fits', CookieInv,
         cookie' = [cookie EXCEPT ![r] = NextId], sent' = sent + 1,
         \/ created' = created /\ r <= created
         \/ created' = created + 1 /\ r = created + 1
  PROVE  /\ NextId = sent
         /\ \A c \in Cookies, q \in Results : Ours(c, q) => Ours(c, q)'
         /\ \A c : c = sent => Ours(c, r)'
         /\ \A q \in Results : q <= created' => Ours(cookie[q], q)'
<1>1. sent \in Nat /\ CookieMod \in Nat \ {0} /\ sent < CookieMod /\ created \in Nat
  BY BoundsAssumption DEF Fits, TypeOK
<1>2. NextId = sent
  BY <1>1 DEF NextId
<1>3. \A q \in Results : cookie'[q] = IF q = r THEN sent ELSE cookie[q]
  BY <1>2 DEF TypeOK
<1>4. \A q \in Results : q <= created => cookie[q] < sent
  BY DEF CookieInv, Ours
<1>5. \A q \in Results : q <= created' => q <= created \/ q = r
  BY <1>1 DEF Results
<1>6. ASSUME NEW c \in Cookies, NEW q \in Results, Ours(c, q) PROVE Ours(c, q)'
  <2>1. c \in Nat /\ q \in Nat /\ q <= created /\ c < sent
    BY <1>6, BoundsAssumption DEF Ours, Cookies, Results
  <2>2. q <= created' /\ c < sent'
    BY <1>1, <2>1
  <2>3. \A p \in Results : p <= created' /\ cookie'[p] = c => p = q
    BY <1>1, <1>3, <1>5, <1>6, <2>1 DEF Ours
  <2>4. QED
    BY <2>2, <2>3 DEF Ours
<1>7. ASSUME NEW c, c = sent PROVE Ours(c, r)'
  <2>1. r <= created' /\ c < sent'
    BY <1>1, <1>7
  <2>2. \A p \in Results : p <= created' /\ cookie'[p] = c => p = r
    BY <1>1, <1>3, <1>4, <1>5, <1>7 DEF TypeOK, Cookies
  <2>3. QED
    BY <2>1, <2>2 DEF Ours
<1>8. ASSUME NEW q \in Results, q <= created' PROVE Ours(cookie[q], q)'
  <2>1. PICK c : c = cookie'[q]
    OBVIOUS
  <2>2. CASE q = r
    BY <1>3, <1>7, <2>1, <2>2 DEF Ours
  <2>3. CASE q # r
    <3>1. c = cookie[q] /\ c \in Cookies /\ Ours(c, q)
      BY <1>3, <1>5, <1>8, <2>1, <2>3 DEF CookieInv, TypeOK
    <3>2. Ours(c, q)'
      BY <1>6, <3>1
    <3>3. QED
      BY <2>1, <3>2 DEF Ours
  <2>4. QED
    BY <2>2, <2>3
<1>9. QED
  BY <1>2, <1>6, <1>7, <1>8

\* The lookup of a registered result's cookie finds that result.
LEMMA LookupFacts ==
  ASSUME TypeOK, RefInv, CookieInv, NEW r \in resultsList
  PROVE  Lookup(cookie[r]) = {r}
<1>1. \A q \in resultsList : q \in Results /\ q <= created /\ q \in Nat
  BY DEF TypeOK, RefInv, Results
<1>2. \A q \in resultsList : cookie[q] = cookie[r] => q = r
  BY <1>1 DEF CookieInv, Ours
<1>3. WithCookie(cookie[r]) = {r}
  BY <1>2 DEF WithCookie
<1>4. QED
  BY <1>1, <1>3 DEF Lookup

\* Giving a reference back frees the result exactly with the last one, and takes
\* it, and no other result, out of results_list.
LEMMA DropRefLive ==
  ASSUME TypeOK, RefInv, CookieInv, LiveInv, NEW r \in Results, ref[r] >= 1, DropRef(r)
  PROVE  /\ resultsList' = {q \in Results : Live(q)'}
         /\ \A q \in Results : Live(q)' <=> ref'[q] >= 1
<1>1. r \in resultsList /\ ref[r] \in Nat
  BY DEF LiveInv, TypeOK
<1>2. ref' = [ref EXCEPT ![r] = @ - 1]
  BY DropRefFacts
<1>3. CASE ref[r] = 1
  <2>1. phase' = [phase EXCEPT ![r] = "freed"] /\ resultsList' = resultsList \ {r}
    BY <1>1, <1>3, LookupFacts DEF DropRef, FreeResult, Unregister
  <2>2. \A q \in Results : Live(q)' <=> Live(q) /\ q # r
    BY <2>1 DEF Live, TypeOK
  <2>3. \A q \in Results : ref'[q] = IF q = r THEN 0 ELSE ref[q]
    BY <1>2, <1>3 DEF TypeOK
  <2>4. QED
    BY <2>1, <2>2, <2>3 DEF LiveInv
<1>4. CASE ref[r] # 1
  <2>1. UNCHANGED <<phase, resultsList>>
    BY <1>4 DEF DropRef
  <2>2. ref'[r] >= 1 /\ \A q \in Results : q # r => ref'[q] = ref[q]
    BY <1>1, <1>2, <1>4 DEF TypeOK
  <2>3. QED
    BY <2>1, <2>2 DEF LiveInv, Live
<1>5. QED
  BY <1>3, <1>4

-----------------------------------------------------------------------------
(* What becomes of the activations.                                         *)

\* Activation g continues activation f.
Continues(g, f) ==
  /\ g.kind = f.kind
  /\ f.kind # "in" => g.res = f.res
  /\ f.kind = "run" => g.req = f.req

\* Activation g is new and in order.
Proper(g) == \/ g.kind = "in"
             \/ g.kind = "run" /\ g.res = g.req
             \/ g.kind = "wait" /\ g.res \in held /\ class[g.res] = "default"

\* Every activation of stack t continues one of the current stack or is new and
\* in order.
Follows(t) ==
  \A j \in 1..Len(t) :
    \/ Proper(t[j])
    \/ \E i \in 1..Len(stack) : Continues(t[j], stack[i])

LEMMA FollowsSame == ASSUME UNCHANGED stack PROVE Follows(stack')
  BY DEF Follows, Continues

LEMMA FollowsPush ==
  ASSUME stack \in Seq(Frames), NEW f \in Frames, Proper(f)
  PROVE  Follows(Append(stack, f))
<1>1. /\ Len(stack) \in Nat /\ Len(Append(stack, f)) = Len(stack) + 1
      /\ Append(stack, f)[Len(stack) + 1] = f
      /\ \A i \in 1..Len(stack) : Append(stack, f)[i] = stack[i]
  BY LenProperties, AppendProperties
<1>2. QED
  BY <1>1 DEF Follows, Continues

LEMMA FollowsPop == ASSUME stack \in Seq(Frames), NEW k, TopIs(k) PROVE Follows(Pop)
  BY TopFacts DEF Follows, Continues

LEMMA FollowsTop ==
  ASSUME stack \in Seq(Frames), stack # <<>>, NEW f \in Frames, Continues(f, Top)
  PROVE  Follows(SetTop(f))
<1>1. /\ Len(stack) \in 1..Len(stack) /\ Len(SetTop(f)) = Len(stack)
      /\ \A i \in 1..Len(stack) :
           SetTop(f)[i] = IF i = Len(stack) THEN f ELSE stack[i]
  BY SetTopFacts, EmptySeq, LenProperties
<1>2. QED
  BY <1>1 DEF Follows, Continues, Top

\* The activations stay in order when the new stack follows the old one.
LEMMA FollowsInOrder ==
  ASSUME RightCaller, WaitsInOrder, Follows(stack')
  PROVE  RightCaller' /\ (UNCHANGED <<held, class>> => WaitsInOrder')
<1>1. ASSUME NEW j \in 1..Len(stack')
      PROVE  /\ stack'[j].kind = "run" => stack'[j].res = stack'[j].req
             /\ stack'[j].kind = "wait" =>
                  stack'[j].res \in held /\ class[stack'[j].res] = "default"
  <2>1. CASE Proper(stack'[j])
    BY <2>1 DEF Proper
  <2>2. CASE \E i \in 1..Len(stack) : Continues(stack'[j], stack[i])
    BY <2>2 DEF Continues, RightCaller, WaitsInOrder
  <2>3. QED
    BY <2>1, <2>2 DEF Follows
<1>2. QED
  BY <1>1 DEF RightCaller, WaitsInOrder

\* The activations of the next state, when no reply is dispatched.
LEMMA FollowsStep ==
  ASSUME TypeOK, [Next]_vars, ~Receive
  PROVE  Follows(stack')
<1> USE DEF resultVars, ipcVars, connVars, appVars, netVars
<1>0. stack \in Seq(Frames)
  BY DEF TypeOK
<1>1. ASSUME NEW r \in Results, Wait(r) PROVE Follows(stack')
  <2> DEFINE f == [kind |-> "wait", res |-> r, write |-> FALSE]
  <2>1. f \in Frames /\ Proper(f) /\ stack' = Append(stack, f)
    BY <1>1 DEF Wait, Frames, WaitFrames, Proper
  <2> HIDE DEF f
  <2>2. QED
    BY <1>0, <2>1, FollowsPush
<1>2. ASSUME MainIn PROVE Follows(stack')
  <2>1. stack' = <<[kind |-> "in"]>> /\ [kind |-> "in"].kind = "in"
    BY <1>2 DEF MainIn
  <2>2. QED
    BY <2>1 DEF Follows, Proper
<1>3. ASSUME WaitReturn \/ WouldBlock \/ RunFinish PROVE Follows(stack')
  <2>1. stack' = Pop /\ (TopIs("wait") \/ TopIs("in") \/ TopIs("run"))
    BY <1>3 DEF WaitReturn, WouldBlock, RunFinish
  <2>2. QED
    BY <1>0, <2>1, FollowsPop
<1>4. ASSUME WaitSelect PROVE Follows(stack')
  <2>1. PICK wr \in BOOLEAN :
          stack' = SetTop([Top EXCEPT !.write = wr]) \o
                   (IF Readable THEN <<[kind |-> "in"]>> ELSE <<>>)
    BY <1>4 DEF WaitSelect
  <2> DEFINE f == [Top EXCEPT !.write = wr]
  <2>2. stack # <<>> /\ Top \in WaitFrames
    BY <1>0, <1>4, TopFacts, FrameKinds DEF WaitSelect, TopIs
  <2>3. f \in Frames /\ Continues(f, Top)
    BY <2>2 DEF Frames, WaitFrames, Continues
  <2> HIDE DEF f
  <2>4. SetTop(f) \in Seq(Frames) /\ Follows(SetTop(f))
    BY <1>0, <2>2, <2>3, SetTopFacts, FollowsTop
  <2>5. CASE Readable
    <3>1. [kind |-> "in"] \in Frames /\ Proper([kind |-> "in"])
      BY DEF Frames, InFrames, Proper
    <3>2. stack' = Append(SetTop(f), [kind |-> "in"])
      BY <2>1, <2>4, <2>5, <3>1, AppendIsConcat DEF f
    <3>3. /\ Len(stack') = Len(SetTop(f)) + 1 /\ Len(SetTop(f)) \in Nat
          /\ stack'[Len(SetTop(f)) + 1] = [kind |-> "in"]
          /\ \A i \in 1..Len(SetTop(f)) : stack'[i] = SetTop(f)[i]
      BY <2>4, <3>1, <3>2, LenProperties, AppendProperties
    <3>4. ASSUME NEW j \in 1..Len(stack')
          PROVE  \/ Proper(stack'[j])
                 \/ \E i \in 1..Len(stack) : Continues(stack'[j], stack[i])
      <4>1. CASE j = Len(SetTop(f)) + 1
        BY <3>1, <3>3, <4>1
      <4>2. CASE j # Len(SetTop(f)) + 1
        <5>1. j \in 1..Len(SetTop(f)) /\ stack'[j] = SetTop(f)[j]
          BY <3>3, <4>2
        <5>2. QED
          BY <2>4, <5>1 DEF Follows
      <4>3. QED
        BY <4>1, <4>2
    <3>5. QED
      BY <3>4 DEF Follows
  <2>6. CASE ~Readable
    <3>1. stack' = SetTop(f)
      BY <2>1, <2>4, <2>6, ConcatEmptySeq DEF f
    <3>2. QED
      BY <2>4, <3>1
  <2>7. QED
    BY <2>5, <2>6
<1>5. ASSUME WaitWrite PROVE Follows(stack')
  <2> DEFINE f == [Top EXCEPT !.write = FALSE]
  <2>1. stack # <<>> /\ Top \in WaitFrames /\ stack' = SetTop(f)
    BY <1>0, <1>5, TopFacts, FrameKinds DEF WaitWrite, TopIs
  <2>2. f \in Frames /\ Continues(f, Top)
    BY <2>1 DEF Frames, WaitFrames, Continues
  <2> HIDE DEF f
  <2>3. QED
    BY <1>0, <2>1, <2>2, FollowsTop
<1>6. ASSUME EndOfFile PROVE Follows(stack')
  <2>1. Len(stack) \in Nat /\ Len(stack) >= 1
    BY <1>0, <1>6, TopFacts DEF EndOfFile
  <2>2. stack' = [i \in 1..Len(stack) - 1 |->
                    IF i = Len(stack) - 1 /\ stack[i].kind = "wait"
                    THEN [stack[i] EXCEPT !.write = FALSE] ELSE stack[i]]
    BY <1>6 DEF EndOfFile
  <2>3. Len(stack') = Len(stack) - 1
    BY <1>0, <2>1, <2>2, LenProperties
  <2>4. ASSUME NEW j \in 1..Len(stack') PROVE Continues(stack'[j], stack[j]) /\ j \in 1..Len(stack)
    <3>1. stack[j] \in Frames /\ j \in 1..Len(stack)
      BY <1>0, <2>1, <2>3, ElementOfSeq
    <3>2. stack[j].kind = "wait" => stack[j] \in WaitFrames
      BY <3>1, FrameKinds
    <3>3. QED
      BY <2>2, <2>3, <3>1, <3>2 DEF WaitFrames, Continues
  <2>5. QED
    BY <2>4 DEF Follows
<1>7. ASSUME CallNotifier PROVE Follows(stack')
  <2>1. stack # <<>> /\ Top \in RunFrames /\ Top.res \in Results
    BY <1>0, <1>7, TopFacts, FrameKinds DEF CallNotifier, TopIs, RunFrames
  <2>2. CASE UNCHANGED stack
    BY <2>2, FollowsSame
  <2>3. ASSUME NEW n \in After(notifiers[Top.res], Top.cur),
               stack' = SetTop([Top EXCEPT !.next = n, !.calling = TRUE,
                                           !.given = data[Top.res]])
        PROVE  Follows(stack')
    <3> DEFINE f == [Top EXCEPT !.next = n, !.calling = TRUE, !.given = data[Top.res]]
    <3>1. n \in Nodes \cup {NoNode} /\ data[Top.res] \in Data
      BY <2>1, <2>3, FirstType DEF After, TypeOK
    <3>2. f \in Frames /\ Continues(f, Top)
      BY <2>1, <3>1 DEF Frames, RunFrames, Continues
    <3> HIDE DEF f
    <3>3. QED
      BY <1>0, <2>1, <2>3, <3>2, FollowsTop DEF f
  <2>4. QED
    BY <1>7, <2>2, <2>3 DEF CallNotifier
<1>8. ASSUME NEW keep \in BOOLEAN, CallbackReturn(keep) PROVE Follows(stack')
  <2>1. stack # <<>> /\ Top \in RunFrames
    BY <1>0, <1>8, TopFacts, FrameKinds DEF CallbackReturn, TopIs
  <2> DEFINE f == [Top EXCEPT !.cur = Top.next, !.next = NoNode, !.calling = FALSE,
                              !.given = Null]
  <2>2. f \in Frames /\ Continues(f, Top) /\ stack' = SetTop(f)
    BY <1>8, <2>1 DEF Frames, RunFrames, Data, CallbackReturn, Continues
  <2> HIDE DEF f
  <2>3. QED
    BY <1>0, <2>1, <2>2, FollowsTop
<1>9. CASE UNCHANGED stack
  BY <1>9, FollowsSame
<1>10. CASE \/ \E cls \in Classes : SendMsg(cls)
            \/ \E r \in Results : NotifierSet(r) \/ Unref(r) \/ Disconnect(r)
            \/ UnrefConnection \/ MainOut \/ Server
  BY <1>9, <1>10 DEF SendMsg, NotifierSet, Unref, Disconnect, UnrefConnection,
     MainOut, Server, ServerSend, ServerClose
<1>11. QED
  BY <1>1, <1>2, <1>3, <1>4, <1>5, <1>6, <1>7, <1>8, <1>9, <1>10
     DEF Next, AppCall, Library, vars

-----------------------------------------------------------------------------
(* Cookies.                                                                 *)

\* Message m carries a cookie that is, or is now, the right one.
Right(m) == \E c \in Cookies, q \in Results :
              m.cookie = c /\ m.res = q /\ (Ours(c, q) \/ Ours(c, q)')

\* No given cookie becomes wrong, and the results have cookies of their own.
OursKept ==
  /\ \A c \in Cookies, q \in Results : Ours(c, q) => Ours(c, q)'
  /\ \A q \in Results : q <= created' => Ours(cookie[q], q)'

LEMMA CookieKept ==
  ASSUME RightCaller', OursKept,
         \A i \in 1..Len(outMsg') : Right(outMsg'[i]),
         \A m \in atServer' : Right(m),
         \A i \in 1..Len(down') : Right(down'[i])
  PROVE  CookieInv'
<1>1. ASSUME NEW m, Right(m)
      PROVE  \E c \in Cookies, q \in Results : m.cookie = c /\ m.res = q /\ Ours(c, q)'
  BY <1>1 DEF Right, OursKept
<1>2. ASSUME NEW i \in 1..Len(outMsg')
      PROVE  Ours(outMsg[i].cookie, outMsg[i].res)'
  <2>1. PICK c \in Cookies, q \in Results :
          outMsg'[i].cookie = c /\ outMsg'[i].res = q /\ Ours(c, q)'
    BY <1>1
  <2>2. QED
    BY <2>1 DEF Ours
<1>3. \A m \in atServer' : Ours(m.cookie, m.res)'
  BY <1>1 DEF Ours
<1>4. ASSUME NEW i \in 1..Len(down')
      PROVE  Ours(down[i].cookie, down[i].res)'
  <2>1. PICK c \in Cookies, q \in Results :
          down'[i].cookie = c /\ down'[i].res = q /\ Ours(c, q)'
    BY <1>1
  <2>2. QED
    BY <2>1 DEF Ours
<1>5. \A q \in Results : q <= created' => Ours(cookie[q], q)'
  BY DEF OursKept
<1>6. QED
  BY <1>2, <1>3, <1>4, <1>5 DEF CookieInv

\* The messages there were before the step.
LEMMA RightBefore ==
  ASSUME TypeOK, CookieInv
  PROVE  /\ \A i \in 1..Len(outMsg) : Right(outMsg[i])
         /\ \A m \in atServer : Right(m)
         /\ \A i \in 1..Len(down) : Right(down[i])
<1>1. /\ \A i \in 1..Len(outMsg) : outMsg[i] \in Requests
      /\ \A i \in 1..Len(down) : down[i] \in Messages
  BY LenProperties, ElementOfSeq DEF TypeOK
<1>2. \A i \in 1..Len(outMsg) : Right(outMsg[i])
  BY <1>1 DEF CookieInv, Right, Requests
<1>3. \A m \in atServer : Right(m)
  BY DEF CookieInv, Right, Requests, TypeOK
<1>4. \A i \in 1..Len(down) : Right(down[i])
  BY <1>1 DEF CookieInv, Right, Messages
<1>5. QED
  BY <1>2, <1>3, <1>4

\* A request that is numbered is the right one, wherever it is on its way.
LEMMA RightNext ==
  ASSUME TypeOK, TypeOK', RefInv, CookieInv, Fits', NEW r \in Results,
         NEW cls \in ResultClasses, WriteRequest(r, cls),
         cookie' = [cookie EXCEPT ![r] = NextId],
         \/ created' = created /\ r <= created
         \/ created' = created + 1 /\ r = created + 1
  PROVE  OursKept /\ \A i \in 1..Len(outMsg') : Right(outMsg'[i])
<1>1. PICK c \in Cookies : c = NextId
  BY NextIdType DEF TypeOK
<1>2. OursKept /\ Ours(c, r)'
  <2>1. sent' = sent + 1
    BY DEF WriteRequest
  <2>2. /\ NextId = sent
        /\ \A d \in Cookies, q \in Results : Ours(d, q) => Ours(d, q)'
        /\ \A d : d = sent => Ours(d, r)'
        /\ \A q \in Results : q <= created' => Ours(cookie[q], q)'
    BY <2>1, OursNext
  <2>3. QED
    BY <1>1, <2>2 DEF OursKept
<1> DEFINE m == [cookie |-> NextId, res |-> r, class |-> cls]
<1>3. m \in Requests /\ m.cookie = c /\ m.res = r
  BY <1>1 DEF Requests
<1>4. outMsg' = Append(outMsg, m) /\ outMsg \in Seq(Requests)
  BY DEF WriteRequest, TypeOK
<1> HIDE DEF m
<1>5. Right(m)
  BY <1>2, <1>3 DEF Right
<1>6. /\ Len(outMsg) \in Nat /\ Len(outMsg') = Len(outMsg) + 1
      /\ outMsg'[Len(outMsg) + 1] = m
      /\ \A i \in 1..Len(outMsg) : outMsg'[i] = outMsg[i]
  BY <1>3, <1>4, LenProperties, AppendProperties
<1>7. \A i \in 1..Len(outMsg') : Right(outMsg'[i])
  <2>1. ASSUME NEW i \in 1..Len(outMsg') PROVE Right(outMsg'[i])
    <3>1. CASE i = Len(outMsg) + 1
      BY <1>5, <1>6, <3>1
    <3>2. CASE i # Len(outMsg) + 1
      <4>1. i \in 1..Len(outMsg) /\ outMsg'[i] = outMsg[i]
        BY <1>6, <3>2
      <4>2. QED
        BY <4>1, RightBefore
    <3>3. QED
      BY <3>1, <3>2
  <2>2. QED
    BY <2>1
<1>8. QED
  BY <1>2, <1>7

\* What is written leaves the queue from its head and reaches the server, or is
\* lost.
LEMMA RightOut ==
  ASSUME TypeOK, CookieInv, IoOut
  PROVE  /\ \A i \in 1..Len(outMsg') : Right(outMsg'[i])
         /\ \A m \in atServer' : Right(m)
<1>1. PICK k \in 0..Len(outMsg) :
        /\ outMsg' = SubSeq(outMsg, k + 1, Len(outMsg))
        /\ atServer' = IF closed THEN atServer
                       ELSE atServer \cup {outMsg[i] : i \in 1..k}
  BY DEF IoOut, Unwritten
<1>2. Len(outMsg) \in Nat /\ outMsg \in Seq(Requests)
  BY LenProperties DEF TypeOK
<1>3. /\ Len(outMsg') = Len(outMsg) - k
      /\ \A i \in 1..Len(outMsg) - k : outMsg'[i] = outMsg[k + i]
  BY <1>1, <1>2, SuffixFacts
<1>4. ASSUME NEW i \in 1..Len(outMsg') PROVE Right(outMsg'[i])
  <2>1. k + i \in 1..Len(outMsg) /\ outMsg'[i] = outMsg[k + i]
    BY <1>2, <1>3
  <2>2. QED
    BY <2>1, RightBefore
<1>5. ASSUME NEW m \in atServer' PROVE Right(m)
  <2>1. m \in atServer \/ \E i \in 1..Len(outMsg) : m = outMsg[i]
    BY <1>1, <1>2
  <2>2. QED
    BY <2>1, RightBefore
<1>6. QED
  BY <1>4, <1>5

\* A step that gives out no cookie keeps all that were given.
LEMMA OursSame ==
  ASSUME CookieInv, UNCHANGED <<created, sent, cookie>>
  PROVE  OursKept
<1>1. \A c \in Cookies, q \in Results : Ours(c, q) => Ours(c, q)'
  BY DEF Ours
<1>2. \A q \in Results : q <= created' => Ours(cookie[q], q)'
  BY DEF CookieInv, Ours
<1>3. QED
  BY <1>1, <1>2 DEF OursKept

LEMMA RightSame ==
  ASSUME TypeOK, CookieInv
  PROVE  /\ UNCHANGED outMsg => \A i \in 1..Len(outMsg') : Right(outMsg'[i])
         /\ UNCHANGED atServer => \A m \in atServer' : Right(m)
         /\ UNCHANGED down => \A i \in 1..Len(down') : Right(down'[i])
<1>1. ASSUME UNCHANGED outMsg, NEW i \in 1..Len(outMsg') PROVE Right(outMsg'[i])
  <2>1. outMsg'[i] = outMsg[i] /\ i \in 1..Len(outMsg)
    BY <1>1
  <2>2. QED
    BY <2>1, RightBefore
<1>2. ASSUME UNCHANGED atServer, NEW m \in atServer' PROVE Right(m)
  BY <1>2, RightBefore
<1>3. ASSUME UNCHANGED down, NEW i \in 1..Len(down') PROVE Right(down'[i])
  <2>1. down'[i] = down[i] /\ i \in 1..Len(down)
    BY <1>3
  <2>2. QED
    BY <2>1, RightBefore
<1>4. QED
  BY <1>1, <1>2, <1>3

\* The dispatched result is the one that asked.
LEMMA FollowsReceive ==
  ASSUME TypeOK, RefInv, CookieInv, Receive
  PROVE  Follows(stack')
<1>1. Head(down) \in Messages /\ Head(down) = down[1] /\ Len(down) >= 1 /\ Len(down) \in Nat
  BY HeadTailProperties, LenProperties, EmptySeq DEF Receive, TypeOK
<1>2. CASE UNCHANGED stack
  BY <1>2, FollowsSame
<1>3. ASSUME NEW r \in Lookup(Head(down).cookie), Dispatch(r, Head(down))
      PROVE  Follows(stack')
  <2>1. r \in Results /\ r <= created /\ cookie[r] = Head(down).cookie
    BY DEF Lookup, WithCookie, TypeOK, RefInv
  <2>2. Ours(Head(down).cookie, Head(down).res)
    BY <1>1 DEF CookieInv
  <2>3. r = Head(down).res
    BY <2>1, <2>2 DEF Ours
  <2>4. Head(down).payload \in Values \cup {Error}
    BY <1>1, <1>3 DEF Dispatch, Parses, Messages
  <2>5. PICK n \in First(notifiers[r]) :
          stack' = Append(stack,
            [kind |-> "run", res |-> r, cur |-> n, next |-> NoNode,
             calling |-> FALSE, given |-> Null, val |-> Head(down).payload,
             req |-> Head(down).res])
    BY <1>3 DEF Dispatch
  <2> DEFINE f == [kind |-> "run", res |-> r, cur |-> n, next |-> NoNode,
                   calling |-> FALSE, given |-> Null, val |-> Head(down).payload,
                   req |-> Head(down).res]
  <2>6. f \in Frames /\ Proper(f)
    BY <2>1, <2>3, <2>4, FirstType DEF Frames, RunFrames, Data, TypeOK, Proper
  <2>7. stack' = Append(stack, f) /\ stack \in Seq(Frames)
    BY <2>5 DEF TypeOK
  <2> HIDE DEF f
  <2>8. QED
    BY <2>6, <2>7, FollowsPush
<1>4. QED
  BY <1>2, <1>3 DEF Receive

LEMMA FollowsNext ==
  ASSUME TypeOK, RefInv, CookieInv, [Next]_vars
  PROVE  Follows(stack')
  BY FollowsStep, FollowsReceive

LEMMA CookieStep ==
  ASSUME TypeOK, TypeOK', RefInv, CookieInv, WaitsInOrder, [Next]_vars, Fits'
  PROVE  CookieInv'
<1> USE DEF resultVars, ipcVars, connVars, appVars, netVars
<1>0. RightCaller'
  BY FollowsNext, FollowsInOrder DEF CookieInv
<1>1. CASE \E cls \in Classes : SendMsg(cls)
  <2>1. PICK cls \in ResultClasses, r \in Results :
          r = created + 1 /\ SendMsg(cls)
    BY <1>1, BoundsAssumption, DataAssumption DEF SendMsg, TypeOK, Results
  <2>2. /\ created' = created + 1 /\ r = created + 1
        /\ WriteRequest(r, cls) /\ cookie' = [cookie EXCEPT ![r] = NextId]
        /\ UNCHANGED <<atServer, down, stack>>
    BY <2>1 DEF SendMsg, NewResult
  <2>3. OursKept /\ \A i \in 1..Len(outMsg') : Right(outMsg'[i])
    BY <2>2, RightNext
  <2>4. QED
    BY <1>0, <2>2, <2>3, RightSame, CookieKept
<1>2. CASE RunFinish
  <2>1. PICK r \in Results : r = Top.res /\ Running(r) # {}
    <3>1. Top \in RunFrames /\ stack[Len(stack)].kind = "run" /\ Len(stack) \in 1..Len(stack)
      BY <1>2, TopFacts, FrameKinds DEF RunFinish, TypeOK
    <3>2. QED
      BY <3>1 DEF RunFrames, Running, RunsOn, Top
  <2>2. r <= created
    <3>1. ref[r] >= 1
      BY <2>1, OwnersFacts DEF RefInv
    <3>2. QED
      BY <3>1 DEF RefInv, TypeOK, Results
  <2>3. UNCHANGED <<created, atServer, down>>
    BY <1>2 DEF RunFinish
  <2>4. OursKept /\ \A i \in 1..Len(outMsg') : Right(outMsg'[i])
    <3>1. CASE Restart(r)
      <4>1. WriteRequest(r, "signal") /\ cookie' = [cookie EXCEPT ![r] = NextId]
        BY <3>1 DEF Restart
      <4>2. "signal" \in ResultClasses
        BY DEF ResultClasses
      <4>3. QED
        BY <2>2, <2>3, <4>1, <4>2, RightNext
    <3>2. CASE UNCHANGED <<outMsg, sent, cookie>>
      BY <2>3, <3>2, OursSame, RightSame
    <3>3. QED
      BY <1>2, <2>1, <3>1, <3>2 DEF RunFinish
  <2>5. QED
    BY <1>0, <2>3, <2>4, RightSame, CookieKept
<1>3. CASE Receive
  <2>1. OursKept /\ UNCHANGED <<outMsg, atServer>>
    BY <1>3, OursSame DEF Receive
  <2>2. /\ Head(down) \in Messages /\ Head(down) = down[1] /\ Len(down) \in Nat
        /\ Len(down) >= 1 /\ Len(Tail(down)) = Len(down) - 1
        /\ \A i \in 1..Len(down) - 1 : Tail(down)[i] = down[i + 1]
    BY <1>3, HeadTailProperties, LenProperties, EmptySeq DEF Receive, TypeOK
  <2>3. \A i \in 1..Len(down') : Right(down'[i])
    <3>1. ASSUME NEW i \in 1..Len(down') PROVE Right(down'[i])
      <4>1. down' = Tail(down)
        BY <1>3 DEF Receive
      <4>2. i + 1 \in 1..Len(down) /\ down'[i] = down[i + 1]
        BY <2>2, <4>1
      <4>3. QED
        BY <4>2, RightBefore
    <3>2. QED
      BY <3>1
  <2>4. QED
    BY <1>0, <2>1, <2>3, RightSame, CookieKept
<1>4. CASE MainOut \/ WaitWrite
  <2>1. UNCHANGED <<created, sent, cookie, down>>
    BY <1>4 DEF MainOut, WaitWrite
  <2>2. IoOut \/ UNCHANGED <<outMsg, atServer>>
    BY <1>4 DEF MainOut, WaitWrite
  <2>3. QED
    BY <1>0, <2>1, <2>2, OursSame, RightOut, RightSame, CookieKept
<1>5. CASE \E req \in atServer : ServerSend(req)
  <2>1. PICK req \in atServer, p \in Payloads :
          down' = Append(down, [cookie |-> req.cookie, res |-> req.res, payload |-> p])
    BY <1>5 DEF ServerSend
  <2>2. UNCHANGED <<created, sent, cookie, outMsg, stack>> /\ atServer' \subseteq atServer
    BY <1>5 DEF ServerSend
  <2> DEFINE m == [cookie |-> req.cookie, res |-> req.res, payload |-> p]
  <2>3. m \in Messages /\ m.cookie = req.cookie /\ m.res = req.res
    BY DataAssumption DEF Messages, Requests, TypeOK
  <2> HIDE DEF m
  <2>4. Right(m)
    BY <2>3, RightBefore DEF Right
  <2>5. /\ Len(down) \in Nat /\ Len(down') = Len(down) + 1
        /\ down'[Len(down) + 1] = m
        /\ \A i \in 1..Len(down) : down'[i] = down[i]
    BY <2>1, <2>3, LenProperties, AppendProperties DEF TypeOK, m
  <2>6. \A i \in 1..Len(down') : Right(down'[i])
    <3>1. ASSUME NEW i \in 1..Len(down') PROVE Right(down'[i])
      <4>1. CASE i = Len(down) + 1
        BY <2>4, <2>5, <4>1
      <4>2. CASE i # Len(down) + 1
        <5>1. i \in 1..Len(down) /\ down'[i] = down[i]
          BY <2>5, <4>2
        <5>2. QED
          BY <5>1, RightBefore
      <4>3. QED
        BY <4>1, <4>2
    <3>2. QED
      BY <3>1
  <2>7. \A q \in atServer' : Right(q)
    BY <2>2, RightBefore
  <2>8. QED
    BY <1>0, <2>2, <2>6, <2>7, OursSame, RightSame, CookieKept
<1>6. CASE \/ \E r \in Results : NotifierSet(r) \/ Unref(r) \/ Disconnect(r) \/ Wait(r)
           \/ UnrefConnection \/ MainIn \/ WaitReturn \/ WaitSelect
           \/ WouldBlock \/ EndOfFile \/ CallNotifier
           \/ \E keep \in BOOLEAN : CallbackReturn(keep)
           \/ ServerClose \/ UNCHANGED vars
  <2>1. UNCHANGED <<created, sent, cookie, outMsg, down>> /\ atServer' \subseteq atServer
    BY <1>6 DEF NotifierSet, Unref, Disconnect, Wait, UnrefConnection, MainIn,
       WaitReturn, WaitSelect, WouldBlock, EndOfFile, CallNotifier, CallbackReturn,
       ServerClose, vars
  <2>2. \A q \in atServer' : Right(q)
    BY <2>1, RightBefore
  <2>3. QED
    BY <1>0, <2>1, <2>2, OursSame, RightSame, CookieKept
<1>7. QED
  BY <1>1, <1>2, <1>3, <1>4, <1>5, <1>6 DEF Next, AppCall, Library, Server

-----------------------------------------------------------------------------
(* Live results.                                                            *)

\* The results and their registration after a step.
LiveKept ==
  /\ resultsList' = {q \in Results : Live(q)'}
  /\ \A q \in Results : Live(q)' <=> ref'[q] >= 1

\* A new reference is made only to a live result.
LEMMA AddRefLive ==
  ASSUME TypeOK, LiveInv, NEW r \in Results, ref[r] >= 1, AddRef(r),
         UNCHANGED <<phase, resultsList>>
  PROVE  LiveKept
<1>1. ref' = [ref EXCEPT ![r] = @ + 1] /\ ref[r] \in Nat
  BY DEF AddRef, TypeOK
<1>2. \A q \in Results : ref'[q] >= 1 <=> ref[q] >= 1
  BY <1>1 DEF TypeOK
<1>3. \A q : Live(q)' <=> Live(q)
  BY DEF Live
<1>4. QED
  BY <1>2, <1>3 DEF LiveInv, LiveKept

LEMMA LiveStep ==
  ASSUME TypeOK, TypeOK', RefInv, CookieInv, LiveInv, [Next]_vars
  PROVE  LiveKept
<1> USE DEF resultVars, ipcVars, connVars, appVars, netVars
<1>1. CASE \E cls \in Classes : SendMsg(cls)
  <2>1. PICK r \in Results :
          /\ r = created + 1
          /\ phase' = [phase EXCEPT ![r] = "live"]
          /\ ref' = [ref EXCEPT ![r] = 1]
          /\ resultsList' = resultsList \cup {r}
    BY <1>1, BoundsAssumption DEF SendMsg, NewResult, TypeOK, Results
  <2>2. \A q \in Results : Live(q)' <=> Live(q) \/ q = r
    BY <2>1 DEF Live, TypeOK
  <2>3. \A q \in Results : ref'[q] = IF q = r THEN 1 ELSE ref[q]
    BY <2>1 DEF TypeOK
  <2>4. resultsList' = {q \in Results : Live(q)'}
    BY <2>1, <2>2 DEF LiveInv
  <2>5. ASSUME NEW q \in Results PROVE Live(q)' <=> ref'[q] >= 1
    <3>1. CASE q = r
      BY <2>2, <2>3, <3>1
    <3>2. CASE q # r
      BY <2>2, <2>3, <3>2 DEF LiveInv
    <3>3. QED
      BY <3>1, <3>2
  <2>6. QED
    BY <2>4, <2>5 DEF LiveKept
<1>2. ASSUME NEW r \in Results, NotifierSet(r) PROVE LiveKept
  <2>1. ref[r] >= 1
    BY <1>2, OwnersFacts DEF RefInv, NotifierSet
  <2>2. QED
    BY <1>2, <2>1, AddRefLive DEF NotifierSet
<1>3. ASSUME NEW r \in Results, Unref(r) \/ Disconnect(r) PROVE LiveKept
  <2>1. ref[r] >= 1 /\ DropRef(r)
    BY <1>3, OwnersFacts DEF RefInv, Unref, Disconnect
  <2>2. QED
    BY <2>1, DropRefLive DEF LiveKept
<1>4. CASE Receive
  <2>1. ASSUME NEW r \in Lookup(Head(down).cookie), Dispatch(r, Head(down))
        PROVE  LiveKept
    <3>1. r \in Results /\ ref[r] >= 1
      BY DEF Lookup, WithCookie, TypeOK, LiveInv
    <3>2. QED
      BY <1>4, <2>1, <3>1, AddRefLive DEF Dispatch, Receive
  <2>2. CASE UNCHANGED ref
    BY <1>4, <2>2 DEF Receive, LiveInv, LiveKept, Live
  <2>3. QED
    BY <1>4, <2>1, <2>2 DEF Receive
<1>5. ASSUME NEW keep \in BOOLEAN, CallbackReturn(keep) PROVE LiveKept
  <2>1. Top \in RunFrames
    BY <1>5, TopFacts, FrameKinds DEF CallbackReturn, TypeOK
  <2>2. PICK r \in Results : r = Top.res
    BY <2>1 DEF RunFrames
  <2>3. CASE UNCHANGED <<notifiers, ref, phase, resultsList, connRef>>
    BY <2>3 DEF LiveInv, LiveKept, Live
  <2>4. CASE DeleteNode(r, Top.cur) /\ Top.cur \in notifiers[r]
    <3>1. ref[r] >= 1 /\ DropRef(r)
      BY <2>4, OwnersFacts DEF DeleteNode, RefInv
    <3>2. QED
      BY <3>1, DropRefLive DEF LiveKept
  <2>5. QED
    BY <1>5, <2>2, <2>3, <2>4 DEF CallbackReturn
<1>6. CASE RunFinish
  <2>1. PICK r \in Results : r = Top.res /\ Running(r) # {}
    <3>1. Top \in RunFrames /\ stack[Len(stack)].kind = "run" /\ Len(stack) \in 1..Len(stack)
      BY <1>6, TopFacts, FrameKinds DEF RunFinish, TypeOK
    <3>2. QED
      BY <3>1 DEF RunFrames, Running, RunsOn, Top
  <2>2. ref[r] >= 1 /\ DropRef(r)
    BY <1>6, <2>1, OwnersFacts DEF RefInv, RunFinish
  <2>3. QED
    BY <2>2, DropRefLive DEF LiveKept
<1>7. CASE UNCHANGED <<ref, phase, resultsList>>
  BY <1>7 DEF LiveInv, LiveKept, Live
<1>8. CASE \/ \E r \in Results : Wait(r)
           \/ UnrefConnection \/ MainIn \/ MainOut \/ WaitReturn \/ WaitSelect
           \/ WaitWrite \/ WouldBlock \/ EndOfFile \/ CallNotifier
           \/ Server \/ UNCHANGED vars
  BY <1>7, <1>8 DEF Wait, UnrefConnection, MainIn, MainOut, WaitReturn, WaitSelect,
     WaitWrite, WouldBlock, EndOfFile, CallNotifier, Server, ServerSend,
     ServerClose, vars
<1>9. QED
  BY <1>1, <1>2, <1>3, <1>4, <1>5, <1>6, <1>8 DEF Next, AppCall, Library

LEMMA WaitsStep ==
  ASSUME TypeOK, RefInv, CookieInv, WaitsInOrder, [Next]_vars
  PROVE  WaitsInOrder'
<1> USE DEF resultVars, ipcVars, connVars, appVars, netVars
<1>1. CASE \E cls \in Classes : SendMsg(cls)
  <2>0. PICK cls \in Classes : SendMsg(cls)
    BY <1>1
  <2>a. PICK r \in Results : r = created + 1
    BY <2>0, BoundsAssumption DEF SendMsg, TypeOK, Results
  <2>1. /\ r = created + 1
        /\ class' = [class EXCEPT ![r] = cls]
        /\ held' = held \cup {r} /\ stack' = stack
    BY <2>0, <2>a DEF SendMsg, NewResult
  <2>2. ASSUME NEW q \in held PROVE q # r
    <3>1. q \in Results /\ ref[q] >= 1
      BY OwnersFacts DEF RefInv, TypeOK
    <3>2. r > created
      BY <2>1 DEF TypeOK
    <3>3. QED
      BY <3>1, <3>2 DEF RefInv
  <2>3. \A q \in held : q \in held' /\ class'[q] = class[q]
    BY <2>1, <2>2 DEF TypeOK
  <2>4. QED
    BY <2>1, <2>3 DEF WaitsInOrder
<1>2. ASSUME NEW r \in Results, Unref(r) PROVE WaitsInOrder'
  BY <1>2 DEF Unref, WaitsInOrder, WaitedOn
<1>3. ASSUME NEW r \in Results, Disconnect(r) PROVE WaitsInOrder'
  BY <1>3 DEF Disconnect, WaitsInOrder
<1>4. CASE UNCHANGED <<held, class>>
  BY <1>4, FollowsNext, FollowsInOrder DEF CookieInv
<1>5. CASE \/ \E r \in Results : NotifierSet(r) \/ Wait(r)
           \/ UnrefConnection \/ Library \/ Server \/ UNCHANGED vars
  BY <1>4, <1>5 DEF NotifierSet, Wait, UnrefConnection, Library, MainIn, MainOut,
     WaitReturn, WaitSelect, WaitWrite, Receive, WouldBlock, EndOfFile, CallNotifier,
     CallbackReturn, RunFinish, Server, ServerSend, ServerClose, vars
<1>6. QED
  BY <1>1, <1>2, <1>3, <1>5 DEF Next, AppCall

-----------------------------------------------------------------------------
(* The inductive invariant and the theorems.                                *)

RouteInv == Fits => CookieInv /\ LiveInv

LEMMA FitsBefore == ASSUME TypeOK, [Next]_vars, Fits' PROVE Fits
<1>1. sent' = sent \/ sent' = sent + 1
  BY DEF Next, AppCall, Library, Server, SendMsg, NotifierSet, Unref, Disconnect,
     Wait, UnrefConnection, MainIn, MainOut, WaitReturn, WaitSelect, WaitWrite,
     Receive, WouldBlock, EndOfFile, CallNotifier, CallbackReturn, RunFinish,
     ServerSend, ServerClose, Restart, WriteRequest, vars, connVars
<1>2. QED
  BY <1>1, BoundsAssumption DEF Fits, TypeOK

LEMMA RouteStep ==
  ASSUME TypeOK, TypeOK', RefInv, RouteInv, [Next]_vars
  PROVE  RouteInv'
<1>1. SUFFICES ASSUME Fits' PROVE CookieInv' /\ LiveInv'
  BY DEF RouteInv
<1>2. CookieInv /\ LiveInv
  BY <1>1, FitsBefore DEF RouteInv
<1>3. CookieInv'
  BY <1>1, <1>2, CookieStep DEF LiveInv
<1>4. LiveKept
  BY <1>2, LiveStep
<1>5. WaitsInOrder'
  BY <1>2, WaitsStep DEF LiveInv
<1>6. QED
  BY <1>3, <1>4, <1>5 DEF LiveInv, LiveKept

LEMMA RouteInit == Init => RouteInv
<1>1. ASSUME Init PROVE CookieInv /\ LiveInv
  <2>1. stack = <<>> /\ outMsg = <<>> /\ down = <<>> /\ atServer = {}
    BY <1>1 DEF Init
  <2>2. created = 0 /\ \A r \in Results : ~(r <= created)
    BY <1>1 DEF Init, Results
  <2>3. RightCaller /\ WaitsInOrder
    BY <2>1 DEF RightCaller, WaitsInOrder
  <2>4. CookieInv
    BY <2>1, <2>2, <2>3 DEF CookieInv
  <2>5. \A r \in Results : ~Live(r) /\ ref[r] = 0
    BY <1>1 DEF Init, Live
  <2>6. resultsList = {}
    BY <1>1 DEF Init
  <2>7. QED
    BY <2>3, <2>4, <2>5, <2>6 DEF LiveInv
<1>2. QED
  BY <1>1 DEF RouteInv

THEOREM RouteCorrect == Spec => []RouteInv
<1>1. TypeOK /\ RefInv /\ RouteInv /\ [Next]_vars => TypeOK' /\ RefInv' /\ RouteInv'
  BY TypeStep, RefStep, RouteStep
<1>2. Init => TypeOK /\ RefInv /\ RouteInv
  BY TypeInit, RefInit, RouteInit
<1>3. QED
  BY <1>1, <1>2, PTL DEF Spec

\* As long as fewer cookies were given out than there are, a reply is dispatched
\* to the result that asked for it, however many results there are, and however
\* dispatches and waits are nested (xmmsc_ipc_exec_msg, xmmsc_next_id).
THEOREM RightCallerCorrect == Spec => [](Fits => RightCaller)
<1>1. RouteInv => (Fits => RightCaller)
  BY DEF RouteInv, CookieInv
<1>2. QED
  BY <1>1, RouteCorrect, PTL

\* Under the same condition results_list holds exactly the live results, and no
\* suspended dispatch or wait works on a result that has been freed
\* (xmmsc_result_free, xmmsc_ipc_result_unregister).
THEOREM RegisteredCorrect == Spec => [](Fits => Registered)
<1>1. ASSUME TypeOK, RefInv, RouteInv, Fits PROVE Registered
  <2>1. LiveInv
    BY <1>1 DEF RouteInv
  <2>2. ASSUME NEW i \in 1..Len(stack), stack[i].kind # "in" PROVE Live(stack[i].res)
    <3>1. stack[i] \in Frames
      BY <1>1, LenProperties, ElementOfSeq DEF TypeOK
    <3>2. PICK r \in Results : r = stack[i].res
      BY <2>2, <3>1 DEF Frames, InFrames, WaitFrames, RunFrames
    <3>3. stack[i].kind = "wait" \/ stack[i].kind = "run"
      BY <2>2, <3>1 DEF Frames, InFrames, WaitFrames, RunFrames
    <3>4. r \in held \/ Running(r) # {}
      BY <2>1, <3>2, <3>3 DEF LiveInv, WaitsInOrder, Running, RunsOn
    <3>5. ref[r] >= 1
      BY <1>1, <3>4, OwnersFacts DEF RefInv
    <3>6. QED
      BY <2>1, <3>2, <3>5 DEF LiveInv
  <2>3. QED
    BY <2>1, <2>2 DEF Registered, LiveInv
<1>2. TypeOK /\ RefInv /\ RouteInv /\ [Next]_vars => TypeOK' /\ RefInv' /\ RouteInv'
  BY TypeStep, RefStep, RouteStep
<1>3. Init => TypeOK /\ RefInv /\ RouteInv
  BY TypeInit, RefInit, RouteInit
<1>4. QED
  BY <1>1, <1>2, <1>3, PTL DEF Spec

-----------------------------------------------------------------------------
(* Counting the messages about a result.                                    *)

\* The places in a queue s of messages about result r.
About(s, r) == {i \in 1..Len(s) : s[i].res = r}

\* Those among its first k messages.
Leading(s, k, r) == {i \in 1..k : s[i].res = r}

\* The messages at the places P of s.
MessagesAt(s, P) == {s[i] : i \in P}

\* The requests of result r at the server.
AtServer(r) == {q \in atServer : q.res = r}

LEMMA AboutFinite ==
  ASSUME NEW S, NEW s \in Seq(S), NEW r
  PROVE  /\ About(s, r) \subseteq 1..Len(s)
         /\ IsFiniteSet(About(s, r))
         /\ Cardinality(About(s, r)) \in Nat
<1>1. Len(s) \in Nat
  BY LenProperties
<1>2. About(s, r) \subseteq 1..Len(s)
  BY DEF About
<1>3. IsFiniteSet(1..Len(s))
  BY <1>1, FS_Interval
<1>4. IsFiniteSet(About(s, r))
  BY <1>2, <1>3, FS_Subset
<1>5. QED
  BY <1>2, <1>4, FS_CardinalityType

LEMMA AboutAppend ==
  ASSUME NEW S, NEW s \in Seq(S), NEW m \in S, NEW r
  PROVE  Cardinality(About(Append(s, m), r)) =
           Cardinality(About(s, r)) + (IF m.res = r THEN 1 ELSE 0)
<1> DEFINE t == Append(s, m)
           n == Len(s) + 1
<1>1. /\ Len(s) \in Nat /\ Len(t) = n /\ t[n] = m
      /\ \A i \in 1..Len(s) : t[i] = s[i]
  BY LenProperties, AppendProperties
<1>2. n \notin About(s, r) /\ 1..n = (1..Len(s)) \cup {n}
  BY <1>1 DEF About
<1>3. About(t, r) = IF m.res = r THEN About(s, r) \cup {n} ELSE About(s, r)
  BY <1>1, <1>2 DEF About
<1>4. IsFiniteSet(About(s, r)) /\ Cardinality(About(s, r)) \in Nat
  BY AboutFinite
<1>5. Cardinality(About(s, r) \cup {n}) = Cardinality(About(s, r)) + 1
  BY <1>2, <1>4, FS_AddElement
<1>6. QED
  BY <1>3, <1>4, <1>5

\* The messages among the first k and those in the rest t of the queue s.
LEMMA AboutSplit ==
  ASSUME NEW S, NEW s \in Seq(S), NEW t \in Seq(S), NEW k \in 0..Len(s),
         Len(t) = Len(s) - k, \A i \in 1..Len(t) : t[i] = s[k + i], NEW r
  PROVE  /\ IsFiniteSet(Leading(s, k, r)) /\ Cardinality(Leading(s, k, r)) \in Nat
         /\ Cardinality(About(s, r)) =
              Cardinality(Leading(s, k, r)) + Cardinality(About(t, r))
<1> DEFINE P == Leading(s, k, r)
           Q == {i \in k + 1..Len(s) : s[i].res = r}
           f == [i \in About(t, r) |-> k + i]
<1>1. Len(s) \in Nat /\ Len(t) \in Nat /\ k \in Nat /\ k <= Len(s)
  BY LenProperties
<1>2. About(s, r) = P \cup Q /\ P \cap Q = {} /\ P \subseteq About(s, r) /\ Q \subseteq About(s, r)
  BY <1>1 DEF About, Leading
<1>3. f \in [About(t, r) -> Q]
  <2>1. ASSUME NEW i \in About(t, r) PROVE k + i \in Q
    <3>1. i \in 1..Len(t) /\ t[i].res = r
      BY DEF About
    <3>2. k + i \in k + 1..Len(s) /\ s[k + i].res = r
      BY <1>1, <3>1
    <3>3. QED
      BY <3>2
  <2>2. QED
    BY <2>1
<1>4. \A i, j \in About(t, r) : f[i] = f[j] => i = j
  BY <1>1 DEF About
<1>5. \A j \in Q : \E i \in About(t, r) : f[i] = j
  <2>1. ASSUME NEW j \in Q PROVE j - k \in About(t, r) /\ k + (j - k) = j
    <3>1. j - k \in 1..Len(t) /\ k + (j - k) = j /\ s[j].res = r
      BY <1>1
    <3>2. t[j - k] = s[k + (j - k)]
      BY <3>1
    <3>3. QED
      BY <3>1, <3>2 DEF About
  <2>2. QED
    BY <2>1
<1>6. f \in Bijection(About(t, r), Q)
  BY <1>3, <1>4, <1>5 DEF Bijection, Injection, Surjection, IsInjective
<1>7. /\ IsFiniteSet(About(s, r)) /\ IsFiniteSet(About(t, r))
      /\ Cardinality(About(t, r)) \in Nat
  BY AboutFinite
<1> HIDE DEF f, P, Q
<1>8. IsFiniteSet(Q) /\ Cardinality(Q) = Cardinality(About(t, r))
  BY <1>6, <1>7, FS_Bijection DEF ExistsBijection
<1>9. IsFiniteSet(P) /\ Cardinality(P) \in Nat
  BY <1>2, <1>7, FS_Subset, FS_CardinalityType
<1>10. Cardinality(P \cup Q) = Cardinality(P) + Cardinality(Q) - Cardinality({})
  BY <1>2, <1>8, <1>9, FS_Union
<1>11. Cardinality(About(s, r)) = Cardinality(P) + Cardinality(About(t, r))
  BY <1>2, <1>7, <1>8, <1>9, <1>10, FS_EmptySet
<1>12. QED
  BY <1>9, <1>11 DEF P

\* The first message and the rest t of the queue s.
LEMMA AboutTail ==
  ASSUME NEW S, NEW s \in Seq(S), NEW t \in Seq(S), Len(s) >= 1,
         Len(t) = Len(s) - 1, \A i \in 1..Len(s) - 1 : t[i] = s[i + 1], NEW r
  PROVE  Cardinality(About(s, r)) =
           Cardinality(About(t, r)) + (IF s[1].res = r THEN 1 ELSE 0)
<1>1. Len(s) \in Nat /\ Len(t) \in Nat
  BY LenProperties
<1>2. PICK k \in 0..Len(s) : k = 1
  BY <1>1
<1>3. Len(t) = Len(s) - k
  BY <1>2
<1>4. ASSUME NEW i \in 1..Len(t) PROVE t[i] = s[k + i]
  <2>1. i \in 1..Len(s) - 1 /\ k + i = i + 1
    BY <1>1, <1>2
  <2>2. QED
    BY <2>1
<1>5. Cardinality(About(s, r)) = Cardinality(Leading(s, k, r)) + Cardinality(About(t, r))
  BY <1>3, <1>4, AboutSplit
<1>6. Cardinality(About(t, r)) \in Nat
  BY AboutFinite
<1>7. 1..k = {1}
  BY <1>2
<1>8. CASE s[1].res = r
  <2>1. Leading(s, k, r) = {1}
    BY <1>7, <1>8 DEF Leading
  <2>2. Cardinality(Leading(s, k, r)) = 1
    BY <2>1, FS_Singleton
  <2>3. QED
    BY <1>5, <1>6, <1>8, <2>2
<1>9. CASE s[1].res # r
  <2>1. Leading(s, k, r) = {}
    BY <1>7, <1>9 DEF Leading
  <2>2. Cardinality(Leading(s, k, r)) = 0
    BY <2>1, FS_EmptySet
  <2>3. QED
    BY <1>5, <1>6, <1>9, <2>2
<1>10. QED
  BY <1>8, <1>9

\* The values of a function on a finite set.
LEMMA ImageFinite ==
  ASSUME NEW s, NEW P, IsFiniteSet(P)
  PROVE  /\ IsFiniteSet(MessagesAt(s, P)) /\ Cardinality(MessagesAt(s, P)) \in Nat
         /\ Cardinality(MessagesAt(s, P)) <= Cardinality(P)
<1> DEFINE T == MessagesAt(s, P)
           f == [i \in P |-> s[i]]
<1>1. f \in Surjection(P, T)
  <2>1. f \in [P -> T] /\ \A m \in T : \E i \in P : f[i] = m
    BY DEF MessagesAt
  <2>2. QED
    BY <2>1 DEF Surjection
<1> HIDE DEF f, T
<1>2. IsFiniteSet(T) /\ Cardinality(T) <= Cardinality(P)
  BY <1>1, FS_Surjection
<1>3. QED
  BY <1>2, FS_CardinalityType DEF T

-----------------------------------------------------------------------------
(* The labels of the messages under way.                                    *)

Queued   == {outMsg[i] : i \in 1..Len(outMsg)}
Arriving == {down[i] : i \in 1..Len(down)}

\* A request names its result's class, and that of a command the cookie the
\* result still has.
RequestOk(q) ==
  /\ q.class = class[q.res]
  /\ q.class = "default" => q.cookie = cookie[q.res]

\* So does a reply, and it carries what the server may send.
ReplyOk(m) ==
  /\ class[m.res] = "default" => m.cookie = cookie[m.res]
  /\ m.payload \in Payloads

LabelInv ==
  /\ \A q \in Queued \cup atServer : RequestOk(q)
  /\ \A m \in Arriving : ReplyOk(m)
  /\ \A r \in Results : Cardinality(Running(r)) # 0 => parsed[r]
  /\ IsFiniteSet(atServer)

LEMMA QueueTypes ==
  ASSUME TypeOK
  PROVE  Queued \subseteq Requests /\ Arriving \subseteq Messages
<1>1. Len(outMsg) \in Nat /\ Len(down) \in Nat
  BY LenProperties DEF TypeOK
<1>2. QED
  BY <1>1, ElementOfSeq DEF Queued, Arriving, TypeOK

\* Every message is about a result that was created.
LEMMA AboutCreated ==
  ASSUME CookieInv
  PROVE  \A m \in Queued \cup atServer \cup Arriving : m.res <= created
  BY DEF CookieInv, Ours, Queued, Arriving

\* A new request at the end of the queue.
LEMMA WriteFacts ==
  ASSUME TypeOK, NEW r \in Results, NEW cls \in ResultClasses, WriteRequest(r, cls)
  PROVE  /\ Queued' = Queued \cup {[cookie |-> NextId, res |-> r, class |-> cls]}
         /\ \A q : Cardinality(About(outMsg', q)) =
                     Cardinality(About(outMsg, q)) + (IF q = r THEN 1 ELSE 0)
<1> DEFINE m == [cookie |-> NextId, res |-> r, class |-> cls]
<1>1. m \in Requests /\ m.res = r
  BY NextIdType DEF Requests, TypeOK
<1>2. outMsg' = Append(outMsg, m) /\ outMsg \in Seq(Requests)
  BY DEF WriteRequest, TypeOK
<1> HIDE DEF m
<1>3. /\ Len(outMsg) \in Nat /\ Len(outMsg') = Len(outMsg) + 1
      /\ outMsg'[Len(outMsg) + 1] = m
      /\ \A i \in 1..Len(outMsg) : outMsg'[i] = outMsg[i]
  BY <1>1, <1>2, LenProperties, AppendProperties
<1>4. Queued' = Queued \cup {m}
  <2>1. ASSUME NEW x \in Queued' PROVE x \in Queued \cup {m}
    <3>1. PICK i \in 1..Len(outMsg') : x = outMsg'[i]
      BY DEF Queued
    <3>2. i = Len(outMsg) + 1 \/ i \in 1..Len(outMsg)
      BY <1>3
    <3>3. QED
      BY <1>3, <3>1, <3>2 DEF Queued
  <2>2. ASSUME NEW x \in Queued PROVE x \in Queued'
    <3>1. PICK i \in 1..Len(outMsg) : x = outMsg[i]
      BY DEF Queued
    <3>2. i \in 1..Len(outMsg') /\ x = outMsg'[i]
      BY <1>3, <3>1
    <3>3. QED
      BY <3>2 DEF Queued
  <2>3. m \in Queued'
    <3>1. Len(outMsg) + 1 \in 1..Len(outMsg')
      BY <1>3
    <3>2. QED
      BY <1>3, <3>1 DEF Queued
  <2>4. QED
    BY <2>1, <2>2, <2>3
<1>5. \A q : Cardinality(About(outMsg', q)) =
               Cardinality(About(outMsg, q)) + (IF q = r THEN 1 ELSE 0)
  BY <1>1, <1>2, AboutAppend
<1>6. QED
  BY <1>4, <1>5 DEF m

\* What the transport takes comes from the head of the queue.
LEMMA OutFacts ==
  ASSUME TypeOK, IoOut, IsFiniteSet(atServer)
  PROVE  /\ Queued' \subseteq Queued /\ atServer' \subseteq Queued \cup atServer
         /\ IsFiniteSet(atServer')
<1>1. PICK k \in 0..Len(outMsg) :
        /\ outMsg' = SubSeq(outMsg, k + 1, Len(outMsg))
        /\ atServer' = IF closed THEN atServer
                       ELSE atServer \cup {outMsg[i] : i \in 1..k}
  BY DEF IoOut, Unwritten
<1>2. Len(outMsg) \in Nat /\ outMsg \in Seq(Requests)
  BY LenProperties DEF TypeOK
<1>3. /\ Len(outMsg') = Len(outMsg) - k
      /\ \A i \in 1..Len(outMsg) - k : outMsg'[i] = outMsg[k + i]
  BY <1>1, <1>2, SuffixFacts
<1>4. ASSUME NEW x \in Queued' PROVE x \in Queued
  <2>1. PICK i \in 1..Len(outMsg') : x = outMsg'[i]
    BY DEF Queued
  <2>2. k + i \in 1..Len(outMsg) /\ x = outMsg[k + i]
    BY <1>2, <1>3, <2>1
  <2>3. QED
    BY <2>2 DEF Queued
<1>5. atServer' \subseteq Queued \cup atServer
  BY <1>1, <1>2 DEF Queued
<1>6. IsFiniteSet(1..k) /\ IsFiniteSet(MessagesAt(outMsg, 1..k))
  BY <1>2, FS_Interval, ImageFinite
<1>7. IsFiniteSet(atServer')
  BY <1>1, <1>6, FS_Union DEF MessagesAt
<1>8. QED
  BY <1>4, <1>5, <1>7

\* The messages there are keep their labels when the results they are about keep
\* their classes, and commands their cookies.
LEMMA LabelsKept ==
  ASSUME TypeOK, CookieInv, LabelInv,
         \A q \in Results : q <= created =>
           /\ class'[q] = class[q]
           /\ class[q] = "default" => cookie'[q] = cookie[q]
  PROVE  /\ \A m \in Queued \cup atServer : RequestOk(m)'
         /\ \A m \in Arriving : ReplyOk(m)'
<1>1. ASSUME NEW m \in Queued \cup atServer PROVE RequestOk(m)'
  <2>1. RequestOk(m) /\ m.res \in Results /\ m.res <= created
    BY QueueTypes, AboutCreated DEF LabelInv, TypeOK, Requests
  <2>2. QED
    BY <2>1 DEF RequestOk
<1>2. ASSUME NEW m \in Arriving PROVE ReplyOk(m)'
  <2>1. ReplyOk(m) /\ m.res \in Results /\ m.res <= created
    BY QueueTypes, AboutCreated DEF LabelInv, Messages
  <2>2. QED
    BY <2>1 DEF ReplyOk
<1>3. QED
  BY <1>1, <1>2

-----------------------------------------------------------------------------
(* The dispatches on the stack, step by step.                               *)

LEMMA RunsOtherwise ==
  ASSUME TypeOK, TypeOK', [Next]_vars, ~Receive, ~RunFinish
  PROVE  \A q \in Results : Cardinality(Running(q))' = Cardinality(Running(q))
<1>1. \/ \E r \in Results : Wait(r)
      \/ MainIn \/ WaitReturn \/ WaitSelect \/ WaitWrite \/ WouldBlock
      \/ EndOfFile \/ CallNotifier \/ \E keep \in BOOLEAN : CallbackReturn(keep)
      \/ UNCHANGED stack
  BY DEF Next, AppCall, Library, Server, SendMsg, NotifierSet, Unref, Disconnect,
     UnrefConnection, MainOut, ServerSend, ServerClose, vars
<1>2. QED
  BY <1>1, RunsKept DEF Running

\* A dispatch is pushed for the result that had asked.
LEMMA RunsDispatch ==
  ASSUME TypeOK, RefInv, CookieInv, Receive,
         NEW r \in Lookup(Head(down).cookie), Dispatch(r, Head(down))
  PROVE  /\ r \in Results /\ r = Head(down).res
         /\ \E f \in RunFrames :
              /\ stack' = Append(stack, f)
              /\ f.res = r /\ f.cur \in First(notifiers[r]) /\ ~f.calling
              /\ f.val = Head(down).payload
         /\ \A q \in Results : Cardinality(Running(q))' =
                                 Cardinality(Running(q)) + (IF q = r THEN 1 ELSE 0)
<1>1. /\ Head(down) \in Messages /\ Head(down) = down[1] /\ Len(down) >= 1
      /\ Len(down) \in Nat
  BY HeadTailProperties, LenProperties, EmptySeq DEF Receive, TypeOK
<1>2. r \in Results /\ r <= created /\ cookie[r] = Head(down).cookie
  BY DEF Lookup, WithCookie, TypeOK, RefInv
<1>3. Ours(Head(down).cookie, Head(down).res)
  BY <1>1 DEF CookieInv
<1>4. r = Head(down).res
  BY <1>2, <1>3 DEF Ours
<1>5. Head(down).payload \in Values \cup {Error}
  BY <1>1 DEF Dispatch, Parses, Messages
<1>6. PICK n \in First(notifiers[r]) :
        stack' = Append(stack,
          [kind |-> "run", res |-> r, cur |-> n, next |-> NoNode,
           calling |-> FALSE, given |-> Null, val |-> Head(down).payload,
           req |-> Head(down).res])
  BY DEF Dispatch
<1>7. n \in Nodes \cup {NoNode}
  BY <1>2, FirstType DEF TypeOK
<1> DEFINE f == [kind |-> "run", res |-> r, cur |-> n, next |-> NoNode,
                 calling |-> FALSE, given |-> Null, val |-> Head(down).payload,
                 req |-> Head(down).res]
<1>8. /\ f \in RunFrames /\ f \in Frames /\ f.kind = "run" /\ f.res = r
      /\ f.cur \in First(notifiers[r]) /\ ~f.calling /\ f.val = Head(down).payload
  BY <1>2, <1>4, <1>5, <1>6, <1>7 DEF Frames, RunFrames, Data
<1>9. stack' = Append(stack, f) /\ stack \in Seq(Frames)
  BY <1>6 DEF TypeOK
<1> HIDE DEF f
<1>10. \A q \in Results : /\ Cardinality(RunsOn(stack', q)) =
                               Cardinality(RunsOn(stack, q)) + (IF q = r THEN 1 ELSE 0)
                          /\ Cardinality(RunsOn(stack, q)) \in Nat
  BY <1>8, <1>9, RunsPush, RunsFinite
<1>11. QED
  BY <1>2, <1>4, <1>8, <1>9, <1>10 DEF Running

\* The dispatch on top of the stack ends.
LEMMA RunsEnd ==
  ASSUME TypeOK, TypeOK', RunFinish
  PROVE  \E r \in Results :
           /\ r = Top.res
           /\ Cardinality(Running(r)) = Cardinality(Running(r))' + 1
           /\ Cardinality(Running(r))' \in Nat
           /\ \A q \in Results : q # r => Cardinality(Running(q))' = Cardinality(Running(q))
<1>1. /\ TopIs("run") /\ Top \in RunFrames
      /\ stack \in Seq(Frames) /\ stack' \in Seq(Frames) /\ stack' = Pop
  BY TopFacts, FrameKinds DEF RunFinish, TopIs, TypeOK
<1>2. PICK r \in Results : r = Top.res
  BY <1>1 DEF RunFrames
<1>3. /\ Cardinality(RunsOn(stack, r)) = Cardinality(RunsOn(stack', r)) + 1
      /\ \A q \in Results : q # r => RunsOn(stack', q) = RunsOn(stack, q)
  BY <1>1, <1>2, RunsPopTop
<1>4. Cardinality(RunsOn(stack', r)) \in Nat
  BY <1>1, RunsFinite
<1>5. QED
  BY <1>2, <1>3, <1>4 DEF Running

LEMMA RunsNat ==
  ASSUME TypeOK, NEW q
  PROVE  Cardinality(Running(q)) \in Nat
  BY RunsFinite DEF TypeOK, Running

-----------------------------------------------------------------------------
(* The labels after a step.                                                 *)

LEMMA LabelStep ==
  ASSUME TypeOK, TypeOK', RefInv, CookieInv, LabelInv, [Next]_vars
  PROVE  LabelInv'
<1> USE DEF resultVars, ipcVars, connVars, appVars, netVars
<1> DEFINE RunsParsed == \A r \in Results : Cardinality(Running(r)) # 0 => parsed[r]
<1>1. CASE \E cls \in Classes : SendMsg(cls)
  <2>1. PICK cls \in ResultClasses, r \in Results :
          r = created + 1 /\ SendMsg(cls)
    BY <1>1, BoundsAssumption, DataAssumption DEF SendMsg, TypeOK, Results
  <2>2. /\ WriteRequest(r, cls)
        /\ class' = [class EXCEPT ![r] = cls]
        /\ cookie' = [cookie EXCEPT ![r] = NextId]
        /\ UNCHANGED <<atServer, down, stack, parsed>>
    BY <2>1 DEF SendMsg, NewResult
  <2>3. \A q \in Results : q <= created => class'[q] = class[q] /\ cookie'[q] = cookie[q]
    BY <2>1, <2>2 DEF TypeOK, Results
  <2>4. /\ \A m \in Queued \cup atServer : RequestOk(m)'
        /\ \A m \in Arriving : ReplyOk(m)'
    BY <2>3, LabelsKept
  <2> DEFINE m == [cookie |-> NextId, res |-> r, class |-> cls]
  <2>5. m.class = class'[r] /\ m.cookie = cookie'[r] /\ m.res = r
    BY <2>2 DEF TypeOK
  <2>6. Queued' = Queued \cup {m}
    BY <2>2, WriteFacts
  <2> HIDE DEF m
  <2>7. \A q \in Queued' \cup atServer' : RequestOk(q)'
    BY <2>2, <2>4, <2>5, <2>6 DEF RequestOk
  <2>8. \A q \in Arriving' : ReplyOk(q)'
    BY <2>2, <2>4 DEF Arriving
  <2>9. RunsParsed'
    BY <2>2 DEF LabelInv, Running
  <2>10. QED
    BY <2>2, <2>7, <2>8, <2>9 DEF LabelInv
<1>2. CASE RunFinish
  <2>1. PICK r \in Results :
           /\ r = Top.res
           /\ Cardinality(Running(r)) = Cardinality(Running(r))' + 1
           /\ Cardinality(Running(r))' \in Nat
           /\ \A q \in Results : q # r => Cardinality(Running(q))' = Cardinality(Running(q))
    BY <1>2, RunsEnd
  <2>2. UNCHANGED <<class, atServer, down, parsed>>
    BY <1>2 DEF RunFinish
  <2>3. \A q \in Results : Cardinality(Running(q))' # 0 => Cardinality(Running(q)) # 0
    BY <2>1
  <2>4. RunsParsed'
    BY <2>2, <2>3 DEF LabelInv
  <2>5. CASE class[r] = "signal" /\ Restart(r)
    <3>1. "signal" \in ResultClasses
      BY DEF ResultClasses
    <3>2. WriteRequest(r, "signal") /\ cookie' = [cookie EXCEPT ![r] = NextId]
      BY <2>5 DEF Restart
    <3>3. \A q \in Results : class[q] = "default" => cookie'[q] = cookie[q]
      BY <2>5, <3>2 DEF TypeOK
    <3>4. /\ \A m \in Queued \cup atServer : RequestOk(m)'
          /\ \A m \in Arriving : ReplyOk(m)'
      BY <2>2, <3>3, LabelsKept
    <3> DEFINE m == [cookie |-> NextId, res |-> r, class |-> "signal"]
    <3>5. m.class = "signal" /\ m.res = r
      OBVIOUS
    <3>6. Queued' = Queued \cup {m}
      BY <3>1, <3>2, WriteFacts
    <3> HIDE DEF m
    <3>7. \A q \in Queued' \cup atServer' : RequestOk(q)'
      BY <2>2, <2>5, <3>4, <3>5, <3>6 DEF RequestOk
    <3>8. \A q \in Arriving' : ReplyOk(q)'
      BY <2>2, <3>4 DEF Arriving
    <3>9. QED
      BY <2>2, <2>4, <3>7, <3>8 DEF LabelInv
  <2>6. CASE UNCHANGED <<outMsg, sent, cookie>>
    <3>1. /\ \A m \in Queued \cup atServer : RequestOk(m)'
          /\ \A m \in Arriving : ReplyOk(m)'
      BY <2>2, <2>6, LabelsKept
    <3>2. QED
      BY <2>2, <2>4, <2>6, <3>1 DEF LabelInv, Queued, Arriving
  <2>7. QED
    BY <1>2, <2>1, <2>5, <2>6 DEF RunFinish
<1>3. CASE Receive
  <2>1. UNCHANGED <<class, cookie, outMsg, atServer>>
    BY <1>3 DEF Receive
  <2>2. /\ \A m \in Queued \cup atServer : RequestOk(m)'
        /\ \A m \in Arriving : ReplyOk(m)'
    BY <2>1, LabelsKept
  <2>3. Arriving' \subseteq Arriving
    <3>1. /\ Len(down) \in Nat /\ Len(down) >= 1 /\ down' = Tail(down)
          /\ Len(Tail(down)) = Len(down) - 1
          /\ \A i \in 1..Len(down) - 1 : Tail(down)[i] = down[i + 1]
      BY <1>3, HeadTailProperties, LenProperties, EmptySeq DEF Receive, TypeOK
    <3>2. ASSUME NEW i \in 1..Len(down') PROVE down'[i] \in Arriving
      <4>1. i + 1 \in 1..Len(down) /\ down'[i] = down[i + 1]
        BY <3>1
      <4>2. QED
        BY <4>1 DEF Arriving
    <3>3. QED
      BY <3>2 DEF Arriving
  <2>4. RunsParsed'
    <3>1. CASE UNCHANGED <<ref, parsed, data, stack>>
      BY <3>1 DEF LabelInv, Running
    <3>2. ASSUME NEW r \in Lookup(Head(down).cookie), Dispatch(r, Head(down))
          PROVE  RunsParsed'
      <4>1. /\ r \in Results
            /\ \A q \in Results : Cardinality(Running(q))' =
                                    Cardinality(Running(q)) + (IF q = r THEN 1 ELSE 0)
        BY <1>3, <3>2, RunsDispatch
      <4>2. parsed' = [parsed EXCEPT ![r] = TRUE]
        BY <3>2 DEF Dispatch, Store
      <4>3. ASSUME NEW q \in Results, Cardinality(Running(q))' # 0 PROVE parsed'[q]
        <5>1. CASE q = r
          BY <4>2, <5>1 DEF TypeOK
        <5>2. CASE q # r
          <6>1. Cardinality(Running(q)) \in Nat
            BY RunsNat
          <6>2. Cardinality(Running(q)) # 0
            BY <4>1, <4>3, <5>2, <6>1
          <6>3. parsed[q] /\ parsed'[q] = parsed[q]
            BY <4>2, <5>2, <6>2 DEF LabelInv, TypeOK
          <6>4. QED
            BY <6>3
        <5>3. QED
          BY <5>1, <5>2
      <4>4. QED
        BY <4>3
    <3>3. QED
      BY <1>3, <3>1, <3>2 DEF Receive
  <2>5. QED
    BY <2>1, <2>2, <2>3, <2>4 DEF LabelInv, Queued
<1>4. CASE ~Receive /\ ~RunFinish /\ UNCHANGED <<class, cookie, parsed>>
  <2>1. /\ \A m \in Queued \cup atServer : RequestOk(m)'
        /\ \A m \in Arriving : ReplyOk(m)'
    BY <1>4, LabelsKept
  <2>2. RunsParsed'
    BY <1>4, RunsOtherwise DEF LabelInv
  <2>3. ASSUME UNCHANGED down, IoOut \/ (UNCHANGED outMsg /\ atServer' = atServer)
        PROVE  LabelInv'
    <3>1. Queued' \subseteq Queued /\ atServer' \subseteq Queued \cup atServer
          /\ IsFiniteSet(atServer')
      BY <2>3, OutFacts DEF Queued, LabelInv
    <3>2. QED
      BY <2>1, <2>2, <2>3, <3>1 DEF LabelInv, Arriving
  <2>4. CASE MainOut \/ WaitWrite
    BY <2>3, <2>4 DEF MainOut, WaitWrite
  <2>5. CASE ServerClose
    <3>1. UNCHANGED <<outMsg, down>> /\ atServer' = {}
      BY <2>5 DEF ServerClose
    <3>2. QED
      BY <2>1, <2>2, <3>1, FS_EmptySet DEF LabelInv, Queued, Arriving
  <2>6. ASSUME NEW req \in atServer, ServerSend(req) PROVE LabelInv'
    <3>1. PICK p \in Payloads :
            down' = Append(down, [cookie |-> req.cookie, res |-> req.res, payload |-> p])
      BY <2>6 DEF ServerSend
    <3> DEFINE m == [cookie |-> req.cookie, res |-> req.res, payload |-> p]
    <3>2. m \in Messages /\ m.cookie = req.cookie /\ m.res = req.res /\ m.payload = p
      BY DataAssumption DEF Messages, Requests, TypeOK
    <3>3. down' = Append(down, m)
      BY <3>1
    <3> HIDE DEF m
    <3>4. /\ Len(down) \in Nat /\ Len(down') = Len(down) + 1
          /\ down'[Len(down) + 1] = m
          /\ \A i \in 1..Len(down) : down'[i] = down[i]
      BY <3>2, <3>3, LenProperties, AppendProperties DEF TypeOK
    <3>5. Arriving' \subseteq Arriving \cup {m}
      <4>1. ASSUME NEW i \in 1..Len(down') PROVE down'[i] \in Arriving \cup {m}
        <5>1. i = Len(down) + 1 \/ i \in 1..Len(down)
          BY <3>4
        <5>2. QED
          BY <3>4, <5>1 DEF Arriving
      <4>2. QED
        BY <4>1 DEF Arriving
    <3>6. ReplyOk(m)'
      BY <1>4, <3>1, <3>2 DEF LabelInv, RequestOk, ReplyOk, m
    <3>7. UNCHANGED outMsg /\ atServer' \subseteq atServer
      BY <2>6 DEF ServerSend
    <3>8. IsFiniteSet(atServer')
      BY <3>7, FS_Subset DEF LabelInv
    <3>9. QED
      BY <2>1, <2>2, <3>5, <3>6, <3>7, <3>8 DEF LabelInv, Queued
  <2>7. CASE UNCHANGED <<outMsg, atServer, down>>
    BY <2>3, <2>7
  <2>8. CASE \/ \E r \in Results : NotifierSet(r) \/ Unref(r) \/ Disconnect(r) \/ Wait(r)
             \/ UnrefConnection \/ MainIn \/ WaitReturn \/ WaitSelect
             \/ WouldBlock \/ EndOfFile \/ CallNotifier
             \/ \E keep \in BOOLEAN : CallbackReturn(keep)
             \/ UNCHANGED vars
    BY <2>7, <2>8 DEF NotifierSet, Unref, Disconnect, Wait, UnrefConnection, MainIn,
       WaitReturn, WaitSelect, WouldBlock, EndOfFile, CallNotifier, CallbackReturn, vars
  <2>9. QED
    BY <1>1, <1>4, <2>4, <2>5, <2>6, <2>8 DEF Next, AppCall, Library, Server
<1>5. UNCHANGED <<class, cookie, parsed>> \/ RunFinish \/ Receive
      \/ \E cls \in Classes : SendMsg(cls)
  BY DEF Next, AppCall, Library, Server, NotifierSet, Unref, Disconnect,
     Wait, UnrefConnection, MainIn, MainOut, WaitReturn, WaitSelect, WaitWrite,
     WouldBlock, EndOfFile, CallNotifier, CallbackReturn, ServerSend, ServerClose, vars
<1>6. QED
  BY <1>1, <1>2, <1>3, <1>4, <1>5

-----------------------------------------------------------------------------
(* Each request is answered once.                                           *)

\* How often result r is under way: as a request, a reply or a dispatch.
UnderWay(r) == InFlight(r) + Cardinality(Running(r))

LEMMA UnderWayFacts ==
  ASSUME TypeOK, IsFiniteSet(atServer), NEW r
  PROVE  /\ Cardinality(About(outMsg, r)) \in Nat
         /\ Cardinality(AtServer(r)) \in Nat /\ IsFiniteSet(AtServer(r))
         /\ Cardinality(About(down, r)) \in Nat
         /\ Cardinality(Running(r)) \in Nat
         /\ UnderWay(r) = Cardinality(About(outMsg, r)) + Cardinality(AtServer(r))
                          + Cardinality(About(down, r)) + Cardinality(Running(r))
<1>1. Cardinality(About(outMsg, r)) \in Nat /\ Cardinality(About(down, r)) \in Nat
  BY AboutFinite DEF TypeOK
<1>2. AtServer(r) \subseteq atServer
  BY DEF AtServer
<1>3. IsFiniteSet(AtServer(r)) /\ Cardinality(AtServer(r)) \in Nat
  BY <1>2, FS_Subset, FS_CardinalityType
<1>4. InFlight(r) = Cardinality(About(outMsg, r)) + Cardinality(AtServer(r))
                    + Cardinality(About(down, r))
  BY DEF InFlight, About, AtServer
<1>5. QED
  BY <1>1, <1>3, <1>4, RunsNat DEF UnderWay

UnderWayTyped ==
  IsFiniteSet(atServer) => \A r \in Results : UnderWay(r) \in Nat

LEMMA UnderWayNat == TypeOK => UnderWayTyped
<1>1. ASSUME TypeOK, IsFiniteSet(atServer), NEW r PROVE UnderWay(r) \in Nat
  BY <1>1, UnderWayFacts
<1>2. QED
  BY <1>1 DEF UnderWayTyped

\* A result that was not created yet is not under way.
LEMMA NotUnderWay ==
  ASSUME TypeOK, RefInv, CookieInv, NEW r \in Results, r > created
  PROVE  /\ About(outMsg, r) = {} /\ AtServer(r) = {} /\ About(down, r) = {}
         /\ Running(r) = {}
<1>1. r \in Int /\ created \in Int
  BY DEF TypeOK, Results
<1>2. ASSUME NEW m \in Queued \cup atServer \cup Arriving PROVE m.res # r
  <2>1. m.res <= created /\ m.res \in Int
    BY QueueTypes, AboutCreated DEF TypeOK, Requests, Messages, Results
  <2>2. QED
    BY <1>1, <2>1
<1>3. About(outMsg, r) = {} /\ AtServer(r) = {} /\ About(down, r) = {}
  BY <1>2 DEF About, AtServer, Queued, Arriving
<1>4. ref[r] = 0
  BY DEF RefInv
<1>5. Running(r) = {}
  BY <1>4, OwnersFacts DEF RefInv
<1>6. QED
  BY <1>3, <1>5

\* Writing moves requests from the queue to the server, or loses them.
LEMMA FlightOut ==
  ASSUME TypeOK, IsFiniteSet(atServer), IoOut, NEW r
  PROVE  LET n == Cardinality(About(outMsg, r)) + Cardinality(AtServer(r))
         IN  /\ n' <= n
             /\ ~closed /\ n <= 1 => n' = n
<1>1. PICK k \in 0..Len(outMsg) :
        /\ outMsg' = SubSeq(outMsg, k + 1, Len(outMsg))
        /\ atServer' = IF closed THEN atServer
                       ELSE atServer \cup {outMsg[i] : i \in 1..k}
  BY DEF IoOut, Unwritten
<1> DEFINE P == Leading(outMsg, k, r)
           T == MessagesAt(outMsg, P)
           a == Cardinality(About(outMsg, r))
           b == Cardinality(AtServer(r))
<1>2. outMsg \in Seq(Requests) /\ outMsg' \in Seq(Requests)
  BY IoOutType DEF TypeOK
<1>3. PICK t \in Seq(Requests) :
        /\ t = outMsg' /\ Len(t) = Len(outMsg) - k
        /\ \A i \in 1..Len(t) : t[i] = outMsg[k + i]
  BY <1>1, <1>2, SuffixFacts
<1>4. /\ IsFiniteSet(P) /\ Cardinality(P) \in Nat
      /\ a = Cardinality(P) + Cardinality(About(outMsg', r))
      /\ Cardinality(About(outMsg', r)) \in Nat
  <2>1. /\ IsFiniteSet(Leading(outMsg, k, r)) /\ Cardinality(Leading(outMsg, k, r)) \in Nat
        /\ Cardinality(About(outMsg, r)) =
             Cardinality(Leading(outMsg, k, r)) + Cardinality(About(t, r))
    <3>1. outMsg \in Seq(Requests) /\ t \in Seq(Requests) /\ Len(t) = Len(outMsg) - k
      BY <1>2, <1>3
    <3>2. \A i \in 1..Len(t) : t[i] = outMsg[k + i]
      BY <1>3
    <3> HIDE DEF P, T, a, b
    <3>3. QED
      BY <3>1, <3>2, AboutSplit
  <2>2. Cardinality(About(t, r)) \in Nat
    BY AboutFinite
  <2>3. QED
    BY <1>3, <2>1, <2>2
<1>5. /\ IsFiniteSet(T) /\ Cardinality(T) \in Nat
      /\ Cardinality(T) <= Cardinality(P)
  BY <1>4, ImageFinite
<1>6. a \in Nat /\ b \in Nat /\ IsFiniteSet(AtServer(r))
  BY UnderWayFacts
<1>7. a' = Cardinality(About(outMsg', r))
  OBVIOUS
<1>8. CASE closed
  <2>1. b' = b
    BY <1>1, <1>8 DEF AtServer
  <2> HIDE DEF P, T, a, b
  <2>2. QED
    BY <1>4, <1>6, <1>7, <1>8, <2>1 DEF a, b
<1>9. CASE ~closed
  <2>1. AtServer(r)' = AtServer(r) \cup T
    BY <1>1, <1>9 DEF AtServer, MessagesAt, Leading
  <2> HIDE DEF P, T
  <2>2. /\ Cardinality(AtServer(r) \cup T) =
             Cardinality(AtServer(r)) + Cardinality(T) - Cardinality(AtServer(r) \cap T)
        /\ Cardinality(AtServer(r) \cap T) \in Nat
    BY <1>5, <1>6, FS_Union, FS_Intersection, FS_CardinalityType
  <2>3. b' = b + Cardinality(T) - Cardinality(AtServer(r) \cap T)
    BY <2>1, <2>2
  <2>4. ASSUME a + b <= 1 PROVE a' + b' = a + b
    <3>1. CASE Cardinality(P) = 0
      <4>1. Cardinality(T) = 0
        BY <1>5, <3>1
      <4>2. T = {}
        BY <1>5, <4>1, FS_EmptySet
      <4>3. Cardinality(AtServer(r) \cap T) = 0
        BY <4>2, FS_EmptySet
      <4>4. QED
        BY <1>4, <1>6, <1>7, <2>3, <3>1, <4>1, <4>3
    <3>2. CASE Cardinality(P) # 0
      <4>1. Cardinality(P) = 1 /\ b = 0 /\ a = 1
        BY <1>4, <1>6, <2>4, <3>2
      <4>2. AtServer(r) = {} /\ P # {}
        BY <1>4, <1>6, <3>2, <4>1, FS_EmptySet
      <4>3. T # {}
        BY <4>2 DEF T, MessagesAt
      <4>4. Cardinality(T) # 0 /\ Cardinality(AtServer(r) \cap T) = 0
        BY <1>5, <4>2, <4>3, FS_EmptySet
      <4>5. QED
        BY <1>4, <1>5, <1>7, <2>3, <4>1, <4>4
    <3>3. QED
      BY <3>1, <3>2
  <2>5. a' + b' <= a + b
    BY <1>4, <1>5, <1>6, <1>7, <2>2, <2>3
  <2>6. QED
    BY <2>4, <2>5
<1>10. QED
  BY <1>8, <1>9

\* What ExactlyOnce says of one result.
Once(r) ==
  Live(r) /\ class[r] # "broadcast" =>
    /\ UnderWay(r) <= 1
    /\ class[r] = "default" /\ ~parsed[r] /\ ~closed /\ Garbage \notin Payloads
         => UnderWay(r) = 1

AllOnce == \A r \in Results : Once(r)

LEMMA OnceIsExactlyOnce == ExactlyOnce <=> AllOnce
  BY DEF ExactlyOnce, AllOnce, Once, UnderWay

\* A result stays as often under way, or, when no answer to it is owed, becomes
\* less often so.
OnceKept(r) ==
  /\ UnderWay(r)' <= UnderWay(r)
  /\ Live(r) /\ class[r] = "default" /\ ~parsed'[r] /\ ~closed' /\ Garbage \notin Payloads
       => (UnderWay(r) <= 1 => UnderWay(r)' = UnderWay(r))

LEMMA DropRefLives ==
  ASSUME TypeOK, NEW r \in Results, DropRef(r)
  PROVE  \A q \in Results : Live(q)' => Live(q)
<1>1. CASE ref[r] = 1
  BY <1>1 DEF DropRef, FreeResult, Live, TypeOK
<1>2. CASE ref[r] # 1
  BY <1>2 DEF DropRef, Live
<1>3. QED
  BY <1>1, <1>2

\* No result comes to life but a new one, none changes its class, and neither an
\* answer nor the end of the connection is taken back.
LEMMA Forward ==
  ASSUME TypeOK, [Next]_vars, NEW q \in Results, ~\E cls \in Classes : SendMsg(cls)
  PROVE  /\ Live(q)' => Live(q)
         /\ class'[q] = class[q]
         /\ ~parsed'[q] => ~parsed[q]
         /\ ~closed' => ~closed
<1> USE DEF resultVars, ipcVars, connVars, appVars, netVars
<1>1. ASSUME NEW r \in Results, Unref(r) \/ Disconnect(r)
      PROVE  (Live(q)' => Live(q)) /\ UNCHANGED <<class, parsed, closed>>
  BY <1>1, DropRefLives DEF Unref, Disconnect
<1>2. CASE Receive
  <2>1. UNCHANGED <<phase, class, closed>>
    BY <1>2 DEF Receive
  <2>2. ASSUME NEW r \in Lookup(Head(down).cookie), Dispatch(r, Head(down))
        PROVE  ~parsed'[q] => ~parsed[q]
    BY <2>2 DEF Dispatch, Store, TypeOK
  <2>3. ~parsed'[q] => ~parsed[q]
    BY <1>2, <2>2 DEF Receive
  <2>4. QED
    BY <2>1, <2>3 DEF Live
<1>3. ASSUME NEW keep \in BOOLEAN, CallbackReturn(keep)
      PROVE  (Live(q)' => Live(q)) /\ UNCHANGED <<class, parsed, closed>>
  <2>1. Top.res \in Results
    BY <1>3, TopFacts, FrameKinds DEF CallbackReturn, TypeOK, RunFrames
  <2>2. DropRef(Top.res) \/ UNCHANGED phase
    BY <1>3 DEF CallbackReturn, DeleteNode
  <2>3. QED
    BY <1>3, <2>1, <2>2, DropRefLives DEF CallbackReturn, Live
<1>4. CASE RunFinish
  <2>1. Top.res \in Results
    BY <1>4, TopFacts, FrameKinds DEF RunFinish, TypeOK, RunFrames
  <2>2. DropRef(Top.res) /\ UNCHANGED <<class, parsed, closed>>
    BY <1>4 DEF RunFinish
  <2>3. QED
    BY <2>1, <2>2, DropRefLives
<1>5. CASE UNCHANGED <<phase, class, parsed>> /\ (~closed' => ~closed)
  BY <1>5 DEF Live
<1>6. CASE \/ \E r \in Results : NotifierSet(r) \/ Wait(r)
           \/ UnrefConnection \/ MainIn \/ MainOut \/ WaitReturn \/ WaitSelect
           \/ WaitWrite \/ WouldBlock \/ EndOfFile \/ CallNotifier \/ UNCHANGED vars
  <2>1. UNCHANGED <<phase, class, parsed, closed>>
    BY <1>6 DEF NotifierSet, Wait, UnrefConnection, MainIn, MainOut, WaitReturn,
       WaitSelect, WaitWrite, WouldBlock, EndOfFile, CallNotifier, vars
  <2>2. QED
    BY <1>5, <2>1
<1>7. CASE Server
  <2>1. UNCHANGED <<phase, class, parsed>> /\ (closed' = closed \/ closed' = TRUE)
    BY <1>7 DEF Server, ServerSend, ServerClose
  <2>2. QED
    BY <1>5, <2>1
<1>8. QED
  BY <1>1, <1>2, <1>3, <1>4, <1>6, <1>7 DEF Next, AppCall, Library

\* The invariant is kept when every result that is not new is kept as often
\* under way.
LEMMA OnceFromKept ==
  ASSUME TypeOK, TypeOK', [Next]_vars, IsFiniteSet(atServer), IsFiniteSet(atServer)',
         ExactlyOnce,
         ~\E cls \in Classes : SendMsg(cls), \A r \in Results : class[r] # "broadcast" => OnceKept(r)
  PROVE  ExactlyOnce'
<1>1. ASSUME NEW r \in Results PROVE Once(r)'
  <2>1. SUFFICES ASSUME Live(r)', class'[r] # "broadcast" PROVE Once(r)'
    BY DEF Once
  <2>2. /\ Live(r) /\ class'[r] = class[r]
        /\ ~parsed'[r] => ~parsed[r]
        /\ ~closed' => ~closed
    BY <2>1, Forward
  <2>3. Once(r) /\ OnceKept(r)
    BY <2>1, <2>2, OnceIsExactlyOnce DEF AllOnce
  <2>4. UnderWay(r) \in Nat /\ UnderWay(r) <= 1
    BY <2>1, <2>2, <2>3, UnderWayFacts DEF Once
  <2>5. UnderWay(r)' <= UnderWay(r)
    BY <2>3 DEF OnceKept
  <2>6. ASSUME class'[r] = "default", ~parsed'[r], ~closed', Garbage \notin Payloads
        PROVE  UnderWay(r)' = 1
    <3>1. UnderWay(r) = 1
      BY <2>2, <2>3, <2>6 DEF Once
    <3>2. UnderWay(r)' = UnderWay(r)
      BY <2>2, <2>3, <2>4, <2>6 DEF OnceKept
    <3>3. QED
      BY <3>1, <3>2
  <2>7. UnderWay(r)' <= 1
    <3>1. TypeOK' => UnderWayTyped'
      BY UnderWayNat, PTL
    <3>2. UnderWay(r)' \in Nat
      BY <3>1 DEF UnderWayTyped
    <3>3. QED
      BY <2>4, <2>5, <3>2
  <2>8. QED
    BY <2>6, <2>7 DEF Once
<1>2. AllOnce' => ExactlyOnce'
  BY OnceIsExactlyOnce, PTL
<1>3. QED
  BY <1>1, <1>2 DEF AllOnce

LEMMA UnderWayNext ==
  ASSUME TypeOK', IsFiniteSet(atServer'), NEW r
  PROVE  /\ Cardinality(About(outMsg', r)) \in Nat
         /\ Cardinality(AtServer(r))' \in Nat
         /\ Cardinality(About(down', r)) \in Nat
         /\ Cardinality(Running(r))' \in Nat
         /\ UnderWay(r)' = Cardinality(About(outMsg', r)) + Cardinality(AtServer(r))'
                           + Cardinality(About(down', r)) + Cardinality(Running(r))'
<1>1. Cardinality(About(outMsg', r)) \in Nat /\ Cardinality(About(down', r)) \in Nat
  BY AboutFinite DEF TypeOK
<1>2. AtServer(r)' \subseteq atServer'
  BY DEF AtServer
<1>3. Cardinality(AtServer(r))' \in Nat
  BY <1>2, FS_Subset, FS_CardinalityType
<1>4. InFlight(r)' = Cardinality(About(outMsg', r)) + Cardinality(AtServer(r))'
                     + Cardinality(About(down', r))
  BY DEF InFlight, About, AtServer
<1>5. Cardinality(Running(r))' \in Nat
  BY RunsFinite DEF TypeOK, Running
<1>6. QED
  BY <1>1, <1>3, <1>4, <1>5 DEF UnderWay

\* A step that changes neither the queues nor the dispatches.
LEMMA OnceSame ==
  ASSUME NEW r \in Results, UNCHANGED <<outMsg, atServer, down>>,
         Cardinality(Running(r))' = Cardinality(Running(r))
  PROVE  UnderWay(r)' = UnderWay(r)
  BY DEF UnderWay, InFlight

\* The first request of a new result.
LEMMA OnceSend ==
  ASSUME TypeOK, TypeOK', RefInv, CookieInv, LabelInv, ExactlyOnce,
         NEW cls \in Classes, SendMsg(cls)
  PROVE  ExactlyOnce'
<1> USE DEF resultVars, ipcVars, connVars, appVars, netVars
<1>1. PICK r \in Results : r = created + 1 /\ cls \in ResultClasses
  BY BoundsAssumption, DataAssumption DEF SendMsg, TypeOK, Results
<1>2. /\ WriteRequest(r, cls)
      /\ phase' = [phase EXCEPT ![r] = "live"]
      /\ class' = [class EXCEPT ![r] = cls]
      /\ UNCHANGED <<atServer, down, closed, stack, parsed>>
  BY <1>1 DEF SendMsg, NewResult
<1>3. \A q : Cardinality(About(outMsg', q)) =
               Cardinality(About(outMsg, q)) + (IF q = r THEN 1 ELSE 0)
  BY <1>1, <1>2, WriteFacts
<1>4. IsFiniteSet(atServer) /\ IsFiniteSet(atServer')
  BY <1>2 DEF LabelInv
<1>5. ASSUME NEW q \in Results PROVE Once(q)'
  <2>1. /\ UnderWay(q) = Cardinality(About(outMsg, q)) + Cardinality(AtServer(q))
                         + Cardinality(About(down, q)) + Cardinality(Running(q))
        /\ UnderWay(q)' = Cardinality(About(outMsg', q)) + Cardinality(AtServer(q))
                         + Cardinality(About(down, q)) + Cardinality(Running(q))
        /\ Cardinality(About(outMsg, q)) \in Nat
    <3>1. AtServer(q)' = AtServer(q) /\ Running(q)' = Running(q) /\ down' = down
      BY <1>2 DEF AtServer, Running
    <3>2. QED
      BY <1>4, <3>1, UnderWayFacts, UnderWayNext
  <2>2. CASE q = r
    <3>1. q > created
      BY <1>1, <2>2 DEF TypeOK
    <3>2. /\ About(outMsg, q) = {} /\ AtServer(q) = {} /\ About(down, q) = {}
          /\ Running(q) = {}
      BY <3>1, NotUnderWay
    <3>3. UnderWay(q)' = 1
      <4>1. /\ Cardinality(About(outMsg, q)) = 0 /\ Cardinality(AtServer(q)) = 0
            /\ Cardinality(About(down, q)) = 0 /\ Cardinality(Running(q)) = 0
        BY <3>2, FS_EmptySet
      <4>2. Cardinality(About(outMsg', q)) = 0 + 1
        BY <1>3, <2>2, <4>1
      <4>3. QED
        BY <2>1, <4>1, <4>2
    <3>4. QED
      BY <3>3 DEF Once
  <2>3. CASE q # r
    <3>1. Cardinality(About(outMsg', q)) = Cardinality(About(outMsg, q))
      BY <1>3, <2>1, <2>3
    <3>2. UnderWay(q)' = UnderWay(q)
      BY <2>1, <3>1
    <3>3. /\ Live(q)' <=> Live(q)
          /\ class'[q] = class[q] /\ parsed'[q] = parsed[q] /\ closed' = closed
      BY <1>2, <2>3 DEF Live, TypeOK
    <3>4. Once(q)
      BY OnceIsExactlyOnce DEF AllOnce
    <3>5. QED
      BY <3>2, <3>3, <3>4 DEF Once
  <2>4. QED
    BY <2>2, <2>3
<1>6. AllOnce' => ExactlyOnce'
  BY OnceIsExactlyOnce, PTL
<1>7. QED
  BY <1>5, <1>6 DEF AllOnce

\* A signal is requested again when its dispatch ends; a command is not, but it
\* has been answered.
LEMMA OnceFinish ==
  ASSUME TypeOK, TypeOK', LabelInv, RunFinish, NEW q \in Results
  PROVE  OnceKept(q)
<1> USE DEF resultVars, ipcVars, connVars, appVars, netVars
<1>1. PICK r \in Results :
         /\ r = Top.res
         /\ Cardinality(Running(r)) = Cardinality(Running(r))' + 1
         /\ Cardinality(Running(r))' \in Nat
         /\ \A p \in Results : p # r => Cardinality(Running(p))' = Cardinality(Running(p))
  BY RunsEnd
<1>2. UNCHANGED <<class, atServer, down, parsed>>
  BY DEF RunFinish
<1>3. IsFiniteSet(atServer) /\ IsFiniteSet(atServer')
  BY <1>2 DEF LabelInv
<1> DEFINE a == Cardinality(About(outMsg, q))
           aa == Cardinality(About(outMsg', q))
           n == Cardinality(AtServer(q)) + Cardinality(About(down, q))
           x == Cardinality(Running(q))
           xx == Cardinality(Running(q))'
<1>4. /\ a \in Nat /\ aa \in Nat /\ n \in Nat /\ x \in Nat /\ xx \in Nat
      /\ UnderWay(q) = a + n + x /\ UnderWay(q)' = aa + n + xx
  <2>1. AtServer(q)' = AtServer(q) /\ down' = down
    BY <1>2 DEF AtServer
  <2>2. QED
    BY <1>3, <2>1, UnderWayFacts, UnderWayNext
<1>5. CASE class[r] = "signal" /\ Restart(r)
  <2>1. "signal" \in ResultClasses /\ WriteRequest(r, "signal")
    BY <1>5 DEF ResultClasses, Restart
  <2>2. aa = a + (IF q = r THEN 1 ELSE 0)
    BY <2>1, WriteFacts
  <2>3. x = xx + (IF q = r THEN 1 ELSE 0)
    BY <1>1, <1>4
  <2> HIDE DEF a, aa, n, x, xx
  <2>4. UnderWay(q)' = UnderWay(q)
    BY <1>4, <2>2, <2>3
  <2>5. UnderWay(q) \in Nat
    BY <1>4
  <2>6. QED
    BY <2>4, <2>5 DEF OnceKept
<1>6. CASE UNCHANGED outMsg
  <2>1. aa = a
    BY <1>6
  <2>2. CASE q = r
    <3>1. x = xx + 1 /\ x # 0
      BY <1>1, <1>4, <2>2
    <3>2. parsed'[q]
      BY <1>2, <3>1 DEF LabelInv
    <3> HIDE DEF a, aa, n, x, xx
    <3>3. UnderWay(q)' <= UnderWay(q)
      BY <1>4, <2>1, <3>1
    <3>4. QED
      BY <3>2, <3>3 DEF OnceKept
  <2>3. CASE q # r
    <3>1. x = xx
      BY <1>1, <2>3
    <3> HIDE DEF a, aa, n, x, xx
    <3>2. UnderWay(q)' = UnderWay(q) /\ UnderWay(q) \in Nat
      BY <1>4, <2>1, <3>1
    <3>3. QED
      BY <3>2 DEF OnceKept
  <2>4. QED
    BY <2>2, <2>3
<1>7. QED
  BY <1>1, <1>5, <1>6 DEF RunFinish

\* A reply becomes a dispatch; it is dropped only when nobody waits for it.
LEMMA OnceReceive ==
  ASSUME TypeOK, TypeOK', RefInv, CookieInv, LiveInv, LabelInv, Receive,
         NEW q \in Results
  PROVE  OnceKept(q)
<1> USE DEF resultVars, ipcVars, connVars, appVars, netVars
<1> DEFINE msg == Head(down)
<1>1. /\ msg \in Messages /\ msg = down[1] /\ Len(down) \in Nat
      /\ Len(down) >= 1 /\ down' \in Seq(Messages) /\ Len(down') = Len(down) - 1
      /\ \A i \in 1..Len(down) - 1 : down'[i] = down[i + 1]
  BY HeadTailProperties, LenProperties, EmptySeq DEF Receive, TypeOK
<1>2. UNCHANGED <<outMsg, atServer, class, cookie, phase, closed, resultsList>>
  BY DEF Receive
<1>3. IsFiniteSet(atServer) /\ IsFiniteSet(atServer')
  BY <1>2 DEF LabelInv
<1> DEFINE n == Cardinality(About(outMsg, q)) + Cardinality(AtServer(q))
           a == Cardinality(About(down, q))
           aa == Cardinality(About(down', q))
           x == Cardinality(Running(q))
           xx == Cardinality(Running(q))'
<1>4. /\ a \in Nat /\ aa \in Nat /\ n \in Nat /\ x \in Nat /\ xx \in Nat
      /\ UnderWay(q) = n + a + x /\ UnderWay(q)' = n + aa + xx
  <2>1. AtServer(q)' = AtServer(q) /\ outMsg' = outMsg
    BY <1>2 DEF AtServer
  <2>2. QED
    BY <1>3, <2>1, UnderWayFacts, UnderWayNext
<1>5. a = aa + (IF msg.res = q THEN 1 ELSE 0)
  <2>1. down \in Seq(Messages)
    BY DEF TypeOK
  <2>2. PICK t \in Seq(Messages) :
          /\ t = down' /\ Len(t) = Len(down) - 1
          /\ \A i \in 1..Len(down) - 1 : t[i] = down[i + 1]
    BY <1>1
  <2>3. Cardinality(About(down, q)) =
          Cardinality(About(t, q)) + (IF down[1].res = q THEN 1 ELSE 0)
    BY <1>1, <2>1, <2>2, AboutTail
  <2>4. QED
    BY <1>1, <2>2, <2>3
<1>6. CASE (Lookup(msg.cookie) = {} \/ ~Parses(msg)) /\ UNCHANGED stack
  <2>1. xx = x
    BY <1>6 DEF Running
  <2>2. CASE msg.res = q
    <3>1. ASSUME Live(q), class[q] = "default", Garbage \notin Payloads PROVE FALSE
      <4>1. msg \in Arriving /\ ReplyOk(msg)
        BY <1>1 DEF LabelInv, Arriving
      <4>2. msg.cookie = cookie[q] /\ Parses(msg)
        BY <2>2, <3>1, <4>1 DEF ReplyOk, Parses
      <4>3. Lookup(cookie[q]) = {q}
        BY <3>1, LookupFacts DEF LiveInv
      <4>4. QED
        BY <1>6, <4>2, <4>3
    <3> HIDE DEF n, a, aa, x, xx
    <3>2. UnderWay(q)' <= UnderWay(q)
      BY <1>4, <1>5, <2>1, <2>2
    <3>3. QED
      BY <3>1, <3>2 DEF OnceKept
  <2>3. CASE msg.res # q
    <3> HIDE DEF n, a, aa, x, xx, msg
    <3>1. UnderWay(q)' = UnderWay(q) /\ UnderWay(q) \in Nat
      BY <1>4, <1>5, <2>1, <2>3
    <3>2. QED
      BY <3>1 DEF OnceKept
  <2>4. QED
    BY <2>2, <2>3
<1>7. ASSUME NEW r \in Lookup(msg.cookie), Dispatch(r, msg) PROVE OnceKept(q)
  <2>1. r = msg.res /\ xx = x + (IF q = r THEN 1 ELSE 0)
    BY <1>7, RunsDispatch
  <2> HIDE DEF n, a, aa, x, xx, msg
  <2>2. UnderWay(q)' = UnderWay(q) /\ UnderWay(q) \in Nat
    BY <1>4, <1>5, <2>1
  <2>3. QED
    BY <2>2 DEF OnceKept
<1>8. QED
  BY <1>6, <1>7 DEF Receive

\* What is written arrives at the server, unless the connection is closed.
LEMMA OnceOut ==
  ASSUME TypeOK, TypeOK', LabelInv, LabelInv', IoOut \/ UNCHANGED <<outMsg, atServer>>,
         UNCHANGED <<down, closed>>, NEW q \in Results,
         Cardinality(Running(q))' = Cardinality(Running(q))
  PROVE  OnceKept(q)
<1>1. IsFiniteSet(atServer) /\ IsFiniteSet(atServer')
  BY DEF LabelInv
<1> DEFINE m == Cardinality(About(outMsg, q)) + Cardinality(AtServer(q))
           mm == Cardinality(About(outMsg', q)) + Cardinality(AtServer(q)')
           n == Cardinality(About(down, q)) + Cardinality(Running(q))
<1>2. /\ m \in Nat /\ mm \in Nat /\ n \in Nat
      /\ UnderWay(q) = m + n /\ UnderWay(q)' = mm + n
  BY <1>1, UnderWayFacts, UnderWayNext
<1>3. mm <= m /\ (~closed /\ m <= 1 => mm = m)
  <2>1. CASE IoOut
    BY <1>1, <2>1, FlightOut
  <2>2. CASE UNCHANGED <<outMsg, atServer>>
    <3>1. mm = m
      BY <2>2 DEF AtServer
    <3>2. QED
      BY <1>2, <3>1
  <2>3. QED
    BY <2>1, <2>2
<1> DEFINE u == UnderWay(q)
           uu == UnderWay(q)'
<1>4. u = m + n /\ uu = mm + n
  BY <1>2
<1> HIDE DEF m, mm, n, u, uu
<1>5. uu <= u /\ (~closed /\ u <= 1 => uu = u)
  BY <1>2, <1>3, <1>4
<1>6. QED
  BY <1>5 DEF OnceKept, u, uu

\* The server answers a command and a signal request once.
LEMMA OnceServer ==
  ASSUME TypeOK, TypeOK', LabelInv, LabelInv', NEW req \in atServer, ServerSend(req),
         NEW q \in Results, class[q] # "broadcast"
  PROVE  OnceKept(q)
<1> USE DEF resultVars, ipcVars, connVars, appVars, netVars
<1>1. PICK p \in Payloads :
        down' = Append(down, [cookie |-> req.cookie, res |-> req.res, payload |-> p])
  BY DEF ServerSend
<1>2. /\ UNCHANGED <<outMsg, stack>>
      /\ atServer' = IF req.class = "broadcast" THEN atServer ELSE atServer \ {req}
  BY DEF ServerSend
<1>3. IsFiniteSet(atServer) /\ IsFiniteSet(atServer') /\ RequestOk(req)
  BY DEF LabelInv
<1> DEFINE n == Cardinality(About(outMsg, q)) + Cardinality(Running(q))
           a == Cardinality(About(down, q))
           aa == Cardinality(About(down', q))
           b == Cardinality(AtServer(q))
           bb == Cardinality(AtServer(q))'
<1>4. /\ n \in Nat /\ a \in Nat /\ aa \in Nat /\ b \in Nat /\ bb \in Nat
      /\ UnderWay(q) = n + a + b /\ UnderWay(q)' = n + aa + bb
  <2>1. Running(q)' = Running(q) /\ outMsg' = outMsg
    BY <1>2 DEF Running
  <2>2. QED
    BY <1>3, <2>1, UnderWayFacts, UnderWayNext
<1>5. aa = a + (IF req.res = q THEN 1 ELSE 0)
  <2> DEFINE m == [cookie |-> req.cookie, res |-> req.res, payload |-> p]
  <2>1. m \in Messages /\ m.res = req.res /\ down \in Seq(Messages) /\ down' = Append(down, m)
    BY <1>1, DataAssumption DEF TypeOK, Requests, Messages
  <2> HIDE DEF m
  <2>2. QED
    BY <2>1, AboutAppend
<1>6. b = bb + (IF req.res = q THEN 1 ELSE 0)
  <2>1. CASE req.res = q
    <3>1. req.class # "broadcast"
      BY <1>3, <2>1 DEF RequestOk
    <3>2. AtServer(q)' = AtServer(q) \ {req} /\ req \in AtServer(q)
      BY <1>2, <2>1, <3>1 DEF AtServer
    <3>3. IsFiniteSet(AtServer(q)) /\ Cardinality(AtServer(q)) \in Nat
      BY <1>3, UnderWayFacts
    <3>4. Cardinality(AtServer(q) \ {req}) = Cardinality(AtServer(q)) - 1
      BY <3>2, <3>3, FS_RemoveElement
    <3>5. QED
      BY <2>1, <3>2, <3>3, <3>4
  <2>2. CASE req.res # q
    <3>1. AtServer(q)' = AtServer(q)
      BY <1>2, <2>2 DEF AtServer
    <3>2. QED
      BY <1>4, <2>2, <3>1
  <2>3. QED
    BY <2>1, <2>2
<1> HIDE DEF n, a, aa, b, bb
<1>7. UnderWay(q)' = UnderWay(q) /\ UnderWay(q) \in Nat
  BY <1>4, <1>5, <1>6
<1>8. QED
  BY <1>7 DEF OnceKept

LEMMA OnceStep ==
  ASSUME TypeOK, TypeOK', RefInv, CookieInv, LiveInv, LabelInv, LabelInv',
         ExactlyOnce, [Next]_vars
  PROVE  ExactlyOnce'
<1> USE DEF resultVars, ipcVars, connVars, appVars, netVars
<1>1. CASE \E cls \in Classes : SendMsg(cls)
  BY <1>1, OnceSend
<1>2. CASE ~\E cls \in Classes : SendMsg(cls)
  <2>1. ASSUME NEW q \in Results, class[q] # "broadcast" PROVE OnceKept(q)
    <3>1. CASE RunFinish
      BY <3>1, OnceFinish
    <3>2. CASE Receive
      BY <3>2, OnceReceive
    <3>3. CASE MainOut \/ WaitWrite
      <4>1. Cardinality(Running(q))' = Cardinality(Running(q))
        <5>1. CASE MainOut
          BY <5>1 DEF MainOut, Running
        <5>2. CASE WaitWrite
          BY <5>2, RunsKept DEF Running
        <5>3. QED
          BY <3>3, <5>1, <5>2
      <4>2. UNCHANGED <<down, closed>> /\ (IoOut \/ UNCHANGED <<outMsg, atServer>>)
        BY <3>3 DEF MainOut, WaitWrite
      <4>3. QED
        BY <4>1, <4>2, OnceOut
    <3>4. CASE \E req \in atServer : ServerSend(req)
      BY <2>1, <3>4, OnceServer
    <3>5. CASE ServerClose
      <4>1. UNCHANGED <<outMsg, down, stack>> /\ atServer' = {} /\ closed'
        BY <3>5 DEF ServerClose
      <4>2. IsFiniteSet(atServer) /\ IsFiniteSet(atServer')
        BY DEF LabelInv
      <4>3. AtServer(q)' = {} /\ Running(q)' = Running(q)
        BY <4>1 DEF AtServer, Running
      <4>4. Cardinality(AtServer(q))' = 0
        BY <4>3, FS_EmptySet
      <4> DEFINE n == Cardinality(About(outMsg, q)) + Cardinality(About(down, q))
                      + Cardinality(Running(q))
      <4>5. /\ n \in Nat /\ Cardinality(AtServer(q)) \in Nat
            /\ UnderWay(q) = n + Cardinality(AtServer(q)) /\ UnderWay(q)' = n
        BY <4>1, <4>2, <4>3, <4>4, UnderWayFacts, UnderWayNext
      <4> HIDE DEF n
      <4>6. UnderWay(q)' <= UnderWay(q)
        BY <4>5
      <4>7. QED
        BY <4>1, <4>6 DEF OnceKept
    <3>6. CASE UNCHANGED <<outMsg, atServer, down>> /\ ~Receive /\ ~RunFinish
      <4>1. Cardinality(Running(q))' = Cardinality(Running(q))
        BY <3>6, RunsOtherwise
      <4>2. UnderWay(q)' = UnderWay(q)
        BY <3>6, <4>1, OnceSame
      <4>3. UnderWay(q) \in Nat
        BY UnderWayFacts DEF LabelInv
      <4>4. QED
        BY <4>2, <4>3 DEF OnceKept
    <3>7. CASE \/ \E r \in Results : NotifierSet(r) \/ Unref(r) \/ Disconnect(r) \/ Wait(r)
               \/ UnrefConnection \/ MainIn \/ WaitReturn \/ WaitSelect
               \/ WouldBlock \/ EndOfFile \/ CallNotifier
               \/ \E keep \in BOOLEAN : CallbackReturn(keep)
               \/ UNCHANGED vars
      <4>1. UNCHANGED <<outMsg, atServer, down>>
        BY <3>7 DEF NotifierSet, Unref, Disconnect, Wait, UnrefConnection, MainIn,
           WaitReturn, WaitSelect, WouldBlock, EndOfFile, CallNotifier, CallbackReturn,
           vars
      <4>2. QED
        BY <3>1, <3>2, <3>6, <4>1
    <3>8. QED
      BY <1>2, <3>1, <3>2, <3>3, <3>4, <3>5, <3>7 DEF Next, AppCall, Library, Server
  <2>2. IsFiniteSet(atServer) /\ IsFiniteSet(atServer)'
    BY DEF LabelInv
  <2>3. QED
    BY <1>2, <2>1, <2>2, OnceFromKept
<1>3. QED
  BY <1>1, <1>2

OnceInv == Fits => LabelInv /\ ExactlyOnce

LEMMA OnceInvStep ==
  ASSUME TypeOK, TypeOK', RefInv, RouteInv, OnceInv, [Next]_vars
  PROVE  OnceInv'
<1>1. SUFFICES ASSUME Fits' PROVE LabelInv' /\ ExactlyOnce'
  BY DEF OnceInv
<1>2. CookieInv /\ LiveInv /\ LabelInv /\ ExactlyOnce
  BY <1>1, FitsBefore DEF RouteInv, OnceInv
<1>3. LabelInv'
  BY <1>2, LabelStep
<1>4. QED
  BY <1>2, <1>3, OnceStep

LEMMA OnceInit == Init => OnceInv
<1>1. ASSUME Init PROVE LabelInv /\ ExactlyOnce
  <2>1. outMsg = <<>> /\ down = <<>> /\ atServer = {} /\ stack = <<>>
    BY <1>1 DEF Init
  <2>2. Queued = {} /\ Arriving = {} /\ \A r : Running(r) = {}
    BY <2>1 DEF Queued, Arriving, Running, RunsOn
  <2>3. LabelInv
    BY <2>1, <2>2, FS_EmptySet DEF LabelInv
  <2>4. \A r \in Results : ~Live(r)
    BY <1>1 DEF Init, Live
  <2>5. QED
    BY <2>3, <2>4 DEF ExactlyOnce
<1>2. QED
  BY <1>1 DEF OnceInv

THEOREM OnceCorrect == Spec => []OnceInv
<1>1. TypeOK /\ RefInv /\ RouteInv /\ OnceInv /\ [Next]_vars
        => TypeOK' /\ RefInv' /\ RouteInv' /\ OnceInv'
  BY TypeStep, RefStep, RouteStep, OnceInvStep
<1>2. Init => TypeOK /\ RefInv /\ RouteInv /\ OnceInv
  BY TypeInit, RefInit, RouteInit, OnceInit
<1>3. QED
  BY <1>1, <1>2, PTL DEF Spec

\* As long as no cookie was given out twice, a command or a signal never has two
\* requests, replies or dispatches under way, and while the server is there and
\* its replies parse an unanswered command has exactly one: a request is neither
\* lost nor repeated on its way through the queue, the server and the dispatch
\* (xmmsc_ipc_io_out_callback, xmmsc_ipc_exec_msg, xmmsc_result_run).
THEOREM ExactlyOnceCorrect == Spec => [](Fits => ExactlyOnce)
<1>1. OnceInv => (Fits => ExactlyOnce)
  BY DEF OnceInv
<1>2. QED
  BY <1>1, OnceCorrect, PTL

-----------------------------------------------------------------------------
(* The references to the connection.                                        *)

LiveResults == {r \in Results : Live(r)}

LEMMA LiveResultsFinite ==
  ASSUME NEW S \in SUBSET Results
  PROVE  IsFiniteSet(S) /\ Cardinality(S) \in Nat
<1>1. IsFiniteSet(Results)
  BY BoundsAssumption, FS_Interval DEF Results
<1>2. QED
  BY <1>1, FS_Subset, FS_CardinalityType

\* A live result that is freed lets go of the connection.
LEMMA DropRefConnection ==
  ASSUME TypeOK, TypeOK', ConnRefCount, NEW r \in Results, Live(r), DropRef(r),
         UNCHANGED appConn
  PROVE  ConnRefCount'
<1>1. CASE ref[r] = 1
  <2>1. phase' = [phase EXCEPT ![r] = "freed"] /\ connRef' = connRef - 1
    BY <1>1 DEF DropRef, FreeResult
  <2>2. LiveResults' = LiveResults \ {r} /\ r \in LiveResults
    BY <2>1 DEF LiveResults, Live, TypeOK
  <2>3. IsFiniteSet(LiveResults) /\ Cardinality(LiveResults) \in Nat
    BY LiveResultsFinite DEF LiveResults
  <2>4. Cardinality(LiveResults') = Cardinality(LiveResults) - 1
    BY <2>2, <2>3, FS_RemoveElement
  <2>5. QED
    BY <2>1, <2>3, <2>4 DEF ConnRefCount, LiveResults
<1>2. CASE ref[r] # 1
  BY <1>2 DEF DropRef, ConnRefCount, Live
<1>3. QED
  BY <1>1, <1>2

LEMMA ConnStep ==
  ASSUME TypeOK, TypeOK', RefInv, LiveInv, ConnRefCount, [Next]_vars
  PROVE  ConnRefCount'
<1> USE DEF resultVars, ipcVars, connVars, appVars, netVars
<1>1. CASE \E cls \in Classes : SendMsg(cls)
  <2>1. PICK r \in Results :
          /\ r = created + 1
          /\ phase' = [phase EXCEPT ![r] = "live"]
          /\ connRef' = connRef + 1 /\ appConn' = appConn
    BY <1>1, BoundsAssumption DEF SendMsg, NewResult, TypeOK, Results
  <2>2. ref[r] = 0
    BY <2>1 DEF RefInv, TypeOK
  <2>3. LiveResults' = LiveResults \cup {r} /\ r \notin LiveResults
    BY <2>1, <2>2 DEF LiveResults, Live, TypeOK, LiveInv
  <2>4. IsFiniteSet(LiveResults) /\ Cardinality(LiveResults) \in Nat
    BY LiveResultsFinite DEF LiveResults
  <2>5. Cardinality(LiveResults') = Cardinality(LiveResults) + 1
    BY <2>3, <2>4, FS_AddElement
  <2>6. QED
    BY <2>1, <2>4, <2>5 DEF ConnRefCount, LiveResults
<1>2. CASE UnrefConnection
  BY <1>2, LiveResultsFinite DEF UnrefConnection, ConnRefCount, Live, TypeOK
<1>3. ASSUME NEW r \in Results, Unref(r) \/ Disconnect(r) PROVE ConnRefCount'
  <2>1. ref[r] >= 1 /\ DropRef(r) /\ appConn' = appConn
    BY <1>3, OwnersFacts DEF RefInv, Unref, Disconnect
  <2>2. QED
    BY <2>1, DropRefConnection DEF LiveInv
<1>4. ASSUME NEW keep \in BOOLEAN, CallbackReturn(keep) PROVE ConnRefCount'
  <2>1. Top \in RunFrames
    BY <1>4, TopFacts, FrameKinds DEF CallbackReturn, TypeOK
  <2>2. PICK r \in Results : r = Top.res
    BY <2>1 DEF RunFrames
  <2>3. CASE UNCHANGED <<notifiers, ref, phase, resultsList, connRef>>
    BY <1>4, <2>3 DEF CallbackReturn, ConnRefCount, Live
  <2>4. CASE DeleteNode(r, Top.cur) /\ Top.cur \in notifiers[r]
    <3>1. ref[r] >= 1 /\ DropRef(r)
      BY <2>4, OwnersFacts DEF DeleteNode, RefInv
    <3>2. appConn' = appConn
      BY <1>4 DEF CallbackReturn
    <3>3. QED
      BY <3>1, <3>2, DropRefConnection DEF LiveInv
  <2>5. QED
    BY <1>4, <2>2, <2>3, <2>4 DEF CallbackReturn
<1>5. CASE RunFinish
  <2>1. PICK r \in Results : r = Top.res /\ Running(r) # {}
    <3>1. Top \in RunFrames /\ stack[Len(stack)].kind = "run" /\ Len(stack) \in 1..Len(stack)
      BY <1>5, TopFacts, FrameKinds DEF RunFinish, TypeOK
    <3>2. QED
      BY <3>1 DEF RunFrames, Running, RunsOn, Top
  <2>2. ref[r] >= 1 /\ DropRef(r) /\ appConn' = appConn
    BY <1>5, <2>1, OwnersFacts DEF RefInv, RunFinish
  <2>3. QED
    BY <2>2, DropRefConnection DEF LiveInv
<1>6. CASE UNCHANGED <<phase, connRef, appConn>>
  BY <1>6 DEF ConnRefCount, Live
<1>7. CASE \/ \E r \in Results : NotifierSet(r) \/ Wait(r)
           \/ MainIn \/ MainOut \/ WaitReturn \/ WaitSelect \/ WaitWrite
           \/ Receive \/ WouldBlock \/ EndOfFile \/ CallNotifier
           \/ Server \/ UNCHANGED vars
  BY <1>6, <1>7 DEF NotifierSet, Wait, MainIn, MainOut, WaitReturn, WaitSelect,
     WaitWrite, Receive, WouldBlock, EndOfFile, CallNotifier, Server, ServerSend,
     ServerClose, vars
<1>8. QED
  BY <1>1, <1>2, <1>3, <1>4, <1>5, <1>7 DEF Next, AppCall, Library

LEMMA ConnInit == Init => ConnRefCount
<1>1. ASSUME Init PROVE ConnRefCount
  <2>1. {r \in Results : Live(r)} = {} /\ connRef = 1 /\ appConn
    BY <1>1 DEF Init, Live
  <2>2. QED
    BY <2>1, FS_EmptySet DEF ConnRefCount
<1>2. QED
  BY <1>1

\* As long as no cookie was given out twice, the connection's reference count is
\* accounted for by the application and the live results, so that the connection
\* outlives every result that refers to it (xmmsc_result_new, xmmsc_result_free,
\* xmmsc_unref).
THEOREM ConnRefCountCorrect == Spec => [](Fits => ConnRefCount)
<1> DEFINE ConnInv == Fits => ConnRefCount
<1>1. ASSUME TypeOK, TypeOK', RefInv, RouteInv, ConnInv, [Next]_vars PROVE ConnInv'
  <2>1. SUFFICES ASSUME Fits' PROVE ConnRefCount'
    OBVIOUS
  <2>2. LiveInv /\ ConnRefCount
    BY <1>1, <2>1, FitsBefore DEF RouteInv
  <2>3. QED
    BY <1>1, <2>2, ConnStep
<1>2. Init => ConnInv
  BY ConnInit
<1> HIDE DEF ConnInv
<1>3. TypeOK /\ RefInv /\ RouteInv /\ ConnInv /\ [Next]_vars
        => TypeOK' /\ RefInv' /\ RouteInv' /\ ConnInv'
  BY <1>1, TypeStep, RefStep, RouteStep
<1>4. Init => TypeOK /\ RefInv /\ RouteInv /\ ConnInv
  BY <1>2, TypeInit, RefInit, RouteInit
<1>5. Spec => []ConnInv
  BY <1>3, <1>4, PTL DEF Spec
<1>6. QED
  BY <1>5 DEF ConnInv

-----------------------------------------------------------------------------
(* The notifier loops, when no broadcast's notifier waits synchronously.    *)

\* A notifier loop stands at a node that is there, its callback has the answer,
\* and so has, still, the result.
FrameOk(f) ==
  /\ f.cur # NoNode => f.cur \in notifiers[f.res]
  /\ f.calling => /\ f.cur # NoNode
                  /\ f.next # NoNode => f.next \in notifiers[f.res] /\ f.next # f.cur
                  /\ f.given = f.val
  /\ data[f.res] = f.val

\* A dispatch under which others may start: its callback waits, and it is not
\* a broadcast's.
Suspended(f) == f.calling /\ class[f.res] # "broadcast"

DispatchInv ==
  /\ ~freedAccess
  /\ \A i \in 1..Len(stack) : stack[i].kind = "run" => FrameOk(stack[i])
  /\ \A i \in 1..Len(stack) - 1 : stack[i].kind = "run" => Suspended(stack[i])

\* A dispatch on the stack is of a live result that has its answer.
LEMMA RunLives ==
  ASSUME TypeOK, RefInv, LiveInv, LabelInv,
         NEW i \in 1..Len(stack), stack[i].kind = "run"
  PROVE  /\ stack[i] \in RunFrames /\ stack[i].res \in Results
         /\ i \in Running(stack[i].res)
         /\ Live(stack[i].res) /\ stack[i].res <= created /\ parsed[stack[i].res]
<1>1. stack[i] \in RunFrames
  BY ElementOfSeq, LenProperties, FrameKinds DEF TypeOK
<1>2. PICK r \in Results : r = stack[i].res
  BY <1>1 DEF RunFrames
<1>3. i \in Running(r)
  BY <1>2 DEF Running, RunsOn
<1>4. ref[r] >= 1
  BY <1>3, OwnersFacts DEF RefInv
<1>5. Live(r)
  BY <1>4 DEF LiveInv
<1>6. r <= created
  BY <1>4 DEF RefInv, TypeOK, Results
<1>7. IsFiniteSet(Running(r)) /\ Running(r) # {}
  BY <1>3, RunsFinite DEF Running, TypeOK
<1>8. Cardinality(Running(r)) # 0
  BY <1>7, FS_EmptySet
<1>9. parsed[r]
  BY <1>8 DEF LabelInv
<1>10. QED
  BY <1>1, <1>2, <1>3, <1>5, <1>6, <1>9

\* A set with two members has at least two.
LEMMA TwoMembers ==
  ASSUME NEW S, IsFiniteSet(S), NEW a \in S, NEW b \in S, a # b
  PROVE  Cardinality(S) >= 2
<1>1. IsFiniteSet({a}) /\ Cardinality({a}) = 1
  BY FS_Singleton
<1>2. IsFiniteSet({a} \cup {b}) /\ Cardinality({a} \cup {b}) = 2
  <2>1. b \notin {a}
    OBVIOUS
  <2>2. Cardinality({a} \cup {b}) = Cardinality({a}) + 1 /\ IsFiniteSet({a} \cup {b})
    BY <1>1, <2>1, FS_AddElement
  <2>3. QED
    BY <1>1, <2>2
<1>3. {a} \cup {b} \subseteq S
  OBVIOUS
<1>4. Cardinality({a} \cup {b}) <= Cardinality(S) /\ Cardinality(S) \in Nat
  BY <1>3, FS_Subset, FS_CardinalityType
<1>5. QED
  BY <1>2, <1>4

\* A result has one dispatch on the stack at most.
LEMMA OneRun ==
  ASSUME TypeOK, RefInv, LiveInv, LabelInv, ExactlyOnce, DispatchInv,
         NEW i \in 1..Len(stack), NEW j \in 1..Len(stack), i # j,
         stack[i].kind = "run", stack[j].kind = "run"
  PROVE  stack[i].res # stack[j].res
<1> SUFFICES ASSUME stack[i].res = stack[j].res PROVE FALSE
  OBVIOUS
<1>1. PICK r \in Results : /\ r = stack[i].res /\ r = stack[j].res
                           /\ i \in Running(r) /\ j \in Running(r) /\ Live(r)
  BY RunLives
<1>2. class[r] # "broadcast"
  <2>1. i \in 1..Len(stack) - 1 \/ j \in 1..Len(stack) - 1
    BY LenProperties DEF TypeOK
  <2>2. QED
    BY <1>1, <2>1 DEF DispatchInv, Suspended
<1>3. UnderWay(r) <= 1
  BY <1>1, <1>2, OnceIsExactlyOnce DEF AllOnce, Once
<1>4. IsFiniteSet(Running(r))
  BY RunsFinite DEF Running, TypeOK
<1>5. Cardinality(Running(r)) >= 2
  BY <1>1, <1>4, TwoMembers
<1> DEFINE a == Cardinality(About(outMsg, r))
           b == Cardinality(AtServer(r))
           c == Cardinality(About(down, r))
           d == Cardinality(Running(r))
<1>6. UnderWay(r) = a + b + c + d /\ a \in Nat /\ b \in Nat /\ c \in Nat /\ d \in Nat
  BY UnderWayFacts DEF LabelInv
<1>7. d >= 2
  BY <1>5
<1> HIDE DEF a, b, c, d
<1>8. QED
  BY <1>3, <1>6, <1>7

-----------------------------------------------------------------------------
(* Steps that start no dispatch and go on with none.                        *)

\* The dispatches of the next state were there, and those that are below others
\* then are suspended.
OldRuns ==
  \A i \in 1..Len(stack') :
    stack'[i].kind = "run" =>
      /\ i \in 1..Len(stack) /\ stack'[i] = stack[i]
      /\ i < Len(stack') => i < Len(stack) \/ Suspended(stack[i])

\* A result that is being dispatched keeps its nodes, its value and its class.
ResultKept(r) ==
  /\ notifiers[r] \subseteq notifiers'[r]
  /\ data'[r] = data[r] /\ class'[r] = class[r]

LEMMA DispatchKept ==
  ASSUME TypeOK, TypeOK', DispatchInv, UNCHANGED freedAccess, OldRuns,
         \A i \in 1..Len(stack') : stack'[i].kind = "run" => ResultKept(stack'[i].res)
  PROVE  DispatchInv'
<1>0. Len(stack) \in Nat /\ Len(stack') \in Nat
  BY LenProperties DEF TypeOK
<1>1. ASSUME NEW i \in 1..Len(stack'), stack'[i].kind = "run"
      PROVE  FrameOk(stack[i])' /\ (i < Len(stack)' => Suspended(stack[i])')
  <2>1. PICK f : /\ f = stack'[i] /\ f = stack[i] /\ i \in 1..Len(stack)
                 /\ i < Len(stack') => i < Len(stack) \/ Suspended(f)
    BY <1>1 DEF OldRuns
  <2>2. FrameOk(f) /\ ResultKept(f.res)
    BY <1>1, <2>1 DEF DispatchInv
  <2>3. FrameOk(f)'
    BY <2>2 DEF FrameOk, ResultKept
  <2>4. i < Len(stack') => Suspended(f)
    <3>1. i < Len(stack) => i \in 1..Len(stack) - 1
      BY <1>0
    <3>2. QED
      BY <1>1, <2>1, <3>1 DEF DispatchInv
  <2>5. i < Len(stack') => Suspended(f)'
    BY <2>2, <2>4 DEF Suspended, ResultKept
  <2>6. QED
    BY <2>1, <2>3, <2>5 DEF FrameOk, Suspended
<1>2. \A i \in 1..Len(stack') - 1 : i \in 1..Len(stack') /\ i < Len(stack')
  BY <1>0
<1>3. QED
  BY <1>1, <1>2 DEF DispatchInv

\* Replacing an activation on top that is no dispatch.
LEMMA OldRunsTop ==
  ASSUME stack \in Seq(Frames), stack # <<>>, NEW f \in Frames, f.kind # "run",
         stack' = SetTop(f)
  PROVE  OldRuns
<1>1. /\ Len(stack) \in Nat /\ Len(stack') = Len(stack)
      /\ \A i \in 1..Len(stack) : stack'[i] = IF i = Len(stack) THEN f ELSE stack[i]
  BY SetTopFacts, LenProperties
<1>2. QED
  BY <1>1 DEF OldRuns

LEMMA OldRunsPop ==
  ASSUME stack \in Seq(Frames), NEW k, TopIs(k), stack' = Pop
  PROVE  OldRuns
<1>1. /\ Len(stack) \in Nat /\ Len(stack') = Len(stack) - 1
      /\ \A i \in 1..Len(stack) - 1 : stack'[i] = stack[i]
  BY TopFacts
<1>2. QED
  BY <1>1 DEF OldRuns

\* A new activation that is no dispatch, on top of another one or of a
\* suspended dispatch.
LEMMA OldRunsPush ==
  ASSUME stack \in Seq(Frames), NEW f \in Frames, f.kind # "run",
         stack' = Append(stack, f),
         stack # <<>> /\ Top.kind = "run" => Suspended(Top)
  PROVE  OldRuns
<1>1. /\ Len(stack) \in Nat /\ Len(stack') = Len(stack) + 1
      /\ stack'[Len(stack) + 1] = f
      /\ \A i \in 1..Len(stack) : stack'[i] = stack[i]
  BY LenProperties, AppendProperties
<1>2. ASSUME NEW i \in 1..Len(stack'), stack'[i].kind = "run"
      PROVE  /\ i \in 1..Len(stack) /\ stack'[i] = stack[i]
             /\ i < Len(stack) \/ Suspended(stack[i])
  <2>1. i \in 1..Len(stack) /\ stack'[i] = stack[i]
    BY <1>1, <1>2
  <2>2. CASE i = Len(stack)
    BY <1>2, <2>1, <2>2, EmptySeq DEF Top
  <2>3. CASE i # Len(stack)
    BY <1>1, <2>1, <2>3
  <2>4. QED
    BY <2>1, <2>2, <2>3
<1>3. QED
  BY <1>2 DEF OldRuns

LEMMA OldRunsStep ==
  ASSUME TypeOK, TypeOK', DispatchInv, "broadcast" \notin SyncClasses,
         \/ \E r \in Results : Wait(r)
         \/ MainIn \/ WaitReturn \/ WaitSelect \/ WaitWrite \/ WouldBlock \/ EndOfFile
         \/ UNCHANGED stack
  PROVE  OldRuns
<1> USE DEF resultVars, ipcVars, connVars, appVars, netVars
<1>0. stack \in Seq(Frames) /\ Len(stack) \in Nat
  BY LenProperties DEF TypeOK
<1>1. ASSUME NEW r \in Results, Wait(r) PROVE OldRuns
  <2> DEFINE f == [kind |-> "wait", res |-> r, write |-> FALSE]
  <2>1. f \in Frames /\ f.kind # "run" /\ stack' = Append(stack, f)
    BY <1>1 DEF Wait, Frames, WaitFrames
  <2>2. stack # <<>> => Top.calling /\ class[Top.res] \in SyncClasses
    BY <1>1 DEF Wait, AppTurn
  <2> HIDE DEF f
  <2>3. QED
    BY <1>0, <2>1, <2>2, OldRunsPush DEF Suspended
<1>2. ASSUME MainIn PROVE OldRuns
  <2>1. stack' = <<[kind |-> "in"]>>
    BY <1>2 DEF MainIn
  <2>2. QED
    BY <2>1 DEF OldRuns
<1>3. ASSUME WaitReturn \/ WouldBlock PROVE OldRuns
  BY <1>0, <1>3, OldRunsPop DEF WaitReturn, WouldBlock
<1>4. ASSUME WaitSelect PROVE OldRuns
  <2>1. PICK wr \in BOOLEAN :
          stack' = SetTop([Top EXCEPT !.write = wr]) \o
                   (IF Readable THEN <<[kind |-> "in"]>> ELSE <<>>)
    BY <1>4 DEF WaitSelect
  <2> DEFINE f == [Top EXCEPT !.write = wr]
  <2>2. stack # <<>> /\ Top \in WaitFrames
    BY <1>0, <1>4, TopFacts, FrameKinds DEF WaitSelect, TopIs
  <2>3. f \in Frames /\ f.kind # "run"
    BY <2>2 DEF Frames, WaitFrames
  <2> HIDE DEF f
  <2>4. /\ SetTop(f) \in Seq(Frames) /\ Len(SetTop(f)) = Len(stack)
        /\ \A i \in 1..Len(stack) :
             SetTop(f)[i] = IF i = Len(stack) THEN f ELSE stack[i]
    BY <1>0, <2>2, <2>3, SetTopFacts
  <2>5. CASE Readable
    <3>1. [kind |-> "in"] \in Frames /\ [kind |-> "in"].kind # "run"
      BY DEF Frames, InFrames
    <3>2. stack' = Append(SetTop(f), [kind |-> "in"])
      BY <2>1, <2>4, <2>5, <3>1, AppendIsConcat DEF f
    <3>3. /\ Len(stack') = Len(stack) + 1
          /\ stack'[Len(stack) + 1] = [kind |-> "in"]
          /\ \A i \in 1..Len(stack) : stack'[i] = SetTop(f)[i]
      BY <2>4, <3>1, <3>2, AppendProperties
    <3>4. ASSUME NEW i \in 1..Len(stack'), stack'[i].kind = "run"
          PROVE  i \in 1..Len(stack) /\ i < Len(stack) /\ stack'[i] = stack[i]
      BY <1>0, <2>3, <2>4, <3>1, <3>3, <3>4
    <3>5. QED
      BY <3>4 DEF OldRuns
  <2>6. CASE ~Readable
    <3>1. stack' = SetTop(f)
      BY <2>1, <2>4, <2>6, ConcatEmptySeq DEF f
    <3>2. QED
      BY <1>0, <2>2, <2>3, <3>1, OldRunsTop
  <2>7. QED
    BY <2>5, <2>6
<1>5. ASSUME WaitWrite PROVE OldRuns
  <2> DEFINE f == [Top EXCEPT !.write = FALSE]
  <2>1. stack # <<>> /\ Top \in WaitFrames /\ stack' = SetTop(f)
    BY <1>0, <1>5, TopFacts, FrameKinds DEF WaitWrite, TopIs
  <2>2. f \in Frames /\ f.kind # "run"
    BY <2>1 DEF Frames, WaitFrames
  <2> HIDE DEF f
  <2>3. QED
    BY <1>0, <2>1, <2>2, OldRunsTop
<1>6. ASSUME EndOfFile PROVE OldRuns
  <2>1. Len(stack) >= 1
    BY <1>0, <1>6, TopFacts DEF EndOfFile
  <2>2. stack' = [i \in 1..Len(stack) - 1 |->
                    IF i = Len(stack) - 1 /\ stack[i].kind = "wait"
                    THEN [stack[i] EXCEPT !.write = FALSE] ELSE stack[i]]
    BY <1>6 DEF EndOfFile
  <2>3. Len(stack') = Len(stack) - 1
    BY <1>0, <2>1, <2>2, LenProperties
  <2>4. ASSUME NEW j \in 1..Len(stack'), stack'[j].kind = "run"
        PROVE  stack'[j] = stack[j] /\ j \in 1..Len(stack) /\ j < Len(stack)
    <3>1. stack[j] \in Frames /\ j \in 1..Len(stack) /\ j < Len(stack)
      BY <1>0, <2>1, <2>3, ElementOfSeq
    <3>2. stack[j].kind = "wait" => stack[j] \in WaitFrames
      BY <3>1, FrameKinds
    <3>3. QED
      BY <2>2, <2>3, <2>4, <3>1, <3>2 DEF WaitFrames
  <2>5. QED
    BY <2>4 DEF OldRuns
<1>7. CASE UNCHANGED stack
  BY <1>0, <1>7 DEF OldRuns
<1>8. QED
  BY <1>1, <1>2, <1>3, <1>4, <1>5, <1>6, <1>7

-----------------------------------------------------------------------------
(* Steps of the notifier loops.                                             *)

\* The step leaves a dispatch on top that is in order, above suspended ones
\* whose results it keeps.
LEMMA DispatchTop ==
  ASSUME TypeOK, TypeOK', ~freedAccess', NEW f \in RunFrames, FrameOk(f)',
         Len(stack') >= 1, stack'[Len(stack')] = f,
         \A i \in 1..Len(stack') - 1 :
           /\ stack'[i] = stack[i]
           /\ stack[i].kind = "run" => Suspended(stack[i]) /\ FrameOk(stack[i])
                                       /\ ResultKept(stack[i].res)
  PROVE  DispatchInv'
<1>0. Len(stack') \in Nat
  BY LenProperties DEF TypeOK
<1>1. ASSUME NEW i \in 1..Len(stack') - 1, stack'[i].kind = "run"
      PROVE  FrameOk(stack[i])' /\ Suspended(stack[i])'
  <2>1. PICK g : g = stack'[i] /\ g = stack[i]
    OBVIOUS
  <2>2. FrameOk(g) /\ Suspended(g) /\ ResultKept(g.res)
    BY <1>1, <2>1
  <2>3. FrameOk(g)' /\ Suspended(g)'
    BY <2>2 DEF FrameOk, Suspended, ResultKept
  <2>4. QED
    BY <2>1, <2>3 DEF FrameOk, Suspended
<1>2. FrameOk(stack[Len(stack)])'
  BY DEF FrameOk
<1>3. \A i \in 1..Len(stack') : i \in 1..Len(stack') - 1 \/ i = Len(stack')
  BY <1>0
<1>4. QED
  BY <1>1, <1>2, <1>3 DEF DispatchInv

\* A reply is dispatched: there is no other dispatch for its result.
LEMMA DispatchReceive ==
  ASSUME TypeOK, TypeOK', RefInv, CookieInv, LiveInv, LabelInv, ExactlyOnce, DispatchInv,
         Receive, NEW r \in Lookup(Head(down).cookie), Dispatch(r, Head(down))
  PROVE  DispatchInv'
<1>0. Len(stack) \in Nat /\ stack \in Seq(Frames)
  BY LenProperties DEF TypeOK
<1>1. r \in Results /\ r = Head(down).res
  BY RunsDispatch
<1>2. PICK f \in RunFrames :
        /\ stack' = Append(stack, f)
        /\ f.res = r /\ f.cur \in First(notifiers[r]) /\ ~f.calling
        /\ f.val = Head(down).payload
  BY RunsDispatch
<1>3. /\ Len(stack') = Len(stack) + 1 /\ stack'[Len(stack')] = f
      /\ \A i \in 1..Len(stack) : stack'[i] = stack[i]
  BY <1>0, <1>2, AppendProperties DEF Frames
<1>4. UNCHANGED <<notifiers, class, freedAccess>>
  BY DEF Receive
<1>5. data' = [data EXCEPT ![r] = f.val]
  BY <1>2 DEF Dispatch, Store
<1>6. f.cur # NoNode => f.cur \in notifiers[r]
  BY <1>2 DEF First
<1>7. FrameOk(f)'
  BY <1>1, <1>2, <1>4, <1>5, <1>6 DEF FrameOk, TypeOK
<1>8. ASSUME NEW i \in 1..Len(stack), stack[i].kind = "run"
      PROVE  Suspended(stack[i]) /\ FrameOk(stack[i]) /\ ResultKept(stack[i].res)
  <2>1. i \in 1..Len(stack) - 1
    BY <1>0, <1>8 DEF Receive, TopIs, Top
  <2>2. Suspended(stack[i]) /\ FrameOk(stack[i])
    BY <1>8, <2>1 DEF DispatchInv
  <2>3. stack[i].res # r
    <3>1. SUFFICES ASSUME stack[i].res = r PROVE FALSE
      OBVIOUS
    <3>2. i \in Running(r) /\ Live(r) /\ class[r] # "broadcast"
      BY <1>8, <2>2, <3>1, RunLives DEF Suspended
    <3>3. UnderWay(r) <= 1
      BY <1>1, <3>2, OnceIsExactlyOnce DEF AllOnce, Once
    <3>4. down \in Seq(Messages) /\ Len(down) \in Nat /\ Len(down) >= 1 /\ Head(down) = down[1]
      BY HeadTailProperties, LenProperties, EmptySeq DEF Receive, TypeOK
    <3>5. 1 \in About(down, r) /\ IsFiniteSet(About(down, r))
      <4>1. IsFiniteSet(About(down, r))
        BY <3>4, AboutFinite
      <4>2. 1 \in About(down, r)
        BY <1>1, <3>4 DEF About
      <4>3. QED
        BY <4>1, <4>2
    <3>6. IsFiniteSet(Running(r))
      BY RunsFinite DEF Running, TypeOK
    <3> DEFINE a == Cardinality(About(outMsg, r))
               b == Cardinality(AtServer(r))
               c == Cardinality(About(down, r))
               d == Cardinality(Running(r))
    <3>7. UnderWay(r) = a + b + c + d /\ a \in Nat /\ b \in Nat /\ c \in Nat /\ d \in Nat
      BY UnderWayFacts DEF LabelInv
    <3>8. c # 0 /\ d # 0
      BY <3>2, <3>5, <3>6, FS_EmptySet
    <3> HIDE DEF a, b, c, d
    <3>9. QED
      BY <3>3, <3>7, <3>8
  <2>4. stack[i].res \in Results
    BY <1>8, RunLives
  <2>5. ResultKept(stack[i].res)
    BY <1>4, <1>5, <2>3, <2>4 DEF ResultKept, TypeOK
  <2>6. QED
    BY <2>2, <2>5
<1>9. Len(stack') - 1 = Len(stack) /\ Len(stack') >= 1 /\ ~freedAccess'
  BY <1>0, <1>3, <1>4 DEF DispatchInv
<1>10. QED
  BY <1>3, <1>7, <1>8, <1>9, DispatchTop

\* The next notifier is called with the answer, and the one after it is there.
LEMMA DispatchCall ==
  ASSUME TypeOK, TypeOK', DispatchInv, CallNotifier
  PROVE  DispatchInv'
<1> USE DEF resultVars, ipcVars, connVars, appVars, netVars
<1>0. stack \in Seq(Frames)
  BY DEF TypeOK
<1>1. /\ Len(stack) \in Nat /\ Len(stack) >= 1 /\ stack # <<>>
      /\ Top \in RunFrames /\ Top = stack[Len(stack)] /\ Top.kind = "run"
  BY <1>0, TopFacts, FrameKinds DEF CallNotifier, TopIs
<1>2. FrameOk(Top)
  <2>1. Len(stack) \in 1..Len(stack)
    BY <1>1
  <2>2. QED
    BY <1>1, <2>1 DEF DispatchInv
<1>3. Top.cur # NoNode /\ Top.cur \in notifiers[Top.res]
  BY <1>2 DEF CallNotifier, FrameOk
<1>4. UNCHANGED <<notifiers, data, class, freedAccess>>
  BY <1>3 DEF CallNotifier
<1>5. PICK n \in After(notifiers[Top.res], Top.cur) :
        stack' = SetTop([Top EXCEPT !.next = n, !.calling = TRUE,
                                    !.given = data[Top.res]])
  BY <1>3 DEF CallNotifier
<1>6. n # NoNode => n \in notifiers[Top.res] /\ n # Top.cur
  <2>1. Top.cur \in Nat
    BY <1>1, BoundsAssumption DEF RunFrames, Nodes, NoNode
  <2>2. QED
    BY <1>5, <2>1 DEF After, First
<1>7. n \in Nodes \cup {NoNode} /\ data[Top.res] \in Data
  BY <1>1, <1>5, FirstType DEF After, TypeOK, RunFrames
<1>8. PICK f \in RunFrames :
        f = [Top EXCEPT !.next = n, !.calling = TRUE, !.given = data[Top.res]]
  BY <1>1, <1>7 DEF RunFrames
<1>9. /\ f.res = Top.res /\ f.cur = Top.cur /\ f.next = n /\ f.calling
      /\ f.given = data[Top.res] /\ f.val = Top.val /\ stack' = SetTop(f)
  BY <1>1, <1>5, <1>8 DEF RunFrames
<1>10. FrameOk(f)'
  BY <1>2, <1>3, <1>4, <1>6, <1>9 DEF FrameOk
<1>11. /\ Len(stack') = Len(stack)
       /\ \A i \in 1..Len(stack) :
            stack'[i] = IF i = Len(stack) THEN f ELSE stack[i]
  BY <1>0, <1>1, <1>8, <1>9, SetTopFacts DEF Frames
<1>12. ASSUME NEW i \in 1..Len(stack') - 1
       PROVE  /\ stack'[i] = stack[i]
              /\ stack[i].kind = "run" => Suspended(stack[i]) /\ FrameOk(stack[i])
                                          /\ ResultKept(stack[i].res)
  <2>1. i \in 1..Len(stack) - 1 /\ i \in 1..Len(stack) /\ stack'[i] = stack[i]
    BY <1>1, <1>11
  <2>2. ResultKept(stack[i].res)
    BY <1>4 DEF ResultKept
  <2>3. QED
    BY <2>1, <2>2 DEF DispatchInv
<1>13. Len(stack') >= 1 /\ stack'[Len(stack')] = f /\ ~freedAccess'
  BY <1>1, <1>4, <1>11 DEF DispatchInv
<1>14. QED
  BY <1>8, <1>10, <1>12, <1>13, DispatchTop

\* The callback returns: the node it came from may go, the next one is still
\* there, and nobody else is at a node of this result.
LEMMA DispatchReturn ==
  ASSUME TypeOK, TypeOK', RefInv, LiveInv, LabelInv, ExactlyOnce, DispatchInv,
         NEW keep \in BOOLEAN, CallbackReturn(keep)
  PROVE  DispatchInv'
<1>0. stack \in Seq(Frames)
  BY DEF TypeOK
<1>1. /\ Len(stack) \in Nat /\ Len(stack) >= 1 /\ stack # <<>> /\ Len(stack) \in 1..Len(stack)
      /\ Top \in RunFrames /\ Top = stack[Len(stack)] /\ Top.kind = "run"
  BY <1>0, TopFacts, FrameKinds DEF CallbackReturn, TopIs
<1>2. FrameOk(Top) /\ Top.calling
  BY <1>1 DEF DispatchInv, CallbackReturn
<1>3. PICK r \in Results : r = Top.res
  BY <1>1 DEF RunFrames
<1>4. /\ Top.cur \in notifiers[r]
      /\ Top.next # NoNode => Top.next \in notifiers[r] /\ Top.next # Top.cur
      /\ data[r] = Top.val
  BY <1>2, <1>3 DEF FrameOk
<1>5. UNCHANGED <<data, class>> /\ ~freedAccess'
  BY <1>3, <1>4 DEF CallbackReturn, DispatchInv
<1>6. UNCHANGED notifiers \/ notifiers' = [notifiers EXCEPT ![r] = @ \ {Top.cur}]
  BY <1>3, <1>4 DEF CallbackReturn, DeleteNode
<1>7. PICK f \in RunFrames :
        f = [Top EXCEPT !.cur = Top.next, !.next = NoNode, !.calling = FALSE,
                        !.given = Null]
  BY <1>1 DEF RunFrames, Data
<1>8. f.res = r /\ f.cur = Top.next /\ ~f.calling /\ f.val = Top.val /\ stack' = SetTop(f)
  BY <1>1, <1>3, <1>7 DEF RunFrames, CallbackReturn
<1>9. f.cur # NoNode => f.cur \in notifiers'[r]
  BY <1>4, <1>6, <1>8 DEF TypeOK
<1>10. FrameOk(f)'
  BY <1>4, <1>5, <1>8, <1>9 DEF FrameOk
<1>11. /\ Len(stack') = Len(stack)
       /\ \A i \in 1..Len(stack) :
            stack'[i] = IF i = Len(stack) THEN f ELSE stack[i]
  BY <1>0, <1>1, <1>7, <1>8, SetTopFacts DEF Frames
<1>12. ASSUME NEW i \in 1..Len(stack') - 1
       PROVE  /\ stack'[i] = stack[i]
              /\ stack[i].kind = "run" => Suspended(stack[i]) /\ FrameOk(stack[i])
                                          /\ ResultKept(stack[i].res)
  <2>1. i \in 1..Len(stack) - 1 /\ i \in 1..Len(stack) /\ i # Len(stack) /\ stack'[i] = stack[i]
    BY <1>1, <1>11
  <2>2. ASSUME stack[i].kind = "run" PROVE ResultKept(stack[i].res)
    <3>1. stack[i].res \in Results /\ stack[i].res # r
      BY <1>1, <1>3, <2>1, <2>2, OneRun, RunLives
    <3>2. QED
      BY <1>5, <1>6, <3>1 DEF ResultKept, TypeOK
  <2>3. QED
    BY <2>1, <2>2 DEF DispatchInv
<1>13. Len(stack') >= 1 /\ stack'[Len(stack')] = f /\ ~freedAccess'
  BY <1>1, <1>5, <1>11 DEF DispatchInv
<1>14. QED
  BY <1>7, <1>10, <1>12, <1>13, DispatchTop

\* The end of a dispatch, and of a wait that writes an error into its result,
\* leaves the results of the others alone.
LEMMA DispatchEnd ==
  ASSUME TypeOK, TypeOK', RefInv, LiveInv, LabelInv, ExactlyOnce, DispatchInv,
         RunFinish \/ WaitReturn
  PROVE  DispatchInv'
<1> USE DEF resultVars, ipcVars, connVars, appVars, netVars
<1>0. stack \in Seq(Frames)
  BY DEF TypeOK
<1>1. /\ stack' = Pop /\ TopIs(Top.kind) /\ UNCHANGED <<notifiers, class, freedAccess>>
      /\ Top.kind = "run" \/ Top.kind = "wait"
  BY DEF RunFinish, WaitReturn, TopIs
<1>2. /\ Len(stack) \in Nat /\ Len(stack) \in 1..Len(stack) /\ Len(stack') = Len(stack) - 1
      /\ Top = stack[Len(stack)] /\ Top \in Frames
      /\ \A i \in 1..Len(stack) - 1 : stack'[i] = stack[i]
  BY <1>0, <1>1, TopFacts
<1>3. PICK r \in Results : r = Top.res
  BY <1>1, <1>2, FrameKinds DEF RunFrames, WaitFrames
<1>4. /\ \A q \in Results : q # r => data'[q] = data[q]
      /\ WaitReturn /\ parsed[r] => data'[r] = data[r]
  BY <1>3 DEF RunFinish, WaitReturn, TypeOK
<1>5. ASSUME NEW i \in 1..Len(stack'), stack'[i].kind = "run"
      PROVE  ResultKept(stack'[i].res)
  <2>1. i \in 1..Len(stack) /\ i # Len(stack) /\ stack'[i] = stack[i]
    BY <1>2
  <2>2. stack[i].res \in Results /\ parsed[stack[i].res]
    BY <1>5, <2>1, RunLives
  <2>3. RunFinish => stack[i].res # r
    BY <1>2, <1>3, <1>5, <2>1, OneRun DEF RunFinish, TopIs
  <2>4. QED
    BY <1>1, <1>4, <2>1, <2>2, <2>3 DEF ResultKept
<1>6. OldRuns
  BY <1>0, <1>1, OldRunsPop
<1>7. QED
  BY <1>1, <1>5, <1>6, DispatchKept

-----------------------------------------------------------------------------
(* The inductive invariant and the theorems.                                *)

LEMMA DispatchStep ==
  ASSUME TypeOK, TypeOK', RefInv, CookieInv, LiveInv, LabelInv, ExactlyOnce,
         DispatchInv, [Next]_vars, "broadcast" \notin SyncClasses
  PROVE  DispatchInv'
<1> USE DEF resultVars, ipcVars, connVars, appVars, netVars
<1>1. CASE Receive
  <2>1. CASE UNCHANGED <<ref, parsed, data, stack>>
    <3>1. UNCHANGED <<notifiers, class, freedAccess>>
      BY <1>1 DEF Receive
    <3>2. OldRuns /\ \A r : ResultKept(r)
      BY <2>1, <3>1, OldRunsStep DEF ResultKept
    <3>3. QED
      BY <3>1, <3>2, DispatchKept
  <2>2. ASSUME NEW r \in Lookup(Head(down).cookie), Dispatch(r, Head(down))
        PROVE  DispatchInv'
    BY <1>1, <2>2, DispatchReceive
  <2>3. QED
    BY <1>1, <2>1, <2>2 DEF Receive
<1>2. CASE CallNotifier
  BY <1>2, DispatchCall
<1>3. ASSUME NEW keep \in BOOLEAN, CallbackReturn(keep) PROVE DispatchInv'
  BY <1>3, DispatchReturn
<1>4. CASE RunFinish \/ WaitReturn
  BY <1>4, DispatchEnd
<1>5. CASE \E cls \in Classes : SendMsg(cls)
  <2>1. PICK r \in Results, cls \in Classes :
          /\ r = created + 1 /\ class' = [class EXCEPT ![r] = cls]
          /\ UNCHANGED <<data, notifiers, stack, freedAccess>>
    BY <1>5, BoundsAssumption DEF SendMsg, NewResult, TypeOK, Results
  <2>2. ASSUME NEW i \in 1..Len(stack'), stack'[i].kind = "run"
        PROVE  ResultKept(stack'[i].res)
    <3>1. i \in 1..Len(stack) /\ stack'[i] = stack[i]
      BY <2>1
    <3>2. stack[i].res \in Results /\ stack[i].res <= created
      BY <2>2, <3>1, RunLives
    <3>3. created \in Int /\ r = created + 1
      BY <2>1 DEF TypeOK
    <3>4. stack[i].res # r
      BY <3>2, <3>3 DEF Results
    <3>5. QED
      BY <2>1, <3>1, <3>2, <3>4 DEF ResultKept, TypeOK
  <2>3. OldRuns
    BY <2>1, OldRunsStep
  <2>4. QED
    BY <2>1, <2>2, <2>3, DispatchKept
<1>6. ASSUME NEW r \in Results, NotifierSet(r) PROVE DispatchInv'
  <2>1. UNCHANGED <<data, class, stack, freedAccess>>
    BY <1>6 DEF NotifierSet
  <2>2. \A q \in Results : ResultKept(q)
    BY <1>6, <2>1 DEF NotifierSet, ResultKept, TypeOK
  <2>3. OldRuns
    BY <2>1, OldRunsStep
  <2>4. \A i \in 1..Len(stack') : stack'[i].kind = "run" => ResultKept(stack'[i].res)
    BY <2>1, <2>2, RunLives
  <2>5. QED
    BY <2>1, <2>3, <2>4, DispatchKept
<1>7. CASE /\ UNCHANGED <<data, class, notifiers, freedAccess>>
           /\ \/ \E r \in Results : Wait(r)
              \/ MainIn \/ WaitSelect \/ WaitWrite \/ WouldBlock \/ EndOfFile
              \/ UNCHANGED stack
  <2>1. OldRuns
    BY <1>7, OldRunsStep
  <2>2. \A r : ResultKept(r)
    BY <1>7 DEF ResultKept
  <2>3. QED
    BY <1>7, <2>1, <2>2, DispatchKept
<1>8. CASE \/ \E r \in Results : Unref(r) \/ Disconnect(r) \/ Wait(r)
           \/ UnrefConnection \/ MainIn \/ MainOut \/ WaitSelect \/ WaitWrite
           \/ WouldBlock \/ EndOfFile \/ Server \/ UNCHANGED vars
  BY <1>7, <1>8 DEF Unref, Disconnect, Wait, UnrefConnection, MainIn, MainOut,
     WaitSelect, WaitWrite, WouldBlock, EndOfFile, Server, ServerSend, ServerClose, vars
<1>9. QED
  BY <1>1, <1>2, <1>3, <1>4, <1>5, <1>6, <1>8 DEF Next, AppCall, Library

\* No broadcast's notifier waits synchronously: while it did, the next broadcast
\* could be dispatched to the same result under it.
QuietBroadcasts == "broadcast" \notin SyncClasses

CallbackInv == Fits /\ QuietBroadcasts => DispatchInv

LEMMA CallbackStep ==
  ASSUME TypeOK, TypeOK', RefInv, RouteInv, OnceInv, CallbackInv, [Next]_vars
  PROVE  CallbackInv'
<1>1. SUFFICES ASSUME Fits', QuietBroadcasts PROVE DispatchInv'
  BY DEF CallbackInv, QuietBroadcasts
<1>2. CookieInv /\ LiveInv /\ LabelInv /\ ExactlyOnce /\ DispatchInv
  BY <1>1, FitsBefore DEF RouteInv, OnceInv, CallbackInv
<1>3. QED
  BY <1>1, <1>2, DispatchStep DEF QuietBroadcasts

LEMMA CallbackInit == Init => CallbackInv
<1>1. ASSUME Init PROVE DispatchInv
  <2>1. stack = <<>> /\ ~freedAccess
    BY <1>1 DEF Init
  <2>2. QED
    BY <2>1 DEF DispatchInv
<1>2. QED
  BY <1>1 DEF CallbackInv

THEOREM CallbackCorrect == Spec => []CallbackInv
<1>1. TypeOK /\ RefInv /\ RouteInv /\ OnceInv /\ CallbackInv /\ [Next]_vars
        => TypeOK' /\ RefInv' /\ RouteInv' /\ OnceInv' /\ CallbackInv'
  BY TypeStep, RefStep, RouteStep, OnceInvStep, CallbackStep
<1>2. Init => TypeOK /\ RefInv /\ RouteInv /\ OnceInv /\ CallbackInv
  BY TypeInit, RefInit, RouteInit, OnceInit, CallbackInit
<1>3. QED
  BY <1>1, <1>2, PTL DEF Spec

\* As long as no cookie was given out twice and no notifier of a broadcast waits
\* synchronously, the notifier loop never follows a node that a nested dispatch
\* has deleted (xmmsc_result_run: `next' is read before the callback is called).
THEOREM NoFreedAccessCorrect == Spec => [](Fits /\ QuietBroadcasts => NoFreedAccess)
<1>1. CallbackInv => (Fits /\ QuietBroadcasts => NoFreedAccess)
  BY DEF CallbackInv, DispatchInv, NoFreedAccess
<1>2. QED
  BY <1>1, CallbackCorrect, PTL

\* Under the same conditions every callback is called with the value of the very
\* message that is being dispatched, whatever is dispatched under the waits of
\* other callbacks (xmmsc_result_run, xmmsc_result_wait).
THEOREM CallbackGetsAnswerCorrect ==
  Spec => [](Fits /\ QuietBroadcasts => CallbackGetsAnswer)
<1>1. CallbackInv => (Fits /\ QuietBroadcasts => CallbackGetsAnswer)
  BY DEF CallbackInv, DispatchInv, FrameOk, CallbackGetsAnswer
<1>2. QED
  BY <1>1, CallbackCorrect, PTL
==========================================================================
