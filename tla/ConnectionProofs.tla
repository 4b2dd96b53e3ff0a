-------------------------- MODULE ConnectionProofs --------------------------
(***************************************************************************)
(* Theorems about Connection, for any sets of calls, any width of the call *)
(* ID space and any behaviour of the peer: that IInv is inductive, first   *)
(* for what concerns the object, its table and its goroutines, then for    *)
(* the traffic with the peer; what follows from it; and that Connection    *)
(* implements CallContract, as each of its steps is a step of the contract *)
(* or changes nothing a caller of the generated code can see.              *)
(***************************************************************************)
EXTENDS ConnectionInv, ConnectionContract, SequenceTheorems, TLAPS

-----------------------------------------------------------------------------
(* Type correctness.                                                       *)

\* end() always returns to a control point.
LEMMA AfterEndType == \A p \in Procs : AfterEnd(p) \in PCs
  BY DEF AfterEnd, Procs, PCs

\* Moving a goroutine to a control point keeps the control state well typed.
LEMMA GotoType ==
  ASSUME pc \in [Procs -> PCs], NEW p \in Procs, NEW l \in PCs, Goto(p, l)
  PROVE  pc' \in [Procs -> PCs]
  BY DEF Goto

\* So does entering end() with a reason.
LEMMA CallEndType ==
  ASSUME pc \in [Procs -> PCs], err \in [Procs -> Reasons \cup {"none"}],
         NEW p \in Procs, NEW e \in Reasons, CallEnd(p, e)
  PROVE  pc' \in [Procs -> PCs] /\ err' \in [Procs -> Reasons \cup {"none"}]
  BY GotoType DEF CallEnd, Goto, PCs, EndPCs

\* A prefix and a suffix of a sequence are sequences over the same set.
LEMMA SplitType ==
  ASSUME NEW S, NEW s \in Seq(S), NEW k \in 0 .. Len(s)
  PROVE  SubSeq(s, 1, k) \in Seq(S) /\ SubSeq(s, k + 1, Len(s)) \in Seq(S)
  BY SubSeqProperties

\* The initial state is well typed.
LEMMA InitType == Init => TypeOK
<1> SUFFICES ASSUME Init PROVE TypeOK
  OBVIOUS
<1>1. pc \in [Procs -> PCs]
  BY NamesAssumption DEF Init, PCs, Procs
<1>2. /\ nextID \in Ids
      /\ callID \in [Calls -> Ids]
      /\ strays \in 0 .. MaxStrays
  BY IdAssumption DEF Init, Ids
<1>3. buf \in Seq(Messages) /\ wire \in Seq(Messages)
  BY DEF Init
<1>4. done \in BOOLEAN
  BY FlagsAssumption DEF Init
<1> QED
  BY <1>1, <1>2, <1>3, <1>4 DEF Init, TypeOK, Results, Reasons

\* So is the state after a step of end(), whoever runs it.
LEMMA EndStepType ==
  ASSUME TypeOK, NEW p \in Procs, EndStep(p)
  PROVE  TypeOK'
<1> USE DEF TypeOK, object, table, answers, incoming, peer
<1>1. pc' \in [Procs -> PCs]
  <2>1. "endStore" \in PCs /\ "endFlag" \in PCs /\ "endClose" \in PCs
    BY DEF PCs, EndPCs
  <2> QED
    BY <2>1, AfterEndType, GotoType DEF EndStep, EndTest, EndStore, EndFlag, EndClose
<1>2. endReason' \in Reasons \cup {"none"}
  BY DEF EndStep, EndTest, EndStore, EndFlag, EndClose
<1> QED
  BY <1>1, <1>2 DEF EndStep, EndTest, EndStore, EndFlag, EndClose

\* A call keeps the state well typed: from the client stub to its outcome.
LEMMA CallerType ==
  ASSUME TypeOK, NEW c \in Calls, StartCall(c) \/ CallStep(c)
  PROVE  TypeOK'
<1> USE DEF TypeOK, object, table, answers, incoming, peer
<1>0. c \in Procs /\ "ConnectionError" \in Reasons
  BY DEF Procs, Reasons
<1>1. {"waitReady", "check", "acquire", "write", "wait", "release", "return",
       "done", "panicked"} \subseteq PCs
  BY DEF PCs
<1>2. {"ok", "ended", "torn", "ctx", "sendErr", "remote", "decodeErr"} \subseteq Results
  BY DEF Results
<1>3. CASE StartCall(c) \/ SeeReady(c)
  BY <1>0, <1>1, <1>3, GotoType DEF StartCall, SeeReady
<1>4. CASE CheckConnected(c)
  BY <1>0, <1>1, <1>2, <1>4, GotoType DEF CheckConnected
<1>5. CASE Acquire(c)
  <2>1. PICK i \in Ids : /\ waitingCalls' = [waitingCalls EXCEPT ![i] = c]
                         /\ callID' = [callID EXCEPT ![c] = i]
                         /\ nextID' = (i + 1) % IdSpace
    BY <1>5 DEF Acquire
  <2>2. nextID' \in Ids
    BY <2>1, IdAssumption DEF Ids
  <2>3. pc' \in [Procs -> PCs]
    BY <1>0, <1>1, <1>5, GotoType DEF Acquire
  <2> QED
    BY <2>1, <2>2, <2>3, <1>5 DEF Acquire
<1>6. CASE SendRequest(c)
  <2>1. pc' \in [Procs -> PCs] /\ err' \in [Procs -> Reasons \cup {"none"}]
    BY <1>0, <1>1, <1>6, GotoType, CallEndType DEF SendRequest
  <2>2. outbox' \in SUBSET [of : Calls, id : Ids]
    BY <1>6 DEF SendRequest
  <2> QED
    BY <2>1, <2>2, <1>6 DEF SendRequest
<1>7. CASE ReleaseUnsent(c)
  <2>1. pc' \in [Procs -> PCs]
    BY <1>0, <1>1, <1>7, GotoType DEF ReleaseUnsent
  <2> QED
    BY <2>1, <1>2, <1>7 DEF ReleaseUnsent
<1>8. CASE SeeWaiter(c)
  BY <1>0, <1>1, <1>2, <1>8, GotoType DEF SeeWaiter
<1>9. CASE ContextEnds(c)
  BY <1>0, <1>1, <1>2, <1>9, GotoType DEF ContextEnds
<1>10. CASE ReturnToCaller(c)
  <2>1. result[c] \in Results
    OBVIOUS
  <2>2. result' \in [Calls -> Results]
    BY <1>2, <1>10, <2>1 DEF ReturnToCaller
  <2> QED
    BY <1>0, <1>1, <1>10, <2>2, GotoType DEF ReturnToCaller
<1> QED
  BY <1>3, <1>4, <1>5, <1>6, <1>7, <1>8, <1>9, <1>10 DEF CallStep

\* What a message of each type holds.
LEMMA HeadType ==
  ASSUME buf \in Seq(Messages), buf # <<>>
  PROVE  /\ Head(buf) \in Messages
         /\ Tail(buf) \in Seq(Messages)
         /\ Head(buf).type = "return" =>
              /\ Head(buf).id \in Ids
              /\ Head(buf).of \in Calls \cup {NoCall}
              /\ Head(buf).kind \in ReplyKinds
         /\ Head(buf).type = "call" /\ Head(buf).kind = "known" => Head(buf).of \in Incoming
<1>1. Head(buf) \in Messages /\ Tail(buf) \in Seq(Messages)
  OBVIOUS
<1> QED
  BY <1>1 DEF Messages

\* So does the read loop, for every message it may find in its buffer.
LEMMA ReaderType ==
  ASSUME TypeOK, DecodingOK, ReaderStep
  PROVE  TypeOK'
<1> USE DEF TypeOK, object, table, answers, incoming, peer
<1>0. Reader \in Procs /\ Incoming \subseteq Procs
  BY DEF Procs
<1>1. {"preamble", "read", "decode", "exited", "running"} \subseteq PCs
  BY DEF PCs
<1>2. {"Shutdown", "ProtocolError", "ConnectionError", "GenericError"} \subseteq Reasons
  BY DEF Reasons
<1>3. CASE ReaderStarts
  BY <1>0, <1>1, <1>2, <1>3, GotoType, CallEndType DEF ReaderStarts
<1>4. CASE ReadPreamble
  <2>1. pc' \in [Procs -> PCs] /\ err' \in [Procs -> Reasons \cup {"none"}]
    BY <1>0, <1>1, <1>2, <1>4, GotoType, CallEndType DEF ReadPreamble
  <2>2. strays' \in 0 .. MaxStrays
    BY <1>4, IdAssumption DEF ReadPreamble
  <2> QED
    BY <2>1, <2>2, <1>4 DEF ReadPreamble
<1>5. CASE ReadSome
  <2>1. PICK k \in 1 .. Len(wire) : /\ buf' = SubSeq(wire, 1, k)
                                    /\ wire' = SubSeq(wire, k + 1, Len(wire))
    BY <1>5 DEF ReadSome
  <2>2. buf' \in Seq(Messages) /\ wire' \in Seq(Messages)
    BY <2>1, SplitType
  <2> QED
    BY <2>2, <1>5 DEF ReadSome
<1>6. CASE ReadFails
  BY <1>0, <1>2, <1>6, CallEndType DEF ReadFails
<1>7. CASE TakeReturn
  <2>1. Head(buf).id \in Ids
    BY <1>7, HeadType DEF TakeReturn, Handling
  <2>2. pc' \in [Procs -> PCs] /\ err' \in [Procs -> Reasons \cup {"none"}]
    BY <1>0, <1>1, <1>2, <1>7, GotoType, CallEndType DEF TakeReturn
  <2> QED
    BY <2>1, <2>2, <1>7 DEF TakeReturn
<1>8. CASE Decode
  <2>1. /\ Head(buf).kind \in ReplyKinds
        /\ Head(buf).of \in Calls \cup {NoCall}
        /\ Tail(buf) \in Seq(Messages)
        /\ decoding \in Calls
    BY <1>8, HeadType DEF Decode, DecodingOK
  <2>2. pc' \in [Procs -> PCs] /\ err' \in [Procs -> Reasons \cup {"none"}]
    BY <1>0, <1>1, <1>2, <1>8, GotoType, CallEndType DEF Decode
  <2>3. waiter' \in [Calls -> BOOLEAN]
    BY <1>8, <2>1 DEF Decode
  <2> QED
    BY <2>1, <2>2, <2>3, <1>8 DEF Decode
<1>9. CASE TakeCall
  <2>1. Head(buf).of \in Procs /\ Tail(buf) \in Seq(Messages)
    BY <1>0, <1>9, HeadType DEF TakeCall, Handling
  <2> QED
    BY <2>1, <1>1, <1>9, GotoType DEF TakeCall
<1>10. CASE RefuseCall
  <2>1. Tail(buf) \in Seq(Messages)
    BY <1>10, HeadType DEF RefuseCall, Handling
  <2> QED
    BY <2>1, <1>0, <1>2, <1>10, CallEndType DEF RefuseCall
<1>11. CASE TakeGarbled
  BY <1>0, <1>2, <1>11, CallEndType DEF TakeGarbled
<1>12. CASE SkipUnknownType
  BY <1>12, HeadType DEF SkipUnknownType, Handling
<1>13. CASE ReleaseAll
  BY <1>0, <1>1, <1>13, GotoType DEF ReleaseAll
<1> QED
  BY <1>3, <1>4, <1>5, <1>6, <1>7, <1>8, <1>9, <1>10, <1>11, <1>12, <1>13
  DEF ReaderStep

OtherStep ==
  \/ \E m \in Incoming : HandlerReplies(m)
  \/ HookReturns \/ MarkReady \/ Close

\* So do the handlers, the hook and Close().
LEMMA OtherType ==
  ASSUME TypeOK, OtherStep
  PROVE  TypeOK'
<1> USE DEF TypeOK, object, table, answers, incoming, peer
<1>0. {Hook, Closer} \cup Incoming \subseteq Procs
  BY DEF Procs
<1>1. {"replied", "markReady", "done"} \subseteq PCs
  BY DEF PCs
<1>2. {"ConnectionError", "ApplicationError", "Shutdown"} \subseteq Reasons
  BY DEF Reasons
<1>3. ASSUME NEW m \in Incoming, HandlerReplies(m) PROVE TypeOK'
  BY <1>0, <1>1, <1>2, <1>3, GotoType, CallEndType DEF HandlerReplies
<1>4. CASE HookReturns
  BY <1>0, <1>1, <1>2, <1>4, GotoType, CallEndType DEF HookReturns
<1>5. CASE MarkReady
  BY <1>0, <1>1, <1>5, GotoType DEF MarkReady
<1>6. CASE Close
  BY <1>0, <1>2, <1>6, CallEndType DEF Close
<1> QED
  BY <1>3, <1>4, <1>5, <1>6 DEF OtherStep

\* And the peer and the network: what they add to the wire are messages.
LEMMA PeerType ==
  ASSUME TypeOK, PeerStep
  PROVE  TypeOK'
<1> USE DEF TypeOK, object, table, answers, incoming, peer
<1>1. CASE PeerReplies
  <2>1. PICK r \in outbox, k \in ReplyKinds :
          /\ Arrives([type |-> "return", id |-> r.id, of |-> r.of, kind |-> k])
          /\ outbox' = outbox \ {r}
    BY <1>1 DEF PeerReplies
  <2>2. [type |-> "return", id |-> r.id, of |-> r.of, kind |-> k] \in Messages
    BY <2>1 DEF Messages
  <2>3. wire' \in Seq(Messages)
    BY <2>1, <2>2 DEF Arrives
  <2> QED
    BY <2>1, <2>3, <1>1 DEF PeerReplies
<1>2. CASE PeerCalls
  <2>1. PICK m \in Incoming :
          /\ Goto(m, "sent")
          /\ Arrives([type |-> "call", id |-> 0, of |-> m, kind |-> "known"])
    BY <1>2 DEF PeerCalls
  <2>2. [type |-> "call", id |-> 0, of |-> m, kind |-> "known"] \in Messages
    BY DEF Messages
  <2>3. m \in Procs /\ "sent" \in PCs
    BY DEF Procs, PCs
  <2>4. wire' \in Seq(Messages)
    BY <2>1, <2>2 DEF Arrives
  <2> QED
    BY <2>1, <2>3, <2>4, <1>2, GotoType DEF PeerCalls
<1>3. CASE PeerStrays
  <2>1. wire' \in Seq(Messages)
    <3>1. CASE \E i \in Ids, k \in ReplyKinds :
                 Arrives([type |-> "return", id |-> i, of |-> NoCall, kind |-> k])
      BY <3>1 DEF Arrives, Messages
    <3>2. CASE \E t \in {"call", "garbled", "other"} :
                 Arrives([type |-> t, id |-> 0, of |-> NoCall, kind |-> "unknown"])
      BY <3>2 DEF Arrives, Messages
    <3> QED
      BY <3>1, <3>2, <1>3 DEF PeerStrays
  <2>2. strays' \in 0 .. MaxStrays
    BY <1>3, IdAssumption DEF PeerStrays
  <2> QED
    BY <2>1, <2>2, <1>3 DEF PeerStrays
<1>4. CASE PeerLeaves
  <2>1. PICK k \in 0 .. Len(wire) : wire' = SubSeq(wire, 1, k)
    BY <1>4 DEF PeerLeaves
  <2>2. wire' \in Seq(Messages)
    BY <2>1, SplitType
  <2> QED
    BY <2>2, <1>4 DEF PeerLeaves
<1>5. CASE PeerStalls
  BY <1>5 DEF PeerStalls
<1> QED
  BY <1>1, <1>2, <1>3, <1>4, <1>5 DEF PeerStep

\* The steps of Next, as the lemmas below take them.
LEMMA NextSteps ==
  ASSUME [Next]_vars
  PROVE  \/ \E p \in Procs : EndStep(p)
         \/ \E c \in Calls : StartCall(c) \/ CallStep(c)
         \/ ReaderStep
         \/ OtherStep
         \/ PeerStep
         \/ UNCHANGED vars
  BY DEF Next, OtherStep

\* A stuttering step changes nothing.
LEMMA StutterType ==
  ASSUME TypeOK, UNCHANGED vars
  PROVE  TypeOK'
  BY DEF TypeOK, vars, object, table, answers, incoming, peer

\* Every step keeps the state well typed; DecodingOK says there is a message to decode.
LEMMA NextType ==
  ASSUME TypeOK, DecodingOK, [Next]_vars
  PROVE  TypeOK'
  BY NextSteps, EndStepType, CallerType, ReaderType, OtherType, PeerType, StutterType

-----------------------------------------------------------------------------
(* DecodingOK.                                                             *)

\* Goroutines other than the read loop leave it where it is.
LEMMA ReaderStays ==
  ASSUME TypeOK, NEW p \in Procs, p # Reader, NEW l,
         Goto(p, l)
  PROVE  pc'[Reader] = pc[Reader]
  BY DEF TypeOK, Goto, Procs

\* end() never leads back into the decoder.
LEMMA EndDestination ==
  ASSUME TypeOK, NEW p \in Procs, EndStep(p)
  PROVE  /\ pc[p] \in EndPCs
         /\ pc'[p] \in {"endStore", "endFlag", "endClose", "release", "gone", "abandoned",
                        "cleanup", "markReady", "closed"}
         /\ \A q \in Procs \ {p} : pc'[q] = pc[q]
<1>1. AfterEnd(p) \in {"release", "gone", "abandoned", "cleanup", "markReady", "closed"}
  BY DEF AfterEnd, Procs
<1> QED
  BY <1>1 DEF TypeOK, EndStep, EndTest, EndStore, EndFlag, EndClose, EndPCs, Goto

\* Every step preserves DecodingOK.
LEMMA NextDecoding ==
  ASSUME TypeOK, DecodingOK, [Next]_vars
  PROVE  DecodingOK'
<1> USE DEF DecodingOK, object, table, answers, incoming, peer
<1>0. Reader \in Procs /\ Reader \notin Calls \cup Incoming /\ Calls \cup Incoming \subseteq Procs
      /\ Hook \in Procs /\ Hook # Reader /\ Closer \in Procs /\ Closer # Reader
  BY NamesAssumption DEF Procs
<1>1. ASSUME NEW p \in Procs, EndStep(p) PROVE DecodingOK'
  <2>1. UNCHANGED <<decoding, buf>>
    BY <1>1 DEF EndStep, EndTest, EndStore, EndFlag, EndClose
  <2>2. pc'[Reader] = "decode" <=> pc[Reader] = "decode"
    BY <1>0, <1>1, EndDestination DEF EndPCs
  <2> QED
    BY <2>1, <2>2
<1>2. ASSUME NEW c \in Calls, StartCall(c) \/ CallStep(c) PROVE DecodingOK'
  <2>1. UNCHANGED <<decoding, buf>>
    BY <1>2 DEF StartCall, CallStep, SeeReady, CheckConnected, Acquire, SendRequest,
                ReleaseUnsent, SeeWaiter, ContextEnds, ReturnToCaller
  <2>2. pc'[Reader] = pc[Reader]
    BY <1>0, <1>2, ReaderStays
    DEF StartCall, CallStep, SeeReady, CheckConnected, Acquire, SendRequest,
        ReleaseUnsent, SeeWaiter, ContextEnds, ReturnToCaller, CallEnd, Goto
  <2> QED
    BY <2>1, <2>2
<1>3. CASE ReaderStep
  <2> USE <1>0 DEF TypeOK, Goto, CallEnd
  <2>1. CASE ReaderStarts \/ ReadPreamble \/ ReadFails
    BY <2>1 DEF ReaderStarts, ReadPreamble, ReadFails
  <2>2. CASE ReadSome
    BY <2>2 DEF ReadSome
  <2>3. CASE TakeReturn
    <3>1. Head(buf).id \in Ids
      BY <2>3, HeadType DEF TakeReturn, Handling
    <3> QED
      BY <2>3, <3>1 DEF TakeReturn, Handling
  <2>4. CASE Decode
    BY <2>4 DEF Decode
  <2>5. CASE TakeCall
    <3>1. Head(buf).of \in Incoming
      BY <2>5, HeadType DEF TakeCall, Handling
    <3> QED
      BY <2>5, <3>1 DEF TakeCall, Handling
  <2>6. CASE RefuseCall \/ TakeGarbled \/ SkipUnknownType
    BY <2>6 DEF RefuseCall, TakeGarbled, SkipUnknownType, Handling
  <2>7. CASE ReleaseAll
    BY <2>7 DEF ReleaseAll
  <2> QED
    BY <1>3, <2>1, <2>2, <2>3, <2>4, <2>5, <2>6, <2>7 DEF ReaderStep
<1>4. CASE OtherStep
  BY <1>0, <1>4, ReaderStays
  DEF OtherStep, HandlerReplies, HookReturns, MarkReady, Close, CallEnd, Goto
<1>5. CASE PeerStep
  BY <1>0, <1>5, ReaderStays
  DEF PeerStep, PeerReplies, PeerCalls, PeerStrays, PeerLeaves, PeerStalls, Goto
<1>6. CASE UNCHANGED vars
  BY <1>6 DEF vars
<1> QED
  BY <1>1, <1>2, <1>3, <1>4, <1>5, <1>6, NextSteps

-----------------------------------------------------------------------------
(* ReasonOK.                                                               *)

\* Only end() touches `connected` and endReason, and only with a real reason.
LEMMA ObjectOnlyInEnd ==
  ASSUME [Next]_vars
  PROVE  \/ \E p \in Procs : EndStep(p)
         \/ UNCHANGED <<connected, endReason>>
  BY NextSteps
  DEF StartCall, CallStep, SeeReady, CheckConnected, Acquire, SendRequest, ReleaseUnsent,
      SeeWaiter, ContextEnds, ReturnToCaller, ReaderStep, ReaderStarts, ReadPreamble,
      ReadSome, ReadFails, TakeReturn, Decode, TakeCall, RefuseCall, TakeGarbled,
      SkipUnknownType, ReleaseAll, OtherStep, HandlerReplies, HookReturns, MarkReady,
      Close, PeerStep, PeerReplies, PeerCalls, PeerStrays, PeerLeaves, PeerStalls,
      object, vars

\* A step of end() preserves ReasonOK: the reason is stored before the flag is cleared.
LEMMA EndStepReason ==
  ASSUME TypeOK, ReasonOK, NEW p \in Procs, EndStep(p)
  PROVE  ReasonOK' /\ (endReason # "none" => endReason' # "none")
<1> USE DEF TypeOK, ReasonOK, object, EndPCs, Goto
<1>1. AfterEnd(p) \in {"release", "gone", "abandoned", "cleanup", "markReady", "closed"}
  BY DEF AfterEnd, Procs
<1>2. Reader \in Procs
  BY DEF Procs
<1>3. CASE EndTest(p)
  BY <1>1, <1>2, <1>3 DEF EndTest
<1>4. CASE EndStore(p)
  BY <1>2, <1>4 DEF EndStore
<1>5. CASE EndFlag(p)
  BY <1>2, <1>5 DEF EndFlag
<1>6. CASE EndClose(p)
  BY <1>1, <1>2, <1>6 DEF EndClose
<1> QED
  BY <1>3, <1>4, <1>5, <1>6 DEF EndStep

\* A step outside end() moves at most one goroutine, neither into the middle of
\* end() nor, without a reason, to its start; the read loop enters its cleanup
\* only from end().
LEMMA OtherGoroutines ==
  ASSUME TypeOK, ReasonOK, [Next]_vars, \A p \in Procs : ~EndStep(p)
  PROVE  /\ \A p \in Procs : pc'[p] \in EndPCs =>
                \/ pc[p] \in EndPCs /\ pc'[p] = pc[p] /\ err'[p] = err[p]
                \/ pc'[p] = "endTest" /\ err'[p] # "none"
         /\ pc'[Reader] \in {"cleanup", "exited"} => pc[Reader] \in {"cleanup", "exited"}
<1> USE DEF TypeOK, EndPCs, Goto, CallEnd
<1>0. Reader \in Procs /\ Reader \notin Calls \cup Incoming /\ Calls \cup Incoming \subseteq Procs
      /\ Hook \in Procs /\ Hook # Reader /\ Closer \in Procs /\ Closer # Reader
  BY NamesAssumption DEF Procs
<1>1. ASSUME NEW c \in Calls, StartCall(c) \/ CallStep(c)
      PROVE  /\ \A p \in Procs : p # c => pc'[p] = pc[p] /\ err'[p] = err[p]
             /\ pc'[c] \in EndPCs => pc'[c] = "endTest" /\ err'[c] # "none"
  BY <1>0, <1>1
  DEF StartCall, CallStep, SeeReady, CheckConnected, Acquire, SendRequest, ReleaseUnsent,
      SeeWaiter, ContextEnds, ReturnToCaller
<1>2. CASE ReaderStep
  <2> USE <1>0
  <2>1. CASE ReaderStarts \/ ReadPreamble \/ ReadFails \/ RefuseCall \/ TakeGarbled
    BY <2>1 DEF ReaderStarts, ReadPreamble, ReadFails, RefuseCall, TakeGarbled, Handling
  <2>2. CASE ReadSome \/ SkipUnknownType \/ ReleaseAll
    BY <2>2 DEF ReadSome, SkipUnknownType, ReleaseAll
  <2>3. CASE TakeReturn
    BY <2>3 DEF TakeReturn, Handling
  <2>4. CASE Decode
    BY <2>4 DEF Decode
  <2>5. CASE TakeCall
    <3>1. Head(buf).of \in Incoming
      BY <2>5, HeadType DEF TakeCall, Handling
    <3> QED
      BY <2>5, <3>1 DEF TakeCall, Handling
  <2> QED
    BY <1>2, <2>1, <2>2, <2>3, <2>4, <2>5 DEF ReaderStep
<1>3. CASE OtherStep
  BY <1>0, <1>3 DEF OtherStep, HandlerReplies, HookReturns, MarkReady, Close
<1>4. CASE PeerStep
  BY <1>0, <1>4
  DEF PeerStep, PeerReplies, PeerCalls, PeerStrays, PeerLeaves, PeerStalls
<1>5. CASE UNCHANGED vars
  BY <1>5 DEF vars
<1> QED
  BY <1>0, <1>1, <1>2, <1>3, <1>4, <1>5, NextSteps

\* Every step preserves ReasonOK.
LEMMA NextReason ==
  ASSUME TypeOK, ReasonOK, [Next]_vars
  PROVE  ReasonOK' /\ (endReason # "none" => endReason' # "none")
<1>1. CASE \E p \in Procs : EndStep(p)
  BY <1>1, EndStepReason
<1>2. CASE \A p \in Procs : ~EndStep(p)
  <2>1. UNCHANGED <<connected, endReason>>
    BY <1>2, ObjectOnlyInEnd
  <2> QED
    BY <1>2, <2>1, OtherGoroutines DEF ReasonOK, EndPCs
<1> QED
  BY <1>1, <1>2

-----------------------------------------------------------------------------
(* SlotsOK: a slot's channel is open as long as the slot can be found.     *)

\* A caller takes a free slot with a fresh channel, and gives up its own only.
LEMMA CallerSlots ==
  ASSUME TypeOK, SlotsOK, NEW c \in Calls, StartCall(c) \/ CallStep(c)
  PROVE  SlotsOK'
<1> USE DEF TypeOK, SlotsOK, NotYetPlaced, Goto, CallEnd, object, table, answers, EndPCs
<1>0. Calls \subseteq Procs /\ NoCall \notin Calls
  BY NamesAssumption DEF Procs
<1>1. CASE StartCall(c) \/ SeeReady(c) \/ CheckConnected(c)
  BY <1>0, <1>1 DEF StartCall, SeeReady, CheckConnected
<1>2. CASE Acquire(c)
  <2>1. PICK i \in Ids : /\ FirstFree(i)
                         /\ waitingCalls' = [waitingCalls EXCEPT ![i] = c]
                         /\ callID' = [callID EXCEPT ![c] = i]
    BY <1>2 DEF Acquire
  <2> QED
    BY <1>0, <1>2, <2>1 DEF Acquire
<1>3. CASE SendRequest(c)
  BY <1>0, <1>3 DEF SendRequest
<1>4. CASE ReleaseUnsent(c)
  <2>1. \A i \in Ids, d \in Calls : waitingCalls'[i] = d => waitingCalls[i] = d
    BY <1>0, <1>4 DEF ReleaseUnsent
  <2>2. \A d \in Calls : pc'[d] \in NotYetPlaced => pc[d] \in NotYetPlaced
    BY <1>0, <1>4 DEF ReleaseUnsent
  <2>3. UNCHANGED <<callID, waiter, decoding>>
    BY <1>4 DEF ReleaseUnsent
  <2> QED
    BY <2>1, <2>2, <2>3
<1>5. CASE SeeWaiter(c) \/ ContextEnds(c) \/ ReturnToCaller(c)
  BY <1>0, <1>5 DEF SeeWaiter, ContextEnds, ReturnToCaller
<1> QED
  BY <1>1, <1>2, <1>3, <1>4, <1>5 DEF CallStep

\* The read loop closes a channel only after its slot has been freed.
LEMMA ReaderSlots ==
  ASSUME TypeOK, DecodingOK, SlotsOK, ReaderStep
  PROVE  SlotsOK'
<1> USE DEF TypeOK, SlotsOK, DecodingOK, NotYetPlaced, Goto, CallEnd, object, table, answers
<1>0. Calls \cup Incoming \cup {Reader} \subseteq Procs /\ NoCall \notin Calls
      /\ Reader \notin Calls /\ Calls \cap Incoming = {}
  BY NamesAssumption DEF Procs
<1>1. CASE ReaderStarts \/ ReadPreamble \/ ReadSome \/ ReadFails
  BY <1>0, <1>1 DEF ReaderStarts, ReadPreamble, ReadSome, ReadFails
<1>2. CASE TakeReturn
  <2>1. Head(buf).id \in Ids
    BY <1>2, HeadType DEF TakeReturn, Handling
  <2>2. UNCHANGED <<waiter, callID>> /\ \A c \in Calls : pc'[c] = pc[c]
    BY <1>0, <1>2 DEF TakeReturn
  <2>3. decoding = NoCall
    BY <1>2 DEF TakeReturn, Handling
  <2> QED
    BY <1>0, <1>2, <2>1, <2>2, <2>3, SMTT(20) DEF TakeReturn
<1>3. CASE Decode
  <2>1. decoding \in Calls /\ decoding' = NoCall
    BY <1>3 DEF Decode
  <2>2. UNCHANGED <<waitingCalls, callID>> /\ \A c \in Calls : pc'[c] = pc[c]
    BY <1>0, <1>3 DEF Decode
  <2>3. \A c \in Calls : c # decoding => waiter'[c] = waiter[c]
    BY <1>3 DEF Decode
  <2> QED
    BY <1>0, <2>1, <2>2, <2>3
<1>4. CASE TakeCall
  <2>1. Head(buf).of \in Incoming
    BY <1>4, HeadType DEF TakeCall, Handling
  <2> QED
    BY <1>0, <1>4, <2>1 DEF TakeCall
<1>5. CASE RefuseCall \/ TakeGarbled \/ SkipUnknownType
  BY <1>0, <1>5 DEF RefuseCall, TakeGarbled, SkipUnknownType
<1>6. CASE ReleaseAll
  BY <1>0, <1>6 DEF ReleaseAll
<1> QED
  BY <1>1, <1>2, <1>3, <1>4, <1>5, <1>6 DEF ReaderStep

\* Every step preserves SlotsOK.
LEMMA NextSlots ==
  ASSUME TypeOK, DecodingOK, SlotsOK, [Next]_vars
  PROVE  SlotsOK'
<1>0. Calls \cup Incoming \cup {Hook, Closer} \subseteq Procs
      /\ Hook \notin Calls /\ Closer \notin Calls /\ Calls \cap Incoming = {}
  BY NamesAssumption DEF Procs
<1>1. ASSUME NEW p \in Procs, EndStep(p) PROVE SlotsOK'
  <2>1. UNCHANGED <<waitingCalls, callID, decoding, waiter>>
    BY <1>1 DEF EndStep, EndTest, EndStore, EndFlag, EndClose, table, answers
  <2>2. \A c \in Calls : pc'[c] \in NotYetPlaced => pc[c] \in NotYetPlaced
    BY <1>0, <1>1, EndDestination DEF NotYetPlaced
  <2> QED
    BY <2>1, <2>2 DEF SlotsOK
<1>2. CASE OtherStep
  <2>1. UNCHANGED <<waitingCalls, callID, decoding, waiter>>
    BY <1>2 DEF OtherStep, HandlerReplies, HookReturns, MarkReady, Close, table, answers
  <2>2. \A c \in Calls : pc'[c] = pc[c]
    BY <1>0, <1>2
    DEF OtherStep, HandlerReplies, HookReturns, MarkReady, Close, CallEnd, Goto, TypeOK
  <2> QED
    BY <2>1, <2>2 DEF SlotsOK
<1>3. CASE PeerStep
  <2>1. UNCHANGED <<waitingCalls, callID, decoding, waiter>>
    BY <1>3 DEF PeerStep, PeerReplies, PeerCalls, PeerStrays, PeerLeaves, PeerStalls,
                table, answers
  <2>2. \A c \in Calls : pc'[c] = pc[c]
    BY <1>0, <1>3
    DEF PeerStep, PeerReplies, PeerCalls, PeerStrays, PeerLeaves, PeerStalls, Goto, TypeOK
  <2> QED
    BY <2>1, <2>2 DEF SlotsOK
<1>4. CASE UNCHANGED vars
  BY <1>4 DEF vars, SlotsOK
<1> QED
  BY <1>1, <1>2, <1>3, <1>4, CallerSlots, ReaderSlots, NextSteps

-----------------------------------------------------------------------------
(* OutcomeOK.                                                              *)

\* Outside the read loop and the caller itself, nothing touches an outcome.
LEMMA CallerOutcome ==
  ASSUME TypeOK, OutcomeOK, NEW c \in Calls, StartCall(c) \/ CallStep(c)
  PROVE  OutcomeOK'
<1> USE DEF TypeOK, OutcomeOK, Goto, CallEnd, object, table, answers
<1>0. Calls \subseteq Procs /\ ReplyKinds \subseteq {"resp", "rpcErr", "bad"}
  BY KindsAssumption DEF Procs
<1>1. CASE StartCall(c) \/ SeeReady(c) \/ Acquire(c) \/ SendRequest(c)
  BY <1>0, <1>1 DEF StartCall, SeeReady, Acquire, SendRequest
<1>2. CASE CheckConnected(c)
  BY <1>0, <1>2 DEF CheckConnected
<1>3. CASE ReleaseUnsent(c)
  BY <1>0, <1>3 DEF ReleaseUnsent
<1>4. CASE SeeWaiter(c)
  <2>1. PICK r \in {IF endReason = "none" THEN "ok" ELSE "ended"}
                     \cup (IF TornRead THEN {"torn"} ELSE {}) :
          result' = [result EXCEPT ![c] = r]
    BY <1>4 DEF SeeWaiter
  <2>2. r = "ok" => endReason = "none"
    BY <2>1
  <2>3. waiter[c] /\ pc'[c] = "return"
    BY <1>0, <1>4 DEF SeeWaiter
  <2> QED
    BY <1>0, <1>4, <2>1, <2>2, <2>3 DEF SeeWaiter
<1>5. CASE ContextEnds(c)
  BY <1>0, <1>5 DEF ContextEnds
<1>6. CASE ReturnToCaller(c)
  <2>1. \A d \in Calls : d # c => result'[d] = result[d] /\ pc'[d] = pc[d]
    BY <1>0, <1>6 DEF ReturnToCaller
  <2>2. result'[c] = "ok" => result[c] = "ok" /\ decoded[c] \notin {"rpcErr", "bad"}
    <3>1. CASE decoded[c] = "rpcErr"
      BY <1>6, <3>1 DEF ReturnToCaller
    <3>2. CASE decoded[c] = "bad"
      BY <1>6, <3>2 DEF ReturnToCaller
    <3>3. CASE decoded[c] \notin {"rpcErr", "bad"}
      BY <1>6, <3>3 DEF ReturnToCaller
    <3> QED
      BY <3>1, <3>2, <3>3
  <2> QED
    BY <1>0, <1>6, <2>1, <2>2 DEF ReturnToCaller
<1> QED
  BY <1>1, <1>2, <1>3, <1>4, <1>5, <1>6 DEF CallStep

\* The read loop closes a waiter after decoding its reply, or for the end of the connection.
LEMMA ReaderOutcome ==
  ASSUME TypeOK, DecodingOK, ReasonOK, SlotsOK, OutcomeOK, ReaderStep
  PROVE  OutcomeOK'
<1> USE DEF TypeOK, OutcomeOK, DecodingOK, Goto, CallEnd, object, table, answers
<1>0. Calls \cup Incoming \cup {Reader} \subseteq Procs
      /\ Reader \notin Calls /\ Calls \cap Incoming = {}
      /\ ReplyKinds \subseteq {"resp", "rpcErr", "bad"}
  BY NamesAssumption, KindsAssumption DEF Procs
<1>1. CASE \/ ReaderStarts \/ ReadPreamble \/ ReadSome \/ ReadFails \/ TakeReturn
           \/ RefuseCall \/ TakeGarbled \/ SkipUnknownType
  BY <1>0, <1>1 DEF ReaderStarts, ReadPreamble, ReadSome, ReadFails, TakeReturn,
                    RefuseCall, TakeGarbled, SkipUnknownType
<1>2. CASE TakeCall
  <2>1. Head(buf).of \in Incoming
    BY <1>2, HeadType DEF TakeCall, Handling
  <2> QED
    BY <1>0, <1>2, <2>1 DEF TakeCall
<1>3. CASE Decode
  <2>1. decoding \in Calls /\ ~waiter[decoding] /\ Head(buf).kind \in ReplyKinds
    BY <1>3, HeadType DEF Decode, SlotsOK
  <2>2. result[decoding] # "ok"
    BY <2>1
  <2>3. UNCHANGED <<endReason, result>> /\ \A c \in Calls : pc'[c] = pc[c]
    BY <1>0, <1>3 DEF Decode
  <2>4. \A c \in Calls : c # decoding => decoded'[c] = decoded[c] /\ waiter'[c] = waiter[c]
    BY <1>3 DEF Decode
  <2>5. decoded'[decoding] = Head(buf).kind
    BY <1>3, <2>1 DEF Decode
  <2>6. waiter'[decoding] => Head(buf).kind # "bad"
    BY <1>3, <2>1 DEF Decode
  <2> QED
    BY <1>0, <2>1, <2>2, <2>3, <2>4, <2>5, <2>6
<1>4. CASE ReleaseAll
  <2>1. endReason # "none"
    BY <1>4 DEF ReleaseAll, ReasonOK
  <2>2. UNCHANGED <<endReason, result, decoded>> /\ \A c \in Calls : pc'[c] = pc[c]
    BY <1>0, <1>4 DEF ReleaseAll
  <2>3. \A c \in Calls : waiter[c] => waiter'[c]
    BY <1>4 DEF ReleaseAll
  <2> QED
    BY <2>1, <2>2, <2>3
<1> QED
  BY <1>1, <1>2, <1>3, <1>4 DEF ReaderStep

\* Every step preserves OutcomeOK.
LEMMA NextOutcome ==
  ASSUME TypeOK, DecodingOK, ReasonOK, SlotsOK, OutcomeOK, [Next]_vars
  PROVE  OutcomeOK'
<1>0. Calls \cup Incoming \cup {Hook, Closer} \subseteq Procs
      /\ Hook \notin Calls /\ Closer \notin Calls /\ Calls \cap Incoming = {}
  BY NamesAssumption DEF Procs
<1>1. ASSUME NEW p \in Procs, EndStep(p) PROVE OutcomeOK'
  <2>1. UNCHANGED <<waiter, decoded, result>>
    BY <1>1 DEF EndStep, EndTest, EndStore, EndFlag, EndClose, answers
  <2>2. \A c \in Calls : pc'[c] = "done" => pc[c] = "done"
    BY <1>0, <1>1, EndDestination
  <2>3. endReason # "none" => endReason' # "none"
    BY <1>1, EndStepReason
  <2> QED
    BY <2>1, <2>2, <2>3 DEF OutcomeOK
<1>2. CASE OtherStep
  <2>1. UNCHANGED <<waiter, decoded, result, endReason>>
    BY <1>2 DEF OtherStep, HandlerReplies, HookReturns, MarkReady, Close, object, answers
  <2>2. \A c \in Calls : pc'[c] = pc[c]
    BY <1>0, <1>2
    DEF OtherStep, HandlerReplies, HookReturns, MarkReady, Close, CallEnd, Goto, TypeOK
  <2> QED
    BY <2>1, <2>2 DEF OutcomeOK
<1>3. CASE PeerStep
  <2>1. UNCHANGED <<waiter, decoded, result, endReason>>
    BY <1>3 DEF PeerStep, PeerReplies, PeerCalls, PeerStrays, PeerLeaves, PeerStalls,
                object, answers
  <2>2. \A c \in Calls : pc'[c] = pc[c]
    BY <1>0, <1>3
    DEF PeerStep, PeerReplies, PeerCalls, PeerStrays, PeerLeaves, PeerStalls, Goto, TypeOK
  <2> QED
    BY <2>1, <2>2 DEF OutcomeOK
<1>4. CASE UNCHANGED vars
  BY <1>4 DEF vars, OutcomeOK
<1> QED
  BY <1>1, <1>2, <1>3, <1>4, CallerOutcome, ReaderOutcome, NextSteps

-----------------------------------------------------------------------------
(* What the steps of the others leave alone.                               *)

\* The kinds of goroutines are disjoint.
LEMMA Distinct ==
  /\ Calls \cup Incoming \cup {Reader, Hook, Closer} \subseteq Procs
  /\ {Reader, Hook, Closer} \cap (Calls \cup Incoming) = {}
  /\ Reader # Hook /\ Reader # Closer /\ Hook # Closer
  /\ Calls \cap Incoming = {} /\ NoCall \notin Calls \cup Incoming
  BY NamesAssumption DEF Procs

\* Handlers, the hook, Close() and the peer change nothing a call is made of.
LEMMA OthersKeep ==
  ASSUME TypeOK, OtherStep \/ PeerStep \/ UNCHANGED vars
  PROVE  /\ UNCHANGED <<waitingCalls, callID, waiter, decoded, replyOf, decoding, result,
                        sock, buf>>
         /\ \A c \in Calls : pc'[c] = pc[c] /\ err'[c] = err[c]
         /\ pc'[Reader] = pc[Reader]
<1> USE Distinct DEF TypeOK, Goto, CallEnd, object, table, answers, incoming
<1>1. CASE OtherStep
  BY <1>1 DEF OtherStep, HandlerReplies, HookReturns, MarkReady, Close
<1>2. CASE PeerStep
  BY <1>2 DEF PeerStep, PeerReplies, PeerCalls, PeerStrays, PeerLeaves, PeerStalls
<1>3. CASE UNCHANGED vars
  BY <1>3 DEF vars
<1> QED
  BY <1>1, <1>2, <1>3

\* A step of end() changes the object and its own goroutine's place, no more.
LEMMA EndKeeps ==
  ASSUME TypeOK, NEW p \in Procs, EndStep(p)
  PROVE  /\ UNCHANGED <<ready, done, waitingCalls, nextID, callID, waiter, decoded, replyOf,
                        decoding, result, err, buf, wire, outbox, peerUp, stalled, strays>>
         /\ \A q \in Procs \ {p} : pc'[q] = pc[q]
  BY EndDestination DEF EndStep, EndTest, EndStore, EndFlag, EndClose,
                        object, table, answers, incoming, peer

\* A step of a caller moves that caller only.
LEMMA CallerKeeps ==
  ASSUME TypeOK, NEW c \in Calls, StartCall(c) \/ CallStep(c)
  PROVE  /\ UNCHANGED <<connected, sock, ready, done, waiter, decoded, replyOf, decoding,
                        buf, wire, peerUp, strays>>
         /\ \A p \in Procs \ {c} : pc'[p] = pc[p] /\ err'[p] = err[p]
  BY Distinct
  DEF StartCall, CallStep, SeeReady, CheckConnected, Acquire, SendRequest, ReleaseUnsent,
      SeeWaiter, ContextEnds, ReturnToCaller, Goto, CallEnd, TypeOK,
      object, answers, incoming, peer

\* A step of the read loop moves itself and, at most, starts a handler.
LEMMA ReaderKeeps ==
  ASSUME TypeOK, ReaderStep
  PROVE  /\ UNCHANGED <<connected, endReason, sock, ready, done, callID, result, outbox,
                        peerUp>>
         /\ \A p \in Procs \ {Reader} :
              /\ err'[p] = err[p]
              /\ pc'[p] = pc[p] \/ (p \in Incoming /\ pc'[p] = "running")
<1>1. UNCHANGED <<connected, endReason, sock, ready, done, callID, result, outbox, peerUp>>
  BY DEF ReaderStep, ReaderStarts, ReadPreamble, ReadSome, ReadFails, TakeReturn, Decode,
         TakeCall, RefuseCall, TakeGarbled, SkipUnknownType, ReleaseAll,
         object, table, peer
<1>2. Handling("call") /\ Head(buf).kind = "known" => Head(buf).of \in Incoming
  BY HeadType DEF Handling, TypeOK
<1>3. \/ UNCHANGED pc
      \/ \E l : Goto(Reader, l)
      \/ \E m \in Incoming : Goto(m, "running")
  BY <1>2 DEF ReaderStep, ReaderStarts, ReadPreamble, ReadSome, ReadFails, TakeReturn,
              Decode, TakeCall, RefuseCall, TakeGarbled, SkipUnknownType, ReleaseAll,
              CallEnd
<1>4. UNCHANGED err \/ \E e : err' = [err EXCEPT ![Reader] = e]
  BY DEF ReaderStep, ReaderStarts, ReadPreamble, ReadSome, ReadFails, TakeReturn,
         Decode, TakeCall, RefuseCall, TakeGarbled, SkipUnknownType, ReleaseAll, CallEnd
<1>5. \A p \in Procs \ {Reader} : err'[p] = err[p]
  BY <1>4 DEF TypeOK
<1>6. \A p \in Procs \ {Reader} : pc'[p] = pc[p] \/ (p \in Incoming /\ pc'[p] = "running")
  <2>1. pc \in [Procs -> PCs] /\ Incoming \subseteq Procs
    BY Distinct DEF TypeOK
  <2>2. CASE UNCHANGED pc
    BY <2>2
  <2>3. ASSUME NEW l, Goto(Reader, l) PROVE \A p \in Procs \ {Reader} : pc'[p] = pc[p]
    BY <2>1, <2>3 DEF Goto
  <2>4. ASSUME NEW m \in Incoming, Goto(m, "running")
        PROVE  \A p \in Procs : pc'[p] = pc[p] \/ (p \in Incoming /\ pc'[p] = "running")
    BY <2>1, <2>4 DEF Goto
  <2> QED
    BY <1>3, <2>2, <2>3, <2>4
<1> QED
  BY <1>1, <1>5, <1>6

-----------------------------------------------------------------------------
(* AnswersOK.                                                              *)

\* The steps of a caller.
LEMMA CallerAnswers ==
  ASSUME TypeOK, SlotsOK, AnswersOK, NEW c \in Calls, StartCall(c) \/ CallStep(c)
  PROVE  AnswersOK'
<1> USE Distinct DEF TypeOK, AnswersOK, Goto, NotYetPlaced, object, table, answers
<1>0. UNCHANGED <<waiter, decoded, decoding>> /\ \A d \in Calls \ {c} : pc'[d] = pc[d]
  BY CallerKeeps
<1>1. CASE StartCall(c) \/ SeeReady(c)
  BY <1>1 DEF StartCall, SeeReady
<1>2. CASE CheckConnected(c)
  BY <1>2 DEF CheckConnected, SlotsOK
<1>3. CASE Acquire(c)
  BY <1>3 DEF Acquire
<1>4. CASE SendRequest(c)
  BY <1>4 DEF SendRequest, CallEnd
<1>5. CASE ReleaseUnsent(c)
  <2>1. \A i \in Ids : waitingCalls'[i] # c
    BY <1>5, SMTT(20) DEF ReleaseUnsent, SlotsOK
  <2>2. \A i \in Ids, d \in Calls : waitingCalls'[i] = d => waitingCalls[i] = d
    BY <1>5 DEF ReleaseUnsent
  <2>3. \A d \in Calls \ {c} : result'[d] = result[d]
    BY <1>5 DEF ReleaseUnsent
  <2>4. pc'[c] \notin NotYetPlaced
    BY <1>5 DEF ReleaseUnsent
  <2> QED
    BY <1>0, <2>1, <2>2, <2>3, <2>4, SMTT(20)
<1>6. CASE SeeWaiter(c)
  BY <1>6 DEF SeeWaiter, SlotsOK
<1>7. CASE ContextEnds(c)
  BY <1>7 DEF ContextEnds
<1>8. CASE ReturnToCaller(c)
  <2>1. \A i \in Ids : waitingCalls[i] = c => result'[c] = result[c]
    BY <1>8 DEF ReturnToCaller, SlotsOK
  <2>2. UNCHANGED waitingCalls /\ \A d \in Calls \ {c} : result'[d] = result[d]
    BY <1>8 DEF ReturnToCaller
  <2>3. pc[c] = "return" /\ pc'[c] = "done"
    BY <1>8 DEF ReturnToCaller
  <2> QED
    <3>1. \A d \in Calls : pc'[d] \in NotYetPlaced => pc[d] \in NotYetPlaced
      BY <1>0, <2>3
    <3>2. \A i \in Ids : waitingCalls'[i] = c =>
             decoded'[c] = "none" /\ result'[c] = "ctx"
      BY <1>0, <2>1, <2>2, <2>3
    <3> QED
      BY <1>0, <2>2, <3>1, <3>2
<1> QED
  BY <1>1, <1>2, <1>3, <1>4, <1>5, <1>6, <1>7, <1>8 DEF CallStep

\* The steps of the read loop: a slot is given up before its call is answered.
LEMMA ReaderAnswers ==
  ASSUME TypeOK, DecodingOK, SlotsOK, AnswersOK, ReaderStep
  PROVE  AnswersOK'
<1> USE DEF AnswersOK, table, answers
<1>0. UNCHANGED result /\ \A c \in Calls : pc'[c] = pc[c]
  BY ReaderKeeps, Distinct
<1>1. CASE \/ ReaderStarts \/ ReadPreamble \/ ReadSome \/ ReadFails
           \/ TakeCall \/ RefuseCall \/ TakeGarbled \/ SkipUnknownType
  <2>1. UNCHANGED <<waitingCalls, decoded, decoding>>
    BY <1>1 DEF ReaderStarts, ReadPreamble, ReadSome, ReadFails, TakeCall, RefuseCall,
                TakeGarbled, SkipUnknownType
  <2> QED
    BY <1>0, <2>1
<1>2. CASE TakeReturn
  <2>1. UNCHANGED decoded
    BY <1>2 DEF TakeReturn
  <2>2. \A i \in Ids, c \in Calls : waitingCalls'[i] = c => waitingCalls[i] = c
    BY <1>2, Distinct DEF TakeReturn, TypeOK
  <2>3. decoding' \in Calls => \/ decoding' = decoding
                               \/ \E i \in Ids : waitingCalls[i] = decoding'
    BY <1>2, HeadType DEF TakeReturn, Handling, TypeOK
  <2> QED
    BY <1>0, <2>1, <2>2, <2>3
<1>3. CASE Decode
  <2>1. \A c \in Calls : c # decoding => decoded'[c] = decoded[c]
    BY <1>3 DEF Decode, TypeOK
  <2>2. decoding \in Calls /\ decoding' = NoCall /\ UNCHANGED waitingCalls
    BY <1>3 DEF Decode, DecodingOK
  <2>3. \A i \in Ids : waitingCalls[i] # decoding
    BY <2>2 DEF SlotsOK
  <2>4. pc[decoding] \notin NotYetPlaced
    BY <2>2 DEF SlotsOK
  <2> QED
    BY <1>0, <2>1, <2>2, <2>3, <2>4, Distinct
<1>4. CASE ReleaseAll
  <2>1. UNCHANGED <<decoded, decoding>> /\ \A i \in Ids : waitingCalls'[i] = NoCall
    BY <1>4 DEF ReleaseAll
  <2> QED
    BY <1>0, <2>1, Distinct
<1> QED
  BY <1>1, <1>2, <1>3, <1>4 DEF ReaderStep

\* Every step preserves AnswersOK.
LEMMA NextAnswers ==
  ASSUME TypeOK, DecodingOK, SlotsOK, AnswersOK, [Next]_vars
  PROVE  AnswersOK'
<1>1. ASSUME NEW p \in Procs, EndStep(p) PROVE AnswersOK'
  <2>1. \A c \in Calls : pc'[c] = pc[c] \/ pc'[c] \notin NotYetPlaced \cup {"return", "done"}
    BY <1>1, EndDestination, Distinct DEF NotYetPlaced
  <2> QED
    BY <1>1, <2>1, EndKeeps DEF AnswersOK
<1>2. CASE OtherStep \/ PeerStep \/ UNCHANGED vars
  BY <1>2, OthersKeep DEF AnswersOK
<1> QED
  BY <1>1, <1>2, CallerAnswers, ReaderAnswers, NextSteps

-----------------------------------------------------------------------------
(* HookOK.                                                                 *)

\* Every step preserves HookOK: the hook's goroutine never comes back to it.
LEMMA NextHook ==
  ASSUME TypeOK, HookOK, [Next]_vars
  PROVE  HookOK'
<1> USE Distinct DEF HookOK, BeforeReady, NotPassed
<1>1. ASSUME NEW p \in Procs, EndStep(p) PROVE HookOK'
  <2>1. pc'[Hook] \in BeforeReady => pc[Hook] \in BeforeReady
    BY <1>1, EndDestination DEF EndPCs
  <2>2. \A c \in Calls : pc[c] \in NotPassed => pc'[c] = pc[c]
    BY <1>1, EndDestination DEF EndPCs
  <2> QED
    BY <1>1, <2>1, <2>2, EndKeeps
<1>2. ASSUME NEW c \in Calls, StartCall(c) \/ CallStep(c) PROVE HookOK'
  <2>1. pc'[Hook] = pc[Hook] /\ UNCHANGED ready /\ \A d \in Calls \ {c} : pc'[d] = pc[d]
    BY <1>2, CallerKeeps
  <2>2. CASE c \in HookCalls
    <3>1. \A r \in outbox' : r \in outbox \/ r.of = c
      BY <1>2 DEF StartCall, CallStep, SeeReady, CheckConnected, Acquire, SendRequest,
                  ReleaseUnsent, SeeWaiter, ContextEnds, ReturnToCaller, peer
    <3> QED
      BY <2>1, <2>2, <3>1
  <2>3. CASE c \notin HookCalls
    <3>1. HasHook /\ pc[Hook] \in BeforeReady =>
             pc'[c] \in NotPassed /\ UNCHANGED outbox
      BY <1>2, <2>3
      DEF StartCall, CallStep, SeeReady, CheckConnected, Acquire, SendRequest,
          ReleaseUnsent, SeeWaiter, ContextEnds, ReturnToCaller, Goto, TypeOK, peer
    <3> QED
      BY <2>1, <2>3, <3>1
  <2> QED
    BY <2>2, <2>3
<1>3. CASE ReaderStep
  BY <1>3, ReaderKeeps
<1>4. CASE OtherStep
  <2>1. UNCHANGED outbox /\ \A c \in Calls : pc'[c] = pc[c]
    BY <1>4, OthersKeep DEF OtherStep, HandlerReplies, HookReturns, MarkReady, Close, peer
  <2>2. pc'[Hook] \in BeforeReady => pc[Hook] \in BeforeReady /\ UNCHANGED ready
    BY <1>4 DEF OtherStep, HandlerReplies, HookReturns, MarkReady, Close, Goto, CallEnd,
                TypeOK, EndPCs
  <2> QED
    BY <2>1, <2>2
<1>5. CASE PeerStep
  <2>1. UNCHANGED ready /\ pc'[Hook] = pc[Hook] /\ outbox' \subseteq outbox
    BY <1>5 DEF PeerStep, PeerReplies, PeerCalls, PeerStrays, PeerLeaves, PeerStalls,
                Goto, TypeOK, peer
  <2> QED
    BY <1>5, <2>1, OthersKeep
<1>6. CASE UNCHANGED vars
  BY <1>6 DEF vars
<1> QED
  BY <1>1, <1>2, <1>3, <1>4, <1>5, <1>6, NextSteps

-----------------------------------------------------------------------------
(* MatchOK: first, what the steps do to the messages coming in.            *)

\* Handling the first message moves the others up.
LEMMA Handled ==
  ASSUME NEW S, NEW b \in Seq(S), NEW w \in Seq(S), b # <<>>
  PROVE  /\ Len(b \o w) \in Nat
         /\ Len(Tail(b) \o w) = Len(b \o w) - 1
         /\ (b \o w)[1] = Head(b)
         /\ \A j \in 1 .. Len(b \o w) - 1 : (Tail(b) \o w)[j] = (b \o w)[j + 1]
<1>1. /\ Len(b) \in Nat \ {0} /\ Len(w) \in Nat
      /\ Tail(b) \in Seq(S) /\ Len(Tail(b)) = Len(b) - 1
      /\ \A j \in 1 .. Len(b) - 1 : Tail(b)[j] = b[j + 1]
      /\ Head(b) = b[1]
  BY HeadTailProperties, EmptySeq, LenProperties
<1>2. /\ Len(b \o w) = Len(b) + Len(w)
      /\ \A j \in 1 .. Len(b) + Len(w) :
           (b \o w)[j] = IF j <= Len(b) THEN b[j] ELSE w[j - Len(b)]
  BY ConcatProperties
<1>3. /\ Len(Tail(b) \o w) = Len(b) - 1 + Len(w)
      /\ \A j \in 1 .. Len(b) - 1 + Len(w) :
           (Tail(b) \o w)[j] = IF j <= Len(b) - 1 THEN Tail(b)[j] ELSE w[j - (Len(b) - 1)]
  BY <1>1, ConcatProperties
<1>4. ASSUME NEW j \in 1 .. Len(b) + Len(w) - 1
      PROVE  (Tail(b) \o w)[j] = (b \o w)[j + 1]
  <2>1. CASE j <= Len(b) - 1
    BY <1>1, <1>2, <1>3, <2>1
  <2>2. CASE j > Len(b) - 1
    <3>1. (b \o w)[j + 1] = w[(j + 1) - Len(b)]
      BY <1>1, <1>2, <2>2
    <3>2. (Tail(b) \o w)[j] = w[j - (Len(b) - 1)]
      BY <1>1, <1>3, <2>2
    <3>3. (j + 1) - Len(b) = j - (Len(b) - 1)
      BY <1>1
    <3> QED
      BY <3>1, <3>2, <3>3
  <2> QED
    BY <1>1, <2>1, <2>2
<1> QED
  BY <1>1, <1>2, <1>3, <1>4

\* Reading moves a prefix of the wire into the empty buffer.
LEMMA Received ==
  ASSUME NEW S, NEW w \in Seq(S), NEW k \in 1 .. Len(w)
  PROVE  SubSeq(w, 1, k) \o SubSeq(w, k + 1, Len(w)) = <<>> \o w
<1>1. Len(w) \in Nat
  BY LenProperties
<1>2. SubSeq(w, 1, k) \o SubSeq(w, k + 1, Len(w)) = SubSeq(w, 1, Len(w))
  BY <1>1, ConcatAdjacentSubSeq
<1>3. SubSeq(w, 1, Len(w)) = w
  BY SubSeqFull
<1>4. <<>> \o w = w
  BY ConcatEmptySeq
<1> QED
  BY <1>2, <1>3, <1>4

\* A message that arrives comes last.
LEMMA Arrived ==
  ASSUME NEW S, NEW b \in Seq(S), NEW w \in Seq(S), NEW m \in S
  PROVE  /\ Len(b \o w) \in Nat
         /\ Len(b \o Append(w, m)) = Len(b \o w) + 1
         /\ (b \o Append(w, m))[Len(b \o w) + 1] = m
         /\ \A j \in 1 .. Len(b \o w) : (b \o Append(w, m))[j] = (b \o w)[j]
<1>1. /\ Len(b) \in Nat /\ Len(w) \in Nat
      /\ Append(w, m) \in Seq(S) /\ Len(Append(w, m)) = Len(w) + 1
      /\ \A j \in 1 .. Len(w) : Append(w, m)[j] = w[j]
      /\ Append(w, m)[Len(w) + 1] = m
  BY AppendProperties, LenProperties
<1>2. /\ Len(b \o w) = Len(b) + Len(w)
      /\ \A j \in 1 .. Len(b) + Len(w) :
           (b \o w)[j] = IF j <= Len(b) THEN b[j] ELSE w[j - Len(b)]
  BY ConcatProperties
<1>3. /\ Len(b \o Append(w, m)) = Len(b) + Len(w) + 1
      /\ \A j \in 1 .. Len(b) + Len(w) + 1 :
           (b \o Append(w, m))[j] = IF j <= Len(b) THEN b[j] ELSE Append(w, m)[j - Len(b)]
  BY <1>1, ConcatProperties
<1>4. (b \o Append(w, m))[Len(b) + Len(w) + 1] = m
  <2>1. (b \o Append(w, m))[Len(b) + Len(w) + 1]
          = Append(w, m)[Len(b) + Len(w) + 1 - Len(b)]
    BY <1>1, <1>3
  <2>2. Len(b) + Len(w) + 1 - Len(b) = Len(w) + 1
    BY <1>1
  <2> QED
    BY <1>1, <2>1, <2>2
<1>5. ASSUME NEW j \in 1 .. Len(b) + Len(w)
      PROVE  (b \o Append(w, m))[j] = (b \o w)[j]
  <2>1. CASE j <= Len(b)
    BY <1>1, <1>2, <1>3, <2>1
  <2>2. CASE j > Len(b)
    <3>1. j - Len(b) \in 1 .. Len(w)
      BY <1>1, <2>2
    <3> QED
      BY <1>1, <1>2, <1>3, <2>2, <3>1
  <2> QED
    BY <1>1, <2>1, <2>2
<1> QED
  BY <1>1, <1>2, <1>3, <1>4, <1>5

\* What the network loses is the end of what was on its way.
LEMMA Lost ==
  ASSUME NEW S, NEW b \in Seq(S), NEW w \in Seq(S), NEW k \in 0 .. Len(w)
  PROVE  /\ Len(b \o w) \in Nat /\ Len(b \o SubSeq(w, 1, k)) \in Nat
         /\ Len(b \o SubSeq(w, 1, k)) <= Len(b \o w)
         /\ \A j \in 1 .. Len(b \o SubSeq(w, 1, k)) :
              (b \o SubSeq(w, 1, k))[j] = (b \o w)[j]
<1>0. Len(w) \in Nat /\ Len(b) \in Nat /\ \A i \in 1 .. Len(w) : w[i] \in S
  BY LenProperties, ElementOfSeq
<1>1. /\ SubSeq(w, 1, k) \in Seq(S)
      /\ Len(SubSeq(w, 1, k)) = k
      /\ \A i \in 1 .. k : SubSeq(w, 1, k)[i] = w[i]
  <2>1. \A i \in 1 .. k : w[i] \in S
    BY <1>0
  <2>2. /\ SubSeq(w, 1, k) \in Seq(S)
        /\ Len(SubSeq(w, 1, k)) = IF 1 <= k THEN k - 1 + 1 ELSE 0
        /\ \A i \in 1 .. k - 1 + 1 : SubSeq(w, 1, k)[i] = w[1 + i - 1]
    BY <1>0, <2>1, SubSeqProperties
  <2>3. \A i \in 1 .. k : 1 + i - 1 = i
    OBVIOUS
  <2> QED
    BY <1>0, <2>2, <2>3
<1>2. /\ Len(b \o w) = Len(b) + Len(w)
      /\ \A j \in 1 .. Len(b) + Len(w) :
           (b \o w)[j] = IF j <= Len(b) THEN b[j] ELSE w[j - Len(b)]
  BY ConcatProperties
<1>3. /\ Len(b \o SubSeq(w, 1, k)) = Len(b) + k
      /\ \A j \in 1 .. Len(b) + k :
           (b \o SubSeq(w, 1, k))[j] =
             IF j <= Len(b) THEN b[j] ELSE SubSeq(w, 1, k)[j - Len(b)]
  BY <1>1, ConcatProperties
<1>4. ASSUME NEW j \in 1 .. Len(b) + k
      PROVE  (b \o SubSeq(w, 1, k))[j] = (b \o w)[j]
  <2>1. CASE j <= Len(b)
    BY <1>0, <1>2, <1>3, <2>1
  <2>2. CASE j > Len(b)
    <3>1. j - Len(b) \in 1 .. k
      BY <1>0, <2>2
    <3> QED
      BY <1>0, <1>1, <1>2, <1>3, <2>2, <3>1
  <2> QED
    BY <1>0, <2>1, <2>2
<1> QED
  BY <1>0, <1>2, <1>3, <1>4

-----------------------------------------------------------------------------
(* MatchOK: the steps.                                                     *)

\* The messages coming in are messages, and those that are replies to a call
\* name it and its ID.
LEMMA InboundType ==
  ASSUME TypeOK
  PROVE  /\ Len(inbound) \in Nat
         /\ \A j \in 1 .. Len(inbound) :
              IsReturn(j) /\ inbound[j].of # NoCall =>
                 inbound[j].of \in Calls /\ inbound[j].id \in Ids
<1>1. inbound \in Seq(Messages)
  BY ConcatProperties DEF TypeOK, inbound
<1>2. Len(inbound) \in Nat /\ \A j \in 1 .. Len(inbound) : inbound[j] \in Messages
  BY <1>1, LenProperties, ElementOfSeq
<1> QED
  BY <1>2 DEF IsReturn, Messages

\* A step keeps MatchOK if it leaves the table alone, adds no request and no
\* message, and handles at most the first message (d = 1).
LEMMA MatchKept ==
  ASSUME TypeOK, MatchOK, strays = 0, NEW d \in {0, 1},
         Len(inbound') \in Nat,
         Len(inbound') + d <= Len(inbound),
         \A j \in 1 .. Len(inbound') : inbound'[j] = inbound[j + d],
         pc'[Reader] = "decode" =>
            d = 0 /\ pc[Reader] = "decode" /\ buf' = buf /\ decoding' = decoding,
         d = 0 /\ pc[Reader] = "decode" => pc'[Reader] = "decode",
         pc'[Reader] # "exited" => pc[Reader] # "exited",
         outbox' \subseteq outbox,
         UNCHANGED <<waitingCalls, callID>>,
         \A c \in Calls : /\ replyOf'[c] \in {NoCall, c}
                          /\ pc'[c] \in Unsent => pc[c] \in Unsent
                          /\ pc[c] \in Sent => pc'[c] \in Sent
  PROVE  MatchOK'
<1>0. Len(inbound) \in Nat
  BY InboundType
<1>1. \A j \in 1 .. Len(inbound') : j + d \in 1 .. Len(inbound)
  BY <1>0
<1>2. \A j \in 1 .. Len(inbound') : inbound'[j].of # NoCall
  BY <1>1 DEF MatchOK
<1>3. pc'[Reader] = "decode" => Head(buf').of = decoding'
  BY DEF MatchOK
<1>4. ASSUME pc'[Reader] # "exited" PROVE TableMatches'
  <2>1. TableMatches
    BY <1>4 DEF MatchOK
  <2>2. \A c \in Calls : pc'[c] \in Unsent => waitingCalls'[callID'[c]] = c
    BY <2>1 DEF TableMatches
  <2>3. \A i, c : c \in Calls /\ Awaited(i, c) => Awaited(i, c)'
    BY DEF Awaited
  <2>4. \A r \in outbox' : Awaited(r.id, r.of)'
    BY <2>1, <2>3 DEF TableMatches, TypeOK
  <2>5. \A j \in Unhandled' : /\ j \in 1 .. Len(inbound')
                              /\ j + d \in Unhandled
                              /\ inbound'[j] = inbound[j + d]
    BY <1>1 DEF Unhandled
  <2>6. ASSUME NEW j \in Unhandled', IsReturn(j)'
        PROVE  /\ Awaited(inbound[j].id, inbound[j].of)'
               /\ \A r \in outbox' : r.id # inbound'[j].id
    <3>1. j + d \in Unhandled /\ IsReturn(j + d) /\ inbound'[j] = inbound[j + d]
      BY <2>5, <2>6 DEF IsReturn
    <3>2. j + d \in 1 .. Len(inbound)
      BY <3>1 DEF Unhandled
    <3>3. inbound[j + d].of \in Calls
      BY <3>1, <3>2, InboundType DEF MatchOK
    <3>4. /\ waitingCalls'[inbound[j + d].id] = inbound[j + d].of
          /\ pc'[inbound[j + d].of] \in Sent
      <4>1. Awaited(inbound[j + d].id, inbound[j + d].of)
        BY <2>1, <3>1 DEF TableMatches
      <4> QED
        BY <3>3, <4>1 DEF Awaited
    <3>5. \A r \in outbox' : r.id # inbound[j + d].id
      BY <2>1, <3>1 DEF TableMatches
    <3> QED
      BY <3>1, <3>4, <3>5 DEF Awaited
  <2>7. \A j, k \in Unhandled' :
           IsReturn(j)' /\ IsReturn(k)' /\ inbound'[j].id = inbound'[k].id => j = k
    <3>1. ASSUME NEW j \in Unhandled', NEW k \in Unhandled', IsReturn(j)', IsReturn(k)',
                 inbound'[j].id = inbound'[k].id
          PROVE  j = k
      <4>1. IsReturn(j + d) /\ IsReturn(k + d) /\ inbound[j + d].id = inbound[k + d].id
        BY <2>5, <3>1 DEF IsReturn
      <4>2. j + d = k + d
        BY <2>1, <2>5, <4>1 DEF TableMatches
      <4>3. j \in Nat /\ k \in Nat
        BY <2>5
      <4> QED
        BY <4>2, <4>3
    <3> QED
      BY <3>1
  <2> QED
    BY <2>2, <2>4, <2>6, <2>7 DEF TableMatches
<1> QED
  BY <1>2, <1>3, <1>4 DEF MatchOK

\* The same for a step that does not touch the messages either.
LEMMA MatchUntouched ==
  ASSUME TypeOK, MatchOK, strays = 0,
         UNCHANGED <<buf, wire, decoding, replyOf, waitingCalls, callID>>,
         pc'[Reader] = "decode" <=> pc[Reader] = "decode",
         pc'[Reader] # "exited" => pc[Reader] # "exited",
         outbox' \subseteq outbox,
         \A c \in Calls : /\ pc'[c] \in Unsent => pc[c] \in Unsent
                          /\ pc[c] \in Sent => pc'[c] \in Sent
  PROVE  MatchOK'
<1>1. inbound' = inbound
  BY DEF inbound
<1>2. \A c \in Calls : replyOf'[c] \in {NoCall, c}
  BY DEF MatchOK
<1>3. Len(inbound) \in Nat
  BY InboundType
<1>4. \A j \in 1 .. Len(inbound) : j + 0 = j
  BY <1>3
<1> QED
  BY <1>1, <1>2, <1>3, <1>4, MatchKept

\* The steps of a caller.
LEMMA CallerMatch ==
  ASSUME TypeOK, SlotsOK, MatchOK, strays = 0, NEW c \in Calls, StartCall(c) \/ CallStep(c)
  PROVE  MatchOK'
<1>0. /\ UNCHANGED <<decoding, replyOf, buf, wire, inbound>>
      /\ pc'[Reader] = pc[Reader]
      /\ \A d \in Calls \ {c} : pc'[d] = pc[d]
  BY CallerKeeps, Distinct DEF inbound
<1>1. /\ pc'[Reader] # "exited" => TableMatches
      /\ \A d \in Calls : replyOf'[d] \in {NoCall, d}
      /\ pc'[Reader] = "decode" => Head(buf').of = decoding'
      /\ \A j \in 1 .. Len(inbound') : inbound'[j].of # NoCall
      /\ Unhandled' = Unhandled
  BY <1>0 DEF MatchOK, Unhandled
<1>2. \A j \in Unhandled : IsReturn(j) => inbound[j].of \in Calls /\ inbound[j].id \in Ids
  BY InboundType DEF Unhandled, MatchOK
<1>3. pc \in [Procs -> PCs] /\ c \in Procs
  BY Distinct DEF TypeOK
<1>4. CASE \/ StartCall(c) \/ SeeReady(c) \/ CheckConnected(c) \/ SeeWaiter(c)
           \/ ContextEnds(c) \/ ReturnToCaller(c)
  <2>1. /\ pc'[c] \notin Unsent
        /\ pc[c] \in Sent => pc'[c] \in Sent
        /\ UNCHANGED <<outbox, waitingCalls, callID>>
    BY <1>3, <1>4 DEF StartCall, SeeReady, CheckConnected, SeeWaiter, ContextEnds,
                      ReturnToCaller, Goto, Unsent, Sent, EndPCs, table, peer
  <2> QED
    BY <1>0, <2>1, MatchUntouched
<1>5. CASE Acquire(c)
  <2>1. PICK i \in Ids : /\ waitingCalls[i] = NoCall
                         /\ waitingCalls' = [waitingCalls EXCEPT ![i] = c]
                         /\ callID' = [callID EXCEPT ![c] = i]
    BY <1>5, IdAssumption DEF Acquire, FirstFree
  <2>2. UNCHANGED outbox /\ pc[c] = "acquire"
    BY <1>5 DEF Acquire, peer
  <2>3. ASSUME TableMatches PROVE TableMatches'
    <3>1. \A d \in Calls : pc'[d] \in Unsent => waitingCalls'[callID'[d]] = d
      BY <1>0, <2>1, <2>3, Distinct DEF TableMatches, TypeOK
    <3>2. \A k \in Ids, d \in Calls : Awaited(k, d) =>
             waitingCalls'[k] = d /\ pc'[d] \in Sent
      BY <1>0, <2>1, <2>2, Distinct DEF Awaited, Sent, TypeOK
    <3>3. \A r \in outbox : r.id \in Ids /\ r.of \in Calls
      BY DEF TypeOK
    <3> QED
      BY <1>0, <1>1, <1>2, <2>2, <2>3, <3>1, <3>2, <3>3 DEF TableMatches, Awaited, IsReturn
  <2> QED
    BY <1>1, <2>3 DEF MatchOK
<1>6. CASE SendRequest(c)
  <2>1. UNCHANGED <<waitingCalls, callID>> /\ pc[c] = "write"
    BY <1>6 DEF SendRequest, table
  <2>2. \/ /\ outbox' \subseteq outbox \cup {[of |-> c, id |-> callID[c]]}
           /\ pc'[c] = "wait"
        \/ /\ outbox' = outbox
           /\ pc'[c] = "endTest"
    BY <1>3, <1>6 DEF SendRequest, CallEnd, Goto
  <2>3. ASSUME TableMatches PROVE TableMatches'
    <3>1. waitingCalls[callID[c]] = c
      BY <2>1, <2>3 DEF TableMatches, Unsent
    <3>2. \A d \in Calls : pc'[d] \in Unsent => waitingCalls'[callID'[d]] = d
      BY <1>0, <2>1, <2>3, <3>1 DEF TableMatches
    <3>3. \A k \in Ids, d \in Calls : Awaited(k, d) =>
             d # c /\ waitingCalls'[k] = d /\ pc'[d] \in Sent
      BY <1>0, <2>1 DEF Awaited, Sent
    <3>4. \A r \in outbox : r.id \in Ids /\ r.of \in Calls
      BY DEF TypeOK
    <3>5. \A r \in outbox' : waitingCalls'[r.id] = r.of /\ pc'[r.of] \in Sent
      <4>1. ASSUME NEW r \in outbox'
            PROVE  waitingCalls'[r.id] = r.of /\ pc'[r.of] \in Sent
        <5>1. CASE r \in outbox
          BY <2>3, <3>3, <3>4, <5>1 DEF TableMatches
        <5>2. CASE r \notin outbox
          BY <2>1, <2>2, <3>1, <5>2 DEF Sent
        <5> QED
          BY <5>1, <5>2
      <4> QED
        BY <4>1
    <3>6. \A j \in Unhandled, r \in outbox' : IsReturn(j) => r.id # inbound[j].id
      <4>1. ASSUME NEW j \in Unhandled, IsReturn(j) PROVE inbound[j].id # callID[c]
        <5>1. Awaited(inbound[j].id, inbound[j].of) /\ inbound[j].of # c
          BY <1>2, <2>3, <3>3, <4>1 DEF TableMatches
        <5> QED
          BY <3>1, <5>1 DEF Awaited
      <4> QED
        BY <2>2, <2>3, <4>1 DEF TableMatches
    <3> QED
      BY <1>0, <1>1, <1>2, <2>3, <3>2, <3>3, <3>5, <3>6 DEF TableMatches, Awaited, IsReturn
  <2> QED
    BY <1>1, <2>3 DEF MatchOK
<1>7. CASE ReleaseUnsent(c)
  <2>1. /\ pc[c] = "release"
        /\ pc'[c] \notin Unsent
        /\ UNCHANGED <<callID, outbox>>
        /\ \A k \in Ids : k # callID[c] => waitingCalls'[k] = waitingCalls[k]
    BY <1>3, <1>7 DEF ReleaseUnsent, Goto, Unsent, EndPCs, TypeOK, peer
  <2>2. ASSUME TableMatches PROVE TableMatches'
    <3>1. waitingCalls[callID[c]] = c
      BY <2>1, <2>2 DEF TableMatches, Unsent
    <3>2. \A d \in Calls : pc'[d] \in Unsent => waitingCalls'[callID'[d]] = d
      <4>1. ASSUME NEW d \in Calls, pc'[d] \in Unsent PROVE waitingCalls'[callID[d]] = d
        <5>1. d # c /\ waitingCalls[callID[d]] = d
          BY <1>0, <2>1, <2>2, <4>1 DEF TableMatches
        <5>2. callID[d] # callID[c] /\ callID[d] \in Ids
          BY <3>1, <5>1 DEF TypeOK
        <5> QED
          BY <2>1, <5>1, <5>2
      <4> QED
        BY <2>1, <4>1
    <3>3. \A k \in Ids, d \in Calls : Awaited(k, d) =>
             waitingCalls'[k] = d /\ pc'[d] \in Sent
      BY <1>0, <2>1, <3>1 DEF Awaited, Sent
    <3>4. \A r \in outbox : r.id \in Ids /\ r.of \in Calls
      BY DEF TypeOK
    <3> QED
      BY <1>0, <1>1, <1>2, <2>1, <2>2, <3>2, <3>3, <3>4 DEF TableMatches, Awaited, IsReturn
  <2> QED
    BY <1>1, <2>2 DEF MatchOK
<1> QED
  BY <1>4, <1>5, <1>6, <1>7 DEF CallStep

\* The steps of the read loop: the first message leaves its place together with
\* its slot, and nobody else is registered under its ID.
LEMMA ReaderMatch ==
  ASSUME TypeOK, DecodingOK, MatchOK, strays = 0, strays' = 0, ReaderStep
  PROVE  MatchOK'
<1>0. /\ UNCHANGED <<callID, outbox>>
      /\ \A c \in Calls : pc'[c] = pc[c]
      /\ pc \in [Procs -> PCs] /\ Reader \in Procs
  BY ReaderKeeps, Distinct DEF TypeOK
<1>1. CASE ReaderStarts \/ ReadPreamble \/ ReadFails \/ TakeGarbled
  <2>1. UNCHANGED <<buf, wire, decoding, replyOf, waitingCalls>>
    BY <1>1 DEF ReaderStarts, ReadPreamble, ReadFails, TakeGarbled, incoming, answers, table
  <2>2. pc'[Reader] \notin {"decode", "exited"} /\ pc[Reader] \notin {"decode", "exited"}
    BY <1>0, <1>1 DEF ReaderStarts, ReadPreamble, ReadFails, TakeGarbled, Handling,
                      Goto, CallEnd
  <2> QED
    BY <1>0, <2>1, <2>2, MatchUntouched
<1>2. CASE ReadSome
  <2>1. PICK k \in 1 .. Len(wire) : /\ buf' = SubSeq(wire, 1, k)
                                    /\ wire' = SubSeq(wire, k + 1, Len(wire))
    BY <1>2 DEF ReadSome
  <2>2. inbound' = inbound
    BY <1>2, <2>1, Received DEF ReadSome, inbound, TypeOK
  <2>3. UNCHANGED <<decoding, replyOf, waitingCalls, pc>> /\ pc[Reader] = "read"
    BY <1>2 DEF ReadSome, table, answers
  <2>4. \A c \in Calls : replyOf'[c] \in {NoCall, c}
    BY <2>3 DEF MatchOK
  <2>5. Len(inbound) \in Nat /\ \A j \in 1 .. Len(inbound) : j + 0 = j
    BY InboundType
  <2> QED
    BY <1>0, <2>2, <2>3, <2>4, <2>5, MatchKept
<1>3. CASE TakeReturn /\ waitingCalls[Head(buf).id] = NoCall
  <2>1. UNCHANGED <<buf, wire, decoding, replyOf, waitingCalls>>
    BY <1>3 DEF TakeReturn, incoming, table
  <2>2. pc'[Reader] = "endTest" /\ pc[Reader] = "read"
    BY <1>0, <1>3 DEF TakeReturn, Handling, Goto, CallEnd
  <2> QED
    BY <1>0, <2>1, <2>2, MatchUntouched
<1>4. CASE TakeReturn /\ waitingCalls[Head(buf).id] # NoCall
  <2> DEFINE i == Head(buf).id
  <2>1. /\ buf # <<>> /\ Head(buf).type = "return" /\ pc[Reader] = "read"
        /\ i \in Ids
    BY <1>4, HeadType DEF TakeReturn, Handling, TypeOK
  <2>2. /\ UNCHANGED <<buf, wire, replyOf, inbound>>
        /\ decoding' = waitingCalls[i]
        /\ waitingCalls' = [waitingCalls EXCEPT ![i] = NoCall]
        /\ pc'[Reader] = "decode"
    BY <1>0, <1>4 DEF TakeReturn, Goto, incoming, inbound
  <2>3. /\ Len(inbound) \in Nat /\ 1 <= Len(inbound)
        /\ inbound[1] = Head(buf)
    <3>1. Len(inbound) \in Nat /\ inbound[1] = Head(buf)
      BY <2>1, Handled DEF TypeOK, inbound
    <3>2. Len(buf) \in Nat \ {0} /\ Len(wire) \in Nat
      BY <2>1, EmptySeq, LenProperties DEF TypeOK
    <3>3. Len(inbound) = Len(buf) + Len(wire)
      BY ConcatProperties DEF TypeOK, inbound
    <3> QED
      BY <3>1, <3>2, <3>3
  <2>4. TableMatches
    BY <2>1 DEF MatchOK
  <2>5. 1 \in Unhandled /\ IsReturn(1)
    BY <2>1, <2>3 DEF Unhandled, IsReturn
  <2>6. /\ waitingCalls[i] = Head(buf).of
        /\ Head(buf).of \in Calls
        /\ pc[Head(buf).of] \in Sent
    <3>1. Head(buf).of # NoCall
      BY <2>3 DEF MatchOK
    <3> QED
      BY <2>1, <2>3, <2>4, <2>5, <3>1, HeadType DEF TableMatches, Awaited, TypeOK
  <2>7. \A k \in Ids : k # i => waitingCalls'[k] = waitingCalls[k]
    BY <2>2 DEF TypeOK
  <2>8. Unhandled' \subseteq Unhandled \ {1}
    BY <2>1, <2>2 DEF Unhandled
  <2>9. \A j \in Unhandled : IsReturn(j) => inbound[j].of \in Calls /\ inbound[j].id \in Ids
    BY InboundType DEF Unhandled, MatchOK
  <2>10. TableMatches'
    <3>1. \A c \in Calls : pc'[c] \in Unsent => waitingCalls'[callID'[c]] = c
      <4>1. ASSUME NEW c \in Calls, pc[c] \in Unsent PROVE callID[c] # i /\ callID[c] \in Ids
        <5>1. waitingCalls[callID[c]] = c
          BY <2>4, <4>1 DEF TableMatches
        <5>2. c # Head(buf).of
          BY <2>6, <4>1 DEF Sent, Unsent, EndPCs
        <5> QED
          BY <2>6, <5>1, <5>2 DEF TypeOK
      <4> QED
        BY <1>0, <2>4, <2>7, <4>1 DEF TableMatches
    <3>2. \A r \in outbox : r.id # i /\ r.id \in Ids /\ r.of \in Calls
      BY <2>3, <2>4, <2>5 DEF TableMatches, TypeOK
    <3>3. \A j \in Unhandled' : IsReturn(j) => inbound[j].id # i
      BY <2>3, <2>4, <2>5, <2>8 DEF TableMatches
    <3>4. \A r \in outbox' : waitingCalls'[r.id] = r.of /\ pc'[r.of] \in Sent
      BY <1>0, <2>4, <2>7, <3>2 DEF TableMatches, Awaited
    <3>5. \A j \in Unhandled' : IsReturn(j) =>
             /\ waitingCalls'[inbound[j].id] = inbound[j].of
             /\ pc'[inbound[j].of] \in Sent
             /\ \A r \in outbox' : r.id # inbound[j].id
      BY <1>0, <2>4, <2>7, <2>8, <2>9, <3>3 DEF TableMatches, Awaited
    <3>6. \A j, k \in Unhandled' :
             IsReturn(j) /\ IsReturn(k) /\ inbound[j].id = inbound[k].id => j = k
      BY <2>4, <2>8 DEF TableMatches
    <3> QED
      BY <2>2, <3>1, <3>4, <3>5, <3>6 DEF TableMatches, Awaited, IsReturn
  <2> QED
    BY <2>2, <2>6, <2>10 DEF MatchOK
<1>5. CASE Decode \/ TakeCall \/ RefuseCall \/ SkipUnknownType
  <2>1. /\ buf # <<>> /\ buf' = Tail(buf) /\ wire' = wire
        /\ UNCHANGED waitingCalls
        /\ pc[Reader] \in {"read", "decode"}
    BY <1>5 DEF Decode, TakeCall, RefuseCall, SkipUnknownType, Handling, DecodingOK, table
  <2>2. pc'[Reader] \in {"read", "endTest"}
    <3>1. CASE Decode \/ RefuseCall \/ SkipUnknownType
      BY <1>0, <3>1 DEF Decode, RefuseCall, SkipUnknownType, Handling, Goto, CallEnd
    <3>2. CASE TakeCall
      <4>1. Head(buf).of \in Incoming /\ pc[Reader] = "read"
        BY <3>2, HeadType DEF TakeCall, Handling, TypeOK
      <4> QED
        BY <1>0, <3>2, <4>1, Distinct DEF TakeCall, Goto
    <3> QED
      BY <1>5, <3>1, <3>2
  <2>3. /\ Len(inbound) \in Nat
        /\ Len(inbound') = Len(inbound) - 1
        /\ inbound[1] = Head(buf)
        /\ \A j \in 1 .. Len(inbound) - 1 : inbound'[j] = inbound[j + 1]
    BY <2>1, Handled DEF TypeOK, inbound
  <2>4. Len(inbound') \in Nat
    <3>1. Len(buf) \in Nat \ {0} /\ Len(wire) \in Nat
      BY <2>1, EmptySeq, LenProperties DEF TypeOK
    <3>2. Len(inbound) = Len(buf) + Len(wire)
      BY ConcatProperties DEF TypeOK, inbound
    <3> QED
      BY <2>3, <3>1, <3>2
  <2>5. \A c \in Calls : replyOf'[c] \in {NoCall, c}
    <3>1. CASE Decode
      <4>1. Head(buf).of = decoding
        BY <3>1 DEF Decode, MatchOK
      <4> QED
        BY <3>1, <4>1 DEF Decode, MatchOK, TypeOK
    <3>2. CASE TakeCall \/ RefuseCall \/ SkipUnknownType
      BY <3>2 DEF TakeCall, RefuseCall, SkipUnknownType, MatchOK, answers
    <3> QED
      BY <1>5, <3>1, <3>2
  <2> QED
    BY <1>0, <2>1, <2>2, <2>3, <2>4, <2>5, MatchKept
<1>6. CASE ReleaseAll
  <2>1. UNCHANGED <<replyOf, inbound>> /\ pc'[Reader] = "exited"
    BY <1>0, <1>6 DEF ReleaseAll, Goto, incoming, inbound
  <2> QED
    BY <2>1 DEF MatchOK
<1> QED
  BY <1>1, <1>2, <1>3, <1>4, <1>5, <1>6 DEF ReaderStep

\* The steps of the peer and the network.
LEMMA PeerMatch ==
  ASSUME TypeOK, MatchOK, strays = 0, strays' = 0, PeerStep
  PROVE  MatchOK'
<1>0. /\ UNCHANGED <<waitingCalls, callID, replyOf, decoding, buf>>
      /\ \A c \in Calls : pc'[c] = pc[c]
      /\ pc'[Reader] = pc[Reader]
  BY OthersKeep
<1>1. \A c \in Calls : replyOf'[c] \in {NoCall, c}
  BY <1>0 DEF MatchOK
<1>2. CASE PeerReplies
  <2>1. PICK q \in outbox, n \in ReplyKinds :
          /\ Arrives([type |-> "return", id |-> q.id, of |-> q.of, kind |-> n])
          /\ outbox' = outbox \ {q}
    BY <1>2 DEF PeerReplies
  <2> DEFINE m == [type |-> "return", id |-> q.id, of |-> q.of, kind |-> n]
  <2>2. q.id \in Ids /\ q.of \in Calls /\ m \in Messages
    BY DEF TypeOK, Messages
  <2> DEFINE N == Len(inbound)
  <2>3. /\ N \in Nat /\ Len(inbound') = N + 1
        /\ inbound'[N + 1] = m
        /\ \A j \in 1 .. N : inbound'[j] = inbound[j]
    <3>1. inbound' = buf \o Append(wire, m)
      BY <1>0, <2>1 DEF Arrives, inbound
    <3> QED
      BY <2>2, <3>1, Arrived DEF TypeOK, inbound
  <2>4. \A j \in 1 .. Len(inbound') : inbound'[j].of # NoCall
    <3>1. \A j \in 1 .. N : inbound'[j].of # NoCall
      BY <2>3 DEF MatchOK
    <3>2. inbound'[N + 1].of # NoCall
      BY <2>2, <2>3, Distinct
    <3> QED
      BY <2>3, <3>1, <3>2
  <2>5. ASSUME TableMatches PROVE TableMatches'
    <3>1. \A j \in Unhandled' : \/ j \in Unhandled /\ j \in 1 .. N /\ inbound'[j] = inbound[j]
                                \/ j = N + 1 /\ inbound'[j] = m
      BY <1>0, <2>3 DEF Unhandled
    <3>2. \A r \in outbox' : r \in outbox /\ r.id # q.id /\ r.id \in Ids /\ r.of \in Calls
      <4>1. ASSUME NEW r \in outbox' PROVE r \in outbox /\ r.id # q.id
        <5>1. r \in outbox /\ r # q
          BY <2>1, <4>1
        <5>2. waitingCalls[r.id] = r.of /\ waitingCalls[q.id] = q.of
          BY <2>5, <5>1 DEF TableMatches, Awaited
        <5>3. r \in [of : Calls, id : Ids] /\ q \in [of : Calls, id : Ids]
          BY <5>1 DEF TypeOK
        <5> QED
          BY <5>1, <5>2, <5>3
      <4> QED
        BY <4>1 DEF TypeOK
    <3>3. \A j \in Unhandled : IsReturn(j) => /\ inbound[j].id # q.id
                                              /\ inbound[j].of \in Calls
      BY <2>5, InboundType DEF TableMatches, MatchOK, Unhandled
    <3>4. \A j \in Unhandled' : IsReturn(j)' =>
             /\ waitingCalls'[inbound'[j].id] = inbound'[j].of
             /\ pc'[inbound'[j].of] \in Sent
             /\ \A r \in outbox' : r.id # inbound'[j].id
      <4>1. ASSUME NEW j \in Unhandled', inbound'[j].type = "return"
            PROVE  /\ waitingCalls'[inbound'[j].id] = inbound'[j].of
                   /\ pc'[inbound'[j].of] \in Sent
                   /\ \A r \in outbox' : r.id # inbound'[j].id
        <5>1. CASE j \in Unhandled /\ inbound'[j] = inbound[j]
          BY <1>0, <2>5, <3>2, <3>3, <4>1, <5>1 DEF TableMatches, Awaited, IsReturn
        <5>2. CASE inbound'[j] = m
          BY <1>0, <2>2, <2>5, <3>2, <5>2 DEF TableMatches, Awaited
        <5> QED
          BY <3>1, <5>1, <5>2
      <4> QED
        BY <4>1 DEF IsReturn
    <3>5. \A j, k \in Unhandled' :
             IsReturn(j)' /\ IsReturn(k)' /\ inbound'[j].id = inbound'[k].id => j = k
      <4>1. ASSUME NEW j \in Unhandled', NEW k \in Unhandled',
                   inbound'[j].type = "return", inbound'[k].type = "return",
                   inbound'[j].id = inbound'[k].id
            PROVE  j = k
        <5>1. CASE j \in Unhandled /\ inbound'[j] = inbound[j]
                   /\ k \in Unhandled /\ inbound'[k] = inbound[k]
          BY <2>5, <4>1, <5>1 DEF TableMatches, IsReturn
        <5>2. CASE j \in Unhandled /\ inbound'[j] = inbound[j] /\ inbound'[k] = m
          BY <3>3, <4>1, <5>2 DEF IsReturn
        <5>3. CASE k \in Unhandled /\ inbound'[k] = inbound[k] /\ inbound'[j] = m
          BY <3>3, <4>1, <5>3 DEF IsReturn
        <5>4. CASE j = N + 1 /\ k = N + 1
          BY <5>4
        <5> QED
          BY <3>1, <5>1, <5>2, <5>3, <5>4
      <4> QED
        BY <4>1 DEF IsReturn
    <3>6. \A r \in outbox' : waitingCalls'[r.id] = r.of /\ pc'[r.of] \in Sent
      BY <1>0, <2>5, <3>2 DEF TableMatches, Awaited
    <3>7. \A c \in Calls : pc'[c] \in Unsent => waitingCalls'[callID'[c]] = c
      BY <1>0, <2>5 DEF TableMatches
    <3> QED
      BY <3>4, <3>5, <3>6, <3>7 DEF TableMatches, Awaited
  <2>6. pc'[Reader] = "decode" => Head(buf').of = decoding'
    BY <1>0 DEF MatchOK
  <2> QED
    BY <1>0, <1>1, <2>4, <2>5, <2>6 DEF MatchOK
<1>3. CASE PeerCalls
  <2>1. PICK x \in Incoming :
          Arrives([type |-> "call", id |-> 0, of |-> x, kind |-> "known"])
    BY <1>3 DEF PeerCalls
  <2> DEFINE m == [type |-> "call", id |-> 0, of |-> x, kind |-> "known"]
  <2> DEFINE N == Len(inbound)
  <2>2. m \in Messages /\ UNCHANGED outbox
    BY <1>3 DEF Messages, PeerCalls, peer
  <2>3. /\ N \in Nat /\ Len(inbound') = N + 1
        /\ inbound'[N + 1] = m
        /\ \A j \in 1 .. N : inbound'[j] = inbound[j]
    <3>1. inbound' = buf \o Append(wire, m)
      BY <1>0, <2>1 DEF Arrives, inbound
    <3> QED
      BY <2>2, <3>1, Arrived DEF TypeOK, inbound
  <2>4. \A j \in 1 .. Len(inbound') : inbound'[j].of # NoCall
    <3>1. \A j \in 1 .. N : inbound'[j].of # NoCall
      BY <2>3 DEF MatchOK
    <3>2. inbound'[N + 1].of # NoCall
      BY <2>3, Distinct
    <3> QED
      BY <2>3, <3>1, <3>2
  <2>5. ASSUME TableMatches PROVE TableMatches'
    <3>1. \A j \in Unhandled' : inbound'[j].type = "return" =>
             /\ j \in Unhandled /\ inbound'[j] = inbound[j]
             /\ inbound[j].of \in Calls
      BY <1>0, <2>3, InboundType DEF Unhandled, MatchOK, IsReturn
    <3>2. \A r \in outbox : r.of \in Calls
      BY DEF TypeOK
    <3> QED
      BY <1>0, <2>2, <2>5, <3>1, <3>2 DEF TableMatches, Awaited, IsReturn
  <2>6. pc'[Reader] = "decode" => Head(buf').of = decoding'
    BY <1>0 DEF MatchOK
  <2> QED
    BY <1>0, <1>1, <2>4, <2>5, <2>6 DEF MatchOK
<1>4. CASE PeerStrays
  <2>1. strays' = strays + 1
    BY <1>4 DEF PeerStrays
  <2> QED
    BY <2>1
<1>5. CASE PeerLeaves
  <2>1. PICK k \in 0 .. Len(wire) : wire' = SubSeq(wire, 1, k)
    BY <1>5 DEF PeerLeaves
  <2>2. inbound' = buf \o SubSeq(wire, 1, k)
    BY <1>0, <2>1 DEF inbound
  <2>3. /\ Len(inbound') \in Nat /\ Len(inbound') + 0 <= Len(inbound)
        /\ \A j \in 1 .. Len(inbound') : inbound'[j] = inbound[j]
    BY <2>2, Lost DEF TypeOK, inbound
  <2>4. \A j \in 1 .. Len(inbound') : inbound'[j] = inbound[j + 0]
    BY <2>3
  <2>5. outbox' \subseteq outbox
    BY <1>5 DEF PeerLeaves
  <2> QED
    BY <1>0, <1>1, <2>3, <2>4, <2>5, MatchKept
<1>6. CASE PeerStalls
  <2>1. UNCHANGED <<wire, outbox>>
    BY <1>6 DEF PeerStalls, incoming
  <2> QED
    BY <1>0, <2>1, MatchUntouched
<1> QED
  BY <1>2, <1>3, <1>4, <1>5, <1>6 DEF PeerStep

\* Strays are only counted up.
LEMMA StraysGrow ==
  ASSUME TypeOK, [Next]_vars
  PROVE  strays' = strays \/ strays' = strays + 1
<1>1. CASE \E p \in Procs : EndStep(p)
  BY <1>1, EndKeeps
<1>2. CASE \E c \in Calls : StartCall(c) \/ CallStep(c)
  BY <1>2, CallerKeeps
<1>3. CASE ReaderStep
  BY <1>3 DEF ReaderStep, ReaderStarts, ReadPreamble, ReadSome, ReadFails, TakeReturn, Decode,
              TakeCall, RefuseCall, TakeGarbled, SkipUnknownType, ReleaseAll, peer
<1>4. CASE OtherStep \/ PeerStep \/ UNCHANGED vars
  BY <1>4 DEF OtherStep, HandlerReplies, HookReturns, MarkReady, Close, vars, peer,
              PeerStep, PeerReplies, PeerCalls, PeerStrays, PeerLeaves, PeerStalls
<1> QED
  BY <1>1, <1>2, <1>3, <1>4, NextSteps

\* Every step preserves MatchOK.
LEMMA NextMatch ==
  ASSUME TypeOK, DecodingOK, SlotsOK, MatchOK, [Next]_vars
  PROVE  MatchOK'
<1> SUFFICES ASSUME strays' = 0 PROVE MatchOK'
  BY DEF MatchOK
<1>0. strays = 0
  BY StraysGrow DEF TypeOK
<1>1. ASSUME NEW p \in Procs, EndStep(p) PROVE MatchOK'
  <2>1. /\ pc'[Reader] = "decode" <=> pc[Reader] = "decode"
        /\ pc'[Reader] # "exited" => pc[Reader] # "exited"
        /\ \A c \in Calls : /\ pc'[c] \in Unsent => pc[c] \in Unsent
                            /\ pc[c] \in Sent => pc'[c] \in Sent
    BY <1>1, EndDestination, Distinct DEF EndPCs, Unsent, Sent
  <2> QED
    BY <1>0, <1>1, <2>1, EndKeeps, MatchUntouched
<1>2. CASE OtherStep \/ UNCHANGED vars
  <2>1. UNCHANGED <<wire, outbox>>
    BY <1>2 DEF OtherStep, HandlerReplies, HookReturns, MarkReady, Close, vars,
                incoming, peer
  <2> QED
    BY <1>0, <1>2, <2>1, OthersKeep, MatchUntouched
<1> QED
  BY <1>0, <1>1, <1>2, CallerMatch, ReaderMatch, PeerMatch, NextSteps

-----------------------------------------------------------------------------
(* CauseOK.                                                                *)

\* A cause remains one: done stays closed, a peer that has left stays away, the
\* hook fails once, and a call is decoded once.
LEMMA CauseStays ==
  ASSUME TypeOK, DecodingOK, AnswersOK, [Next]_vars, Cause
  PROVE  Cause'
<1>1. ASSUME NEW p \in Procs, EndStep(p) PROVE Cause'
  BY <1>1, EndKeeps DEF Cause
<1>2. ASSUME NEW c \in Calls, StartCall(c) \/ CallStep(c) PROVE Cause'
  BY <1>2, CallerKeeps, Distinct DEF Cause
<1>3. CASE ReaderStep
  <2>1. UNCHANGED <<done, peerUp>> /\ err'[Hook] = err[Hook]
    BY <1>3, ReaderKeeps, Distinct
  <2>2. strays > 0 => strays' > 0
    BY StraysGrow DEF TypeOK
  <2>3. ASSUME NEW c \in Calls, decoded[c] = "bad" PROVE decoded'[c] = "bad"
    <3>1. CASE Decode
      <4>1. c # decoding
        BY <2>3 DEF AnswersOK
      <4> QED
        BY <2>3, <3>1, <4>1 DEF Decode, TypeOK
    <3>2. CASE ~Decode
      BY <1>3, <2>3, <3>2
      DEF ReaderStep, ReaderStarts, ReadPreamble, ReadSome, ReadFails, TakeReturn,
          TakeCall, RefuseCall, TakeGarbled, SkipUnknownType, ReleaseAll, answers
    <3> QED
      BY <3>1, <3>2
  <2> QED
    BY <2>1, <2>2, <2>3 DEF Cause
<1>4. CASE OtherStep
  <2>1. UNCHANGED <<decoded, peerUp, strays>>
    BY <1>4, OthersKeep DEF OtherStep, HandlerReplies, HookReturns, MarkReady, Close, peer
  <2>2. done => done'
    BY <1>4 DEF OtherStep, HandlerReplies, HookReturns, MarkReady, Close
  <2>3. err[Hook] = "ApplicationError" => err'[Hook] = "ApplicationError"
    BY <1>4, Distinct DEF OtherStep, HandlerReplies, HookReturns, MarkReady, Close, CallEnd,
                          TypeOK
  <2> QED
    BY <2>1, <2>2, <2>3 DEF Cause
<1>5. CASE PeerStep
  <2>1. UNCHANGED <<decoded, done, err>> /\ (~peerUp => ~peerUp')
    BY <1>5, OthersKeep
    DEF PeerStep, PeerReplies, PeerCalls, PeerStrays, PeerLeaves, PeerStalls, Arrives
  <2>2. strays > 0 => strays' > 0
    BY StraysGrow DEF TypeOK
  <2> QED
    BY <2>1, <2>2 DEF Cause
<1>6. CASE UNCHANGED vars
  BY <1>6 DEF vars, Cause
<1> QED
  BY <1>1, <1>2, <1>3, <1>4, <1>5, <1>6, NextSteps

\* Only a peer that breaks the protocol makes the read loop stumble over a message.
LEMMA StrayHead ==
  ASSUME TypeOK, MatchOK, buf # <<>>, pc[Reader] = "read",
         \/ Head(buf).type = "garbled"
         \/ Head(buf).type = "call" /\ Head(buf).kind = "unknown"
         \/ Head(buf).type = "return" /\ waitingCalls[Head(buf).id] = NoCall
  PROVE  strays > 0
<1> SUFFICES ASSUME strays = 0 PROVE FALSE
  BY DEF TypeOK
<1>1. Len(inbound) \in Nat \ {0} /\ inbound[1] = Head(buf)
  <2>1. Len(buf) \in Nat \ {0} /\ Len(wire) \in Nat
    BY EmptySeq, LenProperties DEF TypeOK
  <2>2. Len(inbound) = Len(buf) + Len(wire)
    BY ConcatProperties DEF TypeOK, inbound
  <2>3. inbound[1] = Head(buf)
    BY Handled DEF TypeOK, inbound
  <2> QED
    BY <2>1, <2>2, <2>3
<1>2. Head(buf).of # NoCall
  BY <1>1 DEF MatchOK
<1>3. Head(buf) \in Messages
  BY HeadType DEF TypeOK
<1>4. Head(buf).type = "return" => waitingCalls[Head(buf).id] = Head(buf).of
  <2>1. Head(buf).type = "return" => 1 \in Unhandled /\ IsReturn(1)
    BY <1>1 DEF Unhandled, IsReturn
  <2> QED
    BY <1>1, <2>1 DEF MatchOK, TableMatches, Awaited
<1> QED
  BY <1>2, <1>3, <1>4 DEF Messages

\* Whoever calls end() has a cause to.
LEMMA EnteredForCause ==
  ASSUME TypeOK, DecodingOK, AnswersOK, MatchOK, CauseOK, [Next]_vars,
         NEW p \in Procs, pc[p] \notin EndPCs, pc'[p] \in EndPCs
  PROVE  Cause'
<1> SUFFICES ASSUME ~Cause PROVE Cause'
  BY CauseStays
<1>0. sock # "closed" /\ peerUp /\ connected
  BY DEF CauseOK, Cause, TypeOK
<1>1. ASSUME NEW q \in Procs, EndStep(q) PROVE FALSE
  BY <1>1, EndDestination DEF CauseOK
<1>2. ASSUME NEW c \in Calls, StartCall(c) \/ CallStep(c) PROVE FALSE
  <2>1. p = c
    BY <1>2, CallerKeeps
  <2>2. ~WriteFails
    BY <1>0 DEF WriteFails
  <2> QED
    BY <1>2, <2>1, <2>2
    DEF StartCall, CallStep, SeeReady, CheckConnected, Acquire, SendRequest, ReleaseUnsent,
        SeeWaiter, ContextEnds, ReturnToCaller, Goto, TypeOK, EndPCs
<1>3. CASE ReaderStep
  <2>1. p = Reader
    BY <1>3, ReaderKeeps, Distinct DEF EndPCs
  <2>2. CASE ReaderStarts \/ ReadFails
    BY <1>0, <2>1, <2>2 DEF ReaderStarts, ReadFails, Cause, Goto, TypeOK, EndPCs
  <2>3. CASE ReadPreamble
    <3>1. Goto(Reader, "read") \/ strays' = strays + 1
      BY <1>0, <2>3 DEF ReadPreamble
    <3> QED
      BY <2>1, <3>1 DEF Goto, TypeOK, EndPCs, Cause
  <2>4. CASE TakeReturn \/ TakeGarbled \/ RefuseCall
    <3>1. /\ buf # <<>> /\ pc[Reader] = "read"
          /\ \/ Head(buf).type = "garbled"
             \/ Head(buf).type = "call" /\ Head(buf).kind = "unknown"
             \/ Head(buf).type = "return" /\ waitingCalls[Head(buf).id] = NoCall
      <4>1. CASE TakeReturn
        BY <2>1, <4>1 DEF TakeReturn, Handling, Goto, TypeOK, EndPCs
      <4>2. CASE TakeGarbled \/ RefuseCall
        BY <4>2 DEF TakeGarbled, RefuseCall, Handling
      <4> QED
        BY <2>4, <4>1, <4>2
    <3> QED
      BY <3>1, StrayHead DEF Cause
  <2>5. CASE Decode
    <3>1. Head(buf).kind = "bad"
      BY <2>1, <2>5, Distinct DEF Decode, Goto, TypeOK, EndPCs
    <3>2. decoding \in Calls /\ decoded'[decoding] = "bad"
      BY <2>5, <3>1 DEF Decode, DecodingOK, TypeOK
    <3> QED
      BY <3>2 DEF Cause
  <2>6. CASE ReadSome \/ TakeCall \/ SkipUnknownType \/ ReleaseAll
    <3>1. Head(buf).of \in Incoming \/ ~TakeCall
      BY HeadType DEF TakeCall, Handling, TypeOK
    <3> QED
      BY <2>1, <2>6, <3>1, Distinct
      DEF ReadSome, TakeCall, SkipUnknownType, ReleaseAll, Goto, TypeOK, EndPCs
  <2> QED
    BY <1>3, <2>2, <2>3, <2>4, <2>5, <2>6 DEF ReaderStep
<1>4. CASE OtherStep
  <2>1. ~WriteFails
    BY <1>0 DEF WriteFails
  <2>2. CASE (\E m \in Incoming : HandlerReplies(m)) \/ MarkReady
    BY <2>1, <2>2, Distinct DEF HandlerReplies, MarkReady, Goto, TypeOK, EndPCs
  <2>3. CASE HookReturns
    BY <2>3, Distinct DEF HookReturns, CallEnd, Goto, TypeOK, EndPCs, Cause
  <2>4. CASE Close
    BY <2>4 DEF Close, Cause
  <2> QED
    BY <1>4, <2>2, <2>3, <2>4 DEF OtherStep
<1>5. CASE PeerStep
  BY <1>5, Distinct DEF PeerStep, PeerReplies, PeerCalls, PeerStrays, PeerLeaves, PeerStalls,
                        Goto, TypeOK, EndPCs
<1>6. CASE UNCHANGED vars
  BY <1>6 DEF vars
<1> QED
  BY <1>1, <1>2, <1>3, <1>4, <1>5, <1>6, NextSteps

\* Only end() closes the socket.
LEMMA SocketOnlyInEnd ==
  ASSUME [Next]_vars
  PROVE  (\E p \in Procs : EndStep(p)) \/ UNCHANGED sock
  BY NextSteps
  DEF StartCall, CallStep, SeeReady, CheckConnected, Acquire, SendRequest, ReleaseUnsent,
      SeeWaiter, ContextEnds, ReturnToCaller, ReaderStep, ReaderStarts, ReadPreamble,
      ReadSome, ReadFails, TakeReturn, Decode, TakeCall, RefuseCall, TakeGarbled,
      SkipUnknownType, ReleaseAll, OtherStep, HandlerReplies, HookReturns, MarkReady,
      Close, PeerStep, PeerReplies, PeerCalls, PeerStrays, PeerLeaves, PeerStalls,
      object, vars

\* Every step preserves CauseOK.
LEMMA NextCause ==
  ASSUME TypeOK, DecodingOK, AnswersOK, MatchOK, CauseOK, [Next]_vars
  PROVE  CauseOK'
<1>1. CASE \E p \in Procs : EndStep(p)
  <2>1. \E p \in Procs : pc[p] \in EndPCs
    BY <1>1, EndDestination
  <2> QED
    BY <2>1, CauseStays DEF CauseOK
<1>2. CASE UNCHANGED <<connected, sock>>
  <2>1. ASSUME ~connected \/ sock = "closed" PROVE Cause'
    BY <2>1, CauseStays DEF CauseOK
  <2>2. ASSUME NEW p \in Procs, pc'[p] \in EndPCs PROVE Cause'
    <3>1. CASE pc[p] \in EndPCs
      BY <3>1, CauseStays DEF CauseOK
    <3>2. CASE pc[p] \notin EndPCs
      BY <2>2, <3>2, EnteredForCause
    <3> QED
      BY <3>1, <3>2
  <2> QED
    BY <1>2, <2>1, <2>2 DEF CauseOK
<1> QED
  BY <1>1, <1>2, ObjectOnlyInEnd, SocketOnlyInEnd

-----------------------------------------------------------------------------
(* The theorems.                                                           *)

\* The initial state satisfies every part of the invariant.
LEMMA InitInv == Init => IInv
<1> SUFFICES ASSUME Init PROVE IInv
  OBVIOUS
<1>1. TypeOK
  BY InitType
<1>2. Reader \in Procs /\ Calls \subseteq Procs /\ NoCall \notin Calls
  BY Distinct
<1>3. /\ pc[Reader] = "start"
      /\ \A p \in Procs : pc[p] \notin EndPCs
      /\ \A c \in Calls : pc[c] = "idle"
  BY <1>2, Distinct DEF Init, EndPCs
<1>4. DecodingOK /\ ReasonOK
  BY <1>2, <1>3 DEF Init, DecodingOK, ReasonOK, EndPCs
<1>5. SlotsOK /\ OutcomeOK
  BY <1>2 DEF Init, SlotsOK, OutcomeOK
<1>6. AnswersOK /\ HookOK
  BY <1>2, <1>3 DEF Init, AnswersOK, HookOK, NotPassed
<1>7. MatchOK
  <2>1. Len(inbound) = 0
    BY DEF Init, inbound
  <2>2. Unhandled = {}
    BY <2>1 DEF Unhandled
  <2>3. \A c \in Calls : pc[c] \notin Unsent
    BY <1>3 DEF Unsent, EndPCs
  <2>4. outbox = {}
    BY DEF Init
  <2>5. TableMatches
    BY <2>2, <2>3, <2>4 DEF TableMatches
  <2> QED
    BY <1>3, <2>1, <2>5 DEF Init, MatchOK
<1>8. CauseOK
  BY <1>3 DEF Init, CauseOK
<1> QED
  BY <1>1, <1>4, <1>5, <1>6, <1>7, <1>8 DEF IInv

\* And every step preserves it.
LEMMA NextInv == IInv /\ [Next]_vars => IInv'
  BY NextType, NextDecoding, NextReason, NextSlots, NextOutcome, NextAnswers, NextHook,
     NextMatch, NextCause
  DEF IInv

\* The inductive invariant holds of every execution.
THEOREM Invariance == Spec => []IInv
  BY InitInv, NextInv, PTL DEF Spec

\* Every variable keeps its type, for any instance.
THEOREM TypeCorrect == Spec => []TypeOK
<1>1. IInv => TypeOK
  BY DEF IInv
<1> QED
  BY <1>1, Invariance, PTL

\* No call returns without an error unless it decoded a result: neither the
\* end of the connection (whose reason is stored before a waiter is closed for
\* it), nor a timeout, nor an error reply is taken for success.
THEOREM SuccessIsReal == Spec => []NoFalseSuccess
<1>1. IInv => NoFalseSuccess
  BY DEF IInv, OutcomeOK, NoFalseSuccess
<1> QED
  BY <1>1, Invariance, PTL

\* close(waiter) never runs twice: Go would panic in the read loop.
THEOREM WaitersClosedOnce == Spec => []WaiterClosedOnce
<1>1. IInv => WaiterClosedOnce
  BY DEF IInv, SlotsOK, WaiterClosedOnce
<1> QED
  BY <1>1, Invariance, PTL

\* A call that has returned left its slot behind only if its context ended.
THEOREM LeaksOnlyOnTimeout == Spec => []LeakOnlyOnTimeout
<1>1. IInv => LeakOnlyOnTimeout
  BY DEF IInv, AnswersOK, LeakOnlyOnTimeout
<1> QED
  BY <1>1, Invariance, PTL

\* With a peer that answers every request once, whenever and in whatever order,
\* no call is ever given the reply to another one, although the IDs are reused
\* and calls give up waiting.
THEOREM RepliesAlwaysMatch == Spec => []RepliesMatch
<1>1. IInv => RepliesMatch
  BY DEF IInv, MatchOK, RepliesMatch
<1> QED
  BY <1>1, Invariance, PTL

\* The connection ends only for Close(), a failing hook, a lost peer, or a peer
\* that breaks the protocol: never through this endpoint's own interleavings.
THEOREM EndsForCause == Spec => []NoSpuriousEnd
<1>1. IInv => NoSpuriousEnd
  BY DEF IInv, CauseOK, Cause, NoSpuriousEnd
<1> QED
  BY <1>1, Invariance, PTL

\* No request but the connect hook's own reaches the peer before the hook is done.
THEOREM HookAlwaysFirst == Spec => []HookGoesFirst
<1>1. IInv => HookGoesFirst
  BY DEF IInv, HookOK, BeforeReady, HookGoesFirst
<1> QED
  BY <1>1, Invariance, PTL

-----------------------------------------------------------------------------
(* Who waits is woken.                                                     *)

\* Nobody waits yet.
LEMMA InitWakeup == Init => WakeupOK
<1> SUFFICES ASSUME Init PROVE WakeupOK
  OBVIOUS
<1>1. \A c \in Calls : pc[c] = "idle"
  BY Distinct DEF Init, Procs
<1> QED
  BY <1>1 DEF WakeupOK, Holding, Unsent, EndPCs

\* A step keeps what WakeupOK says of a call c if c goes on holding its slot, and those
\* that have robbed it are done with their calls.
LEMMA HolderKeeps ==
  ASSUME WakeupOK, NEW c \in Calls, pc[c] \in Holding, callID'[c] = callID[c],
         \A d \in Calls \ {c} : pc[d] \in {"return", "done"} =>
             pc'[d] \in {"return", "done"} /\ callID'[d] = callID[d] /\ err'[d] = err[d],
         waiter[c] => waiter'[c],
         decoded[c] = "bad" => decoded'[c] = "bad",
         waitingCalls[callID[c]] = c =>
             waitingCalls'[callID[c]] = c \/ decoding' = c \/ waiter'[c] \/ Robbed(c)',
         decoding = c => decoding' = c \/ waiter'[c] \/ decoded'[c] = "bad"
  PROVE  ~waiter'[c] =>
            \/ waitingCalls'[callID'[c]] = c
            \/ decoding' = c
            \/ decoded'[c] = "bad"
            \/ Robbed(c)'
<1>1. Robbed(c) => Robbed(c)'
  BY DEF Robbed
<1> QED
  BY <1>1 DEF WakeupOK

\* A step of end() leaves a caller with its slot, and with its error.
LEMMA EndWakeup ==
  ASSUME TypeOK, ReasonOK, WakeupOK, NEW p \in Procs, EndStep(p)
  PROVE  WakeupOK'
<1> USE Distinct
<1>0. /\ UNCHANGED <<waitingCalls, callID, waiter, decoded, decoding, err>>
      /\ \A q \in Procs \ {p} : pc'[q] = pc[q]
  BY EndKeeps
<1>1. pc[p] \in EndPCs /\ pc'[p] \notin {"wait", "write"} /\ err[p] # "none"
  BY EndDestination DEF ReasonOK
<1> SUFFICES ASSUME NEW c \in Calls
             PROVE  /\ pc'[c] = "release" => err'[c] # "none"
                    /\ pc'[c] \in Holding /\ ~waiter'[c] =>
                          \/ waitingCalls'[callID'[c]] = c
                          \/ decoding' = c
                          \/ decoded'[c] = "bad"
                          \/ Robbed(c)'
  BY DEF WakeupOK
<1>2. pc'[c] = "release" => err'[c] # "none"
  BY <1>0, <1>1 DEF WakeupOK
<1>3. pc'[c] \in Holding => pc[c] \in Holding
  BY <1>0, <1>1 DEF Holding, Unsent
<1>4. \A d \in Calls : pc[d] \in {"return", "done"} => pc'[d] \in {"return", "done"}
  BY <1>0, <1>1 DEF EndPCs
<1> QED
  BY <1>0, <1>2, <1>3, <1>4, HolderKeeps

\* A caller takes a free slot and gives back one only, under its own ID.
LEMMA CallerWakeup ==
  ASSUME TypeOK, WakeupOK, NEW b \in Calls, StartCall(b) \/ CallStep(b)
  PROVE  WakeupOK'
<1> USE Distinct DEF TypeOK
<1>0. /\ UNCHANGED <<waiter, decoded, decoding>>
      /\ \A d \in Calls \ {b} : pc'[d] = pc[d] /\ err'[d] = err[d]
  BY CallerKeeps
<1>1. \A d \in Calls \ {b} : callID'[d] = callID[d]
  BY DEF StartCall, CallStep, SeeReady, CheckConnected, Acquire, SendRequest, ReleaseUnsent,
         SeeWaiter, ContextEnds, ReturnToCaller, table
<1>2. pc[b] \in {"return", "done"} =>
        pc'[b] \in {"return", "done"} /\ callID'[b] = callID[b] /\ err'[b] = err[b]
  BY DEF StartCall, CallStep, SeeReady, CheckConnected, Acquire, SendRequest, ReleaseUnsent,
         SeeWaiter, ContextEnds, ReturnToCaller, table, Goto
<1>3. pc'[b] = "release" => FALSE
  BY DEF StartCall, CallStep, SeeReady, CheckConnected, Acquire, SendRequest, ReleaseUnsent,
         SeeWaiter, ContextEnds, ReturnToCaller, Goto, CallEnd
<1> SUFFICES ASSUME NEW c \in Calls, pc'[c] \in Holding, ~waiter'[c]
             PROVE  \/ waitingCalls'[callID'[c]] = c
                    \/ decoding' = c
                    \/ decoded'[c] = "bad"
                    \/ Robbed(c)'
  BY <1>0, <1>3 DEF WakeupOK
<1>4. CASE Acquire(b)
  <2>1. PICK i \in Ids : /\ waitingCalls[i] = NoCall
                         /\ waitingCalls' = [waitingCalls EXCEPT ![i] = b]
                         /\ callID' = [callID EXCEPT ![b] = i]
    BY <1>4 DEF Acquire, FirstFree
  <2>2. CASE c = b
    BY <2>1, <2>2
  <2>3. CASE c # b
    <3>1. waitingCalls[callID[c]] = c => waitingCalls'[callID[c]] = c
      BY <2>1
    <3> QED
      BY <2>3, <3>1, <1>0, <1>1, <1>2, HolderKeeps
  <2> QED
    BY <2>2, <2>3
<1>5. CASE ReleaseUnsent(b)
  <2>1. /\ pc[b] = "release" /\ pc'[b] \in {"panicked", "return"}
        /\ UNCHANGED <<callID, err>>
    BY <1>5 DEF ReleaseUnsent, Goto
  <2>2. c # b
    BY <2>1 DEF Holding, Unsent, EndPCs
  <2>3. CASE waitingCalls'[callID[c]] = waitingCalls[callID[c]]
    BY <2>2, <2>3, <1>0, <1>1, <1>2, HolderKeeps
  <2>4. CASE waitingCalls'[callID[c]] # waitingCalls[callID[c]]
    <3>1. callID[b] = callID[c] /\ pc'[b] = "return"
      BY <1>5, <2>4 DEF ReleaseUnsent, Goto
    <3>2. err'[b] # "none"
      BY <2>1 DEF WakeupOK
    <3> QED
      BY <2>1, <2>2, <3>1, <3>2 DEF Robbed
  <2> QED
    BY <2>3, <2>4
<1>6. CASE ~Acquire(b) /\ ~ReleaseUnsent(b)
  <2>1. UNCHANGED <<waitingCalls, callID>>
    BY <1>6 DEF StartCall, CallStep, SeeReady, CheckConnected, SendRequest, SeeWaiter,
                ContextEnds, ReturnToCaller, table
  <2>2. pc'[b] \in Holding => pc[b] \in Holding
    BY <1>6 DEF StartCall, CallStep, SeeReady, CheckConnected, SendRequest, SeeWaiter,
                ContextEnds, ReturnToCaller, Goto, CallEnd, Holding, Unsent, EndPCs
  <2> QED
    BY <2>1, <2>2, <1>0, <1>1, <1>2, HolderKeeps
<1> QED
  BY <1>4, <1>5, <1>6

\* The read loop takes a slot out of the table to decode its reply, and the cleanup
\* wakes whom it takes out.
LEMMA ReaderWakeup ==
  ASSUME TypeOK, DecodingOK, WakeupOK, ReaderStep
  PROVE  WakeupOK'
<1> USE Distinct DEF TypeOK
<1>0. /\ UNCHANGED callID
      /\ \A c \in Calls : pc'[c] = pc[c] /\ err'[c] = err[c]
  BY ReaderKeeps
<1> SUFFICES ASSUME NEW c \in Calls, pc[c] \in Holding
             PROVE  ~waiter'[c] => \/ waitingCalls'[callID'[c]] = c
                                   \/ decoding' = c
                                   \/ decoded'[c] = "bad"
                                   \/ Robbed(c)'
  BY <1>0 DEF WakeupOK
<1>1. CASE TakeReturn
  <2>1. UNCHANGED <<waiter, decoded>> /\ decoding = NoCall
    BY <1>1 DEF TakeReturn, Handling, DecodingOK
  <2>2. waitingCalls[callID[c]] = c => waitingCalls'[callID[c]] = c \/ decoding' = c
    BY <1>1, HeadType DEF TakeReturn, Handling
  <2> QED
    BY <2>1, <2>2, <1>0, HolderKeeps
<1>2. CASE Decode
  <2>1. UNCHANGED waitingCalls
    BY <1>2 DEF Decode, table
  <2>2. /\ waiter[c] => waiter'[c]
        /\ decoding # c => decoded'[c] = decoded[c]
        /\ decoding = c => waiter'[c] \/ decoded'[c] = "bad"
    BY <1>2 DEF Decode
  <2>3. CASE decoding = c
    BY <2>2, <2>3
  <2>4. CASE decoding # c
    BY <2>1, <2>2, <2>4, <1>0, HolderKeeps
  <2> QED
    BY <2>3, <2>4
<1>3. CASE ReleaseAll
  <2>1. /\ UNCHANGED <<decoding, decoded>>
        /\ waiter[c] => waiter'[c]
        /\ waitingCalls[callID[c]] = c => waiter'[c]
    BY <1>3 DEF ReleaseAll
  <2> QED
    BY <2>1, <1>0, HolderKeeps
<1>4. CASE ~TakeReturn /\ ~Decode /\ ~ReleaseAll
  <2>1. UNCHANGED <<waitingCalls, decoding, decoded, waiter>>
    BY <1>4 DEF ReaderStep, ReaderStarts, ReadPreamble, ReadSome, ReadFails, TakeCall,
                RefuseCall, TakeGarbled, SkipUnknownType, table, answers
  <2> QED
    BY <2>1, <1>0, HolderKeeps
<1> QED
  BY <1>1, <1>2, <1>3, <1>4

\* Every step keeps WakeupOK.
LEMMA NextWakeup ==
  ASSUME IInv, WakeupOK, [Next]_vars
  PROVE  WakeupOK'
<1> USE DEF IInv
<1>1. CASE \E p \in Procs : EndStep(p)
  BY <1>1, EndWakeup
<1>2. CASE \E c \in Calls : StartCall(c) \/ CallStep(c)
  BY <1>2, CallerWakeup
<1>3. CASE ReaderStep
  BY <1>3, ReaderWakeup
<1>4. CASE OtherStep \/ PeerStep \/ UNCHANGED vars
  <2>1. /\ UNCHANGED <<waitingCalls, callID, waiter, decoded, decoding>>
        /\ \A c \in Calls : pc'[c] = pc[c] /\ err'[c] = err[c]
    BY <1>4, OthersKeep
  <2>2. \A c \in Calls : Robbed(c) => Robbed(c)'
    BY <2>1 DEF Robbed
  <2> QED
    BY <2>1, <2>2 DEF WakeupOK
<1> QED
  BY <1>1, <1>2, <1>3, <1>4, NextSteps

\* Once the read loop is gone, no call waits for a wake-up that nobody owes it, but for
\* the four ways of being stranded: the safety half of PendingCallsReleased.
THEOREM WakesAllWhoWait == Spec => []WakesWhoWaits
<1>1. IInv /\ WakeupOK => WakesWhoWaits
  <2> SUFFICES ASSUME IInv, WakeupOK, pc[Reader] \in {"exited", "abandoned"},
                      NEW c \in Calls, pc[c] = "wait", ~waiter[c]
               PROVE  Stranded(c)
    BY DEF WakesWhoWaits
  <2>1. decoding # c
    BY Distinct DEF IInv, DecodingOK
  <2>2. pc[c] \in Holding
    BY DEF Holding
  <2> QED
    BY <2>1, <2>2 DEF WakeupOK, Stranded
<1> QED
  BY <1>1, InitWakeup, NextWakeup, Invariance, PTL DEF Spec

-----------------------------------------------------------------------------
(* The end of the connection, as the contract sees it.                     *)

\* Only a call of end() changes anybody's err.
LEMMA ErrSteps ==
  ASSUME TypeOK, [Next]_vars
  PROVE  \/ UNCHANGED err
         \/ \E p \in Procs, e \in Reasons : CallEnd(p, e)
<1> USE Distinct
<1>1. CASE \E p \in Procs : EndStep(p)
  BY <1>1, EndKeeps
<1>2. CASE \E c \in Calls : StartCall(c) \/ CallStep(c)
  BY <1>2 DEF StartCall, CallStep, SeeReady, CheckConnected, Acquire, SendRequest,
              ReleaseUnsent, SeeWaiter, ContextEnds, ReturnToCaller, Reasons
<1>3. CASE ReaderStep
  BY <1>3 DEF ReaderStep, ReaderStarts, ReadPreamble, ReadSome, ReadFails, TakeReturn, Decode,
              TakeCall, RefuseCall, TakeGarbled, SkipUnknownType, ReleaseAll, Reasons
<1>4. CASE OtherStep
  BY <1>4 DEF OtherStep, HandlerReplies, HookReturns, MarkReady, Close, Reasons
<1>5. CASE PeerStep \/ UNCHANGED vars
  BY <1>5 DEF PeerStep, PeerReplies, PeerCalls, PeerStrays, PeerLeaves, PeerStalls, vars
<1> QED
  BY <1>1, <1>2, <1>3, <1>4, <1>5, NextSteps

\* What calls end() ends the connection.
LEMMA CallEnds ==
  ASSUME TypeOK, NEW p \in Procs, NEW e \in Reasons, CallEnd(p, e)
  PROVE  err'[p] # "none"
  BY DEF CallEnd, TypeOK, Reasons

\* A connection that has ended has ended for good.
LEMMA EndedStays ==
  ASSUME TypeOK, [Next]_vars, ~notEnded
  PROVE  ~notEnded'
  BY ErrSteps, CallEnds DEF notEnded, CallEnd, TypeOK

\* Whoever is in end() shows that it has ended.
LEMMA InEnd ==
  ASSUME ReasonOK, NEW p \in Procs, pc[p] \in EndPCs
  PROVE  ~notEnded
  BY DEF ReasonOK, notEnded

\* The initial state justifies what nobody returns yet.
LEMMA InitPending == Init => PendingResults
<1> SUFFICES ASSUME Init PROVE PendingResults
  OBVIOUS
<1>1. \A c \in Calls : pc[c] = "idle" /\ NoCall # c
  BY Distinct, NamesAssumption DEF Init, Procs
<1> QED
  BY <1>1 DEF Init, PendingResults

\* A step of end() moves its caller towards "release", which is justified by the end.
LEMMA EndPending ==
  ASSUME TypeOK, ReasonOK, PendingResults, NEW p \in Procs, EndStep(p), ~notEnded'
  PROVE  PendingResults'
<1>1. UNCHANGED <<decoding, result>>
  BY EndKeeps
<1>2. \A c \in Calls : pc'[c] = pc[c] \/ (pc[c] \in EndPCs /\ pc'[c] \notin {"return", "done"})
  BY EndDestination, Distinct
<1> QED
  BY <1>1, <1>2 DEF PendingResults, EndPCs

\* A caller that concludes its call has a reason to.
LEMMA CallerPending ==
  ASSUME TypeOK, ReasonOK, SlotsOK, PendingResults, ~notEnded => ~notEnded',
         NEW c \in Calls, StartCall(c) \/ CallStep(c)
  PROVE  PendingResults'
<1> USE Distinct DEF TypeOK
<1>0. /\ UNCHANGED <<decoding, waiter>>
      /\ \A d \in Calls \ {c} : pc'[d] = pc[d]
  BY CallerKeeps
<1>1. endReason' = endReason
  BY DEF StartCall, CallStep, SeeReady, CheckConnected, Acquire, SendRequest,
         ReleaseUnsent, SeeWaiter, ContextEnds, ReturnToCaller, object
<1>2. CASE StartCall(c) \/ SeeReady(c) \/ Acquire(c) \/ SendRequest(c)
  <2>1. /\ pc[c] # "done" /\ result' = result
        /\ pc'[c] \in {"waitReady", "check", "write", "wait", "endTest"}
    BY <1>2 DEF StartCall, SeeReady, Acquire, SendRequest, Goto, CallEnd
  <2> QED
    BY <2>1, <1>0, <1>1 DEF PendingResults
<1>3. CASE CheckConnected(c)
  <2>1. CASE pc[c] = "check" /\ pc'[c] = "acquire" /\ result' = result
    BY <2>1, <1>0, <1>1 DEF PendingResults
  <2>2. CASE /\ ~connected
             /\ Goto(c, "return")
             /\ result' = [result EXCEPT ![c] = "ended"]
    <3>1. ~notEnded
      BY <2>2 DEF ReasonOK, PendingResults
    <3> QED
      BY <3>1, <2>2, <1>0, <1>1 DEF PendingResults, Goto
  <2> QED
    BY <1>3, <2>1, <2>2 DEF CheckConnected, Goto
<1>4. CASE ReleaseUnsent(c)
  <2>1. ~notEnded
    BY <1>4 DEF ReleaseUnsent, PendingResults
  <2>2. /\ pc[c] = "release"
        /\ \/ pc'[c] = "panicked" /\ result' = result
           \/ pc'[c] = "return" /\ result' = [result EXCEPT ![c] = "sendErr"]
    BY <1>4 DEF ReleaseUnsent, Goto
  <2> QED
    BY <2>1, <2>2, <1>0, <1>1 DEF PendingResults
<1>5. CASE SeeWaiter(c)
  <2>1. decoding # c
    BY <1>5 DEF SeeWaiter, SlotsOK
  <2>2. PICK r \in {"ok", "ended", "torn"} :
          /\ result' = [result EXCEPT ![c] = r]
          /\ r # "ok" => endReason # "none" \/ TornRead
    BY <1>5 DEF SeeWaiter
  <2>3. r # "ok" => ~notEnded
    BY <2>2, InEnd DEF PendingResults, TornRead, EndPCs
  <2>4. pc' = [pc EXCEPT ![c] = "return"]
    BY <1>5 DEF SeeWaiter, Goto
  <2> QED
    BY <2>1, <2>2, <2>3, <2>4, <1>0, <1>1 DEF PendingResults
<1>6. CASE ContextEnds(c)
  <2>1. /\ c \in Impatient
        /\ pc' = [pc EXCEPT ![c] = "return"]
        /\ result' = [result EXCEPT ![c] = "ctx"]
    BY <1>6 DEF ContextEnds, Goto
  <2> QED
    BY <2>1, <1>0, <1>1 DEF PendingResults
<1>7. CASE ReturnToCaller(c)
  <2>1. /\ pc[c] = "return"
        /\ pc' = [pc EXCEPT ![c] = "done"]
        /\ \E r : result' = [result EXCEPT ![c] = r] /\ (r = "ctx" => result[c] = "ctx")
    BY <1>7 DEF ReturnToCaller, Goto
  <2> QED
    BY <2>1, <1>0, <1>1 DEF PendingResults
<1> QED
  BY <1>2, <1>3, <1>4, <1>5, <1>6, <1>7 DEF CallStep

\* The read loop may find the slot of a call that has stopped waiting, no other.
LEMMA ReaderPending ==
  ASSUME TypeOK, AnswersOK, PendingResults, ~notEnded => ~notEnded', ReaderStep
  PROVE  PendingResults'
<1>0. /\ UNCHANGED <<result, endReason>>
      /\ \A c \in Calls : pc'[c] = pc[c]
  BY ReaderKeeps, Distinct
<1>1. CASE decoding' \in {NoCall, decoding}
  BY <1>0, <1>1, Distinct DEF PendingResults
<1>2. CASE TakeReturn
  <2>1. decoding' # decoding => \E i \in Ids : waitingCalls[i] = decoding'
    BY <1>2, HeadType DEF TakeReturn, Handling, TypeOK
  <2>2. \A c \in Calls : decoding' = c /\ decoding # c /\ pc[c] \in {"return", "done"} =>
          c \in Impatient
    BY <2>1 DEF AnswersOK, PendingResults
  <2> QED
    BY <2>2, <1>0 DEF PendingResults
<1> QED
  BY <1>1, <1>2 DEF ReaderStep, ReaderStarts, ReadPreamble, ReadSome, ReadFails, Decode,
                    TakeCall, RefuseCall, TakeGarbled, SkipUnknownType, ReleaseAll, answers

\* Every step keeps PendingResults.
LEMMA NextPending ==
  ASSUME IInv, PendingResults, [Next]_vars
  PROVE  PendingResults'
<1> USE DEF IInv
<1>0. ~notEnded => ~notEnded'
  BY EndedStays
<1>1. CASE \E p \in Procs : EndStep(p)
  BY <1>1, <1>0, InEnd, EndDestination, EndPending
<1>2. CASE \E c \in Calls : StartCall(c) \/ CallStep(c)
  BY <1>2, <1>0, CallerPending
<1>3. CASE ReaderStep
  BY <1>3, <1>0, ReaderPending
<1>4. CASE OtherStep \/ PeerStep \/ UNCHANGED vars
  <2>1. UNCHANGED endReason
    BY <1>4 DEF OtherStep, HandlerReplies, HookReturns, MarkReady, Close, PeerStep, PeerReplies,
                PeerCalls, PeerStrays, PeerLeaves, PeerStalls, vars, object
  <2>2. UNCHANGED <<decoding, result>> /\ \A c \in Calls : pc'[c] = pc[c]
    BY <1>4, OthersKeep
  <2> QED
    BY <2>1, <2>2, <1>0 DEF PendingResults
<1> QED
  BY <1>1, <1>2, <1>3, <1>4, NextSteps

\* So it always holds.
LEMMA PendingAlways == Spec => []PendingResults
  BY InitPending, NextPending, Invariance, PTL DEF Spec

-----------------------------------------------------------------------------
(* The refinement.                                                         *)

\* The initial states of Connection are those of the contract.
LEMMA InitContract == Init => Contract!CInit
<1> SUFFICES ASSUME Init PROVE Contract!CInit
  OBVIOUS
<1>1. \A c \in Calls : pc[c] = "idle"
  BY Distinct DEF Init, Procs
<1> QED
  BY <1>1 DEF Init, Contract!CInit, phaseOf, outcomeOf, notEnded

\* A step that decodes nothing and moves no stub to or from its ends is at most the
\* end of the connection.
LEMMA HiddenStep ==
  ASSUME TypeOK, [Next]_vars, UNCHANGED decoded,
         \A c \in Calls : \/ pc'[c] = pc[c] /\ result'[c] = result[c]
                          \/ {pc[c], pc'[c]} \cap {"idle", "done", "panicked"} = {}
  PROVE  Contract!ConnectionEnds \/ UNCHANGED Contract!cvars
<1>1. phaseOf' = phaseOf
  BY DEF phaseOf
<1>2. outcomeOf' = outcomeOf
  BY DEF outcomeOf
<1>3. CASE notEnded' = notEnded
  BY <1>1, <1>2, <1>3 DEF Contract!cvars
<1>4. CASE notEnded' # notEnded
  <2>1. notEnded /\ ~notEnded'
    BY <1>4, EndedStays DEF notEnded
  <2> QED
    BY <2>1, <1>1, <1>2 DEF Contract!ConnectionEnds
<1> QED
  BY <1>3, <1>4

\* A stub that returns does what the contract says of Return.
LEMMA ReturnContract ==
  ASSUME IInv, PendingResults, NEW c \in Calls, ReturnToCaller(c)
  PROVE  Contract!Return(c)
<1> USE Distinct DEF IInv, TypeOK
<1>1. /\ pc[c] = "return"
      /\ pc' = [pc EXCEPT ![c] = "done"]
      /\ UNCHANGED <<decoded, err>>
  BY DEF ReturnToCaller, Goto, answers
<1>2. phaseOf[c] = "pending" /\ phaseOf' = [phaseOf EXCEPT ![c] = "returned"]
  BY <1>1 DEF phaseOf
<1>3. PICK r : /\ result' = [result EXCEPT ![c] = r]
               /\ \/ r = CASE decoded[c] = "rpcErr" -> "remote"
                           [] decoded[c] = "bad"    -> "decodeErr"
                           [] OTHER                 -> result[c]
                  \/ r = "torn" /\ decoding = c
  BY DEF ReturnToCaller
<1>4. outcomeOf' = [outcomeOf EXCEPT ![c] = r]
  BY <1>1, <1>3 DEF outcomeOf
<1>5. decoding = c => decoded[c] = "none" /\ (c \in Impatient \/ ~notEnded)
  BY <1>1 DEF AnswersOK, PendingResults
<1>6. /\ result[c] \in {"ok", "ended", "torn", "ctx", "sendErr"}
      /\ result[c] = "ctx" => c \in Impatient
      /\ result[c] \in {"ended", "torn", "sendErr"} => ~notEnded
      /\ result[c] = "ok" => decoded[c] \in {"resp", "rpcErr"}
  BY <1>1 DEF PendingResults, OutcomeOK, Results
<1>7. decoded[c] \in {"none", "resp", "rpcErr", "bad"}
  BY KindsAssumption
<1>8. r \in Contract!Outcomes(c)
  BY <1>3, <1>5, <1>6, <1>7 DEF Contract!Outcomes, Contract!Failures
<1>9. UNCHANGED <<decoded, notEnded>>
  BY <1>1 DEF notEnded
<1> QED
  BY <1>2, <1>4, <1>8, <1>9 DEF Contract!Return

\* A reply that has been decoded is an answer.
LEMMA DecodeContract ==
  ASSUME IInv, Decode
  PROVE  \E c \in Calls, k \in ReplyKinds : Contract!Answer(c, k)
<1> USE Distinct DEF IInv, TypeOK
<1>1. /\ decoding \in Calls /\ Head(buf).kind \in ReplyKinds
      /\ decoded[decoding] = "none" /\ pc[decoding] # "idle"
  BY HeadType DEF Decode, DecodingOK, AnswersOK, SlotsOK, NotYetPlaced
<1>2. decoded' = [decoded EXCEPT ![decoding] = Head(buf).kind]
  BY DEF Decode
<1>3. UNCHANGED result /\ \A c \in Calls : pc'[c] = pc[c]
  BY ReaderKeeps DEF ReaderStep
<1>4. phaseOf' = phaseOf /\ outcomeOf' = outcomeOf
  BY <1>3 DEF phaseOf, outcomeOf
<1>5. notEnded' = (notEnded /\ Head(buf).kind # "bad")
  <2>1. CASE Head(buf).kind # "bad"
    BY <2>1 DEF Decode, notEnded
  <2>2. CASE Head(buf).kind = "bad"
    BY <2>2, CallEnds DEF Decode, notEnded, Reasons
  <2> QED
    BY <2>1, <2>2
<1>6. phaseOf[decoding] # "unplaced"
  BY <1>1 DEF phaseOf
<1> QED
  BY <1>1, <1>2, <1>4, <1>5, <1>6 DEF Contract!Answer

\* Every step of Connection is one of the contract, or none.
LEMMA NextContract ==
  ASSUME IInv, PendingResults, [Next]_vars
  PROVE  [Contract!CNext]_(Contract!cvars)
<1> USE Distinct
<1>0. TypeOK
  BY DEF IInv
<1>1. ASSUME NEW p \in Procs, EndStep(p) PROVE [Contract!CNext]_(Contract!cvars)
  <2>1. UNCHANGED <<decoded, result>>
    BY <1>0, <1>1, EndKeeps
  <2>2. /\ pc[p] \notin {"idle", "done", "panicked"}
        /\ pc'[p] \notin {"idle", "done", "panicked"}
        /\ \A c \in Calls \ {p} : pc'[c] = pc[c]
    BY <1>0, <1>1, EndDestination DEF EndPCs
  <2> QED
    BY <1>0, <2>1, <2>2, HiddenStep DEF Contract!CNext
<1>2. ASSUME NEW c \in Calls, StartCall(c) \/ CallStep(c)
      PROVE  [Contract!CNext]_(Contract!cvars)
  <2>0. /\ UNCHANGED decoded
        /\ \A d \in Calls \ {c} : pc'[d] = pc[d]
    BY <1>0, <1>2, CallerKeeps
  <2>1. CASE StartCall(c)
    <3>1. /\ pc[c] = "idle" /\ pc' = [pc EXCEPT ![c] = "waitReady"]
          /\ UNCHANGED <<err, result>>
      BY <2>1 DEF StartCall, Goto
    <3>2. /\ phaseOf[c] = "unplaced"
          /\ phaseOf' = [phaseOf EXCEPT ![c] = "pending"]
          /\ UNCHANGED <<outcomeOf, notEnded>>
      BY <1>0, <3>1 DEF phaseOf, outcomeOf, notEnded, TypeOK
    <3> QED
      BY <3>2, <2>0 DEF Contract!Place, Contract!CNext
  <2>2. CASE \/ SeeReady(c) \/ CheckConnected(c) \/ Acquire(c) \/ SendRequest(c)
             \/ SeeWaiter(c) \/ ContextEnds(c)
    <3>1. /\ pc[c] \notin {"idle", "done", "panicked"}
          /\ pc'[c] \notin {"idle", "done", "panicked"}
          /\ \A d \in Calls \ {c} : result'[d] = result[d]
      BY <1>0, <2>2 DEF SeeReady, CheckConnected, Acquire, SendRequest, SeeWaiter, ContextEnds,
                        Goto, CallEnd, TypeOK
    <3> QED
      BY <1>0, <2>0, <3>1, HiddenStep DEF Contract!CNext
  <2>3. CASE ReleaseUnsent(c)
    <3>1. CASE pc'[c] = "panicked"
      <4>1. /\ pc[c] = "release" /\ pc' = [pc EXCEPT ![c] = "panicked"]
            /\ UNCHANGED <<err, result>>
        BY <1>0, <2>3, <3>1 DEF ReleaseUnsent, Goto, TypeOK
      <4>2. /\ phaseOf[c] = "pending"
            /\ phaseOf' = [phaseOf EXCEPT ![c] = "panicked"]
            /\ UNCHANGED <<outcomeOf, notEnded>>
        BY <1>0, <4>1 DEF phaseOf, outcomeOf, notEnded, TypeOK
      <4>3. ~notEnded
        BY <4>1 DEF PendingResults
      <4> QED
        BY <4>2, <4>3, <2>0 DEF Contract!Panic, Contract!CNext
    <3>2. CASE pc'[c] # "panicked"
      <4>1. /\ pc[c] = "release" /\ pc'[c] = "return"
            /\ \A d \in Calls \ {c} : result'[d] = result[d]
        BY <1>0, <2>3, <3>2 DEF ReleaseUnsent, Goto, TypeOK
      <4> QED
        BY <1>0, <4>1, <2>0, HiddenStep DEF Contract!CNext
    <3> QED
      BY <3>1, <3>2
  <2>4. CASE ReturnToCaller(c)
    BY <2>4, ReturnContract DEF Contract!CNext
  <2> QED
    BY <1>2, <2>1, <2>2, <2>3, <2>4 DEF CallStep
<1>3. CASE ReaderStep
  <2>1. CASE Decode
    BY <2>1, DecodeContract DEF Contract!CNext
  <2>2. CASE ~Decode
    <3>1. UNCHANGED decoded
      BY <1>3, <2>2 DEF ReaderStep, ReaderStarts, ReadPreamble, ReadSome, ReadFails, TakeReturn,
                        TakeCall, RefuseCall, TakeGarbled, SkipUnknownType, ReleaseAll, answers
    <3>2. UNCHANGED result /\ \A c \in Calls : pc'[c] = pc[c]
      BY <1>0, <1>3, ReaderKeeps
    <3> QED
      BY <1>0, <3>1, <3>2, HiddenStep DEF Contract!CNext
  <2> QED
    BY <2>1, <2>2
<1>4. CASE OtherStep \/ PeerStep \/ UNCHANGED vars
  <2>1. UNCHANGED <<decoded, result>> /\ \A c \in Calls : pc'[c] = pc[c]
    BY <1>0, <1>4, OthersKeep
  <2> QED
    BY <1>0, <2>1, HiddenStep DEF Contract!CNext
<1> QED
  BY <1>1, <1>2, <1>3, <1>4, NextSteps

\* What a caller sees of the runtime is what CallContract allows: one answer at most
\* for each call, one return, with that answer or for a reason that exists.
THEOREM Implements == Spec => ImplementsContract
  BY InitContract, NextContract, PendingAlways, Invariance, PTL
  DEF Spec, ImplementsContract, Contract!CSpec

=============================================================================
