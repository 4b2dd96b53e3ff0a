---------------------------- MODULE RPCPairProofs ----------------------------
(***************************************************************************)
(* Theorems about RPCPair, for any calls, any number of pieces and any     *)
(* capacity of the stream.                                                 *)
(***************************************************************************)
EXTENDS RPCPairInv, SequenceTheorems, TLAPS

PieceSet == [msg : Messages, part : 1 .. Pieces]
Phases == {"idle", "refused", "placed", "sending", "unsent", "waiting",
           "succeeded", "failed", "panicked"}
Loops == {"reading", "refusing", "ending", "leaving", "gone"}

USE DEF messages, ends

LEMMA EndFacts ==
  /\ \A s \in Ends : Peer(s) \in Ends /\ Peer(Peer(s)) = s /\ Peer(s) # s
  /\ \A s, t \in Ends : t = s \/ t = Peer(s)
BY DEF Ends, Peer

LEMMA MessageFacts ==
  /\ \A m \in Messages : m.call \in Calls /\ Writer(m) \in Ends
  /\ \A t \in {"call", "result", "refusal"}, c \in Calls :
       /\ Message(t, c) \in Messages
       /\ Message(t, c).type = t /\ Message(t, c).call = c
  /\ \A m \in Messages : m = Message(m.type, m.call)
  /\ \A c \in Calls : Writer(Message("call", c)) = Caller[c]
  /\ \A m \in Messages : m.type \in {"call", "result", "refusal"}
BY PairAssumption, EndFacts DEF Messages, Message, Writer

LEMMA PieceFacts ==
  /\ \A p \in PieceSet : p.msg \in Messages /\ p.part \in 1 .. Pieces /\ p = Piece(p.msg, p.part)
  /\ \A m \in Messages, n \in 1 .. Pieces :
       Piece(m, n) \in PieceSet /\ Piece(m, n).msg = m /\ Piece(m, n).part = n
  /\ Pieces \in Nat /\ Pieces > 0
BY PairAssumption DEF PieceSet, Piece

\* The goroutines that call end().
LEMMA GoroutineFacts ==
  /\ \A c \in Calls :
       /\ The("caller", c) \in Goroutines /\ EndOf(The("caller", c)) = Caller[c]
       /\ The("method", c) \in Goroutines /\ EndOf(The("method", c)) = Peer(Caller[c])
  /\ \A s \in Ends :
       /\ The("reader", s) \in Goroutines /\ EndOf(The("reader", s)) = s
       /\ The("user", s) \in Goroutines /\ EndOf(The("user", s)) = s
  /\ \A g \in Goroutines :
       /\ EndOf(g) \in Ends
       /\ g = The(g.role, g.of) /\ g.role \in {"caller", "method", "reader", "user"}
       /\ g.role \in {"caller", "method"} => g.of \in Calls
       /\ g.role \in {"reader", "user"} => g.of \in Ends
  /\ \A r, x, q, y : The(r, x) = The(q, y) <=> r = q /\ x = y
  /\ \A r, x : The(r, x).role = r /\ The(r, x).of = x
<1>1. /\ \A r, x : The(r, x).role = r /\ The(r, x).of = x
      /\ \A r, x, q, y : The(r, x) = The(q, y) <=> r = q /\ x = y
  BY DEF The
<1>2. \A g \in Goroutines :
       /\ g = The(g.role, g.of) /\ g.role \in {"caller", "method", "reader", "user"}
       /\ g.role \in {"caller", "method"} => g.of \in Calls
       /\ g.role \in {"reader", "user"} => g.of \in Ends
  BY DEF Goroutines, The
<1>3. \A c \in Calls : Caller[c] \in Ends /\ Peer(Caller[c]) \in Ends
  BY PairAssumption, EndFacts
<1>4. \A g \in Goroutines : EndOf(g) \in Ends
  BY <1>2, <1>3 DEF EndOf
<1>5. \A c \in Calls :
       /\ The("caller", c) \in Goroutines /\ EndOf(The("caller", c)) = Caller[c]
       /\ The("method", c) \in Goroutines /\ EndOf(The("method", c)) = Peer(Caller[c])
  BY <1>1 DEF Goroutines, The, EndOf
<1>6. \A s \in Ends :
       /\ The("reader", s) \in Goroutines /\ EndOf(The("reader", s)) = s
       /\ The("user", s) \in Goroutines /\ EndOf(The("user", s)) = s
  BY <1>1 DEF Goroutines, The, EndOf
<1> QED
  BY <1>1, <1>2, <1>4, <1>5, <1>6

LEMMA SenderFacts ==
  /\ \A m \in Messages : Sender(m) \in Goroutines /\ EndOf(Sender(m)) = Writer(m)
  /\ \A c \in Calls :
       /\ Sender(Message("call", c)) = The("caller", c)
       /\ Sender(Message("result", c)) = The("method", c)
       /\ Sender(Message("refusal", c)) = The("reader", Peer(Caller[c]))
<1>1. \A c \in Calls :
       /\ Sender(Message("call", c)) = The("caller", c)
       /\ Sender(Message("result", c)) = The("method", c)
       /\ Sender(Message("refusal", c)) = The("reader", Peer(Caller[c]))
       /\ Writer(Message("call", c)) = Caller[c]
       /\ Writer(Message("result", c)) = Peer(Caller[c])
       /\ Writer(Message("refusal", c)) = Peer(Caller[c])
  BY DEF Sender, Message, Writer
<1>2. \A c \in Calls : Peer(Caller[c]) \in Ends
  BY PairAssumption, EndFacts
<1>3. \A m \in Messages : Sender(m) \in Goroutines /\ EndOf(Sender(m)) = Writer(m)
  <2> SUFFICES ASSUME NEW m \in Messages
               PROVE  Sender(m) \in Goroutines /\ EndOf(Sender(m)) = Writer(m)
    OBVIOUS
  <2>1. m = Message(m.type, m.call) /\ m.call \in Calls /\ m.type \in {"call", "result", "refusal"}
    BY MessageFacts
  <2>2. CASE m.type = "call"
    BY <1>1, <2>1, <2>2, GoroutineFacts
  <2>3. CASE m.type = "result"
    BY <1>1, <2>1, <2>3, GoroutineFacts
  <2>4. CASE m.type = "refusal"
    BY <1>1, <1>2, <2>1, <2>4, GoroutineFacts
  <2> QED
    BY <2>1, <2>2, <2>3, <2>4
<1> QED
  BY <1>1, <1>3

\* The streams and what they hold.
LEMMA StreamType ==
  ASSUME TypeOK
  PROVE  /\ stream \in [Ends -> Seq(PieceSet)]
         /\ \A s \in Ends : stream[s] \in Seq(PieceSet) /\ Len(stream[s]) \in Nat
         /\ \A s \in Ends : \A i \in 1 .. Len(stream[s]) :
              stream[s][i] \in PieceSet /\ stream[s][i].msg \in Messages
                                        /\ stream[s][i].part \in 1 .. Pieces
         /\ writing \subseteq PieceSet
<1>1. stream \in [Ends -> Seq(PieceSet)] /\ writing \subseteq PieceSet
  BY DEF TypeOK, PieceSet
<1>2. \A s \in Ends : stream[s] \in Seq(PieceSet) /\ Len(stream[s]) \in Nat
  BY <1>1, LenProperties
<1>3. \A s \in Ends : \A i \in 1 .. Len(stream[s]) : stream[s][i] \in PieceSet
  BY <1>2, ElementOfSeq
<1> QED
  BY <1>1, <1>2, <1>3, PieceFacts

\* A stream that a piece is written to.
LEMMA Written ==
  ASSUME TypeOK, NEW s \in Ends, NEW p \in PieceSet,
         stream' = [stream EXCEPT ![s] = Append(@, p)]
  PROVE  /\ stream' \in [Ends -> Seq(PieceSet)]
         /\ Len(stream'[s]) = Len(stream[s]) + 1
         /\ stream'[s][Len(stream[s]) + 1] = p
         /\ \A i \in 1 .. Len(stream[s]) : stream'[s][i] = stream[s][i]
         /\ \A t \in Ends : t # s => stream'[t] = stream[t]
<1>1. stream'[s] = Append(stream[s], p) /\ \A t \in Ends : t # s => stream'[t] = stream[t]
  BY StreamType
<1>2. Append(stream[s], p) \in Seq(PieceSet)
  BY StreamType, AppendProperties
<1>3. stream' \in [Ends -> Seq(PieceSet)]
  BY <1>2, StreamType
<1> QED
  BY <1>1, <1>3, StreamType, AppendProperties

\* A stream that a piece is read from.
LEMMA Taken ==
  ASSUME TypeOK, NEW s \in Ends, stream[s] # <<>>,
         stream' = [stream EXCEPT ![s] = Tail(@)]
  PROVE  /\ stream' \in [Ends -> Seq(PieceSet)]
         /\ Len(stream[s]) > 0
         /\ Len(stream'[s]) = Len(stream[s]) - 1
         /\ Head(stream[s]) = stream[s][1]
         /\ \A i \in 1 .. Len(stream'[s]) : stream'[s][i] = stream[s][i + 1]
         /\ \A t \in Ends : t # s => stream'[t] = stream[t]
<1>1. stream'[s] = Tail(stream[s]) /\ \A t \in Ends : t # s => stream'[t] = stream[t]
  BY StreamType
<1>2. /\ Tail(stream[s]) \in Seq(PieceSet)
      /\ Len(Tail(stream[s])) = Len(stream[s]) - 1
      /\ \A i \in 1 .. Len(stream[s]) - 1 : Tail(stream[s])[i] = stream[s][i + 1]
  BY StreamType, HeadTailProperties
<1>3. stream' \in [Ends -> Seq(PieceSet)]
  BY <1>2, StreamType
<1>4. Len(stream[s]) > 0 /\ Head(stream[s]) = stream[s][1]
  BY StreamType, EmptySeq
<1> QED
  BY <1>1, <1>2, <1>3, <1>4

\* WholeMessages by the places in the streams.
LEMMA WholeByPlace ==
  ASSUME NEW q \in Seq(PieceSet)
  PROVE  (q # <<>> <=> Len(q) > 0) /\ (Len(q) > 0 => Head(q) = q[1])
BY LenProperties, EmptySeq

-----------------------------------------------------------------------------
LEMMA InitPair == Init => PairInv
<1> SUFFICES ASSUME Init PROVE PairInv
  OBVIOUS
<1> USE DEF Init
<1>0. \A s \in Ends : stream[s] = <<>> /\ Len(stream[s]) = 0 /\ got[s] = 0
  OBVIOUS
<1>1. TypeOK
  BY PairAssumption DEF TypeOK, Ends
<1>2. OneWriter /\ WholeMessages /\ OwnStream
  BY <1>0 DEF OneWriter, WholeMessages, OwnStream
<1>3. WritersGoOn
  BY <1>0, EndFacts DEF WritersGoOn
<1>4. \A m \in Messages : ~UnderWay(m)
  BY <1>0, MessageFacts DEF UnderWay, BeingWritten, InStream
<1>5. SentOnce
  BY <1>0, PairAssumption, MessageFacts DEF SentOnce
<1>6. StagesOK
  BY <1>4, MessageFacts DEF StagesOK, UnderWay
<1>7. \A m \in Messages : ~InHand(m)
  BY <1>4 DEF InHand, UnderWay
<1>8. SendersOK /\ EndersOK /\ EndsOK
  BY <1>7, MessageFacts, GoroutineFacts, PairAssumption DEF SendersOK, EndersOK, EndsOK
<1> QED
  BY <1>1, <1>2, <1>3, <1>5, <1>6, <1>8 DEF PairInv, Delivery

-----------------------------------------------------------------------------
(* Steps that leave streams and writers alone *)

LEMMA StreamsKept ==
  ASSUME Delivery, UNCHANGED <<writing, stream, got>>,
         \A s \in Ends : socket'[s] = "open" => socket[s] = "open"
  PROVE  /\ OneWriter' /\ WritersGoOn' /\ WholeMessages' /\ OwnStream'
         /\ \A m \in Messages : BeingWritten(m)' = BeingWritten(m) /\ InStream(m)' = InStream(m)
<1>1. OneWriter' /\ OwnStream' /\ WholeMessages'
  BY DEF Delivery, OneWriter, OwnStream, WholeMessages
<1>2. WritersGoOn'
  BY DEF Delivery, WritersGoOn, Due
<1>3. \A m \in Messages : BeingWritten(m)' = BeingWritten(m) /\ InStream(m)' = InStream(m)
  BY DEF BeingWritten, InStream
<1> QED
  BY <1>1, <1>2, <1>3

LEMMA SentOnceKept ==
  ASSUME Delivery, UNCHANGED <<writing, stream, got>>,
         \A c \in Calls : Message("call", c) \in queued' => Message("call", c) \in queued
  PROVE  SentOnce'
BY MessageFacts DEF Delivery, SentOnce, BeingWritten, InStream

LEMMA PlaceInv ==
  ASSUME Delivery, NEW c \in Calls, Place(c)
  PROVE  Delivery'
<1> USE DEF Place
<1>1. TypeOK'
  BY DEF Delivery, TypeOK
<1>2. OneWriter' /\ WritersGoOn' /\ WholeMessages' /\ OwnStream'
  BY StreamsKept
<1>3. SentOnce'
  BY SentOnceKept
<1>4. phase' \in [Calls -> Phases]
      /\ phase[c] = "idle" /\ phase'[c] \in {"placed", "refused"}
      /\ \A d \in Calls : d # c => phase'[d] = phase[d]
  BY DEF Delivery, TypeOK, Phases
<1>5. StagesOK'
  BY <1>4, MessageFacts DEF Delivery, StagesOK, UnderWay, BeingWritten, InStream
<1> QED
  BY <1>1, <1>2, <1>3, <1>5 DEF Delivery

LEMMA AcquireInv ==
  ASSUME Delivery, NEW c \in Calls, Acquire(c)
  PROVE  Delivery'
<1> USE DEF Acquire
<1> DEFINE m == Message("call", c)
<1>1. TypeOK'
  <2>1. Message("call", c) \in Messages
    BY MessageFacts
  <2>2. queued' \subseteq Messages
    BY <2>1 DEF Delivery, TypeOK
  <2> QED
    BY <2>2 DEF Delivery, TypeOK
<1>2. /\ OneWriter' /\ WritersGoOn' /\ WholeMessages' /\ OwnStream'
      /\ \A n \in Messages : BeingWritten(n)' = BeingWritten(n) /\ InStream(n)' = InStream(n)
  BY StreamsKept
<1>3. phase[c] = "placed" /\ phase'[c] = "sending" /\ \A d \in Calls : d # c => phase'[d] = phase[d]
  BY DEF Delivery, TypeOK
<1>4. ~UnderWay(m) /\ method[c] = "none"
  BY <1>3 DEF Delivery, StagesOK
<1>5. /\ m \in Messages /\ m.call = c /\ m.type = "call"
      /\ \A d \in Calls : Message("call", d) = m => d = c
      /\ \A d \in Calls : Message("result", d) # m /\ Message("refusal", d) # m
  BY MessageFacts DEF Message
<1>6. SentOnce'
  <2> SUFFICES ASSUME NEW d \in Calls
               PROVE  /\ Message("call", d) \in queued' =>
                            ~BeingWritten(Message("call", d))' /\ ~InStream(Message("call", d))'
                      /\ \A p \in writing : p.msg = Message("call", d) =>
                            \A i \in 1 .. Len(stream[Caller[d]]) :
                                stream[Caller[d]][i].msg = Message("call", d) => stream[Caller[d]][i].part < p.part
                      /\ \A i, j \in 1 .. Len(stream[Caller[d]]) :
                            i < j /\ stream[Caller[d]][i].msg = Message("call", d)
                                  /\ stream[Caller[d]][j].msg = Message("call", d)
                            => stream[Caller[d]][i].part < stream[Caller[d]][j].part
    BY DEF SentOnce
  <2>1. Message("call", d) \in queued' => ~BeingWritten(Message("call", d))' /\ ~InStream(Message("call", d))'
    BY <1>2, <1>4, <1>5, MessageFacts DEF Delivery, SentOnce, UnderWay
  <2> QED
    BY <2>1 DEF Delivery, SentOnce
<1>7. StagesOK'
  <2>1. \A n \in Messages : n # m => UnderWay(n)' = UnderWay(n) /\ (n \in queued' <=> n \in queued)
    BY <1>2 DEF UnderWay
  <2> QED
    BY <1>2, <1>3, <1>4, <1>5, <2>1, MessageFacts DEF Delivery, StagesOK
<1> QED
  BY <1>1, <1>2, <1>6, <1>7 DEF Delivery

LEMMA ReturnInv ==
  ASSUME Delivery, NEW c \in Calls, Return(c) \/ GiveUp(c) \/ Release(c)
  PROVE  Delivery'
<1> USE DEF Return, GiveUp, Release
<1>1. TypeOK'
  BY DEF Delivery, TypeOK
<1>2. /\ OneWriter' /\ WritersGoOn' /\ WholeMessages' /\ OwnStream'
      /\ \A n \in Messages : BeingWritten(n)' = BeingWritten(n) /\ InStream(n)' = InStream(n)
  BY StreamsKept
<1>3. SentOnce'
  BY SentOnceKept
<1>4. /\ phase[c] \in {"unsent", "waiting"} /\ phase'[c] \in {"succeeded", "failed", "panicked"}
      /\ \A d \in Calls : d # c => phase'[d] = phase[d]
      /\ phase'[c] = "succeeded" =>
            phase[c] = "waiting" /\ c \notin slots /\ ~endReason[Caller[c]] /\ answer[c] # "refusal"
      /\ \A d \in Calls : d # c => (d \in slots' <=> d \in slots)
      /\ answer[c] \in {"none", "result", "refusal"}
  BY DEF Delivery, TypeOK
<1>5. phase'[c] = "succeeded" => method[c] = "done"
  BY <1>4 DEF Delivery, StagesOK
<1>6. StagesOK'
  BY <1>2, <1>4, <1>5, MessageFacts DEF Delivery, StagesOK, UnderWay
<1> QED
  BY <1>1, <1>2, <1>3, <1>6 DEF Delivery

LEMMA MethodReturnsInv ==
  ASSUME Delivery, NEW c \in Calls, MethodReturns(c)
  PROVE  Delivery'
<1> USE DEF MethodReturns
<1>1. TypeOK'
  <2>1. Message("result", c) \in Messages
    BY MessageFacts
  <2>2. queued' \subseteq Messages
    BY <2>1 DEF Delivery, TypeOK
  <2> QED
    BY <2>2 DEF Delivery, TypeOK
<1>2. /\ OneWriter' /\ WritersGoOn' /\ WholeMessages' /\ OwnStream'
      /\ \A n \in Messages : BeingWritten(n)' = BeingWritten(n) /\ InStream(n)' = InStream(n)
  BY StreamsKept
<1>3. /\ \A d \in Calls : Message("call", d) # Message("result", c)
      /\ \A d \in Calls : Message("refusal", d) # Message("result", c)
      /\ \A d \in Calls : Message("result", d) = Message("result", c) => d = c
  BY DEF Message
<1>4. SentOnce'
  BY <1>3, SentOnceKept
<1>5. method[c] = "running" /\ method'[c] = "done" /\ \A d \in Calls : d # c => method'[d] = method[d]
  BY DEF Delivery, TypeOK
<1>6. StagesOK'
  BY <1>2, <1>3, <1>5, MessageFacts DEF Delivery, StagesOK, UnderWay
<1> QED
  BY <1>1, <1>2, <1>4, <1>6 DEF Delivery

\* Steps of the read loop, of the user and of the network that touch no message.
LEMMA EndingInv ==
  ASSUME PairInv, NEW s \in Ends, ReadFails(s) \/ Leave(s) \/ Close(s) \/ Break
  PROVE  Delivery'
<1> USE DEF ReadFails, Leave, Close, Break, CallEnd, Trouble
<1>0. Delivery /\ TypeOK
  BY DEF PairInv, Delivery
<1>1. TypeOK'
  <2>1. /\ loop' = loop \/ loop' = [loop EXCEPT ![s] = "ending"] \/ loop' = [loop EXCEPT ![s] = "gone"]
        /\ \/ ending' = ending
           \/ \E r \in {"reader", "user"} : ending' = [ending EXCEPT ![The(r, s)] = "test"]
        /\ slots' \subseteq slots
        /\ network' \in BOOLEAN /\ troubles' \in Nat
        /\ UNCHANGED <<phase, answer, method, messages, endReason, connected, socket>>
    <3>0. network \in BOOLEAN /\ troubles \in Nat
      BY <1>0 DEF TypeOK
    <3>1. CASE ReadFails(s)
      BY <3>0, <3>1
    <3>2. CASE Leave(s)
      BY <3>0, <3>2
    <3>3. CASE Close(s)
      BY <3>0, <3>3
    <3>4. CASE Break
      <4>1. network' \in BOOLEAN /\ UNCHANGED <<loop, ending, slots>>
        BY <3>4, Zenon
      <4>2. troubles' \in Nat
        BY <3>0, <3>4
      <4> QED
        BY <3>4, <4>1, <4>2, Zenon
    <3> QED
      BY <3>1, <3>2, <3>3, <3>4
  <2>2. loop' \in [Ends -> Loops]
    BY <1>0, <2>1 DEF TypeOK, Loops
  <2>3. ending' \in [Goroutines -> {"not", "test", "store", "flag", "close"}]
    BY <1>0, <2>1, GoroutineFacts DEF TypeOK
  <2> QED
    BY <1>0, <2>1, <2>2, <2>3 DEF TypeOK, Loops
<1>2. /\ UNCHANGED <<phase, answer, method, queued, writing, stream, got, endReason, socket>>
      /\ slots' = slots \/ (loop[s] = "leaving" /\ slots' = {c \in slots : Caller[c] # s})
  BY DEF ReadFails
<1>3. /\ OneWriter' /\ WritersGoOn' /\ WholeMessages' /\ OwnStream'
      /\ \A n \in Messages : BeingWritten(n)' = BeingWritten(n) /\ InStream(n)' = InStream(n)
  BY <1>0, <1>2, StreamsKept
<1>4. SentOnce'
  BY <1>0, <1>2, SentOnceKept
<1>5. \A c \in Calls : c \notin slots' /\ ~endReason[Caller[c]] => c \notin slots
  BY <1>2 DEF PairInv, EndsOK
<1>6. StagesOK'
  BY <1>0, <1>2, <1>3, <1>5, MessageFacts DEF Delivery, StagesOK, UnderWay
<1> QED
  BY <1>1, <1>3, <1>4, <1>6 DEF Delivery

\* A step of end() leaves the streams alone; a caller that is through with it had
\* its message out of its hands.
LEMMA EndStepInv ==
  ASSUME PairInv, NEW g \in Goroutines, EndStep(g)
  PROVE  Delivery'
<1> USE DEF EndStep, EndTest, EndStore, EndFlag, EndClose, EndOver
<1>0. /\ Delivery /\ TypeOK
      /\ UNCHANGED <<answer, slots, method, queued, writing, stream, got>>
      /\ ending[g] # "not" /\ EndOf(g) \in Ends
  BY GoroutineFacts DEF PairInv, Delivery
<1>1. /\ phase' = phase \/ (g.role = "caller" /\ phase' = [phase EXCEPT ![g.of] = "unsent"])
      /\ loop' = loop \/ (g.role = "reader" /\ loop' = [loop EXCEPT ![g.of] = "leaving"])
      /\ \A s \in Ends : socket'[s] = "open" => socket[s] = "open"
      /\ \A s \in Ends : endReason[s] => endReason'[s]
  BY <1>0 DEF TypeOK
<1>2. TypeOK'
  <2>1. phase' \in [Calls -> Phases] /\ loop' \in [Ends -> Loops]
    <3>1. /\ phase \in [Calls -> Phases] /\ "unsent" \in Phases
          /\ loop \in [Ends -> Loops] /\ "leaving" \in Loops
      BY <1>0 DEF TypeOK, Phases, Loops
    <3>2. phase' \in [Calls -> Phases]
      BY <1>1, <3>1, GoroutineFacts
    <3>3. loop' \in [Ends -> Loops]
      BY <1>1, <3>1, GoroutineFacts
    <3> QED
      BY <3>2, <3>3
  <2>2. /\ ending' \in [Goroutines -> {"not", "test", "store", "flag", "close"}]
        /\ endReason' \in [Ends -> BOOLEAN] /\ connected' \in [Ends -> BOOLEAN]
        /\ socket' \in [Ends -> {"open", "broken", "closed"}]
        /\ UNCHANGED <<network, troubles>>
    <3>1. CASE EndTest(g)
      BY <1>0, <3>1 DEF TypeOK
    <3>2. CASE EndStore(g)
      BY <1>0, <3>2 DEF TypeOK
    <3>3. CASE EndFlag(g)
      BY <1>0, <3>3 DEF TypeOK
    <3>4. CASE EndClose(g)
      BY <1>0, <3>4 DEF TypeOK
    <3> QED
      BY <3>1, <3>2, <3>3, <3>4
  <2> QED
    BY <1>0, <2>1, <2>2 DEF TypeOK, Phases, Loops
<1>3. /\ OneWriter' /\ WritersGoOn' /\ WholeMessages' /\ OwnStream'
      /\ \A n \in Messages : BeingWritten(n)' = BeingWritten(n) /\ InStream(n)' = InStream(n)
  BY <1>0, <1>1, StreamsKept
<1>4. SentOnce'
  BY <1>0, SentOnceKept
<1>5. \A d \in Calls : \/ phase'[d] = phase[d]
                       \/ /\ phase[d] = "sending" /\ phase'[d] = "unsent"
                          /\ ~InHand(Message("call", d))
  <2> SUFFICES ASSUME NEW d \in Calls, phase'[d] # phase[d]
               PROVE  /\ phase[d] = "sending" /\ phase'[d] = "unsent"
                      /\ ~InHand(Message("call", d))
    OBVIOUS
  <2>1. g = The("caller", d) /\ phase'[d] = "unsent"
    BY <1>0, <1>1, GoroutineFacts DEF TypeOK
  <2>2. Sender(Message("call", d)) = g
    BY <2>1, SenderFacts
  <2> QED
    BY <1>0, <2>1, <2>2, MessageFacts DEF PairInv, SendersOK, EndersOK
<1>6. StagesOK'
  <2> SUFFICES ASSUME NEW d \in Calls
               PROVE  /\ UnderWay(Message("call", d))' =>
                            method[d] = "none" /\ phase'[d] \notin {"idle", "refused", "placed"}
                      /\ Message("call", d) \in queued' \/ BeingWritten(Message("call", d))'
                            => phase'[d] = "sending"
                      /\ UnderWay(Message("result", d))' => method[d] = "done"
                      /\ UnderWay(Message("refusal", d))' => d \notin Served
                      /\ answer[d] = "result" => method[d] = "done"
                      /\ answer[d] = "refusal" => d \notin Served
                      /\ phase'[d] \in {"idle", "refused", "placed"} => method[d] = "none"
                      /\ phase'[d] = "succeeded" => method[d] = "done"
                      /\ phase'[d] \in {"sending", "waiting"} /\ d \notin slots /\ ~endReason'[Caller[d]]
                            => answer[d] # "none"
    BY <1>0 DEF StagesOK
  <2>1. \A n \in Messages : UnderWay(n)' = UnderWay(n)
    BY <1>0, <1>3 DEF UnderWay
  <2>2. ~endReason'[Caller[d]] => ~endReason[Caller[d]]
    BY <1>1, PairAssumption
  <2> QED
    BY <1>0, <1>3, <1>5, <2>1, <2>2, MessageFacts DEF Delivery, StagesOK, InHand
<1> QED
  BY <1>2, <1>3, <1>4, <1>6 DEF Delivery

-----------------------------------------------------------------------------
(* Writers *)

\* A sender gets the lock: the message before its own is complete.
LEMMA LockInv ==
  ASSUME Delivery, NEW m \in Messages, Lock(m)
  PROVE  Delivery'
<1> DEFINE p == Piece(m, 1)
<1> USE DEF Lock
<1>0. /\ p \in PieceSet /\ p.msg = m /\ p.part = 1 /\ Writer(m) \in Ends
      /\ m \in queued /\ queued' = queued \ {m} /\ writing' = writing \cup {p}
      /\ \A q \in writing : Writer(q.msg) # Writer(m)
      /\ UNCHANGED <<phase, answer, slots, method, stream, got, loop, ending, ends, troubles>>
  BY PieceFacts, MessageFacts
<1>1. TypeOK'
  <2>1. queued' \subseteq Messages /\ writing' \subseteq [msg : Messages, part : 1 .. Pieces]
    BY <1>0 DEF Delivery, TypeOK, PieceSet
  <2>2. TypeOK
    BY DEF Delivery
  <2> HIDE DEF Lock
  <2> QED
    BY <1>0, <2>1, <2>2 DEF TypeOK
<1>2. OneWriter'
  BY <1>0 DEF Delivery, OneWriter
<1>3. WholeMessages' /\ OwnStream'
  BY <1>0 DEF Delivery, WholeMessages, OwnStream
<1>4. WritersGoOn'
  <2>1. \A s \in Ends : Due(s)' = Due(s)
    BY <1>0 DEF Due
  <2>2. socket[Writer(m)] = "open" => Due(Writer(m)) = 1
    <3> DEFINE s == Writer(m)
               n == Len(stream[s])
    <3> SUFFICES ASSUME socket[s] = "open" PROVE Due(s) = 1
      OBVIOUS
    <3>1. n = 0 => got[Peer(s)] = 0
      <4>1. got[Peer(s)] \in 0 .. Pieces - 1
        BY <1>0, EndFacts DEF Delivery, TypeOK
      <4>2. n = 0 => ~ (got[Peer(s)] > 0)
        BY <1>0 DEF Delivery, WritersGoOn
      <4> QED
        BY <4>1, <4>2, PieceFacts
    <3>2. n > 0 => Writer(stream[s][n].msg) = s
      BY <1>0, StreamType DEF Delivery, OwnStream
    <3>3. n > 0 => stream[s][n].msg \in Messages /\ stream[s][n].part \in 1 .. Pieces
      BY <1>0, StreamType DEF Delivery
    <3>4. n > 0 => ~(stream[s][n].part < Pieces)
      <4> SUFFICES ASSUME n > 0, stream[s][n].part < Pieces PROVE FALSE
        OBVIOUS
      <4>1. Piece(stream[s][n].msg, stream[s][n].part + 1) \in writing
        BY <1>0 DEF Delivery, WritersGoOn
      <4>2. Piece(stream[s][n].msg, stream[s][n].part + 1).msg = stream[s][n].msg
        BY DEF Piece
      <4> QED
        BY <1>0, <3>2, <4>1, <4>2
    <3>5. n \in Nat
      BY <1>0, StreamType DEF Delivery
    <3> QED
      BY <3>1, <3>4, <3>5 DEF Due
  <2> QED
    BY <1>0, <2>1, <2>2 DEF Delivery, WritersGoOn
<1>5. SentOnce'
  <2>1. m.type = "call" => ~InStream(m)
    BY <1>0, MessageFacts DEF Delivery, SentOnce
  <2>2. \A n \in Messages : n # m => (n \in queued' <=> n \in queued) /\ BeingWritten(n)' = BeingWritten(n)
    BY <1>0 DEF BeingWritten
  <2>3. \A n \in Messages : InStream(n)' = InStream(n)
    BY <1>0 DEF InStream
  <2> SUFFICES ASSUME NEW c \in Calls
               PROVE  LET n == Message("call", c)
                          S == stream[Caller[c]] IN
                      /\ n \in queued' => ~BeingWritten(n)' /\ ~InStream(n)'
                      /\ \A q \in writing' : q.msg = n =>
                            \A i \in 1 .. Len(S) : S[i].msg = n => S[i].part < q.part
                      /\ \A i, j \in 1 .. Len(S) : i < j /\ S[i].msg = n /\ S[j].msg = n
                            => S[i].part < S[j].part
    BY <1>0 DEF SentOnce
  <2> DEFINE n == Message("call", c)
  <2>4. n \in Messages /\ n.type = "call" /\ n.call = c /\ Writer(n) = Caller[c]
    BY MessageFacts
  <2>5. n \in queued' => ~BeingWritten(n)' /\ ~InStream(n)'
    BY <1>0, <2>2, <2>3, <2>4 DEF Delivery, SentOnce
  <2>6. ASSUME NEW q \in writing', q.msg = n, NEW i \in 1 .. Len(stream[Caller[c]]),
               stream[Caller[c]][i].msg = n
        PROVE  stream[Caller[c]][i].part < q.part
    <3>1. InStream(n)
      BY <2>4, <2>6 DEF InStream
    <3>2. n # m
      BY <2>1, <2>4, <3>1
    <3>3. q \in writing
      BY <1>0, <2>6, <3>2
    <3> QED
      BY <2>6, <3>3 DEF Delivery, SentOnce
  <2> QED
    BY <2>5, <2>6 DEF Delivery, SentOnce
<1>6. StagesOK'
  <2>1. \A n \in Messages :
          /\ UnderWay(n)' => UnderWay(n)
          /\ n \in queued' \/ BeingWritten(n)' => n \in queued \/ BeingWritten(n)
    BY <1>0 DEF UnderWay, BeingWritten, InStream
  <2> QED
    BY <1>0, <2>1, MessageFacts DEF Delivery, StagesOK
<1> QED
  BY <1>1, <1>2, <1>3, <1>4, <1>5, <1>6 DEF Delivery

LEMMA WriteFailsInv ==
  ASSUME Delivery, NEW p \in PieceSet, WriteFails(p)
  PROVE  Delivery'
<1> DEFINE s == Writer(p.msg)
<1> USE DEF WriteFails, CallEnd
<1>0. /\ p \in writing /\ writing' = writing \ {p}
      /\ p.msg \in Messages /\ s \in Ends
      /\ UNCHANGED <<phase, answer, slots, method, queued, stream, got, endReason>>
  BY PieceFacts, MessageFacts
<1>1. TypeOK'
  BY <1>0, SenderFacts DEF Delivery, TypeOK
<1>2. \A t \in Ends : socket'[t] = "open" => socket[t] = "open" /\ t # s
  BY <1>0 DEF Delivery, TypeOK
<1>3. OneWriter' /\ WholeMessages' /\ OwnStream'
  BY <1>0 DEF Delivery, OneWriter, WholeMessages, OwnStream
<1>4. WritersGoOn'
  <2>1. \A t \in Ends : Due(t)' = Due(t)
    BY <1>0 DEF Due
  <2> SUFFICES ASSUME NEW t \in Ends, socket'[t] = "open"
               PROVE  LET n == Len(stream[t]) IN
                      /\ \A q \in writing' : Writer(q.msg) = t => q.part = Due(t)
                      /\ n = 0 /\ got[Peer(t)] > 0 => \E q \in writing' : Writer(q.msg) = t
                      /\ n > 0 /\ stream[t][n].part < Pieces
                            => Piece(stream[t][n].msg, stream[t][n].part + 1) \in writing'
    BY <1>0, <2>1 DEF WritersGoOn
  <2> DEFINE n == Len(stream[t])
  <2>2. socket[t] = "open" /\ t # s
    BY <1>2
  <2>3. \A q \in writing : Writer(q.msg) = t => q \in writing'
    BY <1>0, <2>2
  <2>4. ASSUME n > 0, stream[t][n].part < Pieces
        PROVE  Piece(stream[t][n].msg, stream[t][n].part + 1) \in writing'
    <3>1. Writer(stream[t][n].msg) = t
      BY <2>4, StreamType DEF Delivery, OwnStream
    <3>2. Piece(stream[t][n].msg, stream[t][n].part + 1) \in writing
      BY <2>2, <2>4 DEF Delivery, WritersGoOn
    <3> QED
      BY <2>3, <3>1, <3>2 DEF Piece
  <2> QED
    BY <1>0, <2>2, <2>3, <2>4 DEF Delivery, WritersGoOn
<1>5. SentOnce'
  BY <1>0 DEF Delivery, SentOnce, BeingWritten, InStream
<1>6. StagesOK'
  <2>1. \A n \in Messages :
          /\ UnderWay(n)' => UnderWay(n)
          /\ n \in queued' \/ BeingWritten(n)' => n \in queued \/ BeingWritten(n)
    BY <1>0 DEF UnderWay, BeingWritten, InStream
  <2> QED
    BY <1>0, <2>1, MessageFacts DEF Delivery, StagesOK
<1> QED
  BY <1>1, <1>3, <1>4, <1>5, <1>6 DEF Delivery

\* A piece is written.
LEMMA WritePieceInv ==
  ASSUME Delivery, NEW p \in PieceSet, WritePiece(p)
  PROVE  Delivery'
<1> DEFINE m == p.msg
           s == Writer(m)
           n == Len(stream[s])
           next == Piece(m, p.part + 1)
<1>0. /\ p \in writing /\ socket[s] = "open"
      /\ stream' = [stream EXCEPT ![s] = Append(@, p)]
      /\ UNCHANGED <<answer, slots, method, queued, got, ends, troubles>>
      /\ m \in Messages /\ s \in Ends /\ p.part \in 1 .. Pieces
      /\ TypeOK
  BY PieceFacts, MessageFacts DEF WritePiece, Delivery
<1>1. /\ stream' \in [Ends -> Seq(PieceSet)]
      /\ Len(stream'[s]) = n + 1 /\ n \in Nat
      /\ stream'[s][n + 1] = p
      /\ \A i \in 1 .. n : stream'[s][i] = stream[s][i]
      /\ \A t \in Ends : t # s => stream'[t] = stream[t]
  BY <1>0, Written, StreamType
<1>2. \/ /\ p.part < Pieces /\ next \in PieceSet /\ next.msg = m /\ next.part = p.part + 1
         /\ writing' = (writing \ {p}) \cup {next}
         /\ UNCHANGED <<phase, loop, ending>>
      \/ /\ p.part = Pieces /\ writing' = writing \ {p} /\ Sent(m)
  BY <1>0, PieceFacts DEF WritePiece
<1>3. \A q \in writing : Writer(q.msg) = s => q = p
  BY <1>0 DEF Delivery, OneWriter
<1>4. \A q \in writing' : \/ q \in writing /\ q # p /\ Writer(q.msg) # s
                          \/ p.part < Pieces /\ q = next
  BY <1>2, <1>3
<1>5. TypeOK'
  <2>1. writing' \subseteq PieceSet
    BY <1>0, <1>2, StreamType
  <2>2. /\ phase' \in [Calls -> Phases]
        /\ loop' \in [Ends -> Loops]
        /\ ending' \in [Goroutines -> {"not", "test", "store", "flag", "close"}]
    <3>1. CASE UNCHANGED <<phase, loop, ending>>
      BY <1>0, <3>1 DEF TypeOK, Phases, Loops
    <3>2. CASE Sent(m)
      <4>1. m.call \in Calls
        BY <1>0, MessageFacts
      <4>2. /\ phase \in [Calls -> Phases] /\ "waiting" \in Phases
            /\ loop \in [Ends -> Loops] /\ "ending" \in Loops
            /\ Sender(m) \in Goroutines
            /\ ending \in [Goroutines -> {"not", "test", "store", "flag", "close"}]
        BY <1>0, SenderFacts DEF TypeOK, Phases, Loops
      <4>3. phase' \in [Calls -> Phases]
        BY <3>2, <4>1, <4>2 DEF Sent
      <4>4. loop' \in [Ends -> Loops]
        BY <1>0, <3>2, <4>2 DEF Sent
      <4>5. ending' \in [Goroutines -> {"not", "test", "store", "flag", "close"}]
        BY <3>2, <4>2 DEF Sent, CallEnd
      <4> QED
        BY <4>3, <4>4, <4>5
    <3> QED
      BY <1>2, <3>1, <3>2
  <2> QED
    BY <1>0, <1>1, <2>1, <2>2 DEF TypeOK, PieceSet, Phases, Loops
<1>6. OneWriter'
  BY <1>2, <1>4 DEF Delivery, OneWriter
<1>7. p.part = Due(s)
  BY <1>0 DEF Delivery, WritersGoOn
<1>8. n > 0 => /\ stream[s][n].part < Pieces => p = Piece(stream[s][n].msg, stream[s][n].part + 1)
               /\ ~ (stream[s][n].part < Pieces) => p.part = 1
  <2> SUFFICES ASSUME n > 0
               PROVE  /\ stream[s][n].part < Pieces
                            => p = Piece(stream[s][n].msg, stream[s][n].part + 1)
                      /\ ~ (stream[s][n].part < Pieces) => p.part = 1
    OBVIOUS
  <2>1. Writer(stream[s][n].msg) = s
    BY <1>0, <1>1 DEF Delivery, OwnStream
  <2>2. stream[s][n].part < Pieces => Piece(stream[s][n].msg, stream[s][n].part + 1) \in writing
    BY <1>0 DEF Delivery, WritersGoOn
  <2>3. Piece(stream[s][n].msg, stream[s][n].part + 1).msg = stream[s][n].msg
    BY DEF Piece
  <2> QED
    BY <1>3, <1>7, <2>1, <2>2, <2>3 DEF Due
<1>9. WholeMessages'
  <2> SUFFICES ASSUME NEW t \in Ends
               PROVE  /\ stream'[t] # <<>> => Head(stream'[t]).part = got[Peer(t)] + 1
                      /\ \A i \in 1 .. Len(stream'[t]) - 1 :
                          IF stream'[t][i].part < Pieces
                          THEN stream'[t][i + 1] = Piece(stream'[t][i].msg, stream'[t][i].part + 1)
                          ELSE stream'[t][i + 1].part = 1
    BY <1>0 DEF WholeMessages
  <2>1. CASE t # s
    BY <1>1, <2>1 DEF Delivery, WholeMessages
  <2>2. CASE t = s
    <3>1. Head(stream'[s]) = stream'[s][1]
      BY <1>0, <1>1, WholeByPlace
    <3>2. n = 0 => stream'[s][1].part = got[Peer(s)] + 1
      BY <1>1, <1>7 DEF Due
    <3>3. n > 0 => stream'[s][1] = stream[s][1] /\ Head(stream[s]) = stream[s][1] /\ stream[s] # <<>>
      BY <1>0, <1>1, StreamType, WholeByPlace
    <3>4. n > 0 => stream'[s][1].part = got[Peer(s)] + 1
      BY <1>0, <3>3 DEF Delivery, WholeMessages
    <3>5. ASSUME NEW i \in 1 .. n
          PROVE  IF stream'[s][i].part < Pieces
                 THEN stream'[s][i + 1] = Piece(stream'[s][i].msg, stream'[s][i].part + 1)
                 ELSE stream'[s][i + 1].part = 1
      <4>1. CASE i = n
        BY <1>1, <1>8, <4>1
      <4>2. CASE i < n
        <5>1. i \in 1 .. n - 1 /\ stream'[s][i] = stream[s][i] /\ stream'[s][i + 1] = stream[s][i + 1]
          BY <1>1, <4>2
        <5> QED
          BY <1>0, <5>1 DEF Delivery, WholeMessages
      <4> QED
        BY <1>1, <4>1, <4>2
    <3> QED
      BY <1>1, <2>2, <3>1, <3>2, <3>4, <3>5
  <2> QED
    BY <2>1, <2>2
<1>10. OwnStream'
  <2> SUFFICES ASSUME NEW t \in Ends, NEW i \in 1 .. Len(stream'[t])
               PROVE  Writer(stream'[t][i].msg) = t
    BY DEF OwnStream
  <2>1. CASE t = s /\ i = n + 1
    BY <1>1, <2>1
  <2>2. CASE t = s /\ i # n + 1
    <3>1. i \in 1 .. n
      BY <1>1, <2>2
    <3> QED
      BY <1>0, <1>1, <2>2, <3>1 DEF Delivery, OwnStream
  <2>3. CASE t # s
    BY <1>1, <2>3 DEF Delivery, OwnStream
  <2> QED
    BY <2>1, <2>2, <2>3
<1>11. WritersGoOn'
  <2> SUFFICES ASSUME NEW t \in Ends, socket[t] = "open"
               PROVE  LET k == Len(stream'[t]) IN
                      /\ \A q \in writing' : Writer(q.msg) = t => q.part = Due(t)'
                      /\ k = 0 /\ got[Peer(t)] > 0 => \E q \in writing' : Writer(q.msg) = t
                      /\ k > 0 /\ stream'[t][k].part < Pieces
                            => Piece(stream'[t][k].msg, stream'[t][k].part + 1) \in writing'
    BY <1>0 DEF WritersGoOn
  <2>1. CASE t # s
    <3>1. stream'[t] = stream[t] /\ Due(t)' = Due(t)
      BY <1>0, <1>1, <2>1 DEF Due
    <3>2. \A q \in writing' : Writer(q.msg) = t => q \in writing
      BY <1>2, <1>4, <2>1
    <3>3. \A q \in writing : Writer(q.msg) = t => q \in writing'
      BY <1>2, <2>1
    <3>4. ASSUME Len(stream[t]) > 0, stream[t][Len(stream[t])].part < Pieces
          PROVE  Piece(stream[t][Len(stream[t])].msg, stream[t][Len(stream[t])].part + 1) \in writing'
      <4>1. Writer(stream[t][Len(stream[t])].msg) = t
        BY <1>0, <3>4, StreamType DEF Delivery, OwnStream
      <4>2. Piece(stream[t][Len(stream[t])].msg, stream[t][Len(stream[t])].part + 1) \in writing
        BY <3>4 DEF Delivery, WritersGoOn
      <4> QED
        BY <3>3, <4>1, <4>2 DEF Piece
    <3> QED
      BY <3>1, <3>2, <3>3, <3>4 DEF Delivery, WritersGoOn
  <2>2. CASE t = s
    <3>1. Due(s)' = IF p.part < Pieces THEN p.part + 1 ELSE 1
      BY <1>1 DEF Due
    <3>2. \A q \in writing' : Writer(q.msg) = s => q.part = Due(s)'
      BY <1>0, <1>2, <1>4, <3>1
    <3>3. p.part < Pieces => Piece(p.msg, p.part + 1) \in writing'
      BY <1>2, <1>0
    <3> QED
      BY <1>1, <2>2, <3>2, <3>3
  <2> QED
    BY <2>1, <2>2
<1>12. /\ \A k \in Messages : BeingWritten(k)' => BeingWritten(k)
       /\ \A k \in Messages : k # m => (BeingWritten(k)' <=> BeingWritten(k))
       /\ BeingWritten(m)
  BY <1>0, <1>2 DEF BeingWritten
<1>13. \A k \in Messages : k # m => (InStream(k)' => InStream(k))
  <2> SUFFICES ASSUME NEW k \in Messages, k # m, NEW i \in 1 .. Len(stream'[Writer(k)]),
                      stream'[Writer(k)][i].msg = k
               PROVE  InStream(k)
    BY DEF InStream
  <2>1. i \in 1 .. Len(stream[Writer(k)]) /\ stream'[Writer(k)][i] = stream[Writer(k)][i]
    BY <1>1, MessageFacts
  <2> QED
    BY <2>1 DEF InStream
<1>14. SentOnce'
  <2> SUFFICES ASSUME NEW c \in Calls
               PROVE  LET k == Message("call", c)
                          S == stream'[Caller[c]] IN
                      /\ k \in queued => ~BeingWritten(k)' /\ ~InStream(k)'
                      /\ \A q \in writing' : q.msg = k =>
                            \A i \in 1 .. Len(S) : S[i].msg = k => S[i].part < q.part
                      /\ \A i, j \in 1 .. Len(S) : i < j /\ S[i].msg = k /\ S[j].msg = k
                            => S[i].part < S[j].part
    BY <1>0 DEF SentOnce
  <2> DEFINE k == Message("call", c)
             S == stream[Caller[c]]
             T == stream'[Caller[c]]
  <2>0. k \in Messages /\ Writer(k) = Caller[c]
    BY MessageFacts
  <2>1. /\ k \in queued => ~BeingWritten(k) /\ ~InStream(k)
        /\ \A q \in writing : q.msg = k =>
              \A i \in 1 .. Len(S) : S[i].msg = k => S[i].part < q.part
        /\ \A i, j \in 1 .. Len(S) : i < j /\ S[i].msg = k /\ S[j].msg = k
              => S[i].part < S[j].part
    BY DEF Delivery, SentOnce
  <2>2. k \in queued => ~BeingWritten(k)' /\ ~InStream(k)'
    BY <1>12, <1>13, <2>0, <2>1
  <2>3. CASE k # m
    <3>1. \A i \in 1 .. Len(T) : T[i].msg = k => i \in 1 .. Len(S) /\ T[i] = S[i]
      BY <1>0, <1>1, <2>0, <2>3, MessageFacts
    <3>2. \A q \in writing' : q.msg = k => q \in writing
      BY <1>2, <2>3
    <3> QED
      BY <2>1, <2>2, <3>1, <3>2
  <2>4. CASE k = m
    <3>1. Caller[c] = s
      BY <2>0, <2>4
    <3>2. \A i \in 1 .. n : stream[s][i].msg = m => stream[s][i].part < p.part
      BY <1>0, <2>1, <2>4, <3>1
    <3>3. \A i \in 1 .. n : stream[s][i].part \in Nat
      BY <1>0, StreamType
    <3>4. \A q \in writing' : q.msg = m => q = next /\ q.part = p.part + 1
      BY <1>0, <1>2, <1>4
    <3>5. \A i \in 1 .. n + 1 : stream'[s][i].msg = m => stream'[s][i].part < p.part + 1
      <4> SUFFICES ASSUME NEW i \in 1 .. n + 1, stream'[s][i].msg = m
                   PROVE  stream'[s][i].part < p.part + 1
        OBVIOUS
      <4>1. CASE i = n + 1
        BY <1>0, <1>1, <4>1
      <4>2. CASE i # n + 1
        <5>1. i \in 1 .. n
          BY <1>1, <4>2
        <5>2. stream[s][i].part < p.part /\ stream[s][i].part \in Nat
          BY <1>1, <3>2, <3>3, <5>1
        <5> QED
          BY <1>0, <1>1, <5>1, <5>2
      <4> QED
        BY <4>1, <4>2
    <3>6. ASSUME NEW i \in 1 .. n + 1, NEW j \in 1 .. n + 1, i < j,
                 stream'[s][i].msg = m, stream'[s][j].msg = m
          PROVE  stream'[s][i].part < stream'[s][j].part
      <4>1. i \in 1 .. n /\ stream'[s][i] = stream[s][i]
        BY <1>1, <3>6
      <4>2. CASE j = n + 1
        BY <1>1, <3>2, <3>6, <4>1, <4>2
      <4>3. CASE j # n + 1
        <5>1. j \in 1 .. n /\ stream'[s][j] = stream[s][j]
          BY <1>1, <4>3
        <5> QED
          BY <2>1, <2>4, <3>1, <3>6, <4>1, <5>1
      <4> QED
        BY <4>2, <4>3
    <3> QED
      BY <1>1, <2>2, <2>4, <3>1, <3>4, <3>5, <3>6
  <2> QED
    BY <2>3, <2>4
<1>15. \A k \in Messages :
          /\ UnderWay(k)' => UnderWay(k)
          /\ k \in queued' \/ BeingWritten(k)' => k \in queued \/ BeingWritten(k)
  BY <1>0, <1>12, <1>13 DEF UnderWay
<1>17. StagesOK'
  <2>1. CASE phase' = phase
    BY <1>0, <1>15, <2>1, MessageFacts DEF Delivery, StagesOK
  <2>2. CASE phase' # phase
    <3> DEFINE c == m.call
    <3>1. m = Message("call", c) /\ c \in Calls /\ p.part = Pieces
      BY <1>0, <1>2, <2>2, MessageFacts DEF Sent
    <3>2. phase'[c] = "waiting" /\ \A d \in Calls : d # c => phase'[d] = phase[d]
      BY <1>0, <1>2, <3>1, MessageFacts DEF Sent, TypeOK
    <3>3. phase[c] = "sending" /\ m \notin queued /\ method[c] = "none"
      BY <1>12, <3>1 DEF Delivery, SentOnce, StagesOK, UnderWay
    <3>4. ~BeingWritten(m)'
      BY <1>0, <1>4, <3>1 DEF BeingWritten
    <3>5. StagesOK'
      <4> SUFFICES ASSUME NEW d \in Calls
                   PROVE  /\ UnderWay(Message("call", d))' =>
                                method[d] = "none" /\ phase'[d] \notin {"idle", "refused", "placed"}
                          /\ Message("call", d) \in queued \/ BeingWritten(Message("call", d))'
                                => phase'[d] = "sending"
                          /\ UnderWay(Message("result", d))' => method[d] = "done"
                          /\ UnderWay(Message("refusal", d))' => d \notin Served
                          /\ answer[d] = "result" => method[d] = "done"
                          /\ answer[d] = "refusal" => d \notin Served
                          /\ phase'[d] \in {"idle", "refused", "placed"} => method[d] = "none"
                          /\ phase'[d] = "succeeded" => method[d] = "done"
                          /\ phase'[d] \in {"sending", "waiting"} /\ d \notin slots /\ ~endReason[Caller[d]]
                                => answer[d] # "none"
        BY <1>0 DEF StagesOK
      <4>1. CASE d = c
        BY <1>15, <3>1, <3>2, <3>3, <3>4, <4>1, MessageFacts DEF Delivery, StagesOK
      <4>2. CASE d # c
        BY <1>15, <3>2, <4>2, MessageFacts DEF Delivery, StagesOK
      <4> QED
        BY <4>1, <4>2
    <3> QED
      BY <3>5
  <2> QED
    BY <2>1, <2>2
<1> QED
  BY <1>5, <1>6, <1>9, <1>10, <1>11, <1>14, <1>17 DEF Delivery

-----------------------------------------------------------------------------
(* The reader *)

LEMMA ReadInv ==
  ASSUME Delivery, NEW s \in Ends, Read(s)
  PROVE  Delivery'
<1>a. /\ Peer(s) \in Ends /\ stream[Peer(s)] # <<>>
      /\ Head(stream[Peer(s)]) \in PieceSet
      /\ Len(stream[Peer(s)]) \in Nat
  <2>1. Peer(s) \in Ends /\ stream[Peer(s)] # <<>>
    BY EndFacts DEF Read
  <2>2. stream[Peer(s)] \in Seq(PieceSet) /\ Len(stream[Peer(s)]) \in Nat
    BY <2>1, StreamType DEF Delivery
  <2>3. Len(stream[Peer(s)]) > 0 /\ Head(stream[Peer(s)]) = stream[Peer(s)][1]
    BY <2>1, <2>2, WholeByPlace
  <2> QED
    BY <2>1, <2>2, <2>3, StreamType DEF Delivery
<1>b. PICK w \in Ends : w = Peer(s)
  BY <1>a
<1>c. PICK p \in PieceSet : p = Head(stream[w])
  BY <1>a, <1>b
<1>d. PICK n \in Nat : n = Len(stream[w])
  BY <1>a, <1>b
<1>e. PICK m \in Messages : m = p.msg
  BY PieceFacts
<1>f. PICK c \in Calls : c = m.call
  BY MessageFacts
<1>0. /\ loop[s] = "reading" /\ stream[w] # <<>>
      /\ stream' = [stream EXCEPT ![w] = Tail(@)]
      /\ UNCHANGED <<phase, writing, ends, troubles>>
      /\ w \in Ends /\ Peer(w) = s /\ Peer(s) = w /\ w # s
      /\ \A t \in Ends : t = s \/ t = w
      /\ TypeOK
  BY <1>b, EndFacts DEF Read, Delivery
<1>1. /\ stream' \in [Ends -> Seq(PieceSet)]
      /\ n \in Nat /\ n > 0 /\ Len(stream[w]) = n /\ Len(stream'[w]) = n - 1
      /\ p = stream[w][1]
      /\ \A i \in 1 .. n - 1 : stream'[w][i] = stream[w][i + 1]
      /\ stream'[s] = stream[s]
  BY <1>0, <1>c, <1>d, Taken, StreamType
<1>2. /\ p \in PieceSet /\ m \in Messages /\ c \in Calls /\ p.part \in 1 .. Pieces
      /\ Writer(m) = w /\ p.msg = m /\ m.call = c
  <2>1. Writer(stream[w][1].msg) = w
    BY <1>0, <1>1 DEF Delivery, OwnStream
  <2> QED
    BY <1>1, <1>e, <1>f, <2>1, PieceFacts
<1>3. p.part = got[s] + 1 /\ got[s] \in Nat
  <2>1. p.part = got[s] + 1
    BY <1>0, <1>c DEF Delivery, WholeMessages
  <2>2. got[s] \in 0 .. Pieces - 1
    BY <1>0 DEF TypeOK
  <2> QED
    BY <2>1, <2>2, PieceFacts
<1>4. \/ /\ p.part < Pieces /\ got' = [got EXCEPT ![s] = p.part]
         /\ UNCHANGED <<answer, slots, method, queued, loop, ending>>
      \/ /\ p.part = Pieces /\ got' = [got EXCEPT ![s] = 0]
         /\ IF m.type = "call" THEN GotCall(s, c) ELSE GotReturn(s, m)
  BY <1>b, <1>c, <1>e, <1>f, <1>3 DEF Read
<1>5. /\ got'[s] = (IF p.part < Pieces THEN p.part ELSE 0)
      /\ got'[w] = got[w]
      /\ got' \in [Ends -> 0 .. Pieces - 1]
  <2>1. got \in [Ends -> 0 .. Pieces - 1]
    BY <1>0 DEF TypeOK
  <2>2. CASE p.part < Pieces
    <3>1. got' = [got EXCEPT ![s] = p.part] /\ p.part \in 0 .. Pieces - 1
      BY <1>2, <1>4, <2>2, PieceFacts
    <3> QED
      BY <1>0, <2>1, <2>2, <3>1
  <2>3. CASE ~ (p.part < Pieces)
    <3>1. got' = [got EXCEPT ![s] = 0] /\ 0 \in 0 .. Pieces - 1
      BY <1>4, <2>3, PieceFacts
    <3> QED
      BY <1>0, <2>1, <2>3, <3>1
  <2> QED
    BY <2>2, <2>3
<1>6. \/ queued' = queued
      \/ c \notin Served /\ queued' = queued \cup {Message("refusal", c)}
  BY <1>4 DEF GotCall, GotReturn
<1>7. TypeOK'
  <2>1. queued' \subseteq Messages
    BY <1>0, <1>2, <1>6, MessageFacts DEF TypeOK
  <2>2. /\ answer' \in [Calls -> {"none", "result", "refusal"}]
        /\ slots' \subseteq Calls
        /\ method' \in [Calls -> {"none", "running", "done"}]
        /\ loop' \in [Ends -> Loops]
        /\ ending' \in [Goroutines -> {"not", "test", "store", "flag", "close"}]
    <3>0. /\ answer \in [Calls -> {"none", "result", "refusal"}]
          /\ slots \subseteq Calls
          /\ method \in [Calls -> {"none", "running", "done"}]
          /\ loop \in [Ends -> Loops]
          /\ ending \in [Goroutines -> {"not", "test", "store", "flag", "close"}]
          /\ The("reader", s) \in Goroutines
      BY <1>0, GoroutineFacts DEF TypeOK, Loops
    <3>1. CASE UNCHANGED <<answer, slots, method, loop, ending>>
      BY <3>0, <3>1
    <3>2. CASE GotCall(s, c)
      BY <3>0, <3>2 DEF GotCall, Loops
    <3>3. CASE GotReturn(s, m) /\ m.type # "call"
      <4>1. m.type \in {"result", "refusal"}
        BY <3>3, MessageFacts
      <4>2. CASE c \in slots
        <5>1. answer' = [answer EXCEPT ![c] = m.type] /\ slots' = slots \ {c} /\ UNCHANGED <<method, loop, ending>>
          BY <1>2, <3>3, <4>2 DEF GotReturn
        <5> QED
          BY <3>0, <4>1, <5>1
      <4>3. CASE c \notin slots
        BY <1>2, <3>0, <3>3, <4>3 DEF GotReturn, CallEnd, Loops
      <4> QED
        BY <4>2, <4>3
    <3> QED
      BY <1>4, <3>1, <3>2, <3>3
  <2> QED
    BY <1>0, <1>1, <1>5, <2>1, <2>2 DEF TypeOK, PieceSet, Phases, Loops
<1>8. OneWriter'
  BY <1>0 DEF Delivery, OneWriter
<1>9. WholeMessages'
  <2> SUFFICES ASSUME NEW t \in Ends
               PROVE  /\ stream'[t] # <<>> => Head(stream'[t]).part = got'[Peer(t)] + 1
                      /\ \A i \in 1 .. Len(stream'[t]) - 1 :
                          IF stream'[t][i].part < Pieces
                          THEN stream'[t][i + 1] = Piece(stream'[t][i].msg, stream'[t][i].part + 1)
                          ELSE stream'[t][i + 1].part = 1
    BY DEF WholeMessages
  <2>1. CASE t = s
    <3>1. stream'[t] = stream[t] /\ got'[Peer(t)] = got[Peer(t)]
      BY <1>0, <1>1, <1>5, <2>1
    <3> QED
      BY <3>1 DEF Delivery, WholeMessages
  <2>2. CASE t = w
    <3>1. \A i \in 1 .. n - 1 :
            IF stream[w][i].part < Pieces
            THEN stream[w][i + 1] = Piece(stream[w][i].msg, stream[w][i].part + 1)
            ELSE stream[w][i + 1].part = 1
      BY <1>0, <1>1 DEF Delivery, WholeMessages
    <3>2. stream'[w] # <<>> => n - 1 > 0 /\ Head(stream'[w]) = stream[w][2]
      <4>1. stream'[w] \in Seq(PieceSet)
        BY <1>0, <1>1
      <4> QED
        BY <1>1, <4>1, WholeByPlace
    <3>3. n - 1 > 0 => stream[w][2].part = got'[s] + 1
      <4> SUFFICES ASSUME n - 1 > 0 PROVE stream[w][2].part = got'[s] + 1
        OBVIOUS
      <4>1. 1 \in 1 .. n - 1 /\ 1 + 1 = 2
        BY <1>1
      <4>2. IF p.part < Pieces THEN stream[w][2] = Piece(m, p.part + 1)
                               ELSE stream[w][2].part = 1
        BY <1>1, <1>2, <3>1, <4>1
      <4> QED
        BY <1>5, <4>2 DEF Piece
    <3>4. ASSUME NEW i \in 1 .. n - 1 - 1
          PROVE  IF stream'[w][i].part < Pieces
                 THEN stream'[w][i + 1] = Piece(stream'[w][i].msg, stream'[w][i].part + 1)
                 ELSE stream'[w][i + 1].part = 1
      <4>1. i \in 1 .. n - 1 /\ i + 1 \in 1 .. n - 1
        BY <1>1
      <4> QED
        BY <1>1, <3>1, <4>1
    <3> QED
      BY <1>0, <1>1, <2>2, <3>2, <3>3, <3>4
  <2> QED
    BY <1>0, <2>1, <2>2
<1>10. \A t \in Ends : \A i \in 1 .. Len(stream'[t]) :
          \E j \in 1 .. Len(stream[t]) : stream'[t][i] = stream[t][j]
  <2> SUFFICES ASSUME NEW t \in Ends, NEW i \in 1 .. Len(stream'[t])
               PROVE  \E j \in 1 .. Len(stream[t]) : stream'[t][i] = stream[t][j]
    OBVIOUS
  <2>1. CASE t = s
    BY <1>1, <2>1
  <2>2. CASE t = w
    <3>1. i \in 1 .. n - 1 /\ i + 1 \in 1 .. n
      BY <1>1, <2>2
    <3> QED
      BY <1>1, <2>2, <3>1
  <2> QED
    BY <1>0, <2>1, <2>2
<1>11. OwnStream'
  BY <1>10 DEF Delivery, OwnStream
<1>12. n - 1 > 0 => stream'[w][n - 1] = stream[w][n]
  <2>1. n - 1 > 0 => n - 1 \in 1 .. n - 1 /\ n - 1 + 1 = n
    BY <1>1
  <2> QED
    BY <1>1, <2>1
<1>13. Due(w)' = Due(w) /\ Due(s)' = Due(s)
  <2>1. Due(s)' = Due(s)
    <3>1. stream'[s] = stream[s] /\ got'[Peer(s)] = got[Peer(s)]
      BY <1>0, <1>1, <1>5
    <3> QED
      BY <3>1 DEF Due
  <2>2. CASE n = 1
    <3>1. Due(w)' = got'[s] + 1
      BY <1>0, <1>1, <2>2 DEF Due
    <3>2. Due(w) = IF p.part < Pieces THEN p.part + 1 ELSE 1
      BY <1>1, <2>2 DEF Due
    <3> QED
      BY <1>5, <2>1, <3>1, <3>2
  <2>3. CASE n # 1
    <3>1. n > 0 /\ n - 1 > 0 /\ n # 0 /\ n - 1 # 0
      BY <1>1, <2>3
    <3> QED
      BY <1>1, <1>12, <2>1, <3>1 DEF Due
  <2> QED
    BY <2>1, <2>2, <2>3
<1>14. WritersGoOn'
  <2> SUFFICES ASSUME NEW t \in Ends, socket[t] = "open"
               PROVE  LET k == Len(stream'[t]) IN
                      /\ \A q \in writing : Writer(q.msg) = t => q.part = Due(t)'
                      /\ k = 0 /\ got'[Peer(t)] > 0 => \E q \in writing : Writer(q.msg) = t
                      /\ k > 0 /\ stream'[t][k].part < Pieces
                            => Piece(stream'[t][k].msg, stream'[t][k].part + 1) \in writing
    BY <1>0 DEF WritersGoOn
  <2>1. CASE t = s
    <3>1. stream'[t] = stream[t] /\ got'[Peer(t)] = got[Peer(t)] /\ Due(t)' = Due(t)
      BY <1>0, <1>1, <1>5, <1>13, <2>1
    <3> QED
      BY <3>1 DEF Delivery, WritersGoOn
  <2>2. CASE t = w
    <3>1. \A q \in writing : Writer(q.msg) = w => q.part = Due(w)
      BY <2>2 DEF Delivery, WritersGoOn
    <3>2. n > 0 /\ stream[w][n].part < Pieces => Piece(stream[w][n].msg, stream[w][n].part + 1) \in writing
      BY <1>1, <2>2 DEF Delivery, WritersGoOn
    <3>3. n = 1 /\ got'[s] > 0 => \E q \in writing : Writer(q.msg) = w
      <4> SUFFICES ASSUME n = 1, got'[s] > 0 PROVE \E q \in writing : Writer(q.msg) = w
        OBVIOUS
      <4>1. p.part < Pieces
        BY <1>5
      <4>2. Piece(m, p.part + 1) \in writing /\ Piece(m, p.part + 1).msg = m
        BY <1>1, <1>2, <3>2, <4>1 DEF Piece
      <4> QED
        BY <1>2, <4>2
    <3> QED
      BY <1>0, <1>1, <1>12, <1>13, <2>2, <3>1, <3>2, <3>3
  <2> QED
    BY <1>0, <2>1, <2>2
<1>15. \A k \in Messages : BeingWritten(k)' = BeingWritten(k) /\ (InStream(k)' => InStream(k))
  BY <1>0, <1>10, MessageFacts DEF BeingWritten, InStream
<1>16. \A d \in Calls : Message("call", d) \in queued' => Message("call", d) \in queued
  BY <1>6 DEF Message
<1>17. SentOnce'
  <2> SUFFICES ASSUME NEW d \in Calls
               PROVE  LET k == Message("call", d)
                          S == stream'[Caller[d]] IN
                      /\ k \in queued' => ~BeingWritten(k)' /\ ~InStream(k)'
                      /\ \A q \in writing : q.msg = k =>
                            \A i \in 1 .. Len(S) : S[i].msg = k => S[i].part < q.part
                      /\ \A i, j \in 1 .. Len(S) : i < j /\ S[i].msg = k /\ S[j].msg = k
                            => S[i].part < S[j].part
    BY <1>0 DEF SentOnce
  <2> DEFINE k == Message("call", d)
             S == stream[Caller[d]]
             T == stream'[Caller[d]]
  <2>0. k \in Messages /\ Caller[d] \in Ends
    BY MessageFacts, PairAssumption
  <2>1. /\ k \in queued => ~BeingWritten(k) /\ ~InStream(k)
        /\ \A q \in writing : q.msg = k =>
              \A i \in 1 .. Len(S) : S[i].msg = k => S[i].part < q.part
        /\ \A i, j \in 1 .. Len(S) : i < j /\ S[i].msg = k /\ S[j].msg = k
              => S[i].part < S[j].part
    BY DEF Delivery, SentOnce
  <2>2. k \in queued' => ~BeingWritten(k)' /\ ~InStream(k)'
    BY <1>15, <1>16, <2>0, <2>1
  <2>3. \A q \in writing : q.msg = k =>
            \A i \in 1 .. Len(T) : T[i].msg = k => T[i].part < q.part
    BY <1>10, <2>0, <2>1
  <2>4. \A i, j \in 1 .. Len(T) : i < j /\ T[i].msg = k /\ T[j].msg = k => T[i].part < T[j].part
    <3>1. CASE Caller[d] = s
      BY <1>1, <2>1, <3>1
    <3>2. CASE Caller[d] = w
      <4> SUFFICES ASSUME NEW i \in 1 .. n - 1, NEW j \in 1 .. n - 1, i < j,
                          stream'[w][i].msg = k, stream'[w][j].msg = k
                   PROVE  stream'[w][i].part < stream'[w][j].part
        BY <1>1, <3>2
      <4>1. i + 1 \in 1 .. n /\ j + 1 \in 1 .. n /\ i + 1 < j + 1
        BY <1>1
      <4>2. stream'[w][i] = stream[w][i + 1] /\ stream'[w][j] = stream[w][j + 1]
        BY <1>1
      <4> QED
        BY <1>1, <2>1, <3>2, <4>1, <4>2
    <3> QED
      BY <1>0, <2>0, <3>1, <3>2
  <2> QED
    BY <2>2, <2>3, <2>4
<1>19. /\ \A k \in Messages : k.type # "refusal" => (UnderWay(k)' => UnderWay(k))
       /\ \A k \in Messages : k.type = "refusal" /\ UnderWay(k)' => UnderWay(k) \/ k.call \notin Served
       /\ InStream(m) /\ UnderWay(m)
  <2>1. InStream(m)
    BY <1>1, <1>2 DEF InStream
  <2>2. /\ \A k \in Messages : k.type # "refusal" => (k \in queued' => k \in queued)
        /\ \A k \in Messages : k \in queued' => k \in queued \/ k.call \notin Served
    BY <1>6 DEF Message
  <2> QED
    BY <1>15, <2>1, <2>2 DEF UnderWay
<1>20. CASE UNCHANGED <<answer, slots, method>>
  <2>1. StagesOK'
    <3> SUFFICES ASSUME NEW d \in Calls
                 PROVE  /\ UnderWay(Message("call", d))' =>
                              method[d] = "none" /\ phase[d] \notin {"idle", "refused", "placed"}
                        /\ Message("call", d) \in queued' \/ BeingWritten(Message("call", d))'
                              => phase[d] = "sending"
                        /\ UnderWay(Message("result", d))' => method[d] = "done"
                        /\ UnderWay(Message("refusal", d))' => d \notin Served
      BY <1>0, <1>20 DEF Delivery, StagesOK
    <3> QED
      BY <1>15, <1>16, <1>19, MessageFacts DEF Delivery, StagesOK
  <2> QED
    BY <1>7, <1>8, <1>9, <1>11, <1>14, <1>17, <2>1 DEF Delivery
<1>21. CASE p.part = Pieces /\ m.type = "call" /\ c \in Served
  <2>0. m = Message("call", c) /\ Caller[c] = w
    BY <1>2, <1>21, MessageFacts
  <2>1. /\ method' = [method EXCEPT ![c] = "running"]
        /\ UNCHANGED <<answer, slots, queued, loop>>
    <3>1. GotCall(s, c)
      BY <1>2, <1>4, <1>21, PieceFacts
    <3> QED
      BY <1>21, <3>1 DEF GotCall
  <2>2. method[c] = "none" /\ phase[c] \notin {"idle", "refused", "placed"}
        /\ ~UnderWay(Message("result", c)) /\ answer[c] # "result" /\ phase[c] # "succeeded"
    BY <1>2, <1>19, <2>0 DEF Delivery, StagesOK
  <2>3. ~UnderWay(m)'
    <3>1. m \notin queued
      BY <1>2, <1>19, <2>0 DEF Delivery, SentOnce
    <3>2. \A q \in writing : q.msg = m => p.part < q.part
      BY <1>1, <1>2, <2>0 DEF Delivery, SentOnce
    <3>3. ~BeingWritten(m)
      BY <1>0, <1>21, <3>2, StreamType, PieceFacts DEF BeingWritten
    <3>4. ASSUME NEW i \in 1 .. n - 1, stream'[w][i].msg = m PROVE FALSE
      <4>1. i + 1 \in 1 .. n /\ 1 \in 1 .. n /\ 1 < i + 1 /\ stream[w][i + 1].msg = m
        BY <1>1, <3>4
      <4>2. p.part < stream[w][i + 1].part
        BY <1>1, <1>2, <2>0, <4>1 DEF Delivery, SentOnce
      <4>3. stream[w][i + 1].part \in 1 .. Pieces
        BY <1>0, <1>1, <4>1, StreamType
      <4> QED
        BY <1>21, <4>2, <4>3, PieceFacts
    <3>5. ~InStream(m)'
      BY <1>1, <1>2, <3>4 DEF InStream
    <3> QED
      BY <1>2, <1>15, <2>1, <3>1, <3>3, <3>5 DEF UnderWay
  <2>4. method'[c] = "running" /\ \A d \in Calls : d # c => method'[d] = method[d]
    BY <1>0, <1>2, <2>1 DEF TypeOK
  <2>5. \A d \in Calls : d # c =>
          /\ UnderWay(Message("call", d))' => UnderWay(Message("call", d))
          /\ UnderWay(Message("result", d))' => UnderWay(Message("result", d))
          /\ UnderWay(Message("refusal", d))' => UnderWay(Message("refusal", d)) \/ d \notin Served
    BY <1>19, MessageFacts
  <2>6. StagesOK'
    <3> SUFFICES ASSUME NEW d \in Calls
                 PROVE  /\ UnderWay(Message("call", d))' =>
                              method'[d] = "none" /\ phase[d] \notin {"idle", "refused", "placed"}
                        /\ Message("call", d) \in queued \/ BeingWritten(Message("call", d))'
                              => phase[d] = "sending"
                        /\ UnderWay(Message("result", d))' => method'[d] = "done"
                        /\ UnderWay(Message("refusal", d))' => d \notin Served
                        /\ answer[d] = "result" => method'[d] = "done"
                        /\ answer[d] = "refusal" => d \notin Served
                        /\ phase[d] \in {"idle", "refused", "placed"} => method'[d] = "none"
                        /\ phase[d] = "succeeded" => method'[d] = "done"
                        /\ phase[d] \in {"sending", "waiting"} /\ d \notin slots /\ ~endReason[Caller[d]]
                              => answer[d] # "none"
      BY <1>0, <2>1 DEF StagesOK
    <3>1. CASE d = c
      <4>1. ~UnderWay(Message("result", c))'
        BY <1>2, <1>19, <2>2, MessageFacts
      <4>2. UnderWay(Message("refusal", c))' => c \notin Served
        BY <1>2, <1>19, MessageFacts DEF Delivery, StagesOK
      <4> QED
        BY <1>2, <1>15, <2>0, <2>2, <2>3, <3>1, <4>1, <4>2 DEF Delivery, StagesOK
    <3>2. CASE d # c
      BY <1>15, <2>4, <2>5, <3>2, MessageFacts DEF Delivery, StagesOK
    <3> QED
      BY <3>1, <3>2
  <2> QED
    BY <1>7, <1>8, <1>9, <1>11, <1>14, <1>17, <2>6 DEF Delivery
<1>22. CASE p.part = Pieces /\ m.type # "call" /\ c \in slots
  <2>0. m = Message(m.type, c) /\ m.type \in {"result", "refusal"}
    BY <1>2, <1>22, MessageFacts
  <2>1. /\ slots' = slots \ {c} /\ answer' = [answer EXCEPT ![c] = m.type]
        /\ UNCHANGED <<method, queued, loop>>
    <3>1. GotReturn(s, m)
      BY <1>2, <1>4, <1>22, PieceFacts
    <3> QED
      BY <1>2, <1>22, <3>1 DEF GotReturn
  <2>2. /\ m.type = "result" => method[c] = "done"
        /\ m.type = "refusal" => c \notin Served
    BY <1>2, <1>19, <2>0 DEF Delivery, StagesOK
  <2>3. answer'[c] = m.type /\ \A d \in Calls : d # c => answer'[d] = answer[d]
    BY <1>0, <1>2, <2>1 DEF TypeOK
  <2>4. StagesOK'
    <3> SUFFICES ASSUME NEW d \in Calls
                 PROVE  /\ UnderWay(Message("call", d))' =>
                              method[d] = "none" /\ phase[d] \notin {"idle", "refused", "placed"}
                        /\ Message("call", d) \in queued \/ BeingWritten(Message("call", d))'
                              => phase[d] = "sending"
                        /\ UnderWay(Message("result", d))' => method[d] = "done"
                        /\ UnderWay(Message("refusal", d))' => d \notin Served
                        /\ answer'[d] = "result" => method[d] = "done"
                        /\ answer'[d] = "refusal" => d \notin Served
                        /\ phase[d] \in {"sending", "waiting"} /\ d \notin slots' /\ ~endReason[Caller[d]]
                              => answer'[d] # "none"
      BY <1>0, <2>1 DEF Delivery, StagesOK
    <3>1. /\ UnderWay(Message("call", d))' => UnderWay(Message("call", d))
          /\ UnderWay(Message("result", d))' => UnderWay(Message("result", d))
          /\ UnderWay(Message("refusal", d))' => UnderWay(Message("refusal", d)) \/ d \notin Served
          /\ BeingWritten(Message("call", d))' = BeingWritten(Message("call", d))
      BY <1>15, <1>19, MessageFacts
    <3>2. CASE d = c
      BY <2>0, <2>2, <2>3, <3>1, <3>2 DEF Delivery, StagesOK
    <3>3. CASE d # c
      BY <2>1, <2>3, <3>1, <3>3 DEF Delivery, StagesOK
    <3> QED
      BY <3>2, <3>3
  <2> QED
    BY <1>7, <1>8, <1>9, <1>11, <1>14, <1>17, <2>4 DEF Delivery
<1> QED
  <2>1. \/ UNCHANGED <<answer, slots, method>>
        \/ p.part = Pieces /\ m.type = "call" /\ c \in Served
        \/ p.part = Pieces /\ m.type # "call" /\ c \in slots
    BY <1>2, <1>4, MessageFacts DEF GotCall, GotReturn
  <2> QED
    BY <1>20, <1>21, <1>22, <2>1

-----------------------------------------------------------------------------
(* Who has what in hand, and who is in end() *)

\* Whoever has cleared connected goes on to close, and others enter end() by its test.
LEMMA EndsKept ==
  ASSUME PairInv, UNCHANGED <<endReason, connected>>,
         \A s \in Ends : socket'[s] = "closed" <=> socket[s] = "closed",
         \A g \in Goroutines : ending'[g] = ending[g] \/ (ending[g] = "not" /\ ending'[g] = "test"),
         \A s \in Ends : loop'[s] \in {"leaving", "gone"} => loop[s] \in {"leaving", "gone"},
         \A c \in Calls : phase'[c] = "unsent" => phase[c] = "unsent"
  PROVE  EndsOK'
<1>1. \A s \in Ends : InTheWindow(s) => InTheWindow(s)'
  BY DEF InTheWindow
<1>2. \A g \in Goroutines : ending'[g] \in {"flag", "close"} => ending'[g] = ending[g]
  OBVIOUS
<1> QED
  BY <1>1, <1>2, GoroutineFacts DEF PairInv, EndsOK

\* No goroutine takes a message in hand.
LEMMA SendersKept ==
  ASSUME PairInv,
         \A m \in Messages : InHand(m)' => InHand(m) /\ ending'[Sender(m)] = ending[Sender(m)],
         \A m \in Messages : m \in queued' => ~BeingWritten(m)',
         \A c \in Calls : InHand(Message("refusal", c))' =>
            loop'[Peer(Caller[c])] = loop[Peer(Caller[c])]
  PROVE  SendersOK'
BY MessageFacts DEF PairInv, SendersOK

\* One that had none in hand, and is not in end(), takes m.
LEMMA SendersTake ==
  ASSUME PairInv, NEW m \in Messages, queued' = queued \cup {m}, UNCHANGED <<writing, ending>>,
         ending[Sender(m)] = "not",
         \A k \in Messages : Sender(k) = Sender(m) => ~InHand(k),
         \A s \in Ends : loop[s] = "refusing" => loop'[s] = "refusing",
         \A c \in Calls : m = Message("refusal", c) => loop'[Peer(Caller[c])] = "refusing"
  PROVE  SendersOK'
<1>1. \A k \in Messages : InHand(k)' <=> InHand(k) \/ k = m
  BY DEF InHand, BeingWritten
<1>2. ~BeingWritten(m) /\ \A k \in Messages : BeingWritten(k)' <=> BeingWritten(k)
  BY DEF InHand, BeingWritten
<1>3. \A k \in Messages : k \in queued' => ~BeingWritten(k)'
  BY <1>2 DEF PairInv, SendersOK
<1>4. \A c \in Calls : InHand(Message("refusal", c))' => loop'[Peer(Caller[c])] = "refusing"
  <2> SUFFICES ASSUME NEW c \in Calls, InHand(Message("refusal", c))'
               PROVE  loop'[Peer(Caller[c])] = "refusing"
    OBVIOUS
  <2>1. Peer(Caller[c]) \in Ends /\ Message("refusal", c) \in Messages
    BY PairAssumption, EndFacts, MessageFacts
  <2> QED
    BY <1>1, <2>1 DEF PairInv, SendersOK
<1>5. \A k \in Messages : InHand(k)' => ending'[Sender(k)] = "not"
  BY <1>1 DEF PairInv, SendersOK
<1>6. \A k, l \in Messages : InHand(k)' /\ InHand(l)' /\ Sender(k) = Sender(l) => k = l
  BY <1>1 DEF PairInv, SendersOK
<1> QED
  BY <1>3, <1>4, <1>5, <1>6 DEF SendersOK

LEMMA CallerThreads ==
  ASSUME PairInv, NEW c \in Calls,
         Place(c) \/ GiveUp(c) \/ Return(c) \/ Release(c) \/ MethodReturns(c) \/ Acquire(c)
  PROVE  SendersOK' /\ EndersOK' /\ EndsOK'
<1>0. TypeOK /\ UNCHANGED <<writing, loop, ending, endReason, connected, socket>>
  BY DEF PairInv, Delivery, Place, GiveUp, Return, Release, MethodReturns, Acquire
<1>1. /\ \A d \in Calls : phase[d] = "sending" => phase'[d] = "sending"
      /\ \A d \in Calls : phase'[d] = "unsent" => phase[d] = "unsent"
      /\ \A d \in Calls : method[d] = "done" => method'[d] = "done"
  <2>1. CASE MethodReturns(c)
    BY <1>0, <2>1 DEF MethodReturns, TypeOK
  <2>2. CASE Place(c) \/ GiveUp(c) \/ Return(c) \/ Release(c) \/ Acquire(c)
    BY <1>0, <2>2 DEF Place, GiveUp, Return, Release, Acquire, TypeOK
  <2> QED
    BY <2>1, <2>2
<1>2. EndsOK'
  BY <1>0, <1>1, EndsKept
<1>3. EndersOK'
  BY <1>0, <1>1 DEF PairInv, EndersOK
<1>4. CASE Place(c) \/ GiveUp(c) \/ Return(c) \/ Release(c)
  <2>1. UNCHANGED queued
    BY <1>4 DEF Place, GiveUp, Return, Release
  <2>2. \A m \in Messages : (InHand(m)' <=> InHand(m)) /\ (BeingWritten(m)' <=> BeingWritten(m))
    BY <1>0, <2>1 DEF InHand, BeingWritten
  <2>3. SendersOK'
    BY <1>0, <2>1, <2>2, SendersKept DEF PairInv, SendersOK
  <2> QED
    BY <1>2, <1>3, <2>3
<1>5. CASE Acquire(c)
  <2> DEFINE m == Message("call", c)
  <2>1. /\ phase[c] = "placed" /\ queued' = queued \cup {m}
        /\ m \in Messages /\ Sender(m) = The("caller", c) /\ Sender(m) \in Goroutines
    BY <1>5, MessageFacts, SenderFacts DEF Acquire
  <2>2. ending[Sender(m)] = "not"
    BY <2>1 DEF PairInv, EndersOK
  <2>3. ASSUME NEW k \in Messages, Sender(k) = Sender(m), InHand(k) PROVE FALSE
    <3>1. k = Message(k.type, k.call) /\ k.call \in Calls /\ k.type \in {"call", "result", "refusal"}
      BY MessageFacts
    <3>2. k = m
      BY <2>1, <2>3, <3>1, SenderFacts, GoroutineFacts
    <3> QED
      BY <2>1, <2>3, <3>2 DEF PairInv, Delivery, StagesOK, InHand
  <2>4. \A d \in Calls : m # Message("refusal", d)
    BY DEF Message
  <2>5. SendersOK'
    BY <1>0, <2>1, <2>2, <2>3, <2>4, SendersTake
  <2> QED
    BY <1>2, <1>3, <2>5
<1>6. CASE MethodReturns(c)
  <2> DEFINE m == Message("result", c)
  <2>1. /\ method[c] = "running" /\ queued' = queued \cup {m}
        /\ m \in Messages /\ Sender(m) = The("method", c) /\ Sender(m) \in Goroutines
    BY <1>6, MessageFacts, SenderFacts DEF MethodReturns
  <2>2. ending[Sender(m)] = "not"
    BY <2>1 DEF PairInv, EndersOK
  <2>3. ASSUME NEW k \in Messages, Sender(k) = Sender(m), InHand(k) PROVE FALSE
    <3>1. k = Message(k.type, k.call) /\ k.call \in Calls /\ k.type \in {"call", "result", "refusal"}
      BY MessageFacts
    <3>2. k = m
      BY <2>1, <2>3, <3>1, SenderFacts, GoroutineFacts
    <3> QED
      BY <2>1, <2>3, <3>2 DEF PairInv, Delivery, StagesOK, InHand, UnderWay
  <2>4. \A d \in Calls : m # Message("refusal", d)
    BY DEF Message
  <2>5. SendersOK'
    BY <1>0, <2>1, <2>2, <2>3, <2>4, SendersTake
  <2> QED
    BY <1>2, <1>3, <2>5
<1> QED
  BY <1>4, <1>5, <1>6

\* A sender that gets the lock, or goes on writing, keeps its message in hand.
LEMMA WritingThreads ==
  ASSUME PairInv, NEW m \in Messages,
         \/ Lock(m)
         \/ \E n \in 1 .. Pieces : n < Pieces /\ WritePiece(Piece(m, n))
  PROVE  SendersOK' /\ EndersOK' /\ EndsOK'
<1>1. UNCHANGED <<phase, method, loop, ending, endReason, connected, socket>>
  BY PieceFacts DEF Lock, WritePiece
<1>2. EndsOK' /\ EndersOK'
  BY <1>1, EndsKept DEF PairInv, EndersOK
<1>3. CASE Lock(m)
  <2>1. /\ queued' = queued \ {m} /\ writing' = writing \cup {Piece(m, 1)} /\ m \in queued
        /\ Piece(m, 1).msg = m
    BY <1>3, PieceFacts DEF Lock
  <2>2. /\ \A k \in Messages : InHand(k)' <=> InHand(k)
        /\ \A k \in Messages : k # m => (BeingWritten(k)' <=> BeingWritten(k))
    BY <2>1 DEF InHand, BeingWritten
  <2>3. \A k \in Messages : k \in queued' => ~BeingWritten(k)'
    BY <2>1, <2>2 DEF PairInv, SendersOK
  <2> QED
    BY <1>1, <1>2, <2>2, <2>3, SendersKept
<1>4. CASE \E n \in 1 .. Pieces : n < Pieces /\ WritePiece(Piece(m, n))
  <2>1. PICK n \in 1 .. Pieces : n < Pieces /\ WritePiece(Piece(m, n))
    BY <1>4
  <2>2. /\ n + 1 \in 1 .. Pieces /\ UNCHANGED queued /\ Piece(m, n) \in writing
        /\ writing' = (writing \ {Piece(m, n)}) \cup {Piece(m, n + 1)}
    BY <2>1, PieceFacts DEF WritePiece
  <2>3. Piece(m, n).msg = m /\ Piece(m, n + 1).msg = m
    BY <2>2, PieceFacts
  <2>4. \A k \in Messages : BeingWritten(k)' <=> BeingWritten(k)
    BY <2>2, <2>3 DEF BeingWritten
  <2>5. \A k \in Messages : InHand(k)' <=> InHand(k)
    BY <2>2, <2>4 DEF InHand
  <2>6. \A k \in Messages : k \in queued' => ~BeingWritten(k)'
    BY <2>2, <2>4 DEF PairInv, SendersOK
  <2> QED
    BY <1>1, <1>2, <2>5, <2>6, SendersKept
<1> QED
  BY <1>3, <1>4

\* Who has written its message, or failed to.
LEMMA SentFacts ==
  ASSUME PairInv, NEW m \in Messages, NEW n \in 1 .. Pieces,
         \/ n = Pieces /\ WritePiece(Piece(m, n))
         \/ WriteFails(Piece(m, n))
  PROVE  /\ InHand(m) /\ ~InHand(m)' /\ ending[Sender(m)] = "not"
         /\ \A k \in Messages : InHand(k)' => InHand(k) /\ Sender(k) # Sender(m)
         /\ \A k \in Messages : k \in queued' => ~BeingWritten(k)'
         /\ UNCHANGED <<method, endReason, connected>>
<1>0. Piece(m, n).msg = m /\ Piece(m, n) \in writing /\ Piece(m, n).part = n
  BY PieceFacts DEF WritePiece, WriteFails
<1>1. UNCHANGED queued /\ writing' = writing \ {Piece(m, n)} /\ UNCHANGED <<method, endReason, connected>>
  BY <1>0, PieceFacts DEF WritePiece, WriteFails
<1>2. BeingWritten(m) /\ InHand(m) /\ m \notin queued
  BY <1>0 DEF InHand, BeingWritten, PairInv, SendersOK
<1>3. ~BeingWritten(m)'
  BY <1>0, <1>1 DEF BeingWritten, PairInv, Delivery, OneWriter
<1>4. \A k \in Messages : k # m => (BeingWritten(k)' <=> BeingWritten(k))
  BY <1>0, <1>1 DEF BeingWritten
<1>5. ~InHand(m)' /\ \A k \in Messages : k # m => (InHand(k)' <=> InHand(k))
  BY <1>1, <1>2, <1>3, <1>4 DEF InHand
<1>6. \A k \in Messages : k # m /\ InHand(k) => Sender(k) # Sender(m)
  BY <1>2 DEF PairInv, SendersOK
<1> QED
  BY <1>1, <1>2, <1>3, <1>4, <1>5, <1>6 DEF PairInv, SendersOK

LEMMA SentThreads ==
  ASSUME PairInv, NEW m \in Messages, NEW n \in 1 .. Pieces,
         \/ n = Pieces /\ WritePiece(Piece(m, n))
         \/ WriteFails(Piece(m, n))
  PROVE  SendersOK' /\ EndersOK' /\ EndsOK'
<1> DEFINE c == m.call  s == Writer(m)
<1>0. /\ InHand(m) /\ ~InHand(m)' /\ ending[Sender(m)] = "not"
      /\ \A k \in Messages : InHand(k)' => InHand(k) /\ Sender(k) # Sender(m)
      /\ \A k \in Messages : k \in queued' => ~BeingWritten(k)'
      /\ UNCHANGED <<method, endReason, connected>>
  BY SentFacts
<1>1. /\ c \in Calls /\ s \in Ends /\ Sender(m) \in Goroutines /\ m = Message(m.type, c)
      /\ m.type \in {"call", "result", "refusal"}
      /\ Piece(m, n).msg = m /\ Piece(m, n).part = n
      /\ TypeOK
  BY MessageFacts, PieceFacts, SenderFacts DEF PairInv, Delivery
\* What its sender does next.
<1>2. /\ \/ /\ UNCHANGED <<phase, socket>>
            /\ ending' = ending \/ ending' = [ending EXCEPT ![Sender(m)] = "test"]
         \/ /\ UNCHANGED phase /\ ending' = [ending EXCEPT ![Sender(m)] = "test"]
            /\ socket' = [socket EXCEPT ![s] = IF @ = "open" THEN "broken" ELSE @]
         \/ /\ m.type = "call" /\ phase' = [phase EXCEPT ![c] = "waiting"]
            /\ UNCHANGED <<socket, ending>>
      /\ IF m.type = "refusal"
         THEN loop' = [loop EXCEPT ![s] = "ending"] /\ ending' = [ending EXCEPT ![Sender(m)] = "test"]
         ELSE UNCHANGED loop
  <2>1. CASE n = Pieces /\ WritePiece(Piece(m, n))
    <3>1. Sent(m) /\ UNCHANGED socket
      BY <1>1, <2>1, PieceFacts DEF WritePiece
    <3> QED
      BY <1>1, <3>1 DEF Sent, CallEnd
  <2>2. CASE WriteFails(Piece(m, n))
    BY <1>1, <2>2 DEF WriteFails, CallEnd
  <2> QED
    BY <2>1, <2>2
<1>3. /\ \A g \in Goroutines : g # Sender(m) => ending'[g] = ending[g]
      /\ ending'[Sender(m)] \in {"not", "test"}
      /\ \A t \in Ends : socket'[t] = "closed" <=> socket[t] = "closed"
      /\ \A d \in Calls : d # c => phase'[d] = phase[d]
      /\ phase'[c] = phase[c] \/ (m.type = "call" /\ phase'[c] = "waiting" /\ UNCHANGED ending)
      /\ \A t \in Ends : t # s => loop'[t] = loop[t]
      /\ loop'[s] = IF m.type = "refusal" THEN "ending" ELSE loop[s]
      /\ m.type = "refusal" => ending'[Sender(m)] = "test"
  <2>0. /\ phase \in [Calls -> Phases] /\ loop \in [Ends -> Loops]
        /\ socket \in [Ends -> {"open", "broken", "closed"}]
        /\ ending \in [Goroutines -> {"not", "test", "store", "flag", "close"}]
    BY <1>1 DEF TypeOK, Phases, Loops
  <2>1. /\ \A g \in Goroutines : g # Sender(m) => ending'[g] = ending[g]
        /\ ending'[Sender(m)] \in {"not", "test"}
        /\ m.type = "refusal" => ending'[Sender(m)] = "test"
    BY <1>0, <1>1, <1>2, <2>0
  <2>2. \A t \in Ends : socket'[t] = "closed" <=> socket[t] = "closed"
    BY <1>1, <1>2, <2>0
  <2>3. /\ \A d \in Calls : d # c => phase'[d] = phase[d]
        /\ phase'[c] = phase[c] \/ (m.type = "call" /\ phase'[c] = "waiting" /\ UNCHANGED ending)
    BY <1>1, <1>2, <2>0
  <2>4. /\ \A t \in Ends : t # s => loop'[t] = loop[t]
        /\ loop'[s] = IF m.type = "refusal" THEN "ending" ELSE loop[s]
    BY <1>1, <1>2, <2>0
  <2> QED
    BY <2>1, <2>2, <2>3, <2>4
<1>4. EndsOK'
  <2>1. \A g \in Goroutines : ending'[g] = ending[g] \/ (ending[g] = "not" /\ ending'[g] = "test")
    BY <1>0, <1>3
  <2>2. \A t \in Ends : loop'[t] \in {"leaving", "gone"} => loop[t] \in {"leaving", "gone"}
    BY <1>3
  <2>3. \A d \in Calls : phase'[d] = "unsent" => phase[d] = "unsent"
    BY <1>3
  <2> QED
    BY <1>0, <1>3, <2>1, <2>2, <2>3, EndsKept
<1>5. SendersOK'
  <2>1. \A k \in Messages : InHand(k)' => InHand(k) /\ ending'[Sender(k)] = ending[Sender(k)]
    BY <1>0, <1>3, SenderFacts
  <2>2. ASSUME NEW d \in Calls, InHand(Message("refusal", d))'
        PROVE  loop'[Peer(Caller[d])] = loop[Peer(Caller[d])]
    <3>1. /\ Message("refusal", d) \in Messages /\ Peer(Caller[d]) \in Ends
          /\ Sender(Message("refusal", d)) = The("reader", Peer(Caller[d]))
      BY MessageFacts, SenderFacts, PairAssumption, EndFacts
    <3>2. m.type = "refusal" => Sender(m) = The("reader", s)
      BY DEF Sender
    <3> QED
      BY <1>0, <1>3, <2>2, <3>1, <3>2
  <2> QED
    BY <1>0, <2>1, <2>2, SendersKept
<1>6. EndersOK'
  <2>1. ASSUME NEW d \in Calls, ending'[The("caller", d)] # "not"
        PROVE  phase'[d] = "sending"
    <3>1. CASE Sender(m) = The("caller", d)
      <4>1. m = Message("call", d) /\ c = d
        BY <1>1, <3>1, SenderFacts, GoroutineFacts
      <4>2. phase[d] = "sending"
        BY <1>0, <4>1 DEF PairInv, Delivery, StagesOK, InHand
      <4> QED
        BY <1>0, <1>1, <1>3, <2>1, <3>1, <4>1, <4>2
    <3>2. CASE Sender(m) # The("caller", d)
      <4>1. ending[The("caller", d)] # "not"
        BY <1>3, <2>1, <3>2, GoroutineFacts
      <4>2. phase[d] = "sending" /\ Sender(Message("call", d)) = The("caller", d)
        BY <4>1, SenderFacts DEF PairInv, EndersOK
      <4> QED
        BY <1>1, <1>3, <3>2, <4>2
    <3> QED
      BY <3>1, <3>2
  <2>2. ASSUME NEW d \in Calls, ending'[The("method", d)] # "not"
        PROVE  method'[d] = "done"
    <3>1. CASE Sender(m) = The("method", d)
      <4>1. m = Message("result", d)
        BY <1>1, <3>1, SenderFacts, GoroutineFacts
      <4> QED
        BY <1>0, <4>1 DEF PairInv, Delivery, StagesOK, InHand, UnderWay
    <3>2. CASE Sender(m) # The("method", d)
      BY <1>0, <1>3, <2>2, <3>2, GoroutineFacts DEF PairInv, EndersOK
    <3> QED
      BY <3>1, <3>2
  <2>3. ASSUME NEW t \in Ends
        PROVE  ending'[The("reader", t)] # "not" <=> loop'[t] = "ending"
    <3>1. CASE m.type = "refusal"
      <4>1. Sender(m) = The("reader", s)
        BY <3>1 DEF Sender
      <4> QED
        BY <1>1, <1>3, <3>1, <4>1, GoroutineFacts DEF PairInv, EndersOK
    <3>2. CASE m.type # "refusal"
      <4>1. Sender(m) # The("reader", t)
        BY <1>1, <3>2, GoroutineFacts DEF Sender
      <4> QED
        BY <1>1, <1>3, <3>2, <4>1, GoroutineFacts DEF PairInv, EndersOK
    <3> QED
      BY <3>1, <3>2
  <2> QED
    BY <2>1, <2>2, <2>3 DEF EndersOK
<1> QED
  BY <1>4, <1>5, <1>6

\* The read loop finds its connection broken, or what it has read is no reply.
LEMMA ReaderEnds ==
  ASSUME PairInv, NEW s \in Ends, loop[s] = "reading",
         loop' = [loop EXCEPT ![s] = "ending"], CallEnd(The("reader", s)),
         UNCHANGED <<phase, method, queued, writing, endReason, connected, socket>>
  PROVE  SendersOK' /\ EndersOK' /\ EndsOK'
<1>0. /\ TypeOK /\ ending[The("reader", s)] = "not" /\ The("reader", s) \in Goroutines
      /\ ending'[The("reader", s)] = "test" /\ loop'[s] = "ending"
      /\ \A g \in Goroutines : g # The("reader", s) => ending'[g] = ending[g]
      /\ \A t \in Ends : t # s => loop'[t] = loop[t]
  <2>1. TypeOK /\ The("reader", s) \in Goroutines /\ ending[The("reader", s)] = "not"
    BY GoroutineFacts DEF PairInv, Delivery, EndersOK
  <2> QED
    BY <2>1 DEF TypeOK, CallEnd
<1>1. EndsOK'
  BY <1>0, EndsKept
<1>2. EndersOK'
  BY <1>0, GoroutineFacts DEF PairInv, EndersOK
<1>3. \A m \in Messages : (InHand(m)' <=> InHand(m)) /\ (BeingWritten(m)' <=> BeingWritten(m))
  BY DEF InHand, BeingWritten
<1>4. \A m \in Messages : InHand(m) => Sender(m) # The("reader", s)
  <2> SUFFICES ASSUME NEW m \in Messages, InHand(m), Sender(m) = The("reader", s) PROVE FALSE
    OBVIOUS
  <2>1. /\ m = Message(m.type, m.call) /\ m.call \in Calls /\ m.type \in {"call", "result", "refusal"}
    BY MessageFacts
  <2>2. m = Message("refusal", m.call) /\ Peer(Caller[m.call]) = s
    BY <2>1, SenderFacts, GoroutineFacts
  <2> QED
    BY <2>1, <2>2 DEF PairInv, SendersOK
<1>5. ASSUME NEW c \in Calls, InHand(Message("refusal", c))
      PROVE  loop'[Peer(Caller[c])] = loop[Peer(Caller[c])]
  BY <1>0, <1>5, PairAssumption, EndFacts DEF PairInv, SendersOK
<1>6. SendersOK'
  <2>1. \A m \in Messages : InHand(m)' => InHand(m) /\ ending'[Sender(m)] = ending[Sender(m)]
    BY <1>0, <1>3, <1>4, SenderFacts
  <2>2. \A c \in Calls : InHand(Message("refusal", c))' =>
            loop'[Peer(Caller[c])] = loop[Peer(Caller[c])]
    BY <1>3, <1>5, MessageFacts
  <2>3. \A m \in Messages : m \in queued' => ~BeingWritten(m)'
    BY <1>3 DEF PairInv, SendersOK
  <2> QED
    BY <2>1, <2>2, <2>3, SendersKept
<1> QED
  BY <1>1, <1>2, <1>6

LEMMA ReadThreads ==
  ASSUME PairInv, NEW s \in Ends, Read(s)
  PROVE  SendersOK' /\ EndersOK' /\ EndsOK'
<1> DEFINE p == Head(stream[Peer(s)])  c == p.msg.call
<1>0. /\ TypeOK /\ loop[s] = "reading" /\ stream[Peer(s)] # <<>> /\ Peer(s) \in Ends
      /\ UNCHANGED <<phase, writing, endReason, connected, socket>>
  BY EndFacts DEF PairInv, Delivery, Read
<1>1. p.msg \in Messages /\ Writer(p.msg) = Peer(s)
  <2>1. Len(stream[Peer(s)]) > 0 /\ p = stream[Peer(s)][1] /\ Len(stream[Peer(s)]) \in Nat
    BY <1>0, StreamType, WholeByPlace
  <2> QED
    BY <1>0, <2>1, StreamType DEF PairInv, Delivery, OwnStream
<1>2. c \in Calls /\ p.msg = Message(p.msg.type, c) /\ p.msg.type \in {"call", "result", "refusal"}
  BY <1>1, MessageFacts
\* There are four ways to go on.
<1>3. \/ UNCHANGED <<method, queued, loop, ending>>
      \/ /\ p.msg.type = "call" /\ InStream(p.msg) /\ method' = [method EXCEPT ![c] = "running"]
         /\ UNCHANGED <<queued, loop, ending>>
      \/ /\ p.msg.type = "call" /\ queued' = queued \cup {Message("refusal", c)}
         /\ loop' = [loop EXCEPT ![s] = "refusing"]
         /\ UNCHANGED <<method, ending>>
      \/ /\ loop' = [loop EXCEPT ![s] = "ending"] /\ CallEnd(The("reader", s))
         /\ UNCHANGED <<method, queued>>
  <2>1. InStream(p.msg)
    <3>1. Len(stream[Peer(s)]) > 0 /\ p = stream[Peer(s)][1] /\ Len(stream[Peer(s)]) \in Nat
      BY <1>0, StreamType, WholeByPlace
    <3> QED
      BY <1>1, <3>1 DEF InStream
  <2>2. \/ UNCHANGED <<answer, slots, method, queued, loop, ending>>
        \/ p.msg.type = "call" /\ GotCall(s, c)
        \/ GotReturn(s, p.msg)
    BY DEF Read
  <2>3. CASE UNCHANGED <<answer, slots, method, queued, loop, ending>>
    BY <2>3
  <2>4. CASE p.msg.type = "call" /\ GotCall(s, c)
    BY <2>1, <2>4 DEF GotCall
  <2>5. CASE GotReturn(s, p.msg)
    BY <2>5 DEF GotReturn
  <2> QED
    BY <2>2, <2>3, <2>4, <2>5
<1>4. CASE UNCHANGED <<queued, loop, ending>> /\ \A d \in Calls : method[d] = "done" => method'[d] = "done"
  <2>1. EndsOK' /\ EndersOK'
    BY <1>0, <1>4, EndsKept DEF PairInv, EndersOK
  <2>2. \A m \in Messages : (InHand(m)' <=> InHand(m)) /\ (BeingWritten(m)' <=> BeingWritten(m))
    BY <1>0, <1>4 DEF InHand, BeingWritten
  <2> QED
    BY <1>4, <2>1, <2>2, SendersKept DEF PairInv, SendersOK
<1>5. CASE /\ p.msg.type = "call" /\ InStream(p.msg) /\ method' = [method EXCEPT ![c] = "running"]
           /\ UNCHANGED <<queued, loop, ending>>
  <2>1. method[c] = "none"
    BY <1>2, <1>5 DEF PairInv, Delivery, StagesOK, UnderWay
  <2>2. \A d \in Calls : method[d] = "done" => method'[d] = "done"
    BY <1>0, <1>5, <2>1 DEF TypeOK
  <2> QED
    BY <1>4, <1>5, <2>2
<1>6. CASE /\ p.msg.type = "call" /\ queued' = queued \cup {Message("refusal", c)}
           /\ loop' = [loop EXCEPT ![s] = "refusing"]
           /\ UNCHANGED <<method, ending>>
  <2> DEFINE m == Message("refusal", c)
  <2>1. /\ Caller[c] = Peer(s) /\ Peer(Caller[c]) = s /\ m \in Messages
        /\ Sender(m) = The("reader", s) /\ The("reader", s) \in Goroutines
    BY <1>1, <1>2, <1>6, MessageFacts, EndFacts, SenderFacts, GoroutineFacts
  <2>2. ending[Sender(m)] = "not"
    BY <1>0, <2>1 DEF PairInv, EndersOK
  <2>3. ASSUME NEW k \in Messages, Sender(k) = Sender(m), InHand(k) PROVE FALSE
    <3>1. k = Message(k.type, k.call) /\ k.call \in Calls /\ k.type \in {"call", "result", "refusal"}
      BY MessageFacts
    <3>2. k = Message("refusal", k.call) /\ Peer(Caller[k.call]) = s
      BY <2>1, <2>3, <3>1, SenderFacts, GoroutineFacts
    <3> QED
      BY <1>0, <2>3, <3>1, <3>2 DEF PairInv, SendersOK
  <2>4. loop'[s] = "refusing" /\ \A t \in Ends : t # s => loop'[t] = loop[t]
    BY <1>0, <1>6 DEF TypeOK
  <2>5. \A d \in Calls : m = Message("refusal", d) => d = c
    BY DEF Message
  <2>6. SendersOK'
    <3>1. \A t \in Ends : loop[t] = "refusing" => loop'[t] = "refusing"
      BY <2>4
    <3>2. \A d \in Calls : m = Message("refusal", d) => loop'[Peer(Caller[d])] = "refusing"
      BY <2>1, <2>4, <2>5
    <3> QED
      BY <1>0, <1>6, <2>1, <2>2, <2>3, <3>1, <3>2, SendersTake
  <2>7. EndsOK'
    BY <1>0, <1>6, <2>4, EndsKept
  <2>8. EndersOK'
    BY <1>0, <1>6, <2>4 DEF PairInv, EndersOK
  <2> QED
    BY <2>6, <2>7, <2>8
<1>7. CASE /\ loop' = [loop EXCEPT ![s] = "ending"] /\ CallEnd(The("reader", s))
           /\ UNCHANGED <<method, queued>>
  BY <1>0, <1>7, ReaderEnds
<1> QED
  BY <1>3, <1>4, <1>5, <1>6, <1>7

LEMMA LoopThreads ==
  ASSUME PairInv, NEW s \in Ends, ReadFails(s) \/ Leave(s) \/ Close(s) \/ Break
  PROVE  SendersOK' /\ EndersOK' /\ EndsOK'
<1>0. TypeOK /\ The("user", s) \in Goroutines
  BY GoroutineFacts DEF PairInv, Delivery
<1>1. CASE ReadFails(s)
  BY <1>1, ReaderEnds DEF ReadFails
<1>2. CASE Leave(s) \/ Close(s) \/ Break
  <2>1. /\ UNCHANGED <<phase, method, queued, writing, endReason, connected, socket>>
        /\ \/ ending' = ending
           \/ UNCHANGED loop /\ ending[The("user", s)] = "not" /\ CallEnd(The("user", s))
        /\ loop' = loop \/ (loop[s] = "leaving" /\ loop' = [loop EXCEPT ![s] = "gone"])
    BY <1>2 DEF Leave, Close, Break
  <2>2. /\ \A g \in Goroutines : g # The("user", s) => ending'[g] = ending[g]
        /\ \/ ending'[The("user", s)] = ending[The("user", s)]
           \/ ending[The("user", s)] = "not" /\ ending'[The("user", s)] = "test"
    BY <1>0, <2>1 DEF TypeOK, CallEnd
  <2>3. \A t \in Ends : loop'[t] = loop[t] \/ (loop[t] = "leaving" /\ loop'[t] = "gone")
    BY <1>0, <2>1 DEF TypeOK
  <2>4. EndsOK'
    BY <2>1, <2>2, <2>3, EndsKept
  <2>5. EndersOK'
    BY <2>1, <2>2, <2>3, GoroutineFacts DEF PairInv, EndersOK
  <2>6. \A m \in Messages : (InHand(m)' <=> InHand(m)) /\ (BeingWritten(m)' <=> BeingWritten(m))
    BY <2>1 DEF InHand, BeingWritten
  <2>7. \A m \in Messages : Sender(m) # The("user", s)
    BY MessageFacts, GoroutineFacts DEF Sender
  <2>8. \A m \in Messages : InHand(m)' => InHand(m) /\ ending'[Sender(m)] = ending[Sender(m)]
    BY <2>2, <2>6, <2>7, SenderFacts
  <2>9. ASSUME NEW c \in Calls, InHand(Message("refusal", c))'
        PROVE  loop'[Peer(Caller[c])] = loop[Peer(Caller[c])]
    BY <2>3, <2>6, <2>9, MessageFacts, PairAssumption, EndFacts DEF PairInv, SendersOK
  <2>10. SendersOK'
    BY <2>1, <2>6, <2>8, <2>9, SendersKept DEF PairInv, SendersOK
  <2> QED
    BY <2>4, <2>5, <2>10
<1> QED
  BY <1>1, <1>2

\* A step of end(): its reason comes first, then connected, and its socket last.
LEMMA EnderThreads ==
  ASSUME PairInv, NEW g \in Goroutines, EndStep(g)
  PROVE  SendersOK' /\ EndersOK' /\ EndsOK'
<1> DEFINE s == EndOf(g)
<1> USE DEF EndTest, EndStore, EndFlag, EndClose
<1>0. /\ TypeOK /\ s \in Ends /\ ending[g] # "not" /\ ending[g] \in {"test", "store", "flag", "close"}
      /\ UNCHANGED <<method, queued, writing>>
  BY GoroutineFacts DEF PairInv, Delivery, TypeOK, EndStep
\* It goes one step on, or is through.
<1>1. \/ /\ UNCHANGED <<phase, loop>>
         /\ \E v \in {"store", "flag", "close"} : ending' = [ending EXCEPT ![g] = v]
      \/ EndOver(g) /\ ~connected[s] /\ UNCHANGED <<endReason, connected>>
  <2>1. ending[g] = "close" => ~connected[s]
    BY DEF PairInv, EndsOK
  <2> QED
    BY <2>1 DEF EndStep
<1>2. /\ \A h \in Goroutines : h # g => ending'[h] = ending[h]
      /\ \A d \in Calls : phase'[d] = phase[d] \/ g = The("caller", d)
      /\ \A t \in Ends : loop'[t] = loop[t] \/ g = The("reader", t)
  <2>1. CASE UNCHANGED <<phase, loop>> /\ \E v \in {"store", "flag", "close"} : ending' = [ending EXCEPT ![g] = v]
    BY <1>0, <2>1 DEF TypeOK
  <2>2. CASE EndOver(g)
    BY <1>0, <2>2, GoroutineFacts DEF EndOver, TypeOK
  <2> QED
    BY <1>1, <2>1, <2>2
<1>3. \A m \in Messages : /\ InHand(m)' <=> InHand(m)
                          /\ BeingWritten(m)' <=> BeingWritten(m)
                          /\ InHand(m) => Sender(m) # g
  BY <1>0 DEF InHand, BeingWritten, PairInv, SendersOK
<1>4. SendersOK'
  <2>1. \A m \in Messages : InHand(m)' => InHand(m) /\ ending'[Sender(m)] = ending[Sender(m)]
    BY <1>2, <1>3, SenderFacts
  <2>2. \A c \in Calls : InHand(Message("refusal", c))' =>
            loop'[Peer(Caller[c])] = loop[Peer(Caller[c])]
    BY <1>2, <1>3, SenderFacts, MessageFacts, PairAssumption, EndFacts
  <2>3. \A m \in Messages : m \in queued' => ~BeingWritten(m)'
    BY <1>0, <1>3 DEF PairInv, SendersOK
  <2> QED
    BY <2>1, <2>2, <2>3, SendersKept
<1>5. CASE EndOver(g)
  <2>1. /\ ending'[g] = "not"
        /\ g.role = "caller" => phase' = [phase EXCEPT ![g.of] = "unsent"]
        /\ g.role # "caller" => phase' = phase
        /\ g.role = "reader" => loop' = [loop EXCEPT ![g.of] = "leaving"]
        /\ g.role # "reader" => loop' = loop
    BY <1>0, <1>5 DEF EndOver, TypeOK
  <2>2. \A d \in Calls : phase'[d] # phase[d] => g = The("caller", d) /\ phase'[d] = "unsent"
    BY <1>0, <2>1, GoroutineFacts DEF TypeOK
  <2>3. \A t \in Ends : g = The("reader", t) => loop'[t] = "leaving"
    BY <1>0, <2>1, GoroutineFacts DEF TypeOK
  <2>4. EndersOK'
    BY <1>0, <1>2, <2>1, <2>2, <2>3, GoroutineFacts DEF PairInv, EndersOK
  <2>5. ~connected[s] /\ UNCHANGED <<endReason, connected>>
    BY <1>5, <1>0, <1>1, <2>1 DEF TypeOK
  <2>6. \A t \in Ends : /\ socket[t] = "closed" => socket'[t] = "closed"
                        /\ socket'[t] = "closed" => socket[t] = "closed" \/ t = s
                        /\ ending[g] = "close" => socket'[s] = "closed"
    BY <1>0, <1>5, <2>1 DEF EndStep, TypeOK
  <2>7. \A t \in Ends : InTheWindow(t) => InTheWindow(t)' \/ socket'[t] = "closed"
    BY <1>2, <2>6 DEF InTheWindow
  <2>8. \A t \in Ends : loop'[t] \in {"leaving", "gone"} => loop[t] \in {"leaving", "gone"} \/ t = s
    BY <1>2, GoroutineFacts
  <2>9. \A d \in Calls : phase'[d] = "unsent" => phase[d] = "unsent" \/ Caller[d] = s
    BY <2>2, GoroutineFacts
  <2>10. \A h \in Goroutines : ending'[h] \in {"flag", "close"} => ending'[h] = ending[h]
    BY <1>2, <2>1
  <2>11. EndsOK'
    BY <2>5, <2>6, <2>7, <2>8, <2>9, <2>10 DEF PairInv, EndsOK
  <2> QED
    BY <1>4, <2>4, <2>11
<1>6. CASE ~EndOver(g)
  <2>1. /\ UNCHANGED <<phase, loop>> /\ ending'[g] \in {"store", "flag", "close"}
        /\ UNCHANGED socket
    BY <1>0, <1>1, <1>6 DEF EndStep, TypeOK
  <2>2. EndersOK'
    BY <1>0, <1>2, <2>1, GoroutineFacts DEF PairInv, EndersOK
  <2>3. \/ ending'[g] = "store" /\ UNCHANGED <<endReason, connected>> /\ ending[g] = "test"
        \/ /\ ending'[g] = "flag" /\ ending[g] = "store" /\ UNCHANGED connected
           /\ endReason' = [endReason EXCEPT ![s] = TRUE]
        \/ /\ ending'[g] = "close" /\ ending[g] = "flag" /\ UNCHANGED endReason
           /\ connected' = [connected EXCEPT ![s] = FALSE]
    BY <1>0, <1>6 DEF EndStep, TypeOK
  <2>4. \A t \in Ends : InTheWindow(t) => InTheWindow(t)'
    BY <1>2, <2>3 DEF InTheWindow
  <2>5. /\ \A t \in Ends : endReason[t] => endReason'[t]
        /\ \A t \in Ends : ~connected[t] => ~connected'[t]
        /\ ending'[g] = "flag" => endReason'[s]
        /\ ending'[g] = "close" => ~connected'[s]
        /\ \A t \in Ends : connected[t] /\ ~connected'[t] => t = s /\ ending'[g] = "close" /\ ending[g] = "flag"
    <3>1. endReason \in [Ends -> BOOLEAN] /\ connected \in [Ends -> BOOLEAN] /\ s \in Ends
      BY <1>0 DEF TypeOK
    <3>2. CASE ending'[g] = "store" /\ UNCHANGED <<endReason, connected>>
      BY <3>2
    <3>3. CASE /\ ending'[g] = "flag" /\ UNCHANGED connected
               /\ endReason' = [endReason EXCEPT ![s] = TRUE]
      BY <3>1, <3>3
    <3>4. CASE /\ ending'[g] = "close" /\ ending[g] = "flag" /\ UNCHANGED endReason
               /\ connected' = [connected EXCEPT ![s] = FALSE]
      BY <3>1, <3>4
    <3> QED
      BY <2>3, <3>2, <3>3, <3>4
  <2>6. ending[g] = "flag" => endReason[s]
    BY DEF PairInv, EndsOK
  <2>7. \A t \in Ends : ~connected'[t] => endReason'[t] /\ (socket'[t] = "closed" \/ InTheWindow(t)')
    <3> SUFFICES ASSUME NEW t \in Ends, ~connected'[t]
                 PROVE  endReason'[t] /\ (socket'[t] = "closed" \/ InTheWindow(t)')
      OBVIOUS
    <3>1. CASE connected[t]
      BY <2>5, <2>6, <3>1 DEF InTheWindow
    <3>2. CASE ~connected[t]
      BY <2>1, <2>4, <2>5, <3>2 DEF PairInv, EndsOK
    <3> QED
      BY <3>1, <3>2
  <2>8. ASSUME NEW h \in Goroutines
        PROVE  /\ ending'[h] = "flag" => endReason'[EndOf(h)]
               /\ ending'[h] = "close" => ~connected'[EndOf(h)]
    <3>1. CASE h = g
      BY <2>5, <3>1
    <3>2. CASE h # g
      BY <1>2, <2>5, <3>2, GoroutineFacts DEF PairInv, EndsOK
    <3> QED
      BY <3>1, <3>2
  <2>9. \A t \in Ends : /\ socket'[t] = "closed" => ~connected'[t]
                        /\ loop'[t] \in {"leaving", "gone"} => ~connected'[t]
    BY <2>1, <2>5 DEF PairInv, EndsOK
  <2>10. \A c \in Calls : phase'[c] = "unsent" => ~connected'[Caller[c]]
    BY <2>1, <2>5, PairAssumption DEF PairInv, EndsOK
  <2>11. EndsOK'
    BY <2>7, <2>8, <2>9, <2>10 DEF EndsOK
  <2> QED
    BY <1>4, <2>2, <2>11
<1> QED
  BY <1>5, <1>6

LEMMA NextInv == PairInv /\ [Next]_vars => PairInv'
<1> SUFFICES ASSUME PairInv, [Next]_vars PROVE PairInv'
  OBVIOUS
<1>0. Delivery
  BY DEF PairInv
<1>1. CASE UNCHANGED vars
  <2>1. TypeOK' /\ OneWriter' /\ WritersGoOn' /\ WholeMessages' /\ OwnStream' /\ SentOnce'
    BY <1>0, <1>1, StreamsKept, SentOnceKept DEF vars, Delivery, TypeOK
  <2>2. StagesOK'
    BY <1>0, <1>1 DEF vars, Delivery, StagesOK, UnderWay, BeingWritten, InStream
  <2>3. SendersOK' /\ EndersOK' /\ EndsOK'
    BY <1>1 DEF vars, PairInv, InHand, BeingWritten, SendersOK, EndersOK, EndsOK, InTheWindow
  <2> QED
    BY <2>1, <2>2, <2>3 DEF PairInv, Delivery
<1>2. ASSUME NEW c \in Calls, Place(c) \/ GiveUp(c) \/ CallerStep(c) \/ MethodReturns(c)
      PROVE  PairInv'
  <2>1. Delivery'
    BY <1>0, <1>2, PlaceInv, ReturnInv, AcquireInv, MethodReturnsInv DEF CallerStep
  <2>2. SendersOK' /\ EndersOK' /\ EndsOK'
    BY <1>2, CallerThreads DEF CallerStep
  <2> QED
    BY <2>1, <2>2 DEF PairInv
<1>3. ASSUME NEW m \in Messages, SendStep(m)
      PROVE  PairInv'
  <2>1. CASE Lock(m)
    BY <1>0, <2>1, LockInv, WritingThreads DEF PairInv
  <2>2. ASSUME NEW n \in 1 .. Pieces, WritePiece(Piece(m, n)) \/ WriteFails(Piece(m, n))
        PROVE  PairInv'
    <3>1. n = Pieces \/ n < Pieces
      BY PieceFacts
    <3>2. Delivery'
      BY <1>0, <2>2, WritePieceInv, WriteFailsInv, PieceFacts
    <3>3. SendersOK' /\ EndersOK' /\ EndsOK'
      BY <2>2, <3>1, WritingThreads, SentThreads
    <3> QED
      BY <3>2, <3>3 DEF PairInv
  <2> QED
    BY <1>3, <2>1, <2>2 DEF SendStep
<1>4. ASSUME NEW s \in Ends, LoopStep(s) \/ Close(s)
      PROVE  PairInv'
  BY <1>0, <1>4, ReadInv, EndingInv, ReadThreads, LoopThreads DEF LoopStep, PairInv
<1>5. ASSUME NEW g \in Goroutines, EndStep(g)
      PROVE  PairInv'
  BY <1>5, EndStepInv, EnderThreads DEF PairInv
<1>6. CASE Break
  BY <1>6, EndingInv, LoopThreads DEF Ends, PairInv
<1> QED
  BY <1>1, <1>2, <1>3, <1>4, <1>5, <1>6 DEF Next

\* The inductive invariant holds of every execution.
THEOREM Invariance == Spec => []PairInv
<1>1. Init => PairInv
  BY InitPair
<1>2. PairInv /\ [Next]_vars => PairInv'
  BY NextInv
<1> QED
  BY <1>1, <1>2, PTL DEF Spec

\* Every variable stays within its type.
THEOREM TypeCorrect == Spec => []TypeOK
<1>1. PairInv => TypeOK
  BY DEF PairInv, Delivery
<1> QED
  BY <1>1, Invariance, PTL

\* The pieces of two messages never mix, whatever else is being sent: for streams
\* of any capacity and messages of any number of pieces.
THEOREM MessagesStayWhole == Spec => []WholeMessages
<1>1. PairInv => WholeMessages
  BY DEF PairInv, Delivery
<1> QED
  BY <1>1, Invariance, PTL

-----------------------------------------------------------------------------
(* Nobody waits for nobody *)

SendersOwed ==
  \A c \in Calls : phase[c] = "sending" =>
    InHand(Message("call", c)) \/ ending[The("caller", c)] # "not"
RefusersOwed ==
  \A s \in Ends : loop[s] = "refusing" =>
    \E c \in Calls : Caller[c] # s /\ InHand(Message("refusal", c))
SlotsOwed ==
  \A c \in slots : phase[c] \in {"sending", "unsent", "waiting"} \/ (c \in Impatient /\ phase[c] = "failed")

LEMMA OwedParts == PairInv => (StillOwed <=> SendersOwed /\ RefusersOwed /\ SlotsOwed)
BY DEF PairInv, EndsOK, StillOwed, SendersOwed, RefusersOwed, SlotsOwed, Stranded

\* Steps that start no sending or refusing, and take nothing out of the hands of a
\* sender or out of end().
LEMMA OwedKept ==
  ASSUME SendersOwed, RefusersOwed,
         \A m \in Messages : InHand(m) => InHand(m)',
         \A g \in Goroutines : ending[g] # "not" => ending'[g] # "not",
         \A c \in Calls : phase'[c] = "sending" => phase[c] = "sending",
         \A s \in Ends : loop'[s] = "refusing" => loop[s] = "refusing"
  PROVE  SendersOwed' /\ RefusersOwed'
BY MessageFacts, GoroutineFacts DEF SendersOwed, RefusersOwed

\* The slots that are taken stay with their calls.
LEMMA SlotsKept ==
  ASSUME SlotsOwed, slots' \subseteq slots,
         \A c \in slots' : phase'[c] = phase[c] \/ phase'[c] \in {"sending", "unsent", "waiting"}
  PROVE  SlotsOwed'
BY DEF SlotsOwed

LEMMA OwedByCallers ==
  ASSUME PairInv, SendersOwed, RefusersOwed, SlotsOwed, NEW c \in Calls,
         Place(c) \/ GiveUp(c) \/ CallerStep(c) \/ MethodReturns(c)
  PROVE  SendersOwed' /\ RefusersOwed' /\ SlotsOwed'
<1>0. /\ TypeOK /\ UNCHANGED <<loop, ending, writing>> /\ queued \subseteq queued'
      /\ \A m \in Messages : InHand(m) => InHand(m)'
  BY DEF PairInv, Delivery, Place, GiveUp, CallerStep, Acquire, Return, Release, MethodReturns,
         InHand, BeingWritten
<1>1. CASE Acquire(c)
  <2>1. /\ phase'[c] = "sending" /\ \A d \in Calls : d # c => phase'[d] = phase[d]
        /\ slots' = slots \cup {c} /\ InHand(Message("call", c))'
    BY <1>0, <1>1 DEF Acquire, TypeOK, InHand
  <2>2. SendersOwed' /\ RefusersOwed'
    BY <1>0, <2>1, MessageFacts DEF SendersOwed, RefusersOwed
  <2>3. SlotsOwed'
    BY <1>0, <2>1 DEF SlotsOwed, TypeOK
  <2> QED
    BY <2>2, <2>3
<1>2. CASE Place(c) \/ GiveUp(c) \/ Return(c) \/ Release(c) \/ MethodReturns(c)
  <2>1. /\ \A d \in Calls : d # c => phase'[d] = phase[d]
        /\ phase'[c] # "sending" \/ phase'[c] = phase[c]
        /\ slots' \subseteq slots
    BY <1>0, <1>2 DEF Place, GiveUp, Return, Release, MethodReturns, TypeOK
  <2>2. SendersOwed' /\ RefusersOwed'
    BY <1>0, <2>1, OwedKept
  <2>3. c \in slots' => phase'[c] = phase[c] \/ (c \in Impatient /\ phase'[c] = "failed")
    <3>1. CASE Place(c)
      BY <3>1 DEF Place, SlotsOwed
    <3>2. CASE GiveUp(c)
      BY <1>0, <3>2 DEF GiveUp, TypeOK
    <3>3. CASE Return(c)
      BY <3>3 DEF Return
    <3>4. CASE Release(c)
      BY <3>4 DEF Release
    <3>5. CASE MethodReturns(c)
      BY <3>5 DEF MethodReturns
    <3> QED
      BY <1>2, <3>1, <3>2, <3>3, <3>4, <3>5
  <2>4. SlotsOwed'
    BY <1>0, <2>1, <2>3 DEF SlotsOwed, TypeOK
  <2> QED
    BY <2>2, <2>4
<1> QED
  BY <1>1, <1>2 DEF CallerStep

LEMMA OwedGoesOn ==
  ASSUME PairInv, SendersOwed, RefusersOwed, SlotsOwed, NEW m \in Messages,
         \/ Lock(m)
         \/ \E n \in 1 .. Pieces : n < Pieces /\ WritePiece(Piece(m, n))
  PROVE  SendersOwed' /\ RefusersOwed' /\ SlotsOwed'
<1>1. UNCHANGED <<phase, slots, loop, ending>>
  BY PieceFacts DEF Lock, WritePiece
<1>2. \A k \in Messages : InHand(k) => InHand(k)'
  <2>1. CASE Lock(m)
    <3>1. queued' = queued \ {m} /\ writing' = writing \cup {Piece(m, 1)} /\ 1 \in 1 .. Pieces
      BY <2>1, PieceFacts DEF Lock
    <3> QED
      BY <3>1, PieceFacts DEF InHand, BeingWritten
  <2>2. CASE \E n \in 1 .. Pieces : n < Pieces /\ WritePiece(Piece(m, n))
    <3>1. PICK n \in 1 .. Pieces : n < Pieces /\ WritePiece(Piece(m, n))
      BY <2>2
    <3>2. /\ n + 1 \in 1 .. Pieces /\ UNCHANGED queued
          /\ writing' = (writing \ {Piece(m, n)}) \cup {Piece(m, n + 1)}
      BY <3>1, PieceFacts DEF WritePiece
    <3>3. Piece(m, n).msg = m /\ Piece(m, n + 1).msg = m
      BY <3>2, PieceFacts
    <3> QED
      BY <3>2, <3>3 DEF InHand, BeingWritten
  <2> QED
    BY <2>1, <2>2
<1>3. SlotsOwed'
  BY <1>1, SlotsKept
<1> QED
  BY <1>1, <1>2, <1>3, OwedKept

\* A sender that is through waits, one that fails is in end(), and a read loop that has
\* refused a call is, too: what it had in hand is not waited for any more.
LEMMA OwedSent ==
  ASSUME PairInv, SendersOwed, RefusersOwed, SlotsOwed, NEW m \in Messages, NEW n \in 1 .. Pieces,
         \/ n = Pieces /\ WritePiece(Piece(m, n))
         \/ WriteFails(Piece(m, n))
  PROVE  SendersOwed' /\ RefusersOwed' /\ SlotsOwed'
<1> DEFINE c == m.call  s == Writer(m)
<1>0. /\ c \in Calls /\ s \in Ends /\ m = Message(m.type, c) /\ Sender(m) \in Goroutines
      /\ m.type \in {"call", "result", "refusal"}
      /\ Piece(m, n).msg = m /\ Piece(m, n).part = n
      /\ TypeOK
  BY MessageFacts, PieceFacts, SenderFacts DEF PairInv, Delivery
<1>1. UNCHANGED <<queued, slots>> /\ writing' = writing \ {Piece(m, n)}
  BY <1>0, PieceFacts DEF WritePiece, WriteFails
<1>2. \A k \in Messages : k # m /\ InHand(k) => InHand(k)'
  BY <1>0, <1>1 DEF InHand, BeingWritten
<1>3. /\ \A g \in Goroutines : ending[g] # "not" => ending'[g] # "not"
      /\ m.type = "call" => phase'[c] = "waiting" \/ ending'[Sender(m)] # "not"
      /\ phase' = phase \/ phase' = [phase EXCEPT ![c] = "waiting"]
      /\ \A t \in Ends : loop'[t] = "refusing" => loop[t] = "refusing"
      /\ m.type = "refusal" => loop'[s] = "ending"
  <2>1. CASE n = Pieces /\ WritePiece(Piece(m, n))
    <3>1. Sent(m)
      BY <1>0, <2>1, PieceFacts DEF WritePiece
    <3> QED
      BY <1>0, <3>1 DEF Sent, CallEnd, TypeOK
  <2>2. CASE WriteFails(Piece(m, n))
    BY <1>0, <2>2 DEF WriteFails, CallEnd, TypeOK
  <2> QED
    BY <2>1, <2>2
<1>4. \A d \in Calls : phase'[d] = phase[d] \/ phase'[d] = "waiting"
  BY <1>0, <1>3 DEF TypeOK
<1>5. SlotsOwed'
  BY <1>0, <1>1, <1>4, SlotsKept DEF TypeOK
<1>6. SendersOwed'
  <2> SUFFICES ASSUME NEW d \in Calls, phase'[d] = "sending"
               PROVE  InHand(Message("call", d))' \/ ending'[The("caller", d)] # "not"
    BY DEF SendersOwed
  <2>1. InHand(Message("call", d)) \/ ending[The("caller", d)] # "not"
    BY <1>4 DEF SendersOwed
  <2>2. CASE m = Message("call", d)
    <3>1. c = d /\ m.type = "call" /\ Sender(m) = The("caller", d)
      BY <2>2, MessageFacts, SenderFacts
    <3> QED
      BY <1>3, <3>1
  <2>3. CASE m # Message("call", d)
    BY <1>2, <1>3, <2>1, <2>3, MessageFacts, GoroutineFacts
  <2> QED
    BY <2>2, <2>3
<1>7. RefusersOwed'
  <2> SUFFICES ASSUME NEW t \in Ends, loop'[t] = "refusing"
               PROVE  \E d \in Calls : Caller[d] # t /\ InHand(Message("refusal", d))'
    BY DEF RefusersOwed
  <2>1. PICK d \in Calls : Caller[d] # t /\ InHand(Message("refusal", d))
    BY <1>3 DEF RefusersOwed
  <2>2. m # Message("refusal", d)
    <3> SUFFICES ASSUME m = Message("refusal", d) PROVE FALSE
      OBVIOUS
    <3>1. m.type = "refusal" /\ s = Peer(Caller[d])
      BY MessageFacts DEF Writer
    <3>2. s = t
      BY <2>1, <3>1, EndFacts, PairAssumption
    <3> QED
      BY <1>3, <3>1, <3>2
  <2> QED
    BY <1>2, <2>1, <2>2, MessageFacts
<1> QED
  BY <1>5, <1>6, <1>7

\* A read loop that has to refuse a call has the refusal in hand.
LEMMA OwedByLoops ==
  ASSUME PairInv, SendersOwed, RefusersOwed, SlotsOwed, NEW s \in Ends,
         LoopStep(s) \/ Close(s) \/ Break
  PROVE  SendersOwed' /\ RefusersOwed' /\ SlotsOwed'
<1>0. /\ TypeOK /\ The("user", s) \in Goroutines /\ The("reader", s) \in Goroutines
      /\ UNCHANGED <<phase, writing>> /\ queued \subseteq queued' /\ slots' \subseteq slots
  BY GoroutineFacts DEF PairInv, Delivery, LoopStep, Read, GotCall, GotReturn, ReadFails, Leave, Close, Break
<1>1. \A m \in Messages : InHand(m) => InHand(m)'
  BY <1>0 DEF InHand, BeingWritten
<1>2. SlotsOwed'
  BY <1>0, SlotsKept
<1>3. \A g \in Goroutines : ending[g] # "not" => ending'[g] # "not"
  <2>1. UNCHANGED ending \/ CallEnd(The("user", s)) \/ CallEnd(The("reader", s))
    BY DEF LoopStep, Read, GotCall, GotReturn, ReadFails, Leave, Close, Break
  <2> QED
    BY <1>0, <2>1 DEF CallEnd, TypeOK
<1>4. CASE loop' # [loop EXCEPT ![s] = "refusing"]
  <2>1. \A t \in Ends : loop'[t] = "refusing" => loop[t] = "refusing"
    <3>1. loop' = loop \/ \E v \in {"ending", "gone", "refusing"} : loop' = [loop EXCEPT ![s] = v]
      BY DEF LoopStep, Read, GotCall, GotReturn, ReadFails, Leave, Close, Break
    <3> QED
      BY <1>0, <1>4, <3>1 DEF TypeOK
  <2> QED
    BY <1>0, <1>1, <1>2, <1>3, <2>1, OwedKept
<1>5. CASE loop' = [loop EXCEPT ![s] = "refusing"]
  <2> DEFINE p == Head(stream[Peer(s)])  c == p.msg.call
  <2>0. loop'[s] = "refusing" /\ \A t \in Ends : t # s => loop'[t] = loop[t]
    BY <1>0, <1>5 DEF TypeOK
  <2>1. CASE loop[s] = "refusing"
    <3>1. \A t \in Ends : loop'[t] = "refusing" => loop[t] = "refusing"
      BY <2>0, <2>1
    <3> QED
      BY <1>0, <1>1, <1>2, <1>3, <3>1, OwedKept
  <2>2. CASE loop[s] # "refusing"
    <3>1. /\ queued' = queued \cup {Message("refusal", c)}
          /\ p.msg.type = "call" /\ stream[Peer(s)] # <<>>
      <4>1. Read(s)
        BY <1>0, <2>0, <2>2 DEF LoopStep, ReadFails, Leave, Close, Break, TypeOK
      <4> QED
        BY <1>0, <2>0, <2>2, <4>1 DEF Read, GotCall, GotReturn, TypeOK
    <3>2. PICK e \in Calls :
            Caller[e] # s /\ queued' = queued \cup {Message("refusal", e)}
      <4>1. Len(stream[Peer(s)]) > 0 /\ p = stream[Peer(s)][1]
        BY <1>0, <3>1, StreamType, EndFacts, WholeByPlace
      <4>2. p.msg \in Messages /\ Writer(p.msg) = Peer(s)
        BY <1>0, <4>1, StreamType, EndFacts DEF PairInv, Delivery, OwnStream
      <4>3. c \in Calls /\ Caller[c] # s
        BY <3>1, <4>2, MessageFacts, EndFacts DEF Writer
      <4> QED
        BY <3>1, <4>3
    <3>3. InHand(Message("refusal", e))'
      BY <3>2 DEF InHand
    <3>4. SendersOwed'
      BY <1>0, <1>1, <1>3, MessageFacts, GoroutineFacts DEF SendersOwed
    <3>5. RefusersOwed'
      BY <1>1, <2>0, <3>2, <3>3, MessageFacts DEF RefusersOwed
    <3> QED
      BY <1>2, <3>4, <3>5
  <2> QED
    BY <2>1, <2>2
<1> QED
  BY <1>4, <1>5

\* A caller that is through with end() goes on to release its slot.
LEMMA OwedByEnders ==
  ASSUME PairInv, SendersOwed, RefusersOwed, SlotsOwed, NEW g \in Goroutines, EndStep(g)
  PROVE  SendersOwed' /\ RefusersOwed' /\ SlotsOwed'
<1> USE DEF EndTest, EndStore, EndFlag, EndClose
<1>0. /\ TypeOK /\ UNCHANGED <<queued, writing, slots>>
      /\ \A m \in Messages : InHand(m) => InHand(m)'
  BY DEF PairInv, Delivery, EndStep, InHand, BeingWritten
<1>1. /\ \A h \in Goroutines : h # g => ending'[h] = ending[h]
      /\ ending'[g] # "not" \/ EndOver(g)
      /\ UNCHANGED <<phase, loop>> \/ EndOver(g)
  BY <1>0 DEF EndStep, EndOver, TypeOK
<1>2. CASE UNCHANGED <<phase, loop>> /\ ending'[g] # "not"
  <2>1. SlotsOwed'
    BY <1>0, <1>2, SlotsKept
  <2> QED
    BY <1>0, <1>1, <1>2, <2>1, OwedKept
<1>3. CASE EndOver(g)
  <2>1. /\ \A d \in Calls : IF g = The("caller", d) THEN phase'[d] = "unsent" ELSE phase'[d] = phase[d]
        /\ \A s \in Ends : loop'[s] = loop[s] \/ loop'[s] = "leaving"
    BY <1>0, <1>3, GoroutineFacts DEF EndOver, TypeOK
  <2>2. SlotsOwed'
    BY <1>0, <2>1, SlotsKept DEF TypeOK
  <2>3. SendersOwed'
    BY <1>0, <1>1, <2>1, MessageFacts, GoroutineFacts DEF SendersOwed
  <2>4. RefusersOwed'
    BY <1>0, <2>1, MessageFacts DEF RefusersOwed
  <2> QED
    BY <2>2, <2>3, <2>4
<1> QED
  BY <1>1, <1>2, <1>3

LEMMA NextOwed == PairInv /\ PairInv' /\ StillOwed /\ [Next]_vars => StillOwed'
<1> SUFFICES ASSUME PairInv, PairInv', SendersOwed, RefusersOwed, SlotsOwed, [Next]_vars
             PROVE  SendersOwed' /\ RefusersOwed' /\ SlotsOwed'
  <2>1. PairInv' => (StillOwed' <=> SendersOwed' /\ RefusersOwed' /\ SlotsOwed')
    BY DEF PairInv, EndsOK, StillOwed, SendersOwed, RefusersOwed, SlotsOwed, Stranded
  <2> QED
    BY <2>1, OwedParts
<1>1. CASE UNCHANGED vars
  BY <1>1 DEF vars, SendersOwed, RefusersOwed, SlotsOwed, InHand, BeingWritten
<1>2. ASSUME NEW c \in Calls, Place(c) \/ GiveUp(c) \/ CallerStep(c) \/ MethodReturns(c)
      PROVE  SendersOwed' /\ RefusersOwed' /\ SlotsOwed'
  BY <1>2, OwedByCallers
<1>3. ASSUME NEW m \in Messages, SendStep(m)
      PROVE  SendersOwed' /\ RefusersOwed' /\ SlotsOwed'
  <2>1. CASE Lock(m)
    BY <2>1, OwedGoesOn
  <2>2. ASSUME NEW n \in 1 .. Pieces, WritePiece(Piece(m, n)) \/ WriteFails(Piece(m, n))
        PROVE  SendersOwed' /\ RefusersOwed' /\ SlotsOwed'
    <3>1. n = Pieces \/ n < Pieces
      BY PieceFacts
    <3> QED
      BY <2>2, <3>1, OwedGoesOn, OwedSent
  <2> QED
    BY <1>3, <2>1, <2>2 DEF SendStep
<1>4. ASSUME NEW s \in Ends, LoopStep(s) \/ Close(s)
      PROVE  SendersOwed' /\ RefusersOwed' /\ SlotsOwed'
  BY <1>4, OwedByLoops
<1>5. ASSUME NEW g \in Goroutines, EndStep(g)
      PROVE  SendersOwed' /\ RefusersOwed' /\ SlotsOwed'
  BY <1>5, OwedByEnders
<1>6. CASE Break
  BY <1>6, OwedByLoops DEF Ends
<1> QED
  BY <1>1, <1>2, <1>3, <1>4, <1>5, <1>6 DEF Next

\* However an end comes about, whoever is not at rest has something in hand or waits
\* for somebody who has, and the only slots that nobody will free are those of calls
\* that are stranded or were given up.
THEOREM AlwaysOwed == Spec => []StillOwed
<1>1. Init => PairInv /\ StillOwed
  <2>1. Init => StillOwed
    BY PairAssumption DEF Init, StillOwed
  <2> QED
    BY <2>1, InitPair
<1>2. PairInv /\ StillOwed /\ [Next]_vars => PairInv' /\ StillOwed'
  BY NextInv, NextOwed
<1> QED
  BY <1>1, <1>2, PTL DEF Spec

-----------------------------------------------------------------------------
(* How a call is stranded *)

\* A call that comes to wait has written its last piece to a socket that was open; if
\* its read loop had gone, connected was cleared, and somebody was about to close.
LEMMA StrandedInWindow ==
  ASSUME PairInv, [Next]_vars, NEW c \in Calls, Stranded(c)', ~Stranded(c)
  PROVE  InTheWindow(Caller[c])
<1>0. /\ TypeOK /\ phase'[c] = "waiting" /\ c \in slots' /\ loop'[Caller[c]] = "gone"
      /\ Caller[c] \in Ends
      /\ ~(phase[c] = "waiting" /\ c \in slots /\ loop[Caller[c]] = "gone")
  BY PairAssumption DEF PairInv, Delivery, Stranded
<1>1. \/ \E m \in Messages, n \in 1 .. Pieces : WritePiece(Piece(m, n)) /\ phase' # phase
      \/ \E s \in Ends : Leave(s)
  <2> SUFFICES ASSUME \A m \in Messages, n \in 1 .. Pieces : ~(WritePiece(Piece(m, n)) /\ phase' # phase),
                      \A s \in Ends : ~Leave(s)
               PROVE  FALSE
    OBVIOUS
  <2>1. CASE UNCHANGED vars
    BY <1>0, <2>1 DEF vars
  <2>2. ASSUME NEW d \in Calls, Place(d) \/ GiveUp(d) \/ CallerStep(d) \/ MethodReturns(d)
        PROVE  FALSE
    BY <1>0, <2>2 DEF Place, GiveUp, CallerStep, Acquire, Return, Release, MethodReturns, TypeOK
  <2>3. ASSUME NEW m \in Messages, SendStep(m)
        PROVE  FALSE
    <3>1. CASE Lock(m)
      BY <1>0, <3>1 DEF Lock
    <3>2. ASSUME NEW n \in 1 .. Pieces, WritePiece(Piece(m, n))
          PROVE  FALSE
      <4>1. UNCHANGED <<phase, slots>>
        BY <3>2 DEF WritePiece
      <4>2. \A t \in Ends : loop'[t] = "gone" => loop[t] = "gone"
        BY <1>0, <3>2 DEF WritePiece, Sent, TypeOK
      <4> QED
        BY <1>0, <4>1, <4>2
    <3>3. ASSUME NEW n \in 1 .. Pieces, WriteFails(Piece(m, n))
          PROVE  FALSE
      BY <1>0, <3>3 DEF WriteFails, TypeOK
    <3> QED
      BY <2>3, <3>1, <3>2, <3>3 DEF SendStep
  <2>4. ASSUME NEW s \in Ends, Read(s) \/ ReadFails(s) \/ Close(s)
        PROVE  FALSE
    BY <1>0, <2>4 DEF Read, GotCall, GotReturn, ReadFails, Close, TypeOK
  <2>5. ASSUME NEW g \in Goroutines, EndStep(g)
        PROVE  FALSE
    BY <1>0, <2>5, GoroutineFacts DEF EndStep, EndTest, EndStore, EndFlag, EndClose, EndOver, TypeOK
  <2>6. CASE Break
    BY <1>0, <2>6 DEF Break
  <2> QED
    BY <2>1, <2>2, <2>3, <2>4, <2>5, <2>6 DEF Next, LoopStep
<1>2. ~ \E s \in Ends : Leave(s)
  BY <1>0 DEF Leave, TypeOK
<1>3. PICK m \in Messages, n \in 1 .. Pieces : WritePiece(Piece(m, n)) /\ phase' # phase
  BY <1>1, <1>2
<1>4. /\ Piece(m, n).msg = m /\ Piece(m, n).part = n /\ m.call \in Calls
      /\ Piece(m, n) \in writing
  BY <1>3, PieceFacts, MessageFacts DEF WritePiece
<1>5. m.type = "call" /\ phase' = [phase EXCEPT ![m.call] = "waiting"] /\ UNCHANGED <<loop, slots>>
  BY <1>3, <1>4, PieceFacts DEF WritePiece, Sent
<1>6. m = Message("call", c)
  <2>1. phase[c] # "waiting"
    BY <1>0, <1>5
  <2> QED
    BY <1>0, <1>4, <1>5, <2>1, MessageFacts, SMTT(20) DEF TypeOK
<1>7. socket[Caller[c]] = "open" /\ loop[Caller[c]] = "gone"
  BY <1>0, <1>3, <1>4, <1>5, <1>6, MessageFacts DEF WritePiece
<1> QED
  BY <1>0, <1>7 DEF PairInv, EndsOK

\* A call is stranded, with a slot that its read loop can not free any more, only by
\* being sent while another goroutine is between clearing connected and closing the
\* socket.
THEOREM StrandsInTheWindow == Spec => OnlyTheWindowStrands
<1>1. PairInv /\ [Next]_vars => \A c \in Calls : Stranded(c)' => Stranded(c) \/ InTheWindow(Caller[c])
  BY StrandedInWindow
<1> QED
  BY <1>1, Invariance, PTL DEF Spec, OnlyTheWindowStrands

-----------------------------------------------------------------------------
(* The pair implements RemoteCall *)

LEMMA StageStep ==
  ASSUME NEW c \in Calls, \A d \in Calls : d # c => phase'[d] = phase[d]
  PROVE  \A v : stageOf'[c] = v => stageOf' = [stageOf EXCEPT ![c] = v]
BY DEF stageOf

LEMMA StageKept ==
  ASSUME \A c \in Calls : \/ phase'[c] = phase[c]
                          \/ /\ phase[c] \in {"placed", "sending", "unsent", "waiting"}
                             /\ phase'[c] \in {"placed", "sending", "unsent", "waiting"}
  PROVE  stageOf' = stageOf
BY DEF stageOf

LEMMA UpFacts ==
  /\ upOf \in BOOLEAN
  /\ PairInv => \A s \in Ends : ~connected[s] \/ endReason[s] => ~upOf
  /\ UNCHANGED <<endReason, network>> => upOf' = upOf
BY DEF upOf, PairInv, EndsOK

LEMMA InitRemote == Init => Remote!RInit
<1> SUFFICES ASSUME Init PROVE Remote!RInit
  OBVIOUS
<1>1. stageOf = [c \in Calls |-> "idle"]
  BY DEF Init, stageOf
<1> QED
  BY <1>1 DEF Init, Remote!RInit, upOf

LEMMA CallerRemote ==
  ASSUME PairInv, PairInv', NEW c \in Calls,
         Place(c) \/ Acquire(c) \/ Return(c) \/ Release(c) \/ GiveUp(c) \/ MethodReturns(c)
  PROVE  Remote!RNext \/ UNCHANGED Remote!rvars
<1>0. /\ phase \in [Calls -> Phases] /\ method \in [Calls -> {"none", "running", "done"}]
      /\ upOf' = upOf /\ Caller[c] \in Ends
  BY UpFacts, PairAssumption
     DEF PairInv, Delivery, TypeOK, Phases, Place, Acquire, Return, Release, GiveUp, MethodReturns
<1>1. CASE Place(c)
  <2>1. /\ phase[c] = "idle" /\ UNCHANGED method
        /\ \A d \in Calls : d # c => phase'[d] = phase[d]
        /\ phase'[c] = (IF connected[Caller[c]] THEN "placed" ELSE "refused")
    BY <1>0, <1>1 DEF Place
  <2>2. stageOf[c] = "idle"
    BY <2>1 DEF stageOf
  <2>3. CASE connected[Caller[c]]
    <3>1. stageOf'[c] = "placed"
      BY <2>1, <2>3 DEF stageOf
    <3> QED
      BY <1>0, <2>1, <2>2, <3>1, StageStep DEF Remote!RNext, Remote!RPlace
  <2>4. CASE ~connected[Caller[c]]
    <3>1. stageOf'[c] = "refused"
      BY <2>1, <2>4 DEF stageOf
    <3>2. ~upOf
      BY <1>0, <2>4, UpFacts
    <3> QED
      BY <1>0, <2>1, <2>2, <3>1, <3>2, StageStep DEF Remote!RNext, Remote!RRefuse
  <2> QED
    BY <2>3, <2>4
<1>2. CASE Acquire(c)
  <2>1. stageOf' = stageOf
    BY <1>0, <1>2, StageKept DEF Acquire
  <2> QED
    BY <1>0, <1>2, <2>1 DEF Acquire, Remote!rvars
<1>3. CASE Return(c) \/ GiveUp(c)
  <2>1. /\ phase[c] = "waiting" /\ UNCHANGED method
        /\ \A d \in Calls : d # c => phase'[d] = phase[d]
        /\ phase'[c] \in {"succeeded", "failed"}
    BY <1>0, <1>3 DEF Return, GiveUp
  <2>2. stageOf[c] = "placed" /\ stageOf'[c] = phase'[c]
    BY <2>1 DEF stageOf
  <2>3. CASE phase'[c] = "succeeded"
    <3>1. method[c] = "done"
      BY <2>1, <2>3 DEF PairInv, Delivery, StagesOK
    <3> QED
      BY <1>0, <2>1, <2>2, <2>3, <3>1, StageStep DEF Remote!RNext, Remote!RSucceed
  <2>4. CASE phase'[c] = "failed"
    <3>1. endReason[Caller[c]] \/ answer[c] = "refusal" \/ c \in Impatient
      BY <1>0, <1>3, <2>4 DEF Return, GiveUp
    <3>2. ~upOf \/ c \in Impatient \/ c \notin Served
      BY <1>0, <3>1, UpFacts DEF PairInv, Delivery, StagesOK
    <3> QED
      BY <1>0, <2>1, <2>2, <2>4, <3>2, StageStep DEF Remote!RNext, Remote!RFail
  <2> QED
    BY <2>1, <2>3, <2>4
<1>4. CASE Release(c)
  <2>1. /\ phase[c] = "unsent" /\ UNCHANGED method
        /\ \A d \in Calls : d # c => phase'[d] = phase[d]
        /\ phase'[c] \in {"failed", "panicked"}
    BY <1>0, <1>4 DEF Release
  <2>2. stageOf[c] = "placed" /\ stageOf'[c] = "failed"
    BY <2>1 DEF stageOf
  <2>3. ~upOf
    BY <1>0, <2>1, UpFacts DEF PairInv, EndsOK
  <2> QED
    BY <1>0, <2>1, <2>2, <2>3, StageStep DEF Remote!RNext, Remote!RFail
<1>5. CASE MethodReturns(c)
  <2>1. stageOf' = stageOf
    BY <1>5, StageKept DEF MethodReturns
  <2> QED
    BY <1>0, <1>5, <2>1 DEF MethodReturns, Remote!RNext, Remote!RFinish
<1> QED
  BY <1>1, <1>2, <1>3, <1>4, <1>5

LEMMA SendRemote ==
  ASSUME PairInv, NEW m \in Messages, SendStep(m)
  PROVE  UNCHANGED Remote!rvars
<1>0. upOf' = upOf /\ UNCHANGED method
  BY UpFacts DEF SendStep, Lock, WritePiece, WriteFails
<1>1. CASE Lock(m) \/ \E n \in 1 .. Pieces : WriteFails(Piece(m, n))
  <2>1. stageOf' = stageOf
    BY <1>1, StageKept DEF Lock, WriteFails
  <2> QED
    BY <1>0, <2>1 DEF Remote!rvars
<1>2. ASSUME NEW p \in PieceSet, WritePiece(p)
      PROVE  UNCHANGED Remote!rvars
  <2>1. p \in writing /\ p.msg \in Messages /\ p.msg.call \in Calls
    BY <1>2, PieceFacts, MessageFacts DEF WritePiece
  <2>2. \/ phase' = phase
        \/ p.msg.type = "call" /\ phase' = [phase EXCEPT ![p.msg.call] = "waiting"]
    BY <1>2 DEF WritePiece, Sent
  <2>3. p.msg.type = "call" => phase[p.msg.call] = "sending"
    BY <2>1, MessageFacts DEF PairInv, Delivery, StagesOK, BeingWritten
  <2>4. phase \in [Calls -> Phases]
    BY DEF PairInv, Delivery, TypeOK, Phases
  <2>5. stageOf' = stageOf
    BY <2>1, <2>2, <2>3, <2>4, StageKept
  <2> QED
    BY <1>0, <2>5 DEF Remote!rvars
<1> QED
  BY <1>1, <1>2, PieceFacts DEF SendStep

LEMMA LoopRemote ==
  ASSUME PairInv, NEW s \in Ends, LoopStep(s) \/ Close(s)
  PROVE  Remote!RNext \/ UNCHANGED Remote!rvars
<1>1. stageOf' = stageOf /\ upOf' = upOf
  BY StageKept, UpFacts DEF LoopStep, Read, ReadFails, Leave, Close
<1>2. CASE ReadFails(s) \/ Leave(s) \/ Close(s)
  BY <1>1, <1>2 DEF ReadFails, Leave, Close, Remote!rvars
<1>3. CASE Read(s)
  <2> DEFINE p == Head(stream[Peer(s)])
             c == p.msg.call
  <2>1. UNCHANGED phase
    BY <1>3 DEF Read
  <2>2. CASE method' = method
    BY <1>1, <2>2 DEF Remote!rvars
  <2>3. CASE method' # method
    <3>1. /\ p.msg.type = "call" /\ c \in Served /\ method' = [method EXCEPT ![c] = "running"]
          /\ stream[Peer(s)] # <<>>
      BY <1>3, <2>3 DEF Read, GotCall, GotReturn
    <3>2. Peer(s) \in Ends /\ stream[Peer(s)] \in Seq(PieceSet)
      BY EndFacts, StreamType DEF PairInv, Delivery
    <3>3. Len(stream[Peer(s)]) > 0 /\ p = stream[Peer(s)][1] /\ Len(stream[Peer(s)]) \in Nat
      BY <3>1, <3>2, WholeByPlace, StreamType DEF PairInv, Delivery
    <3>4. p.msg \in Messages /\ Writer(p.msg) = Peer(s)
      BY <3>2, <3>3, StreamType DEF PairInv, Delivery, OwnStream
    <3>5. p.msg = Message("call", c) /\ c \in Calls /\ InStream(p.msg)
      BY <3>1, <3>3, <3>4, MessageFacts DEF InStream
    <3>6. method[c] = "none" /\ phase[c] \notin {"idle", "refused", "placed", "succeeded"}
      BY <3>5 DEF PairInv, Delivery, StagesOK, UnderWay
    <3>7. stageOf[c] \in {"placed", "failed"}
      BY <3>5, <3>6 DEF stageOf, PairInv, Delivery, TypeOK
    <3> QED
      BY <1>1, <2>1, <3>1, <3>5, <3>6, <3>7 DEF Remote!RNext, Remote!RStart
  <2> QED
    BY <2>2, <2>3
<1> QED
  BY <1>2, <1>3 DEF LoopStep

LEMMA EndRemote ==
  ASSUME PairInv, NEW g \in Goroutines, EndStep(g)
  PROVE  Remote!RNext \/ UNCHANGED Remote!rvars
<1>0. /\ phase \in [Calls -> Phases] /\ UNCHANGED method
      /\ ending[g] # "not" /\ EndOf(g) \in Ends
  BY GoroutineFacts
     DEF PairInv, Delivery, TypeOK, Phases, EndStep, EndTest, EndStore, EndFlag, EndClose
<1>1. g.role = "caller" => phase[g.of] = "sending"
  BY <1>0, GoroutineFacts DEF PairInv, EndersOK
<1>2. phase' = phase \/ (g.role = "caller" /\ phase' = [phase EXCEPT ![g.of] = "unsent"])
  BY DEF EndStep, EndTest, EndStore, EndFlag, EndClose, EndOver
<1>3. stageOf' = stageOf
  BY <1>0, <1>1, <1>2, StageKept
<1>4. CASE EndStore(g)
  <2>1. endReason'[EndOf(g)]
    BY <1>0, <1>4 DEF EndStore, PairInv, Delivery, TypeOK
  <2>2. upOf' = FALSE
    BY <1>0, <2>1 DEF upOf
  <2> QED
    BY <1>0, <1>3, <2>2 DEF Remote!RNext, Remote!REnds
<1>5. CASE EndTest(g) \/ EndFlag(g) \/ EndClose(g)
  <2>1. upOf' = upOf
    BY <1>5, UpFacts DEF EndTest, EndFlag, EndClose
  <2> QED
    BY <1>0, <1>3, <2>1 DEF Remote!rvars
<1> QED
  BY <1>4, <1>5 DEF EndStep

LEMMA NextRemote == PairInv /\ PairInv' /\ [Next]_vars => [Remote!RNext]_Remote!rvars
<1> SUFFICES ASSUME PairInv, PairInv', [Next]_vars
             PROVE  Remote!RNext \/ UNCHANGED Remote!rvars
  OBVIOUS
<1>1. CASE UNCHANGED vars
  BY <1>1 DEF vars, Remote!rvars, stageOf, upOf
<1>2. CASE Break
  <2>1. stageOf' = stageOf /\ UNCHANGED method
    BY <1>2, StageKept DEF Break
  <2>2. upOf' = FALSE
    BY <1>2 DEF Break, upOf
  <2> QED
    BY <2>1, <2>2 DEF Remote!RNext, Remote!REnds
<1> QED
  BY <1>1, <1>2, CallerRemote, SendRemote, LoopRemote, EndRemote DEF Next, CallerStep

\* Whatever messages, locks, buffers and read loops do in between, the two ends run a
\* method once at most and only for a call that was placed, a call that succeeds had
\* it run, and one that fails has a reason.
THEOREM ImplementsCall == Spec => ImplementsRemoteCall
<1>1. Init => Remote!RInit
  BY InitRemote
<1>2. PairInv /\ PairInv' /\ [Next]_vars => [Remote!RNext]_Remote!rvars
  BY NextRemote
<1> QED
  BY <1>1, <1>2, Invariance, PTL DEF Spec, ImplementsRemoteCall, Remote!RSpec

=============================================================================
