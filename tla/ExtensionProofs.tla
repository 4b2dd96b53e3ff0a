--------------------------- MODULE ExtensionProofs ---------------------------
(***************************************************************************)
(* Theorems about Serving and about Backoff, the two modules that add to   *)
(* Lifecycle, for any number of dials, calls and options and for any       *)
(* delays.  The steps of both are steps of Lifecycle, so that LInv holds   *)
(* of them by LifecycleProofs.  What is added to it is, for Serving, that  *)
(* a method's reply has somewhere to go home to and, for Backoff, where    *)
(* the delays are.                                                         *)
(***************************************************************************)
EXTENDS Serving, Backoff, LifecycleProofs

-----------------------------------------------------------------------------
(* Serving *)

\* The calls that are being served came in on a socket whose read loop has run, and
\* unless the socket's object has been given another one, it still holds that socket.
MethodsAtHome ==
    \A m \in methods :
        /\ pc[Loop(m.call.socket)] # "none"
        /\ connOf[m.object] = m.call.socket \/ m.call.socket \in displaced

\* The inductive invariant.
SInv == LInv /\ STypeOK /\ MethodsAtHome /\ RepliesComeHome

LEMMA CallFacts ==
    /\ \A m \in [call : Calls, object : Objects] :
         /\ m.call \in Calls /\ m.call.socket \in Sockets /\ m.call.id \in IDs
         /\ m.object \in Objects /\ m.call # Unanswered
    /\ \A c \in Calls : c = [socket |-> c.socket, id |-> c.id]
    /\ \A s \in Sockets : Loop(s) \in Loops /\ Loop(s) \in Procs
    /\ Nil \notin Sockets
  BY Names, Numbers DEF Calls, Unanswered

\* Goroutines that have started do not unstart.
LEMMA Started ==
  ASSUME LInv, [Next]_vars, NEW q \in Loops, pc'[q] = "none"
  PROVE  pc[q] = "none"
<1> SUFFICES ASSUME pc[q] # "none" PROVE FALSE
  OBVIOUS
<1>0. q \in Procs /\ TypeOK /\ ControlOK /\ Loops \subseteq Procs
  BY Names DEF LInv
<1>1. ASSUME NEW p \in Procs, EndStep(p) PROVE FALSE
  <2>1. \E l \in {"endFlag", "endCheck", "endClose", goesTo[p]} : pc' = [pc EXCEPT ![p] = l]
    BY <1>1 DEF EndStep, EndTest, EndFlag, EndCheck, EndClose, Goto
  <2>2. pc[p] \in EndPCs
    BY <1>1 DEF EndStep, EndTest, EndFlag, EndCheck, EndClose, At, EndPCs
  <2>3. goesTo[p] # "none"
    BY <1>0, <2>2, Names DEF ControlOK
  <2> QED
    BY <1>0, <2>1, <2>3 DEF TypeOK
<1>2. ASSUME NEW g \in 0 .. MaxDials, DialStep(g) PROVE FALSE
  <2>1. Loop(g) \in Procs
    BY Names
  <2>2. CASE PreambleSent(g)
    BY <1>0, <2>1, <2>2 DEF PreambleSent, TypeOK
  <2>3. CASE ConnectReturns(g)
    <3>1. \/ pc' = [pc EXCEPT ![Loop(g)] = "gone"]
          \/ pc' = [pc EXCEPT ![Loop(g)] = "gone", ![Hook(dialed[Loop(g)])] = "running"]
      BY <2>3 DEF ConnectReturns, Goto
    <3> QED
      BY <1>0, <2>1, <3>1 DEF TypeOK
  <2>4. CASE DialStart(g) \/ DialFails(g) \/ DialGivesUp(g) \/ DialSucceeds(g) \/ Refresh(g)
             \/ Install(g) \/ PreambleFails(g) \/ BackoffEnds(g)
    <3>1. \E l \in {"gone", "dialing", "backoff", "refresh", "install", "preamble"} :
            pc' = [pc EXCEPT ![Loop(g)] = l]
      BY <2>4 DEF DialStart, DialFails, DialGivesUp, DialSucceeds, Refresh, Install,
                  PreambleFails, BackoffEnds, Goto
    <3> QED
      BY <1>0, <2>1, <3>1 DEF TypeOK
  <2> QED
    BY <1>2, <2>2, <2>3, <2>4 DEF DialStep
<1>3. ASSUME NEW s \in Sockets, LoopStep(s) \/ HookStep(s) PROVE FALSE
  <2>1. Loop(s) \in Procs /\ Hook(s) \in Procs
    BY Names
  <2>2. \E p \in {Loop(s), Hook(s)} :
          \E l \in {"endTest", "reading", "disconnecting", "dial", "gone", "markReady"} :
            pc' = [pc EXCEPT ![p] = l]
    BY <1>3 DEF LoopStep, LoopStarts, LoopFails, LoopCleansUp, LoopRedials, HookStep,
                HookReturns, HookMarksReady, CallEnd, Goto
  <2> QED
    BY <1>0, <2>1, <2>2 DEF TypeOK
<1>4. ASSUME CloseDone \/ CloseEnds PROVE FALSE
  <2>1. \E l \in {"closing", "endTest"} : pc' = [pc EXCEPT ![Closer] = l]
    BY <1>4 DEF CloseDone, CloseEnds, CallEnd, Goto
  <2> QED
    BY <1>0, <2>1 DEF TypeOK
<1>5. CASE UNCHANGED pc
  BY <1>5
<1> QED
  BY <1>1, <1>2, <1>3, <1>4, <1>5, NextSteps DEF PeerLost, vars

\* What the life cycle does to the objects' net.Conns: they are installed, which puts
\* the one that was there among the displaced, or given up with the preamble.
LEMMA ConnsMove ==
  ASSUME LInv, [Next]_vars
  PROVE  /\ displaced \subseteq displaced'
         /\ \A o \in Objects :
              \/ connOf'[o] = connOf[o]
              \/ connOf[o] = Nil
              \/ connOf[o] \in displaced'
              \/ pc[Loop(connOf[o])] = "none"
<1>0. TypeOK /\ SocketsOK /\ OwnerOK
  BY DEF LInv
<1>1. CASE UNCHANGED <<connOf, displaced>>
  BY <1>1
<1>2. ASSUME NEW g \in 0 .. MaxDials, Install(g)
      PROVE  /\ displaced \subseteq displaced'
             /\ \A o \in Objects : connOf'[o] = connOf[o] \/ connOf[o] = Nil
                                   \/ connOf[o] \in displaced'
  <2>1. /\ connOf' = [connOf EXCEPT ![obj[Loop(g)]] = dialed[Loop(g)]]
        /\ displaced' = displaced \cup ({connOf[obj[Loop(g)]]} \ {Nil})
    BY <1>2 DEF Install
  <2> QED
    BY <1>0, <2>1 DEF TypeOK
<1>3. ASSUME NEW g \in 0 .. MaxDials, PreambleFails(g)
      PROVE  /\ UNCHANGED displaced
             /\ \A o \in Objects : connOf'[o] = connOf[o] \/ pc[Loop(connOf[o])] = "none"
  <2>1. /\ pc[Loop(g)] = "preamble" /\ UNCHANGED displaced
        /\ connOf' = [connOf EXCEPT ![obj[Loop(g)]] = Nil]
    BY <1>3 DEF PreambleFails, At, notes
  <2>2. Loop(g) \in Loops
    BY Names
  <2>3. obj[Loop(g)] = cur /\ connOf[cur] = dialed[Loop(g)] /\ pc[Loop(dialed[Loop(g)])] = "none"
    BY <1>0, <2>1, <2>2 DEF OwnerOK, SocketsOK, Connecting
  <2> QED
    BY <1>0, <2>1, <2>3 DEF TypeOK
<1>4. \/ UNCHANGED <<connOf, displaced>>
      \/ \E g \in 0 .. MaxDials : Install(g) \/ PreambleFails(g)
  <2>1. ASSUME NEW p \in Procs, EndStep(p) PROVE UNCHANGED <<connOf, displaced>>
    BY <2>1 DEF EndStep, EndTest, EndFlag, EndCheck, EndClose, objects, notes
  <2>2. ASSUME NEW g \in 0 .. MaxDials, DialStep(g)
        PROVE  Install(g) \/ PreambleFails(g) \/ UNCHANGED <<connOf, displaced>>
    BY <2>2 DEF DialStep, DialStart, DialFails, DialGivesUp, DialSucceeds, Refresh,
                PreambleSent, ConnectReturns, BackoffEnds, objects, notes
  <2>3. ASSUME NEW s \in Sockets, LoopStep(s) \/ HookStep(s) \/ PeerLost(s)
        PROVE  UNCHANGED <<connOf, displaced>>
    BY <2>3 DEF LoopStep, LoopStarts, LoopFails, LoopCleansUp, LoopRedials, HookStep,
                HookReturns, HookMarksReady, PeerLost, objects, notes
  <2>4. ASSUME CloseDone \/ CloseEnds PROVE UNCHANGED <<connOf, displaced>>
    BY <2>4 DEF CloseDone, CloseEnds, objects, notes
  <2>5. CASE UNCHANGED vars
    BY <2>5 DEF vars
  <2> QED
    BY <2>1, <2>2, <2>3, <2>4, <2>5, NextSteps
<1> QED
  BY <1>1, <1>2, <1>3, <1>4

\* So a step of the life cycle leaves every method at home, or on record.
LEMMA LifeHome ==
  ASSUME SInv, [Next]_vars, UNCHANGED svars
  PROVE  SInv'
<1>1. LInv'
  BY NextInv DEF SInv
<1>2. TypeOK'
  BY <1>1 DEF LInv
<1>3. STypeOK'
  BY <1>2 DEF SInv, STypeOK, svars
<1>4. displaced \subseteq displaced'
  BY ConnsMove DEF SInv
<1>5. MethodsAtHome'
  <2> SUFFICES ASSUME NEW m \in methods
               PROVE  /\ pc'[Loop(m.call.socket)] # "none"
                      /\ connOf'[m.object] = m.call.socket \/ m.call.socket \in displaced'
    BY DEF MethodsAtHome, svars
  <2>1. /\ m.call.socket \in Sockets /\ m.object \in Objects
        /\ Loop(m.call.socket) \in Loops /\ m.call.socket # Nil
    BY CallFacts DEF SInv, STypeOK
  <2>2. /\ pc[Loop(m.call.socket)] # "none"
        /\ connOf[m.object] = m.call.socket \/ m.call.socket \in displaced
    BY DEF SInv, MethodsAtHome
  <2>3. pc'[Loop(m.call.socket)] # "none"
    BY <2>1, <2>2, Started DEF SInv
  <2>4. \/ connOf'[m.object] = connOf[m.object]
        \/ connOf[m.object] = Nil
        \/ connOf[m.object] \in displaced'
        \/ pc[Loop(connOf[m.object])] = "none"
    BY <2>1, ConnsMove DEF SInv
  <2> QED
    BY <1>4, <2>1, <2>2, <2>3, <2>4
<1>6. RepliesComeHome'
  BY <1>4 DEF SInv, RepliesComeHome, svars
<1> QED
  BY <1>1, <1>3, <1>5, <1>6 DEF SInv

\* A peer's call is one more that may be answered.
LEMMA AskHome ==
  ASSUME SInv, NEW s \in Sockets, Ask(s)
  PROVE  SInv'
<1>1. UNCHANGED vars
  BY DEF Ask, vars
<1>2. LInv'
  BY <1>1, NextInv DEF SInv
<1>3. asked' \in [Sockets -> SUBSET IDs]
  BY DEF Ask, SInv, STypeOK
<1>4. STypeOK'
  BY <1>2, <1>3 DEF LInv, Ask, SInv, STypeOK
<1>5. MethodsAtHome' /\ RepliesComeHome'
  BY <1>1 DEF vars, Ask, SInv, MethodsAtHome, RepliesComeHome
<1> QED
  BY <1>2, <1>4, <1>5 DEF SInv

\* A method starts at home: the read loop's object holds the read loop's socket.
LEMMA ReceiveHome ==
  ASSUME SInv, NEW s \in Sockets, Receive(s)
  PROVE  SInv'
<1> DEFINE o == obj[Loop(s)]
<1>1. UNCHANGED vars /\ UNCHANGED <<asked, reply, nilWrite>>
  BY DEF Receive, vars
<1>2. LInv'
  BY <1>1, NextInv DEF SInv
<1>3. pc[Loop(s)] = "reading" /\ connOf[o] = s
  BY DEF Receive
<1>4. o \in Objects
  BY <1>3, CallFacts DEF SInv, LInv, TypeOK, ObjectsOK, Using
<1>5. PICK n \in IDs : /\ received' = [received EXCEPT ![s] = @ \cup {n}]
                       /\ methods' = methods \cup
                            {[call |-> [socket |-> s, id |-> n], object |-> o]}
  BY DEF Receive, SInv, STypeOK
<1>6. STypeOK'
  BY <1>1, <1>2, <1>4, <1>5 DEF LInv, SInv, STypeOK, Calls
<1>7. MethodsAtHome'
  BY <1>1, <1>3, <1>5 DEF vars, SInv, MethodsAtHome
<1>8. RepliesComeHome'
  BY <1>1 DEF vars, SInv, RepliesComeHome
<1> QED
  BY <1>2, <1>6, <1>7, <1>8 DEF SInv

\* A method that returns touches no goroutine of the life cycle, and uses no new socket.
LEMMA AnswerLife ==
  ASSUME SInv, NEW m \in methods, Answer(m)
  PROVE  LInv'
<1> DEFINE r == connOf[m.object]
<1>1. UNCHANGED <<options, done, cur, allocated, ready, connOf, pc, obj, dialed, goesTo,
                  notified, bornDead, displaced, crash>>
  BY DEF Answer
<1>2. TypeOK /\ ControlOK /\ SocketsOK /\ ObjectsOK /\ OwnerOK /\ ChargeOK
      /\ MarkersOK /\ LeaversOK /\ ClosersOK /\ PanicCauses
  BY DEF SInv, LInv
<1>3. /\ m.object \in Objects /\ r \in Sockets \cup {Nil}
      /\ r # Nil => sock[r] # "unused"
  BY <1>2, CallFacts DEF SInv, STypeOK, TypeOK, SocketsOK
<1>4. \/ UNCHANGED sock
      \/ r \in Sockets /\ \E l \in {"lost", "closed"} : sock' = [sock EXCEPT ![r] = l]
  BY <1>3 DEF Answer, Deliver
<1>5. connected' \in [Objects -> BOOLEAN]
  BY <1>2, <1>3 DEF Answer, TypeOK
<1>6. /\ sock' \in [Sockets -> {"unused", "open", "lost", "closed"}]
      /\ \A s \in Sockets : sock'[s] = "unused" <=> sock[s] = "unused"
  <2>1. sock \in [Sockets -> {"unused", "open", "lost", "closed"}]
    BY <1>2 DEF TypeOK
  <2>2. CASE UNCHANGED sock
    BY <2>1, <2>2
  <2>3. ASSUME NEW l \in {"lost", "closed"}, r \in Sockets, sock' = [sock EXCEPT ![r] = l]
        PROVE  /\ sock' \in [Sockets -> {"unused", "open", "lost", "closed"}]
               /\ \A s \in Sockets : sock'[s] = "unused" <=> sock[s] = "unused"
    <3>1. sock[r] # "unused"
      BY <1>3, <2>3, CallFacts
    <3> QED
      BY <2>1, <2>3, <3>1
  <2> QED
    BY <1>4, <2>2, <2>3
<1>7. TypeOK'
  BY <1>1, <1>2, <1>5, <1>6 DEF TypeOK
<1>8. SocketsOK'
  BY <1>1, <1>2, <1>6, SocketsKept DEF Connecting
<1>9. ControlOK' /\ ObjectsOK' /\ OwnerOK'
  BY <1>1, <1>2 DEF ControlOK, ObjectsOK, OwnerOK
<1>10. ChargeOK'
  BY <1>1, <1>2 DEF ChargeOK, OneInCharge, InCharge
<1>11. MarkersOK' /\ PanicCauses'
  BY <1>1, <1>2 DEF MarkersOK, Markers, Unmarked, PanicCauses
<1>12. LeaversOK' /\ ClosersOK'
  BY <1>1, <1>2 DEF LeaversOK, ClosersOK
<1> QED
  BY <1>7, <1>8, <1>9, <1>10, <1>11, <1>12 DEF LInv

\* Its reply goes to the socket of its object, which is the one that the call came in
\* on or comes after it.
LEMMA AnswerHome ==
  ASSUME SInv, NEW m \in methods, Answer(m)
  PROVE  SInv'
<1> DEFINE r == connOf[m.object]
<1>1. LInv'
  BY AnswerLife
<1>2. UNCHANGED <<connOf, pc, displaced, asked, received>> /\ methods' = methods \ {m}
  BY DEF Answer
<1>3. /\ m.call \in Calls /\ m.call.socket \in Sockets /\ m.call.id \in IDs
      /\ m.call = [socket |-> m.call.socket, id |-> m.call.id]
      /\ r \in Sockets \cup {Nil}
  BY CallFacts DEF SInv, STypeOK, LInv, TypeOK
<1>4. r = m.call.socket \/ m.call.socket \in displaced
  BY DEF SInv, MethodsAtHome
<1>5. \/ UNCHANGED reply
      \/ r \in Sockets /\ reply' = [reply EXCEPT ![r][m.call.id] = m.call]
  BY <1>3 DEF Answer, Deliver
<1>6. UNCHANGED nilWrite \/ (nilWrite' = TRUE /\ r = Nil)
  BY ZenonT(30) DEF Answer
<1>7. reply \in [Sockets -> [IDs -> Calls \cup {Unanswered}]]
  BY DEF SInv, STypeOK
<1>8. reply' \in [Sockets -> [IDs -> Calls \cup {Unanswered}]]
  BY <1>3, <1>5, <1>7
<1>9. STypeOK'
  <2>1. TypeOK'
    BY <1>1 DEF LInv
  <2>2. nilWrite' \in BOOLEAN
    BY <1>6 DEF SInv, STypeOK
  <2> QED
    BY <1>2, <1>8, <2>1, <2>2 DEF SInv, STypeOK
<1>10. MethodsAtHome'
  BY <1>2 DEF SInv, MethodsAtHome
<1>11. \A s \in Sockets, n \in IDs :
         reply'[s][n] \notin {Unanswered, [socket |-> s, id |-> n]}
            => reply'[s][n].socket \in displaced
  <2> SUFFICES ASSUME NEW s \in Sockets, NEW n \in IDs,
                      reply'[s][n] \notin {Unanswered, [socket |-> s, id |-> n]}
               PROVE  reply'[s][n].socket \in displaced
    OBVIOUS
  <2>1. CASE reply'[s][n] = reply[s][n]
    BY <2>1 DEF SInv, RepliesComeHome
  <2>2. CASE reply'[s][n] # reply[s][n]
    <3>1. reply'[s][n] = m.call /\ s = r /\ n = m.call.id
      BY <1>5, <1>7, <2>2
    <3>2. m.call.socket # r
      BY <1>3, <3>1
    <3> QED
      BY <1>4, <3>1, <3>2
  <2> QED
    BY <2>1, <2>2
<1>12. nilWrite' => displaced # {}
  BY <1>3, <1>4, <1>6, CallFacts DEF SInv, RepliesComeHome
<1>13. RepliesComeHome'
  BY <1>2, <1>11, <1>12 DEF RepliesComeHome
<1> QED
  BY <1>1, <1>9, <1>10, <1>13 DEF SInv

-----------------------------------------------------------------------------
\* The initial state and every step satisfy SInv.
THEOREM ServingInvariance == SSpec => []SInv
<1>1. SInit => SInv
  <2> SUFFICES ASSUME SInit PROVE SInv
    OBVIOUS
  <2>1. LInv
    BY InitInv DEF SInit
  <2>2. STypeOK
    BY <2>1 DEF LInv, SInit, STypeOK
  <2>3. MethodsAtHome
    BY DEF SInit, MethodsAtHome
  <2>4. RepliesComeHome
    BY DEF SInit, RepliesComeHome
  <2> QED
    BY <2>1, <2>2, <2>3, <2>4 DEF SInv
<1>2. SInv /\ [SNext]_allvars => SInv'
  <2> SUFFICES ASSUME SInv, [SNext]_allvars PROVE SInv'
    OBVIOUS
  <2>1. CASE [Next]_vars /\ UNCHANGED svars
    BY <2>1, LifeHome
  <2> QED
    BY <2>1, AskHome, ReceiveHome, AnswerHome DEF SNext, allvars
<1> QED
  BY <1>1, <1>2, PTL DEF SSpec

\* Whatever the dialer, the peers and the methods do, a call gets its own reply, or one
\* from a socket whose object was dialled anew before its connect hook had returned; and
\* only then can a reply be written to a nil net.Conn.
THEOREM RepliesGoHome == SSpec => []RepliesComeHome
<1>1. SInv => RepliesComeHome
  BY DEF SInv
<1> QED
  BY <1>1, ServingInvariance, PTL

\* The life cycle keeps its invariant among the calls it serves: a method that ends a
\* connection is not a read loop, but all that LInv says still holds.
THEOREM LifeSurvivesServing == SSpec => [](OneInCharge /\ LoopOwnsSocket)
<1>1. SInv => OneInCharge /\ LoopOwnsSocket
  BY DEF SInv, LInv, ChargeOK, OwnerOK, LoopOwnsSocket
<1> QED
  BY <1>1, ServingInvariance, PTL

-----------------------------------------------------------------------------
(* Backoff *)

\* A delay between the two of the options, in either order.
InRange(d) == d \in delays.start .. delays.max \/ d \in delays.max .. delays.start

\* Delays are kept in objects that exist, and a delay that was ever set is in range.
DelaysOK ==
    /\ delays \in Delays
    /\ curDelay \in [Objects -> Nat]
    /\ connectTime \in [Objects -> {"zero", "recent", "past"}]
    /\ cc \in [0 .. MaxDials -> Objects \cup {0}]
    /\ \A g \in 0 .. MaxDials : cc[g] <= allocated
    /\ \A o \in Objects : curDelay[o] = 0 \/ InRange(curDelay[o])

\* The dial() that goes on has an object in hand whose delay was set.  The goroutine
\* that only connects options.Conn has none, and does not dial.
InHandOK ==
    \A g \in 0 .. MaxDials :
        IF options.conn /\ g = 0
        THEN pc[Loop(g)] \notin {"dial", "dialing", "backoff"}
        ELSE pc[Loop(g)] \in DialPCs \ {"dial"} => cc[g] \in Objects /\ curDelay[cc[g]] # 0

\* As long as no delay grew in an object that had been replaced, the one in the current
\* object was never set or is the latest, and whoever dials has that object in hand.
GrowthOK ==
    ~strayed =>
        /\ curDelay[cur] = 0 \/ curDelay[cur] = grown
        /\ \A g \in 0 .. MaxDials : pc[Loop(g)] = "dialing" => cc[g] = cur

\* The inductive invariant.
BInv == LInv /\ DelaysOK /\ InHandOK /\ GrowthOK

\* Every step is one of the life cycle.
LEMMA StepOfLife ==
  ASSUME [BNext]_<<vars, bvars>>
  PROVE  [Next]_vars
<1>1. ASSUME NEW g \in 0 .. MaxDials, BDialStep(g) PROVE DialStep(g)
  BY <1>1 DEF BDialStep, StartDelay, KeepDelay, GrowDelay, OtherDialStep, DialStep
<1>2. ASSUME NEW s \in Sockets, LoopStep(s) \/ HookStep(s) \/ PeerLost(s) PROVE Next
  BY <1>2 DEF Next
<1>3. ASSUME NEW p \in Procs, EndStep(p) PROVE Next
  BY <1>3 DEF Next
<1>4. CASE CloseDone \/ CloseEnds
  BY <1>4 DEF Next
<1>5. CASE UNCHANGED <<vars, bvars>>
  BY <1>5
<1> QED
  BY <1>1, <1>2, <1>3, <1>4, <1>5 DEF BNext, Next

\* Setting and growing a delay leave it in range.
LEMMA StartInRange ==
  ASSUME delays \in Delays
  PROVE  delays.start \in Nat \ {0} /\ delays.max \in Nat \ {0} /\ InRange(delays.start)
<1>1. delays.start \in Nat \ (0 .. 3) /\ delays.max \in Nat \ (0 .. 3)
  BY DelaysAssumption
<1> QED
  BY <1>1 DEF InRange

LEMMA GrownInRange ==
  ASSUME delays \in Delays, NEW d \in Nat, InRange(d)
  PROVE  Grown(d) \in Nat \ {0} /\ InRange(Grown(d))
  BY StartInRange DEF InRange, Grown

\* Which loops are at which point after one loop has moved.
LEMMA LoopMoved ==
  ASSUME TypeOK, NEW g \in 0 .. MaxDials, NEW l, pc' = [pc EXCEPT ![Loop(g)] = l]
  PROVE  /\ pc'[Loop(g)] = l
         /\ \A h \in 0 .. MaxDials : h # g => pc'[Loop(h)] = pc[Loop(h)]
<1>1. /\ Loop(g) \in Procs
      /\ \A h \in 0 .. MaxDials : Loop(h) \in Procs /\ (Loop(h) = Loop(g) => h = g)
  BY Names
<1> QED
  BY <1>1 DEF TypeOK

\* A loop that dials again does so because it has read: it is not the first one.
LEMMA OthersKeepDialling ==
  ASSUME LInv, UNCHANGED bvars,
         \/ \E p \in Procs : EndStep(p)
         \/ \E s \in Sockets : LoopStep(s) \/ HookStep(s) \/ PeerLost(s)
         \/ CloseDone \/ CloseEnds
         \/ UNCHANGED vars
  PROVE  /\ UNCHANGED <<options, cur, allocated>>
         /\ \A g \in 0 .. MaxDials :
              \/ pc'[Loop(g)] = pc[Loop(g)]
              \/ pc'[Loop(g)] = "dial" /\ g # 0
              \/ pc'[Loop(g)] \notin DialPCs
<1>0. /\ TypeOK /\ ControlOK
      /\ \A g \in 0 .. MaxDials : Loop(g) \in Loops /\ Loop(g) \in Procs
  BY Names DEF LInv
<1>1. ASSUME NEW p \in Procs, EndStep(p)
      PROVE  /\ UNCHANGED <<options, cur, allocated>>
             /\ \A g \in 0 .. MaxDials :
                  pc'[Loop(g)] = pc[Loop(g)] \/ pc'[Loop(g)] \notin DialPCs
  <2>1. PICK l \in {"endFlag", "endCheck", "endClose", goesTo[p]} : pc' = [pc EXCEPT ![p] = l]
    BY <1>1 DEF EndStep, EndTest, EndFlag, EndCheck, EndClose, Goto
  <2>2. pc[p] \in EndPCs /\ UNCHANGED <<options, cur, allocated>>
    BY <1>1 DEF EndStep, EndTest, EndFlag, EndCheck, EndClose, At, EndPCs, objects, notes
  <2>3. l \notin DialPCs
    BY <1>0, <2>1, <2>2, Names DEF ControlOK, DialPCs
  <2> QED
    BY <1>0, <2>1, <2>2, <2>3 DEF TypeOK
<1>2. ASSUME NEW s \in Sockets, LoopStep(s) \/ HookStep(s)
      PROVE  /\ UNCHANGED <<options, cur, allocated>>
             /\ \A g \in 0 .. MaxDials :
                  \/ pc'[Loop(g)] = pc[Loop(g)]
                  \/ pc'[Loop(g)] = "dial" /\ g # 0
                  \/ pc'[Loop(g)] \notin DialPCs
  <2>1. UNCHANGED <<options, cur, allocated>>
    BY <1>2 DEF LoopStep, LoopStarts, LoopFails, LoopCleansUp, LoopRedials, HookStep,
                HookReturns, HookMarksReady, CallEnd, objects, notes
  <2>2. /\ s \in 0 .. MaxDials /\ s # 0 /\ Hook(s) \in Procs /\ Hook(s) \notin Loops
        /\ \A g \in 0 .. MaxDials : Loop(g) = Loop(s) => g = s
    BY Names, Numbers
  <2>3. \E p \in {Loop(s), Hook(s)} :
          \E l \in {"endTest", "reading", "disconnecting", "dial", "gone", "markReady"} :
            pc' = [pc EXCEPT ![p] = l]
    BY <1>2 DEF LoopStep, LoopStarts, LoopFails, LoopCleansUp, LoopRedials, HookStep,
                HookReturns, HookMarksReady, CallEnd, Goto
  <2>4. PICK p \in {Loop(s), Hook(s)} :
          \E l \in {"endTest", "reading", "disconnecting", "dial", "gone", "markReady"} :
            pc' = [pc EXCEPT ![p] = l]
    BY <2>3
  <2>5. PICK l \in {"endTest", "reading", "disconnecting", "dial", "gone", "markReady"} :
          pc' = [pc EXCEPT ![p] = l]
    BY <2>4
  <2>6. ASSUME NEW g \in 0 .. MaxDials
        PROVE  \/ pc'[Loop(g)] = pc[Loop(g)]
               \/ pc'[Loop(g)] = "dial" /\ g # 0
               \/ pc'[Loop(g)] \notin DialPCs
    <3>1. CASE p = Loop(g)
      <4>1. pc'[Loop(g)] = l
        BY <1>0, <2>5, <3>1 DEF TypeOK
      <4>2. g = s
        BY <1>0, <2>2, <3>1
      <4> QED
        BY <2>2, <4>1, <4>2 DEF DialPCs
    <3>2. CASE p # Loop(g)
      BY <1>0, <2>5, <3>2 DEF TypeOK
    <3> QED
      BY <3>1, <3>2
  <2> QED
    BY <2>1, <2>6
<1>3. ASSUME CloseDone \/ CloseEnds
      PROVE  /\ UNCHANGED <<options, cur, allocated>>
             /\ \A g \in 0 .. MaxDials : pc'[Loop(g)] = pc[Loop(g)]
  <2>1. \E l : pc' = [pc EXCEPT ![Closer] = l]
    BY <1>3 DEF CloseDone, CloseEnds, CallEnd, Goto
  <2>2. \A g \in 0 .. MaxDials : Loop(g) # Closer
    BY <1>0, Names
  <2>3. UNCHANGED <<options, cur, allocated>>
    BY <1>3 DEF CloseDone, CloseEnds, objects, notes
  <2> QED
    BY <1>0, <2>1, <2>2, <2>3 DEF TypeOK
<1>4. ASSUME NEW s \in Sockets, PeerLost(s)
      PROVE  UNCHANGED <<options, cur, allocated, pc>>
  BY <1>4 DEF PeerLost, objects, notes
<1>5. CASE UNCHANGED vars
  BY <1>5 DEF vars
<1> QED
  BY <1>1, <1>2, <1>3, <1>4, <1>5

\* Steps that move no delay.
LEMMA OthersKeepDelays ==
  ASSUME BInv, [BNext]_<<vars, bvars>>, UNCHANGED bvars,
         UNCHANGED <<options, cur, allocated>>,
         \A g \in 0 .. MaxDials :
            \/ pc'[Loop(g)] = pc[Loop(g)]
            \/ pc'[Loop(g)] = "dial" /\ g # 0
            \/ pc'[Loop(g)] \notin DialPCs
            \/ /\ pc[Loop(g)] \in DialPCs \ {"dial"}
               /\ pc'[Loop(g)] # "dial" /\ pc'[Loop(g)] # "dialing"
               /\ pc'[Loop(g)] = "backoff" => ~(options.conn /\ g = 0)
  PROVE  BInv'
<1>1. LInv'
  BY StepOfLife, NextInv DEF BInv
<1>2. DelaysOK'
  BY DEF BInv, DelaysOK, bvars, InRange
<1>3. InHandOK'
  <2> SUFFICES ASSUME NEW g \in 0 .. MaxDials
               PROVE  IF options.conn /\ g = 0
                      THEN pc'[Loop(g)] \notin {"dial", "dialing", "backoff"}
                      ELSE pc'[Loop(g)] \in DialPCs \ {"dial"} =>
                             cc[g] \in Objects /\ curDelay[cc[g]] # 0
    BY DEF InHandOK, bvars
  <2> QED
    BY DEF BInv, InHandOK, DialPCs
<1>4. GrowthOK'
  BY DEF BInv, GrowthOK, bvars, DialPCs
<1> QED
  BY <1>1, <1>2, <1>3, <1>4 DEF BInv

-----------------------------------------------------------------------------
\* dial() sets the delay of the object it takes in hand, or finds one that was set.
LEMMA StartKeeps ==
  ASSUME BInv, NEW g \in 0 .. MaxDials, StartDelay(g)
  PROVE  BInv'
<1>0. TypeOK /\ OneInCharge /\ DelaysOK /\ InHandOK /\ GrowthOK /\ delays \in Delays
  BY DEF BInv, LInv, ChargeOK, DelaysOK
<1>1. LInv'
  <2>1. DialStep(g)
    BY DEF StartDelay, DialStep
  <2> QED
    BY <2>1, NextInv DEF BInv, Next
<1>2. /\ pc[Loop(g)] = "dial"
      /\ pc' = [pc EXCEPT ![Loop(g)] = IF done THEN "gone" ELSE "dialing"]
      /\ UNCHANGED <<options, cur, allocated, delays, strayed>>
      /\ cc' = [cc EXCEPT ![g] = cur]
  BY DEF StartDelay, DialStart, At, Goto, objects, notes
<1>3. /\ pc'[Loop(g)] = (IF done THEN "gone" ELSE "dialing")
      /\ \A h \in 0 .. MaxDials : h # g => pc'[Loop(h)] = pc[Loop(h)]
  BY <1>0, <1>2, LoopMoved
<1>4. \/ UNCHANGED <<curDelay, grown>> /\ (done \/ curDelay[cur] # 0)
      \/ ~done /\ curDelay' = [curDelay EXCEPT ![cur] = delays.start] /\ grown' = delays.start
  BY DEF StartDelay
<1>5. connectTime' = connectTime \/ connectTime' = [connectTime EXCEPT ![cur] = "past"]
  BY DEF StartDelay
<1>6. delays.start \in Nat \ {0} /\ InRange(delays.start)
  BY <1>0, StartInRange
<1>7. cur \in Objects /\ cur <= allocated
  BY <1>0 DEF TypeOK, BInv, LInv, ObjectsOK
<1>8. DelaysOK'
  <2>1. \A o \in Objects : curDelay'[o] = 0 \/ InRange(curDelay'[o])
    BY <1>0, <1>4, <1>6, <1>7 DEF DelaysOK
  <2>2. curDelay' \in [Objects -> Nat]
    BY <1>0, <1>4, <1>6 DEF DelaysOK
  <2>3. /\ cc' \in [0 .. MaxDials -> Objects \cup {0}]
        /\ \A h \in 0 .. MaxDials : cc'[h] <= allocated
    BY <1>0, <1>2, <1>7 DEF DelaysOK
  <2>4. connectTime' \in [Objects -> {"zero", "recent", "past"}]
    BY <1>0, <1>5 DEF DelaysOK
  <2> QED
    BY <1>0, <1>2, <2>1, <2>2, <2>3, <2>4 DEF DelaysOK, InRange
<1>9. \A h \in 0 .. MaxDials : h # g => pc[Loop(h)] \notin DialPCs
  BY <1>0, <1>2, Alone, Names DEF DialPCs
<1>10. ~(options.conn /\ g = 0)
  BY <1>0, <1>2 DEF InHandOK
<1>11. cc'[g] = cur /\ (~done => curDelay'[cur] # 0)
  BY <1>0, <1>2, <1>4, <1>6, <1>7 DEF DelaysOK
<1>12. InHandOK'
  <2> SUFFICES ASSUME NEW h \in 0 .. MaxDials
               PROVE  IF options.conn /\ h = 0
                      THEN pc'[Loop(h)] \notin {"dial", "dialing", "backoff"}
                      ELSE pc'[Loop(h)] \in DialPCs \ {"dial"} =>
                             cc'[h] \in Objects /\ curDelay'[cc'[h]] # 0
    BY <1>2 DEF InHandOK
  <2>1. CASE h = g
    BY <1>3, <1>7, <1>10, <1>11, <2>1 DEF DialPCs
  <2>2. CASE h # g
    BY <1>3, <1>9, <2>2 DEF DialPCs
  <2> QED
    BY <2>1, <2>2
<1>13. GrowthOK'
  <2>1. curDelay[cur] = 0 \/ curDelay[cur] = grown \/ strayed
    BY <1>0 DEF GrowthOK
  <2>2. curDelay'[cur] = 0 \/ curDelay'[cur] = grown' \/ strayed
    BY <1>0, <1>4, <1>7, <2>1 DEF DelaysOK
  <2>3. \A h \in 0 .. MaxDials : pc'[Loop(h)] = "dialing" => cc'[h] = cur
    BY <1>3, <1>9, <1>11 DEF DialPCs
  <2> QED
    BY <1>2, <2>2, <2>3 DEF GrowthOK
<1> QED
  BY <1>1, <1>8, <1>12, <1>13 DEF BInv

\* The fresh object is nobody's yet, and gets the delay of the one it replaces.
LEMMA KeepKeeps ==
  ASSUME BInv, NEW g \in 0 .. MaxDials, KeepDelay(g)
  PROVE  BInv'
<1>0. TypeOK /\ OneInCharge /\ DelaysOK /\ InHandOK /\ GrowthOK
  BY DEF BInv, LInv, ChargeOK
<1>1. LInv'
  <2>1. DialStep(g)
    BY DEF KeepDelay, DialStep
  <2> QED
    BY <2>1, NextInv DEF BInv, Next
<1>2. /\ pc[Loop(g)] = "refresh"
      /\ pc' = [pc EXCEPT ![Loop(g)] = "install"]
      /\ UNCHANGED <<options, delays, cc, grown, strayed>>
  BY DEF KeepDelay, Refresh, At, Goto, notes
<1>3. /\ pc'[Loop(g)] = "install"
      /\ \A h \in 0 .. MaxDials : h # g => pc'[Loop(h)] = pc[Loop(h)]
  BY <1>0, <1>2, LoopMoved
<1>4. \/ UNCHANGED <<cur, allocated, curDelay, connectTime>>
      \/ /\ allocated' = allocated + 1 /\ cur' = allocated + 1
         /\ curDelay' = [curDelay EXCEPT ![cur'] = curDelay[cur]]
         /\ connectTime' = [connectTime EXCEPT ![cur'] = "recent"]
  <2>1. allocated \in Nat /\ cur \in Nat /\ cur <= allocated
    BY <1>0, Numbers DEF TypeOK, BInv, LInv, ObjectsOK
  <2>2. CASE cur' = cur
    BY <2>1, <2>2 DEF KeepDelay, Refresh
  <2>3. CASE cur' # cur
    BY <2>1, <2>3 DEF KeepDelay, Refresh
  <2> QED
    BY <2>2, <2>3
<1>5. /\ cur \in Objects /\ cur' \in Objects /\ allocated \in Nat /\ allocated' \in Nat
      /\ \A h \in 0 .. MaxDials : cc[h] \in Nat /\ cc[h] <= allocated
  <2>1. cur \in Objects /\ allocated \in Objects
    BY <1>0 DEF TypeOK
  <2>2. cur' \in Objects /\ allocated' \in Objects
    BY <1>1 DEF LInv, TypeOK
  <2>3. \A h \in 0 .. MaxDials : cc[h] \in Objects \cup {0} /\ cc[h] <= allocated
    BY <1>0 DEF DelaysOK
  <2>4. Objects \subseteq Nat /\ 0 \in Nat
    BY Numbers
  <2> QED
    BY <2>1, <2>2, <2>3, <2>4
<1>6. \A h \in 0 .. MaxDials : cc[h] \in Objects => curDelay'[cc[h]] = curDelay[cc[h]]
  BY <1>0, <1>4, <1>5 DEF DelaysOK
<1>7. curDelay'[cur'] = curDelay[cur]
  BY <1>0, <1>4, <1>5 DEF DelaysOK
<1>8. DelaysOK'
  <2>1. curDelay' \in [Objects -> Nat]
    BY <1>0, <1>4, <1>5 DEF DelaysOK
  <2>2. connectTime' \in [Objects -> {"zero", "recent", "past"}]
    BY <1>0, <1>4 DEF DelaysOK
  <2>3. \A o \in Objects : curDelay'[o] = 0 \/ InRange(curDelay'[o])
    <3>1. \A o \in Objects : \/ curDelay'[o] = curDelay[o]
                              \/ curDelay'[o] = curDelay[cur]
      BY <1>0, <1>4, <1>5 DEF DelaysOK
    <3>2. \A o \in Objects : curDelay[o] = 0 \/ InRange(curDelay[o])
      BY <1>0 DEF DelaysOK
    <3> QED
      BY <1>5, <3>1, <3>2
  <2>4. \A h \in 0 .. MaxDials : cc'[h] <= allocated'
    BY <1>2, <1>4, <1>5
  <2> QED
    BY <1>0, <1>2, <2>1, <2>2, <2>3, <2>4 DEF DelaysOK, InRange
<1>9. InHandOK'
  <2> SUFFICES ASSUME NEW h \in 0 .. MaxDials
               PROVE  IF options.conn /\ h = 0
                      THEN pc'[Loop(h)] \notin {"dial", "dialing", "backoff"}
                      ELSE pc'[Loop(h)] \in DialPCs \ {"dial"} =>
                             cc[h] \in Objects /\ curDelay'[cc[h]] # 0
    BY <1>2 DEF InHandOK
  <2> QED
    BY <1>0, <1>2, <1>3, <1>6 DEF InHandOK, DialPCs
<1>10. GrowthOK'
  <2>1. \A h \in 0 .. MaxDials : pc'[Loop(h)] # "dialing"
    BY <1>0, <1>2, <1>3, Alone, Names DEF DialPCs
  <2> QED
    BY <1>0, <1>2, <1>7, <2>1 DEF GrowthOK
<1> QED
  BY <1>1, <1>8, <1>9, <1>10 DEF BInv

\* The delay grows in the object in hand.
LEMMA GrowKeeps ==
  ASSUME BInv, NEW g \in 0 .. MaxDials, GrowDelay(g)
  PROVE  BInv'
<1>0. TypeOK /\ OneInCharge /\ DelaysOK /\ InHandOK /\ GrowthOK /\ delays \in Delays
  BY DEF BInv, LInv, ChargeOK, DelaysOK
<1>1. LInv'
  <2>1. DialStep(g)
    BY DEF GrowDelay, DialStep
  <2> QED
    BY <2>1, NextInv DEF BInv, Next
<1>2. /\ pc[Loop(g)] = "backoff"
      /\ \/ pc' = [pc EXCEPT ![Loop(g)] = "dialing"]
         \/ pc' = [pc EXCEPT ![Loop(g)] = "gone"]
      /\ UNCHANGED <<options, cur, allocated, delays, cc, connectTime>>
  BY DEF GrowDelay, BackoffEnds, At, Goto, objects, notes
<1>3. /\ pc'[Loop(g)] \in {"dialing", "gone"}
      /\ \A h \in 0 .. MaxDials : h # g => pc'[Loop(h)] = pc[Loop(h)]
  BY <1>0, <1>2, LoopMoved
<1>4. /\ ~(options.conn /\ g = 0)
      /\ cc[g] \in Objects /\ curDelay[cc[g]] \in Nat \ {0} /\ InRange(curDelay[cc[g]])
  BY <1>0, <1>2 DEF InHandOK, DelaysOK, DialPCs
<1> DEFINE d == Grown(curDelay[cc[g]])
<1>5. d \in Nat \ {0} /\ InRange(d)
  BY <1>0, <1>4, GrownInRange
<1>6. \A h \in 0 .. MaxDials : h # g => pc'[Loop(h)] \notin DialPCs
  BY <1>0, <1>2, <1>3, Alone, Names DEF DialPCs
<1>7. CASE pc'[Loop(g)] = "gone"
  <2>1. UNCHANGED <<curDelay, grown, strayed>>
    BY <1>7 DEF GrowDelay
  <2>2. DelaysOK'
    BY <1>0, <1>2, <2>1 DEF DelaysOK, InRange
  <2>3. InHandOK'
    <3> SUFFICES ASSUME NEW h \in 0 .. MaxDials
                 PROVE  pc'[Loop(h)] \notin DialPCs
      BY <1>2 DEF InHandOK, DialPCs
    <3> QED
      BY <1>6, <1>7 DEF DialPCs
  <2>4. GrowthOK'
    BY <1>0, <1>2, <1>6, <1>7, <2>1 DEF GrowthOK, DialPCs
  <2> QED
    BY <1>1, <2>2, <2>3, <2>4 DEF BInv
<1>8. CASE pc'[Loop(g)] = "dialing"
  <2>1. curDelay' = [curDelay EXCEPT ![cc[g]] = d] /\ grown' = curDelay'[cc[g]]
    BY <1>8 DEF GrowDelay
  <2>2. strayed' <=> strayed \/ cc[g] # cur
    BY <1>8 DEF GrowDelay
  <2>3. curDelay'[cc[g]] = d /\ curDelay' \in [Objects -> Nat]
    BY <1>0, <1>4, <1>5, <2>1 DEF DelaysOK
  <2>4. \A o \in Objects : curDelay'[o] = 0 \/ InRange(curDelay'[o])
    BY <1>0, <1>4, <1>5, <2>1 DEF DelaysOK
  <2>5. DelaysOK'
    BY <1>0, <1>2, <2>3, <2>4 DEF DelaysOK, InRange
  <2>6. InHandOK'
    <3> SUFFICES ASSUME NEW h \in 0 .. MaxDials
                 PROVE  IF options.conn /\ h = 0
                        THEN pc'[Loop(h)] \notin {"dial", "dialing", "backoff"}
                        ELSE pc'[Loop(h)] \in DialPCs \ {"dial"} =>
                               cc[h] \in Objects /\ curDelay'[cc[h]] # 0
      BY <1>2 DEF InHandOK
    <3>1. CASE h = g
      BY <1>4, <1>5, <2>3, <3>1
    <3>2. CASE h # g
      BY <1>6, <3>2 DEF DialPCs
    <3> QED
      BY <3>1, <3>2
  <2>7. GrowthOK'
    BY <1>2, <1>6, <2>1, <2>2 DEF GrowthOK, DialPCs
  <2> QED
    BY <1>1, <2>5, <2>6, <2>7 DEF BInv
<1> QED
  BY <1>3, <1>7, <1>8

\* The other steps of dialling move no delay.
LEMMA OtherKeeps ==
  ASSUME BInv, NEW g \in 0 .. MaxDials, OtherDialStep(g)
  PROVE  BInv'
<1>0. /\ TypeOK /\ SocketsOK /\ OwnerOK
      /\ Loop(g) \in Loops /\ Loop(g) \in Procs /\ Loops \subseteq Procs
  BY Names DEF BInv, LInv
<1>1. UNCHANGED bvars /\ [BNext]_<<vars, bvars>>
  BY DEF OtherDialStep, BDialStep, BNext
<1>2. UNCHANGED <<options, cur, allocated>>
  BY DEF OtherDialStep, DialFails, DialGivesUp, DialSucceeds, Install, PreambleSent,
         PreambleFails, ConnectReturns, objects, notes
<1>3. CASE PreambleSent(g)
  <2>1. pc' = [pc EXCEPT ![Loop(g)] = "spawned", ![Loop(dialed[Loop(g)])] = "start"]
    BY <1>3 DEF PreambleSent
  <2>2. \A h \in 0 .. MaxDials :
          pc'[Loop(h)] = pc[Loop(h)] \/ pc'[Loop(h)] \in {"spawned", "start"}
    BY <1>0, <2>1, Names DEF TypeOK
  <2> QED
    BY <1>1, <1>2, <2>2, OthersKeepDelays DEF DialPCs
<1>4. CASE ConnectReturns(g)
  <2>1. \/ pc' = [pc EXCEPT ![Loop(g)] = "gone"]
        \/ pc' = [pc EXCEPT ![Loop(g)] = "gone", ![Hook(dialed[Loop(g)])] = "running"]
    BY <1>4 DEF ConnectReturns, Goto
  <2>2. \A h \in 0 .. MaxDials :
          pc'[Loop(h)] = pc[Loop(h)] \/ pc'[Loop(h)] \in {"gone", "running"}
    BY <1>0, <2>1, Names DEF TypeOK
  <2> QED
    BY <1>1, <1>2, <2>2, OthersKeepDelays DEF DialPCs
<1>5. CASE DialFails(g) \/ DialGivesUp(g) \/ DialSucceeds(g) \/ Install(g) \/ PreambleFails(g)
  <2>1. PICK l \in {"backoff", "gone", "refresh", "preamble"} : pc' = [pc EXCEPT ![Loop(g)] = l]
    BY <1>5 DEF DialFails, DialGivesUp, DialSucceeds, Install, PreambleFails, Goto
  <2>2. pc[Loop(g)] \in DialPCs \ {"dial"}
    BY <1>5 DEF DialFails, DialGivesUp, DialSucceeds, Install, PreambleFails, At, DialPCs
  <2>3. /\ pc'[Loop(g)] = l
        /\ \A h \in 0 .. MaxDials : h # g => pc'[Loop(h)] = pc[Loop(h)]
    BY <1>0, <2>1, LoopMoved
  <2>4. l = "backoff" => ~(options.conn /\ g = 0)
    <3>1. CASE PreambleFails(g)
      <4>1. pc' = [pc EXCEPT ![Loop(g)] = IF options.conn /\ g = 0 THEN "gone" ELSE "backoff"]
        BY <3>1 DEF PreambleFails, Goto
      <4> QED
        BY <1>0, <2>3, <4>1, LoopMoved
    <3>2. CASE DialFails(g)
      BY <3>2 DEF DialFails, At, BInv, InHandOK
    <3>3. CASE DialGivesUp(g) \/ DialSucceeds(g) \/ Install(g)
      <4>1. PICK k \in {"gone", "refresh", "preamble"} : pc' = [pc EXCEPT ![Loop(g)] = k]
        BY <3>3 DEF DialGivesUp, DialSucceeds, Install, Goto
      <4> QED
        BY <1>0, <2>3, <4>1, LoopMoved
    <3> QED
      BY <1>5, <3>1, <3>2, <3>3
  <2> QED
    BY <1>1, <1>2, <2>2, <2>3, <2>4, OthersKeepDelays
<1> QED
  BY <1>3, <1>4, <1>5 DEF OtherDialStep

-----------------------------------------------------------------------------
\* The initial state and every step satisfy BInv.
THEOREM BackoffInvariance == BFairSpec => []BInv
<1>1. BInit => BInv
  <2> SUFFICES ASSUME BInit PROVE BInv
    OBVIOUS
  <2>1. LInv /\ TypeOK
    BY InitInv DEF BInit, LInv
  <2>2. DelaysOK
    <3>1. allocated \in Nat
      BY <2>1, Numbers DEF TypeOK
    <3>2. /\ curDelay = [o \in Objects |-> 0] /\ connectTime = [o \in Objects |-> "zero"]
          /\ cc = [g \in 0 .. MaxDials |-> 0] /\ delays \in Delays
      BY DEF BInit
    <3> QED
      BY <3>1, <3>2 DEF DelaysOK
  <2>3. \A g \in 0 .. MaxDials :
          pc[Loop(g)] = (IF g # 0 THEN "none" ELSE IF options.conn THEN "refresh" ELSE "dial")
    <3>1. /\ \A g \in 0 .. MaxDials : Loop(g) \in Procs /\ Loop(g) # Closer
          /\ 0 \in 0 .. MaxDials
          /\ \A g \in 0 .. MaxDials : Loop(g) = Loop(0) => g = 0
      BY Names, Numbers
    <3>2. pc = [[p \in Procs |-> "none"] EXCEPT
                  ![Loop(0)] = IF options.conn THEN "refresh" ELSE "dial",
                  ![Closer]  = "idle"]
      BY DEF BInit, Init
    <3> QED
      BY <3>1, <3>2
  <2>4. InHandOK
    BY <2>3 DEF InHandOK, DialPCs
  <2>5. GrowthOK
    BY <2>1, <2>3 DEF BInit, GrowthOK, TypeOK
  <2> QED
    BY <2>1, <2>2, <2>4, <2>5 DEF BInv
<1>2. BInv /\ [BNext]_<<vars, bvars>> => BInv'
  <2> SUFFICES ASSUME BInv, [BNext]_<<vars, bvars>> PROVE BInv'
    OBVIOUS
  <2>1. ASSUME NEW g \in 0 .. MaxDials, BDialStep(g) PROVE BInv'
    BY <2>1, StartKeeps, KeepKeeps, GrowKeeps, OtherKeeps DEF BDialStep
  <2>2. ASSUME UNCHANGED bvars,
               \/ \E p \in Procs : EndStep(p)
               \/ \E s \in Sockets : LoopStep(s) \/ HookStep(s) \/ PeerLost(s)
               \/ CloseDone \/ CloseEnds
               \/ UNCHANGED vars
        PROVE  BInv'
    <3>1. LInv
      BY DEF BInv
    <3> QED
      BY <2>2, <3>1, OthersKeepDialling, OthersKeepDelays
  <2> QED
    BY <2>1, <2>2 DEF BNext
<1> QED
  BY <1>1, <1>2, PTL DEF BFairSpec

\* Whatever the delays of the options, every wait is between them: however often it was
\* doubled, cut, set anew and handed on from object to object.
THEOREM WaitsStayInRange == BFairSpec => []WaitsInRange
<1>1. BInv => WaitsInRange
  BY DEF BInv, LInv, InHandOK, DelaysOK, InRange, WaitsInRange, DialPCs
<1> QED
  BY <1>1, BackoffInvariance, PTL

\* The back-off goes on where it stopped, unless a delay grew in a replaced object.
THEOREM GrowthIsKept == BFairSpec => []GrowthKept
<1>1. BInv => GrowthKept
  <2> SUFFICES ASSUME BInv, NEW p \in Loops, pc[p] = "dialing", ~strayed
               PROVE  curDelay[cur] = grown
    BY DEF GrowthKept
  <2>1. PICK g \in 0 .. MaxDials : p = Loop(g)
    BY Names
  <2>2. cc[g] = cur /\ curDelay[cc[g]] # 0
    BY <2>1 DEF BInv, GrowthOK, InHandOK, DialPCs
  <2> QED
    BY <2>2 DEF BInv, GrowthOK
<1> QED
  BY <1>1, BackoffInvariance, PTL

\* The life cycle with its delays is the life cycle.
THEOREM BackoffIsLife == BFairSpec => Spec
<1>1. BInit => Init
  BY DEF BInit
<1>2. [BNext]_<<vars, bvars>> => [Next]_vars
  BY StepOfLife
<1> QED
  BY <1>1, <1>2, PTL DEF BFairSpec, Spec
==============================================================================
