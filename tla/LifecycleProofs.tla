-------------------------- MODULE LifecycleProofs ---------------------------
(***************************************************************************)
(* Proofs about module Lifecycle, for any number of dials, any options and *)
(* any moment at which Close() or the dialer's giving up may come.  The    *)
(* inductive invariant LInv is explained part by part in LifecycleInv.     *)
(***************************************************************************)
EXTENDS LifecycleInv, TLAPS

\* The names of goroutines, objects and sockets, as the proofs use them.
LEMMA Names ==
    /\ \A g \in 0 .. MaxDials : Loop(g) \in Loops
    /\ \A p \in Loops : \E g \in 0 .. MaxDials : p = Loop(g)
    /\ \A g, h \in 0 .. MaxDials : Loop(g) = Loop(h) => g = h
    /\ \A s \in Sockets : Hook(s) \in Hooks /\ s \in 0 .. MaxDials
    /\ \A s, r \in Sockets : Hook(s) = Hook(r) => s = r
    /\ Procs = Loops \cup Hooks \cup {Closer}
    /\ Loops \cap Hooks = {} /\ Closer \notin Loops \cup Hooks
  BY BoundAssumption DEF Loops, Hooks, Procs, Loop, Hook, Closer, Sockets

\* Sockets and objects are numbers.
LEMMA Numbers ==
    /\ MaxDials \in Nat \ {0} /\ Nil = 0 /\ Nil \notin Sockets /\ 0 \notin Objects
    /\ Sockets \subseteq Nat /\ Objects \subseteq Nat /\ 0 \in 0 .. MaxDials
    /\ \A n \in Nat : n \in Sockets <=> n > 0 /\ n <= MaxDials
    /\ \A n \in Nat : n \in Objects <=> n > 0 /\ n <= MaxDials + 1
  BY BoundAssumption DEF Sockets, Objects, Nil

\* The steps of Next, one action at a time.
LEMMA NextSteps ==
  ASSUME [Next]_vars
  PROVE  \/ \E p \in Procs : EndStep(p)
         \/ \E g \in 0 .. MaxDials : DialStep(g)
         \/ \E s \in Sockets : LoopStep(s)
         \/ \E s \in Sockets : HookStep(s)
         \/ \E s \in Sockets : PeerLost(s)
         \/ CloseDone \/ CloseEnds
         \/ UNCHANGED vars
  BY DEF Next

-----------------------------------------------------------------------------
(* TypeOK.                                                                 *)

\* The initial state is well typed.
LEMMA InitType == Init => TypeOK
<1> SUFFICES ASSUME Init PROVE TypeOK
  OBVIOUS
<1>1. pc \in [Procs -> PCs]
  <2>1. {"none", "refresh", "dial", "idle"} \subseteq PCs
    BY DEF PCs, DialPCs
  <2>2. [p \in Procs |-> "none"] \in [Procs -> PCs]
    BY <2>1
  <2> QED
    BY <2>1, <2>2 DEF Init
<1>2. 1 \in Objects /\ 0 \in Objects \cup {0} /\ Nil \in Sockets \cup {Nil}
  BY Numbers
<1>3. dialed \in [Loops -> Sockets \cup {0}]
  <2>1. 1 \in Sockets \cup {0} /\ 0 \in Sockets \cup {0}
    BY Numbers
  <2>2. [p \in Loops |-> 0] \in [Loops -> Sockets \cup {0}]
    BY <2>1
  <2> QED
    BY <2>1, <2>2 DEF Init
<1> QED
  BY <1>1, <1>2, <1>3, OptionsAssumption DEF Init, TypeOK

\* Sets of control points the proofs refer to.
LEMMA ControlPoints ==
    /\ {"none", "spawned", "running", "markReady", "idle", "closing", "gone"} \subseteq PCs
    /\ DialPCs \subseteq PCs /\ ReadPCs \subseteq PCs /\ EndPCs \subseteq PCs
  BY DEF PCs

\* A step of end() keeps the state well typed.
LEMMA EndType ==
  ASSUME TypeOK, NEW p \in Procs, EndStep(p), ControlOK
  PROVE  TypeOK'
<1>1. goesTo[p] \in PCs
  BY Names
  DEF EndStep, EndTest, EndFlag, EndCheck, EndClose, At, ControlOK, PCs, ReadPCs, EndPCs
<1>2. "endFlag" \in PCs /\ "endCheck" \in PCs /\ "endClose" \in PCs
  BY DEF PCs, EndPCs
<1>3. CASE EndTest(p)
  BY <1>1, <1>2, <1>3 DEF EndTest, At, Goto, TypeOK, objects, notes
<1>4. CASE EndFlag(p)
  BY <1>1, <1>2, <1>4 DEF EndFlag, At, Goto, TypeOK, objects, notes
<1>5. CASE EndCheck(p)
  BY <1>1, <1>2, <1>5 DEF EndCheck, At, Goto, TypeOK, objects, notes
<1>6. CASE EndClose(p)
  BY <1>1, <1>2, <1>6 DEF EndClose, At, Goto, TypeOK, objects, notes
<1> QED
  BY <1>3, <1>4, <1>5, <1>6 DEF EndStep

\* A dialling goroutine does: there is an object left to make, because each one
\* made so far has had a socket of its own.
LEMMA DialType ==
  ASSUME TypeOK, NEW g \in 0 .. MaxDials, DialStep(g), SocketsOK, OwnerOK
  PROVE  TypeOK'
<1> DEFINE p == Loop(g)  s == dialed[p]
<1>1. p \in Loops /\ p \in Procs
  BY Names
<1>2. s \in Sockets \cup {0}
  BY <1>1 DEF TypeOK
<1>3. pc[p] \in Connecting => s \in Sockets /\ Loop(s) \in Procs
  BY <1>1, Names DEF SocketsOK
<1>4. {"gone", "dialing", "backoff", "refresh", "install", "preamble", "spawned", "start",
       "none", "running"} \subseteq PCs
  BY DEF PCs, DialPCs, ReadPCs
<1>5. CASE DialStart(g)
  BY <1>1, <1>4, <1>5 DEF DialStart, At, Goto, TypeOK, objects, notes
<1>6. CASE DialFails(g)
  BY <1>1, <1>4, <1>6 DEF DialFails, At, Goto, TypeOK, objects, notes
<1>7. CASE DialGivesUp(g)
  BY <1>1, <1>4, <1>7 DEF DialGivesUp, At, Goto, TypeOK, objects, notes
<1>8. CASE DialSucceeds(g)
  BY <1>1, <1>4, <1>8 DEF DialSucceeds, At, Goto, TypeOK, objects, notes
<1>9. CASE Refresh(g)
  <2>1. allocated + 1 \in Objects
    <3>1. pc[p] = "refresh"
      BY <1>9 DEF Refresh, At
    <3>2. s \in Sockets /\ allocated <= s
      BY <1>1, <3>1 DEF SocketsOK, Connecting
    <3>3. allocated \in Nat /\ s \in Nat /\ s <= MaxDials /\ MaxDials \in Nat
      BY <3>2, Numbers DEF TypeOK
    <3> QED
      BY <3>2, <3>3, Numbers
  <2> QED
    BY <1>1, <1>4, <1>9, <2>1 DEF Refresh, At, Goto, TypeOK, notes
<1>10. CASE Install(g)
  <2>1. obj[p] = cur /\ s \in Sockets
    BY <1>1, <1>3, <1>10 DEF Install, At, OwnerOK, Connecting
  <2>2. connOf[cur] \in Sockets \cup {Nil}
    BY DEF TypeOK
  <2> QED
    BY <1>1, <1>4, <1>10, <2>1, <2>2 DEF Install, At, Goto, TypeOK
<1>11. CASE PreambleSent(g)
  BY <1>1, <1>3, <1>4, <1>11 DEF PreambleSent, At, TypeOK, objects, notes
<1>12. CASE PreambleFails(g)
  BY <1>1, <1>3, <1>4, <1>12 DEF PreambleFails, At, Goto, TypeOK, notes
<1>13. CASE ConnectReturns(g)
  BY <1>1, <1>4, <1>13 DEF ConnectReturns, CloseReady, At, Goto, TypeOK, notes
<1>14. CASE BackoffEnds(g)
  BY <1>1, <1>4, <1>14 DEF BackoffEnds, At, Goto, TypeOK, objects, notes
<1> QED
  BY <1>5, <1>6, <1>7, <1>8, <1>9, <1>10, <1>11, <1>12, <1>13, <1>14 DEF DialStep

\* So do the read loops, the hooks, Close() and the peer.
LEMMA OtherType ==
  ASSUME TypeOK,
         \/ \E s \in Sockets : LoopStep(s) \/ HookStep(s) \/ PeerLost(s)
         \/ CloseDone \/ CloseEnds
  PROVE  TypeOK'
<1>1. {"gone", "reading", "endTest", "cleanup", "disconnecting", "dial", "markReady",
       "closing"} \subseteq PCs
  BY DEF PCs, DialPCs, ReadPCs, EndPCs
<1>2. ASSUME NEW s \in Sockets, LoopStep(s) PROVE TypeOK'
  <2>1. Loop(s) \in Procs
    BY Names
  <2>2. CASE LoopStarts(s)
    BY <1>1, <2>1, <2>2 DEF LoopStarts, CallEnd, At, Goto, TypeOK, objects, notes
  <2>3. CASE LoopFails(s)
    BY <1>1, <2>1, <2>3 DEF LoopFails, CallEnd, At, Goto, TypeOK, objects, notes
  <2>4. CASE LoopCleansUp(s)
    BY <1>1, <2>1, <2>4 DEF LoopCleansUp, At, Goto, TypeOK, objects
  <2>5. CASE LoopRedials(s)
    BY <1>1, <2>1, <2>5 DEF LoopRedials, At, Goto, TypeOK, objects, notes
  <2> QED
    BY <1>2, <2>2, <2>3, <2>4, <2>5 DEF LoopStep
<1>3. ASSUME NEW s \in Sockets, HookStep(s) PROVE TypeOK'
  <2>1. Hook(s) \in Procs /\ obj[Hook(s)] \in Objects \cup {0}
    BY Names DEF TypeOK
  <2>2. CASE HookReturns(s)
    BY <1>1, <2>1, <2>2 DEF HookReturns, CallEnd, At, Goto, TypeOK, objects, notes
  <2>3. CASE HookMarksReady(s)
    BY <1>1, <2>1, <2>3 DEF HookMarksReady, CloseReady, At, Goto, TypeOK, notes
  <2> QED
    BY <1>3, <2>2, <2>3 DEF HookStep
<1>4. ASSUME NEW s \in Sockets, PeerLost(s) PROVE TypeOK'
  BY <1>4 DEF PeerLost, TypeOK, objects, notes
<1>5. ASSUME CloseDone PROVE TypeOK'
  BY <1>1, <1>5, Names DEF CloseDone, At, Goto, TypeOK, objects, notes
<1>6. ASSUME CloseEnds PROVE TypeOK'
  BY <1>1, <1>6, Names DEF CloseEnds, CallEnd, At, Goto, TypeOK, objects, notes
<1> QED
  BY <1>2, <1>3, <1>4, <1>5, <1>6

\* Every step keeps the state well typed.
LEMMA NextType ==
  ASSUME TypeOK, ControlOK, SocketsOK, OwnerOK, [Next]_vars
  PROVE  TypeOK'
<1>1. CASE UNCHANGED vars
  BY <1>1 DEF vars, TypeOK
<1> QED
  BY <1>1, NextSteps, EndType, DialType, OtherType

-----------------------------------------------------------------------------
(* ControlOK, SocketsOK, FreshOK.                                          *)

\* The three sets of control points a loop moves through are disjoint.
LEMMA Disjoint ==
    /\ DialPCs \cap ReadPCs = {} /\ DialPCs \cap EndPCs = {} /\ ReadPCs \cap EndPCs = {}
    /\ \A l \in {"none", "spawned", "running", "markReady", "idle", "closing", "gone"} :
         l \notin DialPCs \cup ReadPCs \cup EndPCs
    /\ Connecting \subseteq DialPCs
  BY DEF DialPCs, ReadPCs, EndPCs, Connecting

\* Every step preserves ControlOK.
LEMMA NextControl ==
  ASSUME TypeOK, ControlOK, SocketsOK, [Next]_vars
  PROVE  ControlOK'
<1>1. ASSUME NEW p \in Procs, EndStep(p) PROVE ControlOK'
  <2>1. pc[p] \in EndPCs
    BY <1>1 DEF EndStep, EndTest, EndFlag, EndCheck, EndClose, At, EndPCs
  <2>2. \A l : pc' = [pc EXCEPT ![p] = l] => \A q \in Procs : pc'[q] = IF q = p THEN l ELSE pc[q]
    BY DEF TypeOK
  <2>3. goesTo' = goesTo /\ \E l \in {"endFlag", "endCheck", "endClose", goesTo[p]} : pc' = [pc EXCEPT ![p] = l]
    BY <1>1 DEF EndStep, EndTest, EndFlag, EndCheck, EndClose, Goto, objects
  <2>4. {"endFlag", "endCheck", "endClose"} \subseteq EndPCs /\ "cleanup" \in ReadPCs
    BY DEF EndPCs, ReadPCs
  <2> QED
    BY <2>1, <2>2, <2>3, <2>4, Names, Disjoint DEF ControlOK
<1>2. ASSUME NEW g \in 0 .. MaxDials, DialStep(g) PROVE ControlOK'
  <2>1. goesTo' = goesTo
    BY <1>2 DEF DialStep, DialStart, DialFails, DialGivesUp, DialSucceeds, Refresh, Install,
                PreambleSent, PreambleFails, ConnectReturns, BackoffEnds, notes
  <2>2. \A q \in Procs : \/ pc'[q] = pc[q]
                         \/ q \in Loops /\ pc'[q] \in DialPCs \cup {"spawned", "gone", "start"}
                         \/ q \in Hooks /\ pc'[q] = "running"
    <3>1. {"dialing", "backoff", "refresh", "install", "preamble"} \subseteq DialPCs
      BY DEF DialPCs
    <3>2. Loop(g) \in Loops /\ Loop(g) \in Procs
      BY Names
    <3>3. CASE PreambleSent(g)
      <4>1. dialed[Loop(g)] \in Sockets
        BY <3>2, <3>3 DEF PreambleSent, At, SocketsOK, Connecting
      <4> QED
        <5>1. Loop(dialed[Loop(g)]) \in Loops /\ Loop(dialed[Loop(g)]) \in Procs
          BY <4>1, Names
        <5> QED
          BY <3>2, <3>3, <5>1 DEF PreambleSent, TypeOK
    <3>4. CASE ConnectReturns(g)
      <4>1. Hook(dialed[Loop(g)]) \in Hooks
        BY <3>2, <3>4, Names DEF ConnectReturns, At, SocketsOK
      <4> QED
        BY <3>1, <3>2, <3>4, <4>1 DEF ConnectReturns, Goto, TypeOK
    <3>5. CASE ~PreambleSent(g) /\ ~ConnectReturns(g)
      BY <1>2, <3>1, <3>2, <3>5
      DEF DialStep, DialStart, DialFails, DialGivesUp, DialSucceeds, Refresh, Install,
          PreambleFails, BackoffEnds, Goto, TypeOK
    <3> QED
      BY <3>3, <3>4, <3>5
  <2>3. "start" \in ReadPCs
    BY DEF ReadPCs
  <2> QED
    BY <2>1, <2>2, <2>3, Names, Disjoint DEF ControlOK
<1>3. ASSUME NEW s \in Sockets, LoopStep(s) PROVE ControlOK'
  <2>1. Loop(s) \in Loops /\ Loop(s) \in Procs
    BY Names
  <2>2. "endTest" \in EndPCs /\ "dial" \in DialPCs /\ {"reading", "cleanup", "disconnecting"} \subseteq ReadPCs
    BY DEF EndPCs, DialPCs, ReadPCs
  <2>3. /\ \A q \in Procs \ {Loop(s)} : pc'[q] = pc[q] /\ goesTo'[q] = goesTo[q]
        /\ \/ pc'[Loop(s)] = "endTest" /\ goesTo'[Loop(s)] \in {"gone", "cleanup"}
           \/ pc'[Loop(s)] \in {"reading", "disconnecting", "dial", "gone"} /\ goesTo' = goesTo
    BY <1>3, <2>1
    DEF LoopStep, LoopStarts, LoopFails, LoopCleansUp, LoopRedials, CallEnd, Goto, TypeOK, notes
  <2> QED
    BY <2>1, <2>2, <2>3, Names, Disjoint DEF ControlOK
<1>4. ASSUME NEW s \in Sockets, HookStep(s) PROVE ControlOK'
  <2>1. Hook(s) \in Hooks /\ Hook(s) \in Procs
    BY Names
  <2>2. /\ \A q \in Procs \ {Hook(s)} : pc'[q] = pc[q] /\ goesTo'[q] = goesTo[q]
        /\ \/ pc'[Hook(s)] = "endTest" /\ goesTo'[Hook(s)] = "markReady"
           \/ pc'[Hook(s)] \in {"markReady", "gone"} /\ goesTo' = goesTo
    BY <1>4, <2>1 DEF HookStep, HookReturns, HookMarksReady, CallEnd, Goto, TypeOK, notes
  <2>3. "endTest" \in EndPCs
    BY DEF EndPCs
  <2> QED
    BY <2>1, <2>2, <2>3, Names, Disjoint DEF ControlOK
<1>5. ASSUME CloseDone \/ CloseEnds PROVE ControlOK'
  <2>1. Closer \in Procs /\ "endTest" \in EndPCs
    BY Names DEF EndPCs
  <2>2. /\ \A q \in Procs \ {Closer} : pc'[q] = pc[q] /\ goesTo'[q] = goesTo[q]
        /\ \/ pc'[Closer] = "endTest" /\ goesTo'[Closer] = "gone"
           \/ pc'[Closer] = "closing" /\ goesTo' = goesTo
    BY <1>5, <2>1 DEF CloseDone, CloseEnds, CallEnd, Goto, TypeOK, notes
  <2> QED
    BY <2>1, <2>2, Names, Disjoint DEF ControlOK
<1>6. ASSUME NEW s \in Sockets, PeerLost(s) PROVE ControlOK'
  BY <1>6 DEF PeerLost, ControlOK
<1>7. CASE UNCHANGED vars
  BY <1>7 DEF vars, ControlOK
<1> QED
  BY <1>1, <1>2, <1>3, <1>4, <1>5, <1>6, <1>7, NextSteps

\* What it means that one goroutine moves.
LEMMA Moved ==
  ASSUME TypeOK, NEW p \in Procs, NEW l, pc' = [pc EXCEPT ![p] = l]
  PROVE  pc'[p] = l /\ \A q \in Procs : q # p => pc'[q] = pc[q]
  BY DEF TypeOK

\* Steps that use no new socket, make no object and connect nothing preserve
\* SocketsOK.
LEMMA SocketsKept ==
  ASSUME TypeOK, SocketsOK, UNCHANGED <<allocated, dialed>>,
         \A s \in Sockets : sock'[s] = "unused" <=> sock[s] = "unused",
         \A o \in Objects : connOf'[o] \in {connOf[o], Nil},
         \A p \in Loops : /\ pc[p] = "none" => pc'[p] = "none"
                          /\ pc'[p] \in {"refresh"} \cup Connecting => pc[p] \in Connecting
                          /\ pc'[p] = "refresh" => pc[p] = "refresh"
                          /\ pc'[p] = "spawned" => pc[p] \in Connecting \cup {"spawned"}
  PROVE  SocketsOK'
<1>1. \A s \in Sockets : Loop(s) \in Loops
  BY Names
<1>2. \A s \in Sockets : sock'[s] = "unused" =>
         /\ \A r \in Sockets : r > s => sock'[r] = "unused"
         /\ pc'[Loop(s)] = "none"
         /\ allocated' <= s
  BY <1>1 DEF SocketsOK
<1>3. \A p \in Loops : pc'[p] = "spawned" => dialed'[p] \in Sockets
  BY DEF SocketsOK
<1>4. \A p \in Loops : pc'[p] \in Connecting =>
         /\ dialed'[p] \in Sockets
         /\ sock'[dialed'[p]] # "unused"
         /\ pc'[Loop(dialed'[p])] = "none"
         /\ pc'[p] = "refresh" => allocated' <= dialed'[p]
  BY <1>1 DEF SocketsOK
<1>5. ASSUME NEW o \in Objects, connOf'[o] # Nil PROVE sock'[connOf'[o]] # "unused"
  <2>1. connOf'[o] = connOf[o]
    BY <1>5
  <2>2. connOf[o] \in Sockets
    BY <1>5, <2>1 DEF TypeOK
  <2>3. sock[connOf[o]] # "unused"
    BY <1>5, <2>1 DEF SocketsOK
  <2> QED
    BY <2>1, <2>2, <2>3
<1> QED
  BY <1>2, <1>3, <1>4, <1>5 DEF SocketsOK

\* While one loop dials or reads, no other does.
LEMMA Alone ==
  ASSUME OneInCharge, NEW p \in Loops, pc[p] \in DialPCs \cup ReadPCs, NEW q \in Loops, q # p
  PROVE  pc[q] \notin DialPCs \cup ReadPCs /\ (pc[q] \in EndPCs => goesTo[q] # "cleanup")
  BY DEF OneInCharge, InCharge

\* A dial uses the first socket that is left.
LEMMA DialSockets ==
  ASSUME TypeOK, SocketsOK, OwnerOK, OneInCharge, NEW g \in 0 .. MaxDials, DialStep(g)
  PROVE  SocketsOK'
<1> DEFINE p == Loop(g)  s == dialed[p]
<1>1. p \in Loops /\ p \in Procs /\ \A r \in Sockets : Loop(r) \in Loops /\ Loop(r) \in Procs
  BY Names
<1>2. CASE DialStart(g) \/ DialFails(g) \/ DialGivesUp(g) \/ BackoffEnds(g)
  <2>1. /\ UNCHANGED <<allocated, dialed, sock, connOf>>
        /\ pc[p] \in {"dial", "dialing", "backoff"}
        /\ \E l \in {"gone", "dialing", "backoff"} : pc' = [pc EXCEPT ![p] = l]
    BY <1>2 DEF DialStart, DialFails, DialGivesUp, BackoffEnds, At, Goto, objects, notes
  <2>2. \A q \in Loops : pc'[q] = pc[q] \/ (q = p /\ pc'[q] \in {"gone", "dialing", "backoff"})
    <3>1. PICK l \in {"gone", "dialing", "backoff"} : pc' = [pc EXCEPT ![p] = l]
      BY <2>1
    <3>2. pc'[p] = l /\ \A q \in Procs : q # p => pc'[q] = pc[q]
      BY <1>1, <3>1, Moved
    <3>3. Loops \subseteq Procs
      BY Names
    <3> QED
      BY <3>1, <3>2, <3>3
  <2> QED
    BY <2>1, <2>2, SocketsKept DEF Connecting
<1>3. CASE DialSucceeds(g)
  <2>1. PICK n \in Sockets :
          /\ sock[n] = "unused"
          /\ \A r \in 1 .. n - 1 : sock[r] # "unused"
          /\ sock' = [sock EXCEPT ![n] = "open"]
          /\ dialed' = [dialed EXCEPT ![p] = n]
    BY <1>3 DEF DialSucceeds
  <2>2. /\ pc[p] = "dialing" /\ pc' = [pc EXCEPT ![p] = "refresh"]
        /\ UNCHANGED <<allocated, connOf>>
    BY <1>3 DEF DialSucceeds, At, Goto, objects
  <2>3. allocated <= n /\ pc[Loop(n)] = "none" /\ Loop(n) # p
    BY <2>1, <2>2 DEF SocketsOK
  <2>4. \A r \in Sockets : sock'[r] = "unused" <=> r # n /\ sock[r] = "unused"
    BY <2>1 DEF TypeOK
  <2>5. \A r \in Sockets : sock'[r] = "unused" =>
           /\ \A q \in Sockets : q > r => sock'[q] = "unused"
           /\ pc'[Loop(r)] = "none"
           /\ allocated' <= r
    <3> SUFFICES ASSUME NEW r \in Sockets, sock'[r] = "unused"
                 PROVE  /\ \A q \in Sockets : q > r => sock'[q] = "unused"
                        /\ pc'[Loop(r)] = "none"
                        /\ allocated' <= r
      OBVIOUS
    <3>1. r # n /\ sock[r] = "unused"
      BY <2>4
    <3>2. r > n
      BY <2>1, <3>1 DEF Sockets
    <3>3. \A q \in Sockets : q > r => q # n
      BY <3>2 DEF Sockets
    <3>4. pc[Loop(r)] = "none" /\ Loop(r) # p
      BY <2>2, <3>1 DEF SocketsOK
    <3> QED
      BY <1>1, <2>2, <2>4, <3>1, <3>3, <3>4 DEF SocketsOK, TypeOK
  <2>6. \A q \in Loops : pc'[q] = "spawned" => dialed'[q] \in Sockets
    <3>1. \A q \in Loops : pc'[q] = "spawned" => pc[q] = "spawned" /\ q # p
      BY <1>1, <2>2, Names DEF TypeOK
    <3> QED
      BY <2>1, <3>1 DEF SocketsOK, TypeOK
  <2>7. \A q \in Loops : pc'[q] \in Connecting =>
           /\ dialed'[q] \in Sockets
           /\ sock'[dialed'[q]] # "unused"
           /\ pc'[Loop(dialed'[q])] = "none"
           /\ pc'[q] = "refresh" => allocated' <= dialed'[q]
    <3> SUFFICES ASSUME NEW q \in Loops, pc'[q] \in Connecting
                 PROVE  /\ dialed'[q] \in Sockets
                        /\ sock'[dialed'[q]] # "unused"
                        /\ pc'[Loop(dialed'[q])] = "none"
                        /\ pc'[q] = "refresh" => allocated' <= dialed'[q]
      OBVIOUS
    <3>1. CASE q = p
      <4>1. dialed'[q] = n
        BY <1>1, <2>1, <3>1 DEF TypeOK
      <4> QED
        BY <1>1, <2>2, <2>3, <2>4, <4>1 DEF TypeOK
    <3>2. CASE q # p
      <4>1. dialed'[q] = dialed[q] /\ pc'[q] = pc[q] /\ q \in Procs
        BY <1>1, <2>1, <2>2, <3>2, Names DEF TypeOK
      <4>2. dialed[q] \in Sockets /\ pc[Loop(dialed[q])] = "none" /\ Loop(dialed[q]) # p
        BY <2>2, <4>1 DEF SocketsOK
      <4> QED
        BY <1>1, <2>2, <2>4, <4>1, <4>2 DEF SocketsOK, TypeOK
    <3> QED
      BY <3>1, <3>2
  <2>8. \A o \in Objects : connOf'[o] # Nil => sock'[connOf'[o]] # "unused"
    BY <2>2, <2>4 DEF SocketsOK, TypeOK
  <2> QED
    BY <2>5, <2>6, <2>7, <2>8 DEF SocketsOK
<1>4. CASE Refresh(g)
  <2>1. /\ pc[p] = "refresh" /\ pc' = [pc EXCEPT ![p] = "install"]
        /\ allocated' \in {allocated, allocated + 1}
        /\ UNCHANGED <<connOf, sock, dialed>>
    BY <1>4 DEF Refresh, At, Goto
  <2>2. s \in Sockets /\ sock[s] # "unused" /\ allocated <= s
    BY <1>1, <2>1 DEF SocketsOK, Connecting
  <2>3. \A r \in Sockets : sock'[r] = "unused" =>
           /\ \A q \in Sockets : q > r => sock'[q] = "unused"
           /\ pc'[Loop(r)] = "none"
           /\ allocated' <= r
    <3> SUFFICES ASSUME NEW r \in Sockets, sock[r] = "unused"
                 PROVE  pc'[Loop(r)] = "none" /\ allocated' <= r
      BY <2>1 DEF SocketsOK
    <3>1. pc[Loop(r)] = "none" /\ Loop(r) # p
      BY <2>1 DEF SocketsOK
    <3>2. r > s
      BY <2>2 DEF SocketsOK, Sockets
    <3>3. allocated + 1 <= r /\ allocated <= r
      <4>1. allocated \in Nat /\ r \in Nat /\ s \in Nat
        BY <2>2, Numbers DEF TypeOK
      <4> QED
        BY <2>2, <3>2, <4>1
    <3> QED
      BY <1>1, <2>1, <3>1, <3>3 DEF TypeOK
  <2>4. \A q \in Loops : /\ pc'[q] = "none" <=> pc[q] = "none"
                         /\ pc'[q] \in Connecting => pc[q] \in Connecting
                         /\ pc'[q] = "spawned" => pc[q] = "spawned"
                         /\ pc'[q] # "refresh"
    <3>1. \A q \in Loops \ {p} : pc[q] # "refresh"
      BY <1>1, <2>1, Alone DEF DialPCs
    <3> QED
      BY <1>1, <2>1, <3>1, Names DEF Connecting, TypeOK
  <2>5. \A q \in Loops : pc'[q] = "spawned" => dialed'[q] \in Sockets
    BY <2>1, <2>4 DEF SocketsOK
  <2>6. \A q \in Loops : pc'[q] \in Connecting =>
           /\ dialed'[q] \in Sockets
           /\ sock'[dialed'[q]] # "unused"
           /\ pc'[Loop(dialed'[q])] = "none"
           /\ pc'[q] = "refresh" => allocated' <= dialed'[q]
    BY <1>1, <2>1, <2>4 DEF SocketsOK
  <2>7. \A o \in Objects : connOf'[o] # Nil => sock'[connOf'[o]] # "unused"
    BY <2>1 DEF SocketsOK
  <2> QED
    BY <2>3, <2>5, <2>6, <2>7 DEF SocketsOK
<1>5. CASE Install(g)
  <2>1. /\ pc[p] = "install" /\ pc' = [pc EXCEPT ![p] = "preamble"]
        /\ connOf' = [connOf EXCEPT ![obj[p]] = s]
        /\ UNCHANGED <<allocated, sock, dialed>>
    BY <1>5 DEF Install, At, Goto
  <2>2. s \in Sockets /\ sock[s] # "unused"
    BY <1>1, <2>1 DEF SocketsOK, Connecting
  <2>3. \A q \in Loops : /\ pc'[q] = "none" <=> pc[q] = "none"
                         /\ pc'[q] \in Connecting => pc[q] \in Connecting
                         /\ pc'[q] = "spawned" => pc[q] = "spawned"
                         /\ pc'[q] = "refresh" => pc[q] = "refresh"
    BY <1>1, <2>1, Names DEF Connecting, TypeOK
  <2>4. \A r \in Sockets : sock'[r] = "unused" =>
           /\ \A q \in Sockets : q > r => sock'[q] = "unused"
           /\ pc'[Loop(r)] = "none"
           /\ allocated' <= r
    BY <1>1, <2>1, <2>3 DEF SocketsOK
  <2>5. \A q \in Loops : pc'[q] = "spawned" => dialed'[q] \in Sockets
    BY <2>1, <2>3 DEF SocketsOK
  <2>6. \A q \in Loops : pc'[q] \in Connecting =>
           /\ dialed'[q] \in Sockets
           /\ sock'[dialed'[q]] # "unused"
           /\ pc'[Loop(dialed'[q])] = "none"
           /\ pc'[q] = "refresh" => allocated' <= dialed'[q]
    BY <1>1, <2>1, <2>3 DEF SocketsOK
  <2>7. \A o \in Objects : connOf'[o] # Nil => sock'[connOf'[o]] # "unused"
    BY <2>1, <2>2 DEF SocketsOK, TypeOK
  <2> QED
    BY <2>4, <2>5, <2>6, <2>7 DEF SocketsOK
<1>6. CASE PreambleSent(g)
  <2>1. /\ pc[p] = "preamble" /\ pc' = [pc EXCEPT ![p] = "spawned", ![Loop(s)] = "start"]
        /\ UNCHANGED <<allocated, sock, dialed, connOf>>
    BY <1>6 DEF PreambleSent, At, objects
  <2>2. s \in Sockets /\ sock[s] # "unused" /\ pc[Loop(s)] = "none"
    BY <1>1, <2>1 DEF SocketsOK, Connecting
  <2>3. \A q \in Loops : \/ q = p /\ pc'[q] = "spawned"
                         \/ q = Loop(s) /\ pc'[q] = "start"
                         \/ q # p /\ q # Loop(s) /\ pc'[q] = pc[q]
    BY <1>1, <2>1, <2>2, Names DEF TypeOK
  <2>4. \A q \in Loops : pc'[q] \notin Connecting
    BY <1>1, <2>1, <2>3, Alone DEF Connecting, DialPCs
  <2>5. \A r \in Sockets : sock'[r] = "unused" =>
           /\ \A q \in Sockets : q > r => sock'[q] = "unused"
           /\ pc'[Loop(r)] = "none"
           /\ allocated' <= r
    <3> SUFFICES ASSUME NEW r \in Sockets, sock[r] = "unused" PROVE pc'[Loop(r)] = "none"
      BY <2>1 DEF SocketsOK
    <3>1. pc[Loop(r)] = "none" /\ Loop(r) # p
      BY <2>1 DEF SocketsOK
    <3>2. Loop(r) # Loop(s)
      BY <2>2, Names
    <3> QED
      BY <1>1, <2>3, <3>1, <3>2
  <2>6. \A q \in Loops : pc'[q] = "spawned" => dialed'[q] \in Sockets
    BY <1>1, <2>1, <2>2, <2>3 DEF SocketsOK
  <2>7. \A o \in Objects : connOf'[o] # Nil => sock'[connOf'[o]] # "unused"
    BY <2>1 DEF SocketsOK
  <2> QED
    BY <2>4, <2>5, <2>6, <2>7 DEF SocketsOK
<1>7. CASE PreambleFails(g)
  <2>1. /\ pc[p] = "preamble" /\ \E l \in {"gone", "backoff"} : pc' = [pc EXCEPT ![p] = l]
        /\ sock' = [sock EXCEPT ![s] = "closed"]
        /\ connOf' = [connOf EXCEPT ![obj[p]] = Nil]
        /\ UNCHANGED <<allocated, dialed>>
    BY <1>7 DEF PreambleFails, At, Goto, notes
  <2>2. s \in Sockets /\ sock[s] # "unused"
    BY <1>1, <2>1 DEF SocketsOK, Connecting
  <2>3. \A q \in Loops : pc'[q] = pc[q] \/ (q = p /\ pc'[q] \in {"gone", "backoff"})
    <3>1. PICK l \in {"gone", "backoff"} : pc' = [pc EXCEPT ![p] = l]
      BY <2>1
    <3>2. pc'[p] = l /\ \A q \in Procs : q # p => pc'[q] = pc[q]
      BY <1>1, <3>1, Moved
    <3>3. Loops \subseteq Procs
      BY Names
    <3> QED
      BY <3>1, <3>2, <3>3
  <2>4. \A r \in Sockets : sock'[r] = "unused" <=> sock[r] = "unused"
    BY <2>1, <2>2 DEF TypeOK
  <2>5. \A o \in Objects : connOf'[o] \in {connOf[o], Nil}
    BY <2>1 DEF TypeOK
  <2> QED
    BY <2>1, <2>3, <2>4, <2>5, SocketsKept DEF Connecting
<1>8. CASE ConnectReturns(g)
  <2>1. /\ pc[p] = "spawned" /\ UNCHANGED <<allocated, dialed, sock, connOf>>
        /\ \/ pc' = [pc EXCEPT ![p] = "gone"]
           \/ pc' = [pc EXCEPT ![p] = "gone", ![Hook(s)] = "running"]
    BY <1>8 DEF ConnectReturns, At, Goto, notes
  <2>2. s \in Sockets /\ Hook(s) \notin Loops
    BY <1>1, <2>1, Names DEF SocketsOK
  <2>3. \A q \in Loops : pc'[q] = pc[q] \/ (q = p /\ pc'[q] = "gone")
    <3>1. \A q \in Loops : q \in Procs /\ q # Hook(s)
      BY <2>2, Names
    <3> QED
      BY <1>1, <2>1, <3>1 DEF TypeOK
  <2> QED
    BY <2>1, <2>3, SocketsKept DEF Connecting
<1> QED
  BY <1>2, <1>3, <1>4, <1>5, <1>6, <1>7, <1>8 DEF DialStep

\* Every step preserves SocketsOK.
LEMMA NextSockets ==
  ASSUME TypeOK, ControlOK, SocketsOK, ObjectsOK, OwnerOK, OneInCharge, [Next]_vars
  PROVE  SocketsOK'
<1>1. ASSUME NEW p \in Procs, EndStep(p) PROVE SocketsOK'
  <2>1. pc[p] \in EndPCs /\ obj[p] \in Objects
    BY <1>1 DEF EndStep, EndTest, EndFlag, EndCheck, EndClose, At, EndPCs, ObjectsOK, Using, TypeOK
  <2>2. /\ UNCHANGED <<allocated, dialed, connOf>>
        /\ \E l \in {"endFlag", "endCheck", "endClose", goesTo[p]} : pc' = [pc EXCEPT ![p] = l]
        /\ \/ UNCHANGED sock
           \/ sock' = [s \in Sockets |-> IF s = connOf[obj[p]] THEN "closed" ELSE sock[s]]
    BY <1>1 DEF EndStep, EndTest, EndFlag, EndCheck, EndClose, Goto, objects, notes
  <2>3. \A s \in Sockets : sock'[s] = "unused" <=> sock[s] = "unused"
    BY <2>1, <2>2, Numbers DEF SocketsOK
  <2>4. \A q \in Loops : \/ pc'[q] = pc[q]
                         \/ pc[q] # "none" /\ pc'[q] \in {"endFlag", "endCheck", "endClose", "gone", "cleanup"}
    BY <2>1, <2>2, Names DEF ControlOK, EndPCs, TypeOK
  <2> QED
    BY <2>2, <2>3, <2>4, SocketsKept DEF Connecting
<1>2. ASSUME NEW s \in Sockets, LoopStep(s) \/ HookStep(s) PROVE SocketsOK'
  <2>1. UNCHANGED <<allocated, dialed, sock, connOf>>
    BY <1>2 DEF LoopStep, LoopStarts, LoopFails, LoopCleansUp, LoopRedials, HookStep,
                HookReturns, HookMarksReady, CallEnd, objects, notes
  <2>2. Loop(s) \in Loops /\ Loop(s) \in Procs /\ Hook(s) \notin Loops
    BY Names
  <2>3. \A q \in Loops :
          \/ pc'[q] = pc[q]
          \/ /\ pc[q] # "none"
             /\ pc'[q] \in {"endTest", "reading", "disconnecting", "dial", "gone"}
    BY <1>2, <2>2, Names
    DEF LoopStep, LoopStarts, LoopFails, LoopCleansUp, LoopRedials, HookStep,
        HookReturns, HookMarksReady, CallEnd, At, Goto, TypeOK
  <2> QED
    BY <2>1, <2>3, SocketsKept DEF Connecting
<1>3. ASSUME CloseDone \/ CloseEnds PROVE SocketsOK'
  <2>1. UNCHANGED <<allocated, dialed, sock, connOf>>
    BY <1>3 DEF CloseDone, CloseEnds, CallEnd, objects, notes
  <2>2. \A q \in Loops : pc'[q] = pc[q]
    BY <1>3, Names DEF CloseDone, CloseEnds, CallEnd, At, Goto, TypeOK
  <2> QED
    BY <2>1, <2>2, SocketsKept DEF Connecting
<1>4. ASSUME NEW s \in Sockets, PeerLost(s) PROVE SocketsOK'
  <2>1. UNCHANGED <<allocated, dialed, connOf, pc>>
    BY <1>4 DEF PeerLost, objects, notes
  <2>2. \A r \in Sockets : sock'[r] = "unused" <=> sock[r] = "unused"
    BY <1>4 DEF PeerLost, TypeOK
  <2> QED
    BY <2>1, <2>2, SocketsKept DEF Connecting
<1>5. CASE UNCHANGED vars
  BY <1>5 DEF vars, SocketsOK
<1> QED
  BY <1>1, <1>2, <1>3, <1>4, <1>5, NextSteps, DialSockets

\* Steps that touch no object, and lead nobody to using one who did not,
\* preserve ObjectsOK.
LEMMA ObjectsKept ==
  ASSUME TypeOK, ObjectsOK, UNCHANGED objects, NEW p \in Procs, NEW l,
         pc' = [pc EXCEPT ![p] = l],
         \/ UNCHANGED obj
         \/ obj' = [obj EXCEPT ![p] = cur],
         l \in Using => pc[p] \in Using \/ obj' # obj \/ obj[p] # 0
  PROVE  ObjectsOK'
<1>1. UNCHANGED <<cur, allocated, connOf, ready>>
  BY DEF objects
<1>2. pc'[p] = l /\ \A q \in Procs : q # p => pc'[q] = pc[q]
  BY Moved
<1>3. \A q \in Procs : obj'[q] = obj[q] \/ (q = p /\ obj'[q] = cur)
  BY DEF TypeOK
<1>4. cur # 0
  BY Numbers DEF TypeOK
<1>5. obj' # obj => obj'[p] = cur
  BY DEF TypeOK
<1> QED
  BY <1>1, <1>2, <1>3, <1>4, <1>5 DEF ObjectsOK

\* A dialling loop makes an object before it uses it.
LEMMA DialObjects ==
  ASSUME TypeOK, ObjectsOK, SocketsOK, OwnerOK, NEW g \in 0 .. MaxDials, DialStep(g)
  PROVE  ObjectsOK'
<1> DEFINE p == Loop(g)  s == dialed[p]  o == obj[p]
<1>1. p \in Loops /\ p \in Procs
  BY Names
<1>2. o \in Objects \cup {0} /\ cur \in Objects /\ allocated \in Nat /\ cur # 0
  BY <1>1, Numbers DEF TypeOK
<1>3. CASE DialStart(g) \/ DialFails(g) \/ DialGivesUp(g) \/ BackoffEnds(g) \/ DialSucceeds(g)
  <2>1. UNCHANGED <<objects, obj>>
    BY <1>3 DEF DialStart, DialFails, DialGivesUp, BackoffEnds, DialSucceeds
  <2>2. PICK l \in {"gone", "dialing", "backoff", "refresh"} : pc' = [pc EXCEPT ![p] = l]
    BY <1>3 DEF DialStart, DialFails, DialGivesUp, BackoffEnds, DialSucceeds, Goto
  <2>3. l \notin Using
    BY <2>2 DEF Using, EndPCs
  <2> QED
    BY <1>1, <2>1, <2>2, <2>3, ObjectsKept
<1>4. CASE Refresh(g)
  <2>1. /\ pc' = [pc EXCEPT ![p] = "install"] /\ obj' = [obj EXCEPT ![p] = cur']
        /\ UNCHANGED <<connOf, ready>>
        /\ \/ allocated' = allocated + 1 /\ cur' = allocated'
           \/ UNCHANGED <<allocated, cur>>
    BY <1>4 DEF Refresh, Goto
  <2>2. pc'[p] = "install" /\ \A q \in Procs : q # p => pc'[q] = pc[q]
    BY <1>1, <2>1, Moved
  <2>3. obj'[p] = cur' /\ \A q \in Procs : q # p => obj'[q] = obj[q]
    BY <1>1, <2>1 DEF TypeOK
  <2>4. cur' # 0 /\ cur' <= allocated' /\ allocated <= allocated' /\ allocated' \in Nat
    BY <1>2, <2>1 DEF ObjectsOK
  <2>5. \A q \in Procs : obj[q] \in Nat
    <3>1. \A q \in Procs : obj[q] \in Objects \cup {0}
      BY DEF TypeOK
    <3>2. Objects \cup {0} \subseteq Nat
      BY Numbers
    <3> QED
      BY <3>1, <3>2
  <2>6. \A q \in Procs : obj'[q] <= allocated'
    BY <1>2, <2>3, <2>4, <2>5 DEF ObjectsOK
  <2>7. \A n \in Objects : n > allocated' => n > allocated
    BY <1>2, <2>4, Numbers
  <2> QED
    BY <2>1, <2>2, <2>3, <2>4, <2>6, <2>7 DEF ObjectsOK
<1>5. CASE Install(g) \/ PreambleFails(g)
  <2>1. UNCHANGED <<obj, cur, allocated, ready>> /\ o # 0 /\ o <= allocated
    BY <1>1, <1>5 DEF Install, PreambleFails, At, ObjectsOK, Using
  <2>2. PICK l \in {"preamble", "gone", "backoff"} : pc' = [pc EXCEPT ![p] = l]
    BY <1>5 DEF Install, PreambleFails, Goto
  <2>3. pc'[p] = l /\ \A q \in Procs : q # p => pc'[q] = pc[q]
    BY <1>1, <2>2, Moved
  <2>4. \A n \in Objects : n # o => connOf'[n] = connOf[n]
    BY <1>5 DEF Install, PreambleFails, TypeOK
  <2>5. \A n \in Objects : n > allocated => n # o
    BY <1>2, <2>1, Numbers
  <2> QED
    BY <2>1, <2>3, <2>4, <2>5 DEF ObjectsOK
<1>6. CASE PreambleSent(g)
  <2>1. /\ pc' = [pc EXCEPT ![p] = "spawned", ![Loop(s)] = "start"]
        /\ UNCHANGED <<obj, cur, allocated, ready, connOf>> /\ o # 0
    BY <1>1, <1>6 DEF PreambleSent, At, ObjectsOK, Using, objects
  <2>2. \A q \in Procs : pc'[q] = pc[q] \/ pc'[q] = "start" \/ (q = p /\ pc'[q] = "spawned")
    BY <1>1, <2>1 DEF TypeOK
  <2>3. "start" \notin Using
    BY DEF Using, EndPCs
  <2> QED
    BY <2>1, <2>2, <2>3 DEF ObjectsOK
<1>7. CASE ConnectReturns(g)
  <2>1. /\ UNCHANGED <<cur, allocated, connOf>> /\ o # 0 /\ o <= allocated
        /\ \A n \in Objects : n # o => ready'[n] = ready[n]
    BY <1>1, <1>7 DEF ConnectReturns, CloseReady, At, ObjectsOK, Using, TypeOK
  <2>2. s \in Sockets /\ Hook(s) \in Procs
    BY <1>1, <1>7, Names DEF ConnectReturns, At, SocketsOK
  <2>3. \A q \in Procs : \/ pc'[q] \in {pc[q], "gone"} /\ obj'[q] = obj[q]
                         \/ obj'[q] = o
    BY <1>1, <1>7, <2>2 DEF ConnectReturns, Goto, TypeOK
  <2>4. \A n \in Objects : n > allocated => n # o
    BY <1>2, <2>1, Numbers
  <2>5. "gone" \notin Using
    BY DEF Using, EndPCs
  <2> QED
    BY <2>1, <2>3, <2>4, <2>5 DEF ObjectsOK
<1> QED
  BY <1>3, <1>4, <1>5, <1>6, <1>7 DEF DialStep

\* Every step preserves ObjectsOK.
LEMMA NextObjects ==
  ASSUME TypeOK, ControlOK, SocketsOK, ObjectsOK, OwnerOK, [Next]_vars
  PROVE  ObjectsOK'
<1>1. ASSUME NEW p \in Procs, EndStep(p) PROVE ObjectsOK'
  <2>1. pc[p] \in Using
    BY <1>1 DEF EndStep, EndTest, EndFlag, EndCheck, EndClose, At, EndPCs, Using
  <2>2. UNCHANGED <<cur, allocated, connOf, ready, obj>>
    BY <1>1 DEF EndStep, EndTest, EndFlag, EndCheck, EndClose, objects
  <2>3. PICK l \in {"endFlag", "endCheck", "endClose", goesTo[p]} : pc' = [pc EXCEPT ![p] = l]
    BY <1>1 DEF EndStep, EndTest, EndFlag, EndCheck, EndClose, Goto
  <2>4. pc'[p] = l /\ \A q \in Procs : q # p => pc'[q] = pc[q]
    BY <2>3, Moved
  <2> QED
    BY <2>1, <2>2, <2>4 DEF ObjectsOK
<1>2. ASSUME NEW s \in Sockets, LoopStep(s) PROVE ObjectsOK'
  <2>1. Loop(s) \in Procs /\ Loop(s) \in Loops
    BY Names
  <2>2. UNCHANGED objects
    BY <1>2 DEF LoopStep, LoopStarts, LoopFails, LoopCleansUp, LoopRedials
  <2>3. obj' = obj \/ obj' = [obj EXCEPT ![Loop(s)] = cur]
    BY <1>2, <2>1
    DEF LoopStep, LoopStarts, LoopFails, LoopCleansUp, LoopRedials, CallEnd, At, TypeOK, OwnerOK
  <2>4. PICK l \in {"endTest", "reading", "disconnecting", "dial", "gone"} :
          pc' = [pc EXCEPT ![Loop(s)] = l]
    BY <1>2 DEF LoopStep, LoopStarts, LoopFails, LoopCleansUp, LoopRedials, CallEnd, Goto
  <2>5. l \in Using => pc[Loop(s)] \in Using \/ obj' # obj \/ obj[Loop(s)] # 0
    <3>1. CASE LoopStarts(s)
      <4>1. obj' = [obj EXCEPT ![Loop(s)] = cur] /\ cur # 0
        BY <3>1, Numbers DEF LoopStarts, CallEnd, TypeOK
      <4>2. obj'[Loop(s)] = cur
        BY <2>1, <4>1 DEF TypeOK
      <4> QED
        BY <4>1, <4>2
    <3>2. CASE LoopFails(s)
      BY <3>2 DEF LoopFails, At, Using
    <3>3. CASE LoopCleansUp(s) \/ LoopRedials(s)
      <4>1. pc'[Loop(s)] = l
        BY <2>1, <2>4, Moved
      <4>2. pc'[Loop(s)] \in {"disconnecting", "dial", "gone"}
        BY <2>1, <3>3 DEF LoopCleansUp, LoopRedials, Goto, TypeOK
      <4> QED
        BY <4>1, <4>2 DEF Using, EndPCs
    <3> QED
      BY <1>2, <3>1, <3>2, <3>3 DEF LoopStep
  <2> QED
    BY <2>1, <2>2, <2>3, <2>4, <2>5, ObjectsKept
<1>3. ASSUME NEW s \in Sockets, HookStep(s) PROVE ObjectsOK'
  <2> DEFINE o == obj[Hook(s)]
  <2>1. Hook(s) \in Procs
    BY Names
  <2>2. pc[Hook(s)] \in Using /\ o # 0 /\ o <= allocated /\ o \in Objects
    BY <1>3, <2>1 DEF HookStep, HookReturns, HookMarksReady, At, Using, ObjectsOK, TypeOK
  <2>3. /\ UNCHANGED <<cur, allocated, connOf, obj>>
        /\ \A n \in Objects : n # o => ready'[n] = ready[n]
    BY <1>3, <2>1 DEF HookStep, HookReturns, HookMarksReady, CloseReady, CallEnd, objects, TypeOK
  <2>4. PICK l : pc' = [pc EXCEPT ![Hook(s)] = l]
    BY <1>3 DEF HookStep, HookReturns, HookMarksReady, CallEnd, Goto
  <2>5. \A q \in Procs : q # Hook(s) => pc'[q] = pc[q]
    BY <2>1, <2>4, Moved
  <2>6. \A n \in Objects : n > allocated => n # o
    <3>1. allocated \in Nat /\ o \in Nat /\ Objects \subseteq Nat
      BY <2>2, Numbers DEF TypeOK
    <3> QED
      BY <2>2, <3>1
  <2> QED
    BY <2>2, <2>3, <2>5, <2>6 DEF ObjectsOK
<1>4. ASSUME CloseDone PROVE ObjectsOK'
  <2>1. UNCHANGED <<objects, obj>> /\ pc' = [pc EXCEPT ![Closer] = "closing"]
    BY <1>4 DEF CloseDone, Goto
  <2>2. "closing" \notin Using /\ Closer \in Procs
    BY Names DEF Using, EndPCs
  <2> QED
    BY <2>1, <2>2, ObjectsKept
<1>5. ASSUME CloseEnds PROVE ObjectsOK'
  <2>1. /\ UNCHANGED objects /\ pc' = [pc EXCEPT ![Closer] = "endTest"]
        /\ obj' = [obj EXCEPT ![Closer] = cur] /\ Closer \in Procs
    BY <1>5, Names DEF CloseEnds, CallEnd, Goto
  <2>2. obj'[Closer] = cur /\ cur # 0
    BY <2>1, Numbers DEF TypeOK
  <2> QED
    BY <2>1, <2>2, ObjectsKept
<1>6. ASSUME NEW s \in Sockets, PeerLost(s) PROVE ObjectsOK'
  BY <1>6 DEF PeerLost, objects, ObjectsOK
<1>7. CASE UNCHANGED vars
  BY <1>7 DEF vars, ObjectsOK
<1> QED
  BY <1>1, <1>2, <1>3, <1>4, <1>5, <1>6, <1>7, NextSteps, DialObjects

-----------------------------------------------------------------------------
(* ChargeOK.                                                               *)

\* Being in charge depends on a loop's place and, in end(), on where it goes.
Serving(l, d) == l \in DialPCs \cup ReadPCs \/ (l \in EndPCs /\ d = "cleanup")

\* The members of InCharge.
LEMMA InChargeDef ==
    /\ InCharge = {p \in Loops : Serving(pc[p], goesTo[p])}
    /\ InCharge' = {p \in Loops : Serving(pc'[p], goesTo'[p])}
  BY DEF InCharge, Serving

\* A step after which the loops in charge are those before, or which hands the
\* charge from one loop to another, or after which the only one has stopped for
\* a reason, preserves ChargeOK.
LEMMA ChargeKept ==
  ASSUME TypeOK, ChargeOK, UNCHANGED options,
         \/ InCharge' = InCharge
         \/ \E p, q \in Loops : p \in InCharge /\ InCharge' \subseteq {q} /\ q \in InCharge'
         \/ /\ \E p \in InCharge : InCharge' \subseteq InCharge \ {p}
            /\ done' \/ options.conn \/ ~options.dialer,
         \/ UNCHANGED done /\ pc'[Closer] = pc[Closer]
         \/ pc'[Closer] # "idle"
         \/ MayGiveUp /\ \E p \in InCharge : InCharge' \subseteq InCharge \ {p},
         done => done'
  PROVE  ChargeOK'
<1>1. \A p, q \in InCharge : p = q
  BY DEF ChargeOK, OneInCharge
<1>2. \A p, q \in InCharge' : p = q
  BY <1>1
<1>3. (options.dialer /\ ~options.conn /\ ~done => InCharge # {})'
  BY DEF ChargeOK, OneInCharge
<1>4. (done /\ pc[Closer] = "idle" => MayGiveUp /\ InCharge = {})'
  BY <1>1 DEF ChargeOK
<1> QED
  BY <1>2, <1>3, <1>4 DEF ChargeOK, OneInCharge

\* When one goroutine moves, the others are in charge or not as before.
LEMMA ChargeMoves ==
  ASSUME TypeOK, NEW p \in Procs, NEW l, pc' = [pc EXCEPT ![p] = l],
         \A q \in Procs : q # p => goesTo'[q] = goesTo[q]
  PROVE  /\ \A q \in Loops : q # p => (q \in InCharge' <=> q \in InCharge)
         /\ p \in InCharge' <=> p \in Loops /\ Serving(l, goesTo'[p])
         /\ p \in InCharge <=> p \in Loops /\ Serving(pc[p], goesTo[p])
         /\ InCharge \subseteq Loops /\ InCharge' \subseteq Loops
<1>1. pc'[p] = l /\ \A q \in Procs : q # p => pc'[q] = pc[q]
  BY Moved
<1>2. Loops \subseteq Procs
  BY Names
<1> QED
  BY <1>1, <1>2, InChargeDef

\* The loops in charge are the same if each of them is.
LEMMA SameCharge ==
  ASSUME \A q \in Loops : q \in InCharge' <=> q \in InCharge
  PROVE  InCharge' = InCharge
  BY InChargeDef

\* Every step preserves ChargeOK.
LEMMA NextCharge ==
  ASSUME TypeOK, ControlOK, SocketsOK, ChargeOK, [Next]_vars
  PROVE  ChargeOK'
<1>1. ASSUME NEW p \in Procs, EndStep(p) PROVE ChargeOK'
  <2>1. /\ UNCHANGED <<options, done, goesTo>> /\ pc[p] \in EndPCs
        /\ p = Closer => pc[Closer] # "idle"
    BY <1>1 DEF EndStep, EndTest, EndFlag, EndCheck, EndClose, At, EndPCs, notes
  <2>2. PICK l \in {"endFlag", "endCheck", "endClose", goesTo[p]} : pc' = [pc EXCEPT ![p] = l]
    BY <1>1 DEF EndStep, EndTest, EndFlag, EndCheck, EndClose, Goto
  <2>3. p \in Loops => (Serving(l, goesTo[p]) <=> Serving(pc[p], goesTo[p]))
    <3>1. {"endFlag", "endCheck", "endClose"} \subseteq EndPCs /\ "cleanup" \in ReadPCs
      BY DEF EndPCs, ReadPCs
    <3> QED
      BY <2>1, <2>2, <3>1, Disjoint DEF Serving, ControlOK
  <2>4. InCharge' = InCharge
    BY <2>1, <2>2, <2>3, ChargeMoves
  <2>5. pc'[Closer] = pc[Closer] \/ pc'[Closer] # "idle"
    <3>1. Closer \in Procs /\ "idle" \notin {"endFlag", "endCheck", "endClose"}
      BY Names
    <3>2. CASE p = Closer
      <4>1. pc'[Closer] = l /\ goesTo[Closer] = "gone"
        BY <2>1, <2>2, <3>2, Moved DEF ControlOK
      <4> QED
        BY <2>2, <3>1, <3>2, <4>1
    <3>3. CASE p # Closer
      BY <2>2, <3>1, <3>3, Moved
    <3> QED
      BY <3>2, <3>3
  <2> QED
    BY <2>1, <2>4, <2>5, ChargeKept
<1>2. ASSUME NEW g \in 0 .. MaxDials, DialStep(g) PROVE ChargeOK'
  <2> DEFINE p == Loop(g)  s == dialed[p]
  <2>1. p \in Loops /\ p \in Procs /\ Closer \in Procs /\ Closer # p
    BY Names
  <2>2. UNCHANGED <<options, goesTo>>
    BY <1>2 DEF DialStep, DialStart, DialFails, DialGivesUp, DialSucceeds, Refresh, Install,
                PreambleSent, PreambleFails, ConnectReturns, BackoffEnds, notes
  <2>3. ASSUME NEW l, pc' = [pc EXCEPT ![p] = l]
        PROVE  /\ \A q \in Loops : q # p => (q \in InCharge' <=> q \in InCharge)
               /\ p \in InCharge' <=> Serving(l, goesTo[p])
               /\ p \in InCharge <=> Serving(pc[p], goesTo[p])
               /\ InCharge \subseteq Loops /\ InCharge' \subseteq Loops
               /\ pc'[Closer] = pc[Closer]
    <3>1. \A q \in Procs : q # p => goesTo'[q] = goesTo[q]
      BY <2>2
    <3>2. pc'[Closer] = pc[Closer]
      BY <2>1, <2>3, Moved
    <3> QED
      BY <2>1, <2>2, <2>3, <3>1, <3>2, ChargeMoves
  <2>4. /\ \A l \in DialPCs : Serving(l, goesTo[p])
        /\ ~Serving("gone", goesTo[p]) /\ ~Serving("spawned", goesTo[p])
    BY Disjoint DEF Serving
  <2>5. CASE DialFails(g) \/ DialSucceeds(g) \/ Refresh(g) \/ Install(g)
    <3>1. UNCHANGED done
      BY <2>5 DEF DialFails, DialSucceeds, Refresh, Install
    <3>2. PICK l \in DialPCs : pc' = [pc EXCEPT ![p] = l]
      BY <2>5 DEF DialFails, DialSucceeds, Refresh, Install, Goto, DialPCs
    <3>3. pc[p] \in DialPCs
      BY <2>5 DEF DialFails, DialSucceeds, Refresh, Install, At, DialPCs
    <3>4. \A q \in Loops : q \in InCharge' <=> q \in InCharge
      BY <2>3, <2>4, <3>2, <3>3
    <3>5. pc'[Closer] = pc[Closer]
      BY <2>3, <3>2
    <3> QED
      BY <2>2, <3>1, <3>4, <3>5, SameCharge, ChargeKept
  <2>6. CASE DialStart(g) \/ DialGivesUp(g) \/ PreambleFails(g) \/ BackoffEnds(g)
    <3>1. pc[p] \in DialPCs
      BY <2>6 DEF DialStart, DialGivesUp, PreambleFails, BackoffEnds, At, DialPCs
    <3>2. PICK l \in {"dialing", "backoff", "gone"} : pc' = [pc EXCEPT ![p] = l]
      BY <2>6 DEF DialStart, DialGivesUp, PreambleFails, BackoffEnds, Goto
    <3>3. /\ done => done'
          /\ UNCHANGED done \/ (MayGiveUp /\ l = "gone")
          /\ l = "gone" => done' \/ options.conn
      <4>1. pc'[p] = l
        BY <2>1, <3>2, Moved
      <4>2. CASE DialStart(g) \/ BackoffEnds(g)
        BY <2>1, <4>1, <4>2 DEF DialStart, BackoffEnds, Goto, TypeOK
      <4>3. CASE DialGivesUp(g)
        BY <2>1, <4>1, <4>3 DEF DialGivesUp, Goto, TypeOK
      <4>4. CASE PreambleFails(g)
        BY <2>1, <4>1, <4>4 DEF PreambleFails, Goto, TypeOK
      <4> QED
        BY <2>6, <4>2, <4>3, <4>4
    <3>4. p \in InCharge /\ pc'[Closer] = pc[Closer]
      BY <2>3, <2>4, <3>1, <3>2
    <3>5. CASE l = "gone"
      <4>1. InCharge' \subseteq InCharge \ {p}
        BY <2>3, <2>4, <3>2, <3>5
      <4> QED
        BY <2>2, <3>3, <3>4, <3>5, <4>1, ChargeKept
    <3>6. CASE l # "gone"
      <4>1. l \in DialPCs
        BY <3>2, <3>6 DEF DialPCs
      <4>2. \A q \in Loops : q \in InCharge' <=> q \in InCharge
        BY <2>3, <2>4, <3>1, <3>2, <4>1
      <4> QED
        BY <2>2, <3>3, <3>4, <3>6, <4>2, SameCharge, ChargeKept
    <3> QED
      BY <3>5, <3>6
  <2>7. CASE PreambleSent(g)
    <3>1. /\ pc[p] = "preamble" /\ pc' = [pc EXCEPT ![p] = "spawned", ![Loop(s)] = "start"]
          /\ UNCHANGED done
      BY <2>7 DEF PreambleSent, At
    <3>2. s \in Sockets /\ pc[Loop(s)] = "none"
      BY <2>1, <3>1 DEF SocketsOK, Connecting
    <3>3. Loop(s) \in Loops /\ Loop(s) \in Procs /\ Loop(s) # p /\ Loop(s) # Closer
      BY <3>1, <3>2, Names
    <3>4. pc'[p] = "spawned" /\ pc'[Loop(s)] = "start" /\ pc'[Closer] = pc[Closer]
      BY <2>1, <3>1, <3>3 DEF TypeOK
    <3>5. \A q \in Loops : q # p /\ q # Loop(s) => pc'[q] = pc[q]
      BY <2>1, <3>1, <3>3, Names DEF TypeOK
    <3>6. p \in InCharge
      BY <2>1, <2>4, <3>1, InChargeDef DEF DialPCs
    <3>7. \A q \in Loops : q # p => q \notin InCharge
      BY <3>6 DEF ChargeOK, OneInCharge
    <3>8. "start" \in ReadPCs
      BY DEF ReadPCs
    <3>9. Loop(s) \in InCharge'
      BY <3>3, <3>4, <3>8, InChargeDef DEF Serving
    <3>10. InCharge' \subseteq {Loop(s)}
      <4>1. SUFFICES ASSUME NEW q \in InCharge', q # Loop(s) PROVE FALSE
        OBVIOUS
      <4>2. q \in Loops /\ Serving(pc'[q], goesTo[q])
        BY <2>2, InChargeDef
      <4>3. q # p
        BY <2>4, <3>4, <4>2
      <4> QED
        BY <3>5, <3>7, <4>1, <4>2, <4>3, InChargeDef
    <3> QED
      BY <2>1, <2>2, <3>1, <3>3, <3>4, <3>6, <3>9, <3>10, ChargeKept
  <2>8. CASE ConnectReturns(g)
    <3>1. /\ pc[p] = "spawned" /\ UNCHANGED done
          /\ \/ pc' = [pc EXCEPT ![p] = "gone"]
             \/ pc' = [pc EXCEPT ![p] = "gone", ![Hook(s)] = "running"]
      BY <2>8 DEF ConnectReturns, At, Goto
    <3>2. s \in Sockets /\ Hook(s) \notin Loops /\ Hook(s) # Closer
      BY <2>1, <3>1, Names DEF SocketsOK
    <3>3. pc'[p] = "gone" /\ pc'[Closer] = pc[Closer]
      BY <2>1, <3>1, <3>2 DEF TypeOK
    <3>4. \A q \in Loops : q # p => pc'[q] = pc[q]
      <4>1. Loops \subseteq Procs
        BY Names
      <4> QED
        BY <2>1, <3>1, <3>2, <4>1 DEF TypeOK
    <3>5. InCharge' = InCharge
      BY <2>1, <2>2, <2>4, <3>1, <3>3, <3>4, InChargeDef
    <3> QED
      BY <2>2, <3>1, <3>3, <3>5, ChargeKept
  <2> QED
    BY <1>2, <2>5, <2>6, <2>7, <2>8 DEF DialStep
<1>3. ASSUME NEW r \in Sockets, LoopStep(r) PROVE ChargeOK'
  <2> DEFINE p == Loop(r)
  <2>1. p \in Loops /\ p \in Procs /\ Closer \in Procs /\ Closer # p
    BY Names
  <2>2. UNCHANGED <<options, done>> /\ pc[p] \in ReadPCs /\ crash = "none"
    BY <1>3 DEF LoopStep, LoopStarts, LoopFails, LoopCleansUp, LoopRedials, At, ReadPCs, notes
  <2>3. PICK l \in {"endTest", "reading", "disconnecting", "dial", "gone"} : pc' = [pc EXCEPT ![p] = l]
    BY <1>3 DEF LoopStep, LoopStarts, LoopFails, LoopCleansUp, LoopRedials, CallEnd, Goto
  <2>4. \A q \in Procs : q # p => goesTo'[q] = goesTo[q]
    BY <1>3, <2>1
    DEF LoopStep, LoopStarts, LoopFails, LoopCleansUp, LoopRedials, CallEnd, TypeOK, notes
  <2>5. pc'[Closer] = pc[Closer] /\ pc'[p] = l
    BY <2>1, <2>3, Moved
  <2>6. p \in InCharge
    BY <2>1, <2>2, InChargeDef DEF Serving
  <2>7. Serving(l, goesTo'[p]) \/ done \/ ~options.dialer
    <3>1. \/ l = "endTest" /\ (goesTo'[p] = "cleanup" \/ done)
          \/ l \in {"reading", "disconnecting", "dial"}
          \/ l = "gone" /\ ~options.dialer
      BY <1>3, <2>1, <2>5
      DEF LoopStep, LoopStarts, LoopFails, LoopCleansUp, LoopRedials, CallEnd, Goto, TypeOK
    <3>2. "endTest" \in EndPCs /\ {"reading", "disconnecting", "dial"} \subseteq ReadPCs \cup DialPCs
      BY DEF EndPCs, ReadPCs, DialPCs
    <3> QED
      BY <3>1, <3>2 DEF Serving
  <2>8. CASE Serving(l, goesTo'[p])
    <3>1. \A q \in Loops : q \in InCharge' <=> q \in InCharge
      BY <2>1, <2>3, <2>4, <2>6, <2>8, ChargeMoves
    <3> QED
      BY <2>2, <2>5, <3>1, SameCharge, ChargeKept
  <2>9. CASE ~Serving(l, goesTo'[p])
    <3>1. InCharge' \subseteq InCharge \ {p}
      BY <2>1, <2>3, <2>4, <2>6, <2>9, ChargeMoves
    <3> QED
      BY <2>2, <2>5, <2>6, <2>7, <2>9, <3>1, ChargeKept
  <2> QED
    BY <2>8, <2>9
<1>4. ASSUME NEW r \in Sockets, HookStep(r) PROVE ChargeOK'
  <2>1. Hook(r) \in Procs /\ Hook(r) \notin Loops /\ Hook(r) # Closer /\ Closer \in Procs
    BY Names
  <2>2. UNCHANGED <<options, done>>
    BY <1>4 DEF HookStep, HookReturns, HookMarksReady, notes
  <2>3. PICK l : pc' = [pc EXCEPT ![Hook(r)] = l]
    BY <1>4 DEF HookStep, HookReturns, HookMarksReady, CallEnd, Goto
  <2>4. \A q \in Procs : q # Hook(r) => goesTo'[q] = goesTo[q]
    BY <1>4, <2>1 DEF HookStep, HookReturns, HookMarksReady, CallEnd, TypeOK
  <2>5. InCharge' = InCharge
    <3>1. \A q \in Loops : q \in InCharge' <=> q \in InCharge
      BY <2>1, <2>3, <2>4, ChargeMoves
    <3> QED
      BY <3>1, SameCharge
  <2>6. pc'[Closer] = pc[Closer]
    BY <2>1, <2>3, Moved
  <2> QED
    BY <2>2, <2>5, <2>6, ChargeKept
<1>5. ASSUME CloseDone \/ CloseEnds PROVE ChargeOK'
  <2>1. Closer \in Procs /\ Closer \notin Loops
    BY Names
  <2>2. UNCHANGED options /\ (done => done')
    <3>1. CASE CloseDone
      BY <3>1 DEF CloseDone, notes
    <3>2. CASE CloseEnds
      BY <3>2 DEF CloseEnds, notes
    <3> QED
      BY <1>5, <3>1, <3>2
  <2>3. PICK l \in {"closing", "endTest"} : pc' = [pc EXCEPT ![Closer] = l]
    BY <1>5 DEF CloseDone, CloseEnds, CallEnd, Goto
  <2>4. \A q \in Procs : q # Closer => goesTo'[q] = goesTo[q]
    BY <1>5, <2>1 DEF CloseDone, CloseEnds, CallEnd, TypeOK
  <2>5. InCharge' = InCharge
    <3>1. \A q \in Loops : q \in InCharge' <=> q \in InCharge
      BY <2>1, <2>3, <2>4, ChargeMoves
    <3> QED
      BY <3>1, SameCharge
  <2>6. pc'[Closer] # "idle"
    BY <2>1, <2>3, Moved
  <2> QED
    BY <2>2, <2>5, <2>6, ChargeKept
<1>6. ASSUME NEW s \in Sockets, PeerLost(s) PROVE ChargeOK'
  <2>1. UNCHANGED <<options, done, pc, goesTo>>
    BY <1>6 DEF PeerLost, notes
  <2> QED
    BY <2>1, ChargeKept, InChargeDef
<1>7. CASE UNCHANGED vars
  <2>1. UNCHANGED <<options, done, pc, goesTo>>
    BY <1>7 DEF vars
  <2> QED
    BY <2>1, ChargeKept, InChargeDef
<1> QED
  BY <1>1, <1>2, <1>3, <1>4, <1>5, <1>6, <1>7, NextSteps

-----------------------------------------------------------------------------
(* OwnerOK.                                                                *)

\* Whoever has or will have the current object's socket.
Owning == {"install", "preamble", "start", "reading"}

\* Steps that leave the current object alone and after which nobody owns it who
\* did not before preserve OwnerOK.
LEMMA OwnerKept ==
  ASSUME OwnerOK, UNCHANGED <<cur, connOf, dialed>>,
         \A q \in Loops : pc'[q] \in Owning => pc'[q] = pc[q] /\ obj'[q] = obj[q]
  PROVE  OwnerOK'
<1>1. \A s \in Sockets : Loop(s) \in Loops
  BY Names
<1> QED
  BY <1>1 DEF OwnerOK, Owning

\* While a loop dials, it is the only one that matters.
LEMMA OwnerAlone ==
  ASSUME OneInCharge, NEW p \in Loops, pc[p] \in DialPCs,
         \A q \in Loops : q # p => pc'[q] = pc[q],
         pc'[p] \notin {"start", "reading"},
         pc'[p] \in {"install", "preamble"} => obj'[p] = cur',
         pc'[p] = "preamble" => connOf'[cur'] = dialed'[p]
  PROVE  OwnerOK'
<1>1. \A s \in Sockets : Loop(s) \in Loops
  BY Names
<1>2. \A q \in Loops : q # p => pc'[q] \notin Owning
  BY Alone DEF Owning, DialPCs, ReadPCs
<1> QED
  BY <1>1, <1>2 DEF OwnerOK, Owning

\* Every step preserves OwnerOK.
LEMMA NextOwner ==
  ASSUME TypeOK, ControlOK, SocketsOK, ObjectsOK, OwnerOK, OneInCharge, [Next]_vars
  PROVE  OwnerOK'
<1>1. ASSUME NEW p \in Procs, EndStep(p) PROVE OwnerOK'
  <2>1. UNCHANGED <<cur, connOf, dialed, obj>> /\ pc[p] \in EndPCs
    BY <1>1 DEF EndStep, EndTest, EndFlag, EndCheck, EndClose, At, EndPCs, objects
  <2>2. PICK l \in {"endFlag", "endCheck", "endClose", goesTo[p]} : pc' = [pc EXCEPT ![p] = l]
    BY <1>1 DEF EndStep, EndTest, EndFlag, EndCheck, EndClose, Goto
  <2>3. l \notin Owning
    BY <2>1, <2>2, Names DEF ControlOK, Owning
  <2>4. \A q \in Loops : pc'[q] = pc[q] \/ pc'[q] = l
    BY <2>2, Moved, Names
  <2> QED
    BY <2>1, <2>3, <2>4, OwnerKept
<1>2. ASSUME NEW g \in 0 .. MaxDials, DialStep(g) PROVE OwnerOK'
  <2> DEFINE p == Loop(g)  s == dialed[p]
  <2>1. p \in Loops /\ p \in Procs /\ Loops \subseteq Procs
    BY Names
  <2>2. ASSUME NEW l, pc' = [pc EXCEPT ![p] = l]
        PROVE  pc'[p] = l /\ \A q \in Loops : q # p => pc'[q] = pc[q]
    BY <2>1, <2>2, Moved
  <2>3. CASE DialStart(g) \/ DialFails(g) \/ DialGivesUp(g) \/ DialSucceeds(g) \/ BackoffEnds(g)
             \/ PreambleFails(g)
    <3>1. pc[p] \in DialPCs
      BY <2>3 DEF DialStart, DialFails, DialGivesUp, DialSucceeds, BackoffEnds, PreambleFails, At,
                  DialPCs
    <3>2. PICK l \in {"gone", "dialing", "backoff", "refresh"} : pc' = [pc EXCEPT ![p] = l]
      BY <2>3 DEF DialStart, DialFails, DialGivesUp, DialSucceeds, BackoffEnds, PreambleFails, Goto
    <3> QED
      BY <2>1, <2>2, <3>1, <3>2, OwnerAlone
  <2>4. CASE Refresh(g)
    <3>1. pc[p] \in DialPCs /\ pc' = [pc EXCEPT ![p] = "install"]
      BY <2>4 DEF Refresh, At, Goto, DialPCs
    <3>2. obj'[p] = cur'
      BY <2>1, <2>4 DEF Refresh, TypeOK
    <3> QED
      BY <2>1, <2>2, <3>1, <3>2, OwnerAlone
  <2>5. CASE Install(g)
    <3>1. /\ pc[p] = "install" /\ pc' = [pc EXCEPT ![p] = "preamble"]
          /\ UNCHANGED <<cur, obj, dialed>> /\ connOf' = [connOf EXCEPT ![obj[p]] = s]
      BY <2>5 DEF Install, At, Goto
    <3>2. obj[p] = cur
      BY <2>1, <3>1 DEF OwnerOK
    <3>3. obj'[p] = cur' /\ connOf'[cur'] = dialed'[p]
      BY <3>1, <3>2 DEF TypeOK
    <3>4. pc[p] \in DialPCs
      BY <3>1 DEF DialPCs
    <3> QED
      BY <2>1, <2>2, <3>1, <3>3, <3>4, OwnerAlone
  <2>6. CASE PreambleSent(g)
    <3>1. /\ pc[p] = "preamble" /\ pc' = [pc EXCEPT ![p] = "spawned", ![Loop(s)] = "start"]
          /\ UNCHANGED <<cur, connOf, obj, dialed>>
      BY <2>6 DEF PreambleSent, At, objects
    <3>2. s \in Sockets /\ pc[Loop(s)] = "none" /\ connOf[cur] = s
      BY <2>1, <3>1 DEF SocketsOK, OwnerOK, Connecting
    <3>3. \A r \in Sockets : Loop(r) \in Loops /\ (Loop(r) = Loop(s) => r = s)
      BY <3>2, Names
    <3>4. /\ pc'[p] = "spawned" /\ pc'[Loop(s)] = "start"
          /\ \A q \in Loops : q # p /\ q # Loop(s) => pc'[q] = pc[q]
      BY <2>1, <3>1, <3>2, <3>3 DEF TypeOK
    <3>5. \A q \in Loops : q # p => pc[q] \notin Owning
      BY <2>1, <3>1, Alone DEF Owning, DialPCs, ReadPCs
    <3> QED
      BY <3>1, <3>2, <3>3, <3>4, <3>5 DEF OwnerOK, Owning
  <2>7. CASE ConnectReturns(g)
    <3>1. /\ pc[p] = "spawned" /\ UNCHANGED <<cur, connOf, dialed>>
          /\ \/ pc' = [pc EXCEPT ![p] = "gone"] /\ UNCHANGED obj
             \/ /\ pc' = [pc EXCEPT ![p] = "gone", ![Hook(s)] = "running"]
                /\ obj' = [obj EXCEPT ![Hook(s)] = obj[p]]
      BY <2>7 DEF ConnectReturns, At, Goto
    <3>2. Hook(s) \notin Loops
      BY <2>1, <3>1, Names DEF SocketsOK
    <3>3. \A q \in Loops : (pc'[q] = pc[q] \/ pc'[q] = "gone") /\ obj'[q] = obj[q]
      BY <2>1, <3>1, <3>2 DEF TypeOK
    <3> QED
      BY <3>1, <3>3, OwnerKept DEF Owning
  <2> QED
    BY <1>2, <2>3, <2>4, <2>5, <2>6, <2>7 DEF DialStep
<1>3. ASSUME NEW r \in Sockets, LoopStep(r) PROVE OwnerOK'
  <2> DEFINE p == Loop(r)
  <2>1. p \in Loops /\ p \in Procs /\ Loops \subseteq Procs
    BY Names
  <2>2. UNCHANGED <<cur, connOf, dialed>>
    BY <1>3 DEF LoopStep, LoopStarts, LoopFails, LoopCleansUp, LoopRedials, objects
  <2>3. \A q \in Loops : q # p => pc'[q] = pc[q] /\ obj'[q] = obj[q]
    BY <1>3, <2>1
    DEF LoopStep, LoopStarts, LoopFails, LoopCleansUp, LoopRedials, CallEnd, Goto, TypeOK
  <2>4. CASE pc'[p] = "reading"
    <3>1. pc[p] = "start" /\ obj'[p] = cur
      BY <1>3, <2>1, <2>4
      DEF LoopStep, LoopStarts, LoopFails, LoopCleansUp, LoopRedials, CallEnd, At, Goto, TypeOK
    <3>2. connOf[cur] = r
      BY <3>1 DEF OwnerOK
    <3>3. \A t \in Sockets : Loop(t) \in Loops /\ (Loop(t) = p => t = r)
      BY Names
    <3> QED
      BY <2>1, <2>2, <2>3, <2>4, <3>1, <3>2, <3>3 DEF OwnerOK
  <2>5. CASE pc'[p] # "reading"
    <3>1. pc'[p] \in {"endTest", "disconnecting", "dial", "gone", "reading"}
      BY <1>3, <2>1
      DEF LoopStep, LoopStarts, LoopFails, LoopCleansUp, LoopRedials, CallEnd, Goto, TypeOK
    <3> QED
      BY <2>1, <2>2, <2>3, <2>5, <3>1, OwnerKept DEF Owning
  <2> QED
    BY <2>4, <2>5
<1>4. ASSUME NEW p \in Procs \ Loops, pc' = [pc EXCEPT ![p] = pc'[p]],
             UNCHANGED <<cur, connOf, dialed>>,
             \A q \in Procs : q # p => obj'[q] = obj[q]
      PROVE  OwnerOK'
  <2>1. \A q \in Loops : pc'[q] = pc[q] /\ obj'[q] = obj[q]
    BY <1>4, Moved, Names
  <2> QED
    BY <1>4, <2>1, OwnerKept
<1>5. ASSUME NEW r \in Sockets, HookStep(r) PROVE OwnerOK'
  <2>1. Hook(r) \in Procs \ Loops
    BY Names
  <2>2. /\ pc' = [pc EXCEPT ![Hook(r)] = pc'[Hook(r)]] /\ UNCHANGED <<cur, connOf, dialed>>
        /\ \A q \in Procs : q # Hook(r) => obj'[q] = obj[q]
    BY <1>5, <2>1
    DEF HookStep, HookReturns, HookMarksReady, CallEnd, Goto, objects, TypeOK
  <2> QED
    BY <1>4, <2>1, <2>2
<1>6. ASSUME CloseDone \/ CloseEnds PROVE OwnerOK'
  <2>1. Closer \in Procs \ Loops
    BY Names
  <2>2. /\ pc' = [pc EXCEPT ![Closer] = pc'[Closer]] /\ UNCHANGED <<cur, connOf, dialed>>
        /\ \A q \in Procs : q # Closer => obj'[q] = obj[q]
    BY <1>6, <2>1 DEF CloseDone, CloseEnds, CallEnd, Goto, objects, TypeOK
  <2> QED
    BY <1>4, <2>1, <2>2
<1>7. ASSUME NEW s \in Sockets, PeerLost(s) PROVE OwnerOK'
  BY <1>7 DEF PeerLost, objects, OwnerOK
<1>8. CASE UNCHANGED vars
  BY <1>8 DEF vars, OwnerOK
<1> QED
  BY <1>1, <1>2, <1>3, <1>5, <1>6, <1>7, <1>8, NextSteps

-----------------------------------------------------------------------------
(* MarkersOK, PanicCauses.                                                 *)

\* Whoever will mark an object, or is about to connect one, has an object.
LEMMA MarkerObjects ==
  ASSUME TypeOK, ControlOK, ObjectsOK
  PROVE  /\ \A q \in Markers : q \in Procs /\ obj[q] \in Objects
         /\ \A q \in Loops : pc[q] \in {"install", "preamble"} => obj[q] \in Objects
<1>1. Loops \subseteq Procs /\ Hooks \subseteq Procs
  BY Names
<1>2. \A q \in Procs : pc[q] \in Using => obj[q] \in Objects
  BY DEF ObjectsOK, TypeOK
<1>3. \A q \in Hooks : pc[q] \notin {"none", "gone"} => pc[q] \in Using
  BY DEF ControlOK, Using
<1>4. {"spawned", "install", "preamble"} \subseteq Using
  BY DEF Using
<1> QED
  BY <1>1, <1>2, <1>3, <1>4 DEF Markers

\* Steps that mark nothing, install nothing and start no read loop preserve
\* MarkersOK.
LEMMA MarkersKept ==
  ASSUME MarkersOK, UNCHANGED <<displaced, ready, connOf>>,
         \A q \in Loops :
            pc'[q] \in {"preamble", "spawned"} => pc'[q] = pc[q] /\ obj'[q] = obj[q],
         \A q \in Hooks :
            pc'[q] \notin {"none", "gone"} => pc[q] \notin {"none", "gone"} /\ obj'[q] = obj[q]
  PROVE  MarkersOK'
<1>1. \A q \in Markers' : q \in Markers /\ obj'[q] = obj[q]
  BY DEF Markers
<1>2. \A o : Unmarked(o) => Unmarked(o)'
  BY <1>1 DEF Unmarked
<1> QED
  BY <1>1, <1>2 DEF MarkersOK

\* A goroutine that marks its object does so for one nobody else will mark.
LEMMA MarkOnce ==
  ASSUME TypeOK, ControlOK, ObjectsOK, MarkersOK, displaced = {}, NEW p \in Markers,
         ready' = [ready EXCEPT ![obj[p]] = TRUE], UNCHANGED <<connOf, obj>>,
         Markers' \subseteq Markers \ {p},
         \A q \in Loops : pc'[q] = "preamble" => pc[q] = "preamble"
  PROVE  MarkersOK'
<1>1. \A o \in Objects : o # obj[p] => ready'[o] = ready[o]
  BY DEF TypeOK
<1>2. \A q \in Markers' : q \in Markers /\ obj[q] # obj[p] /\ obj[q] \in Objects
  BY MarkerObjects DEF MarkersOK
<1>3. \A o \in Objects : Unmarked(o) => Unmarked(o)'
  BY <1>1, <1>2 DEF Unmarked
<1>4. \A q \in Loops : pc'[q] = "preamble" => Unmarked(obj[q])'
  BY <1>3, MarkerObjects DEF MarkersOK
<1>5. \A q \in Markers' : ~ready'[obj[q]]
  BY <1>1, <1>2 DEF MarkersOK
<1>6. \A o \in Objects : connOf'[o] = Nil => Unmarked(o)'
  BY <1>3 DEF MarkersOK
<1>7. \A q, r \in Markers' : obj'[q] = obj'[r] => q = r
  BY <1>2 DEF MarkersOK
<1> QED
  BY <1>4, <1>5, <1>6, <1>7 DEF MarkersOK

\* A goroutine may hand the duty to mark its object over to another.
LEMMA MarkersPass ==
  ASSUME MarkersOK, NEW p \in Markers, NEW h, h # p,
         UNCHANGED <<displaced, ready, connOf>>,
         Markers' \subseteq (Markers \ {p}) \cup {h}, obj'[h] = obj[p],
         \A q \in Markers \cup Loops : q # h => obj'[q] = obj[q],
         h \notin Loops,
         \A q \in Loops : pc'[q] = "preamble" => pc[q] = "preamble"
  PROVE  MarkersOK'
<1> SUFFICES ASSUME displaced = {}
             PROVE  MarkersOK'
  BY DEF MarkersOK
<1>1. \A q \in Markers' : \/ q = h /\ obj'[q] = obj[p]
                          \/ q \in Markers /\ q # p /\ q # h /\ obj'[q] = obj[q]
  OBVIOUS
<1>2. \A o : Unmarked(o) => Unmarked(o)'
  BY <1>1 DEF Unmarked
<1> QED
  BY <1>1, <1>2 DEF MarkersOK

\* The steps of a dialling loop.
LEMMA DialMarkers ==
  ASSUME TypeOK, ControlOK, SocketsOK, ObjectsOK, OwnerOK, OneInCharge, MarkersOK,
         NEW g \in 0 .. MaxDials, DialStep(g)
  PROVE  MarkersOK'
<1> DEFINE p == Loop(g)  s == dialed[p]  o == obj[p]
<1>1. /\ p \in Loops /\ p \in Procs /\ Loops \subseteq Procs /\ Hooks \subseteq Procs
      /\ p \notin Hooks
  BY Names
<1>2. CASE DialStart(g) \/ DialFails(g) \/ DialGivesUp(g) \/ DialSucceeds(g) \/ BackoffEnds(g)
           \/ Refresh(g)
  <2>1. UNCHANGED <<displaced, ready, connOf>>
    BY <1>2 DEF DialStart, DialFails, DialGivesUp, DialSucceeds, BackoffEnds, Refresh, objects, notes
  <2>2. \A q \in Procs : q # p => obj'[q] = obj[q]
    BY <1>1, <1>2 DEF DialStart, DialFails, DialGivesUp, DialSucceeds, BackoffEnds, Refresh, TypeOK
  <2>3. PICK l \in {"gone", "dialing", "backoff", "refresh", "install"} : pc' = [pc EXCEPT ![p] = l]
    BY <1>2 DEF DialStart, DialFails, DialGivesUp, DialSucceeds, BackoffEnds, Refresh, Goto
  <2>4. pc'[p] = l /\ \A q \in Procs : q # p => pc'[q] = pc[q]
    BY <1>1, <2>3, Moved
  <2> QED
    BY <1>1, <2>1, <2>2, <2>3, <2>4, MarkersKept
<1>3. CASE Install(g)
  <2>1. /\ pc[p] = "install" /\ pc' = [pc EXCEPT ![p] = "preamble"]
        /\ connOf' = [connOf EXCEPT ![o] = s] /\ UNCHANGED <<ready, obj>>
        /\ displaced' = displaced \cup ({connOf[o]} \ {Nil})
    BY <1>3 DEF Install, At, Goto
  <2>2. SUFFICES ASSUME displaced' = {} PROVE MarkersOK'
    BY DEF MarkersOK
  <2>3. displaced = {} /\ connOf[o] = Nil
    BY <2>1, <2>2
  <2>4. o \in Objects /\ s # Nil
    BY <1>1, <2>1, MarkerObjects, Numbers DEF SocketsOK, Connecting
  <2>5. pc'[p] = "preamble" /\ \A q \in Procs : q # p => pc'[q] = pc[q]
    BY <1>1, <2>1, Moved
  <2>6. Markers' = Markers
    BY <1>1, <2>1, <2>5 DEF Markers
  <2>7. \A n : Unmarked(n)' <=> Unmarked(n)
    BY <2>1, <2>6 DEF Unmarked
  <2>8. Unmarked(o)
    BY <2>3, <2>4 DEF MarkersOK
  <2>9. \A n \in Objects : connOf'[n] = Nil => connOf[n] = Nil
    BY <2>1, <2>4 DEF TypeOK
  <2>10. \A q \in Loops : pc'[q] = "preamble" => Unmarked(obj[q])
    BY <1>1, <2>3, <2>5, <2>8 DEF MarkersOK
  <2> QED
    BY <2>1, <2>3, <2>6, <2>7, <2>9, <2>10 DEF MarkersOK
<1>4. CASE PreambleSent(g)
  <2>1. /\ pc[p] = "preamble" /\ pc' = [pc EXCEPT ![p] = "spawned", ![Loop(s)] = "start"]
        /\ UNCHANGED <<connOf, ready, obj, displaced>>
    BY <1>4 DEF PreambleSent, At, objects, notes
  <2>2. SUFFICES ASSUME displaced = {} PROVE MarkersOK'
    BY <2>1 DEF MarkersOK
  <2>3. s \in Sockets /\ pc[Loop(s)] = "none" /\ connOf[o] # Nil /\ o \in Objects
    BY <1>1, <2>1, MarkerObjects, Numbers DEF SocketsOK, OwnerOK, Connecting
  <2>4. Loop(s) \in Loops
    BY <2>3, Names
  <2>5. /\ pc'[p] = "spawned" /\ pc'[Loop(s)] = "start"
        /\ \A q \in Procs : q # p /\ q # Loop(s) => pc'[q] = pc[q]
    BY <1>1, <2>1, <2>3, <2>4 DEF TypeOK
  <2>6. \A q \in Loops : q # p => pc[q] # "preamble"
    BY <1>1, <2>1, Alone DEF DialPCs
  <2>7. Markers' \subseteq Markers \cup {p}
    BY <1>1, <2>4, <2>5, Names DEF Markers
  <2>8. Unmarked(o)
    BY <1>1, <2>1, <2>2 DEF MarkersOK
  <2>9. \A n : n # o /\ Unmarked(n) => Unmarked(n)'
    BY <2>1, <2>7 DEF Unmarked
  <2>10. \A q, r \in Markers' : obj[q] = obj[r] => q = r
    BY <2>2, <2>7, <2>8 DEF MarkersOK, Unmarked
  <2>11. \A q \in Markers' : ~ready[obj[q]]
    BY <2>2, <2>7, <2>8 DEF MarkersOK, Unmarked
  <2>12. \A q \in Loops : pc'[q] # "preamble"
    BY <1>1, <2>5, <2>6
  <2>13. \A n \in Objects : connOf[n] = Nil => Unmarked(n)'
    BY <2>2, <2>3, <2>9 DEF MarkersOK
  <2> QED
    BY <2>1, <2>10, <2>11, <2>12, <2>13 DEF MarkersOK
<1>5. CASE PreambleFails(g)
  <2>1. /\ pc[p] = "preamble" /\ \E l \in {"gone", "backoff"} : pc' = [pc EXCEPT ![p] = l]
        /\ connOf' = [connOf EXCEPT ![o] = Nil] /\ UNCHANGED <<ready, obj, displaced>>
    BY <1>5 DEF PreambleFails, At, Goto, notes
  <2>2. SUFFICES ASSUME displaced = {} PROVE MarkersOK'
    BY <2>1 DEF MarkersOK
  <2>3. PICK l \in {"gone", "backoff"} : pc' = [pc EXCEPT ![p] = l]
    BY <2>1
  <2>4. pc'[p] = l /\ \A q \in Procs : q # p => pc'[q] = pc[q]
    BY <1>1, <2>3, Moved
  <2>5. Markers' = Markers
    BY <1>1, <2>1, <2>3, <2>4 DEF Markers
  <2>6. \A n : Unmarked(n)' <=> Unmarked(n)
    BY <2>1, <2>5 DEF Unmarked
  <2>7. Unmarked(o)
    BY <1>1, <2>1, <2>2 DEF MarkersOK
  <2>8. \A n \in Objects : connOf'[n] = Nil => n = o \/ connOf[n] = Nil
    BY <2>1 DEF TypeOK
  <2>9. \A q \in Loops : pc'[q] = "preamble" => pc[q] = "preamble"
    BY <1>1, <2>3, <2>4
  <2> QED
    BY <2>1, <2>2, <2>5, <2>6, <2>7, <2>8, <2>9 DEF MarkersOK
<1>6. CASE ConnectReturns(g)
  <2>1. pc[p] = "spawned" /\ UNCHANGED <<connOf, displaced>> /\ p \in Markers
    BY <1>1, <1>6 DEF ConnectReturns, At, notes, Markers
  <2>2. s \in Sockets /\ Hook(s) \in Hooks /\ Hook(s) \notin Loops
    BY <1>1, <2>1, Names DEF SocketsOK
  <2>3. CASE options.onConnect
    <3>1. /\ pc' = [pc EXCEPT ![p] = "gone", ![Hook(s)] = "running"]
          /\ obj' = [obj EXCEPT ![Hook(s)] = o] /\ UNCHANGED ready
      BY <1>6, <2>3 DEF ConnectReturns
    <3>2. /\ pc'[p] = "gone" /\ \A q \in Procs : q # p /\ q # Hook(s) => pc'[q] = pc[q]
      BY <1>1, <2>2, <3>1 DEF TypeOK
    <3>3. obj'[Hook(s)] = o /\ \A q \in Procs : q # Hook(s) => obj'[q] = obj[q]
      BY <1>1, <2>2, <3>1 DEF TypeOK
    <3>4. Markers' \subseteq (Markers \ {p}) \cup {Hook(s)}
      BY <1>1, <2>2, <3>2 DEF Markers
    <3>5. Markers \cup Loops \subseteq Procs
      BY <1>1 DEF Markers
    <3>6. \A q \in Loops : pc'[q] = "preamble" => pc[q] = "preamble"
      BY <1>1, <2>2, <3>2
    <3> QED
      BY <1>1, <2>1, <2>2, <3>1, <3>3, <3>4, <3>5, <3>6, MarkersPass
  <2>4. CASE ~options.onConnect
    <3>1. pc' = [pc EXCEPT ![p] = "gone"] /\ UNCHANGED obj /\ CloseReady(o)
      BY <1>6, <2>4 DEF ConnectReturns, Goto
    <3>2. SUFFICES ASSUME displaced = {} PROVE MarkersOK'
      BY <2>1 DEF MarkersOK
    <3>3. ready' = [ready EXCEPT ![o] = TRUE]
      BY <2>1, <3>1, <3>2 DEF CloseReady, MarkersOK
    <3>4. pc'[p] = "gone" /\ \A q \in Procs : q # p => pc'[q] = pc[q]
      BY <1>1, <3>1, Moved
    <3>5. Markers' \subseteq Markers \ {p}
      BY <1>1, <3>4 DEF Markers
    <3>6. \A q \in Loops : pc'[q] = "preamble" => pc[q] = "preamble"
      BY <1>1, <3>4
    <3> QED
      BY <2>1, <3>1, <3>2, <3>3, <3>5, <3>6, MarkOnce
  <2> QED
    BY <2>3, <2>4
<1> QED
  BY <1>2, <1>3, <1>4, <1>5, <1>6 DEF DialStep

\* Every step preserves MarkersOK.
LEMMA NextMarkers ==
  ASSUME TypeOK, ControlOK, SocketsOK, ObjectsOK, OwnerOK, OneInCharge, MarkersOK,
         [Next]_vars
  PROVE  MarkersOK'
<1>1. ASSUME NEW p \in Procs, EndStep(p) PROVE MarkersOK'
  <2>1. UNCHANGED <<displaced, ready, connOf, obj>> /\ pc[p] \in EndPCs
    BY <1>1 DEF EndStep, EndTest, EndFlag, EndCheck, EndClose, At, EndPCs, objects, notes
  <2>2. PICK l \in {"endFlag", "endCheck", "endClose", goesTo[p]} : pc' = [pc EXCEPT ![p] = l]
    BY <1>1 DEF EndStep, EndTest, EndFlag, EndCheck, EndClose, Goto
  <2>3. pc'[p] = l /\ \A q \in Procs : q # p => pc'[q] = pc[q]
    BY <2>2, Moved
  <2>4. p \in Loops => l \notin {"preamble", "spawned"}
    BY <2>1, <2>2 DEF ControlOK
  <2>5. "none" \notin EndPCs /\ "gone" \notin EndPCs
    BY DEF EndPCs
  <2>6. Loops \subseteq Procs /\ Hooks \subseteq Procs
    BY Names
  <2> QED
    BY <2>1, <2>3, <2>4, <2>5, <2>6, MarkersKept
<1>2. ASSUME NEW r \in Sockets, LoopStep(r) PROVE MarkersOK'
  <2>1. Loop(r) \in Loops /\ Loop(r) \notin Hooks /\ Loops \subseteq Procs /\ Hooks \subseteq Procs
    BY Names
  <2>2. UNCHANGED <<displaced, ready, connOf>>
    BY <1>2 DEF LoopStep, LoopStarts, LoopFails, LoopCleansUp, LoopRedials, objects, notes
  <2>3. \A q \in Procs : q # Loop(r) => pc'[q] = pc[q] /\ obj'[q] = obj[q]
    BY <1>2, <2>1
    DEF LoopStep, LoopStarts, LoopFails, LoopCleansUp, LoopRedials, CallEnd, Goto, TypeOK
  <2>4. pc'[Loop(r)] \in {"endTest", "disconnecting", "dial", "gone", "reading"}
    BY <1>2, <2>1
    DEF LoopStep, LoopStarts, LoopFails, LoopCleansUp, LoopRedials, CallEnd, Goto, TypeOK
  <2> QED
    BY <2>1, <2>2, <2>3, <2>4, MarkersKept
<1>3. ASSUME NEW r \in Sockets, HookReturns(r) PROVE MarkersOK'
  <2>1. Hook(r) \in Hooks /\ Hook(r) \notin Loops /\ Loops \subseteq Procs /\ Hooks \subseteq Procs
    BY Names
  <2>2. UNCHANGED <<displaced, ready, connOf>> /\ pc[Hook(r)] = "running"
    BY <1>3 DEF HookReturns, At, objects, notes
  <2>3. \A q \in Procs : (q # Hook(r) => pc'[q] = pc[q]) /\ obj'[q] = obj[q]
    BY <1>3, <2>1 DEF HookReturns, CallEnd, Goto, TypeOK
  <2> QED
    BY <2>1, <2>2, <2>3, MarkersKept
<1>4. ASSUME NEW r \in Sockets, HookMarksReady(r) PROVE MarkersOK'
  <2>1. Hook(r) \in Hooks /\ Hook(r) \notin Loops /\ Loops \subseteq Procs /\ Hooks \subseteq Procs
    BY Names
  <2>2. /\ UNCHANGED <<displaced, connOf, obj>> /\ pc[Hook(r)] = "markReady"
        /\ pc' = [pc EXCEPT ![Hook(r)] = "gone"] /\ CloseReady(obj[Hook(r)])
    BY <1>4 DEF HookMarksReady, At, Goto, notes
  <2>3. Hook(r) \in Markers
    BY <2>1, <2>2 DEF Markers
  <2>4. SUFFICES ASSUME displaced = {} PROVE MarkersOK'
    BY <2>2 DEF MarkersOK
  <2>5. ready' = [ready EXCEPT ![obj[Hook(r)]] = TRUE]
    BY <2>2, <2>3, <2>4 DEF CloseReady, MarkersOK
  <2>6. pc'[Hook(r)] = "gone" /\ \A q \in Procs : q # Hook(r) => pc'[q] = pc[q]
    BY <2>1, <2>2, Moved
  <2>7. Markers' \subseteq Markers \ {Hook(r)}
    BY <2>1, <2>6 DEF Markers
  <2>8. \A q \in Loops : pc'[q] = "preamble" => pc[q] = "preamble"
    BY <2>1, <2>6
  <2> QED
    BY <2>2, <2>3, <2>4, <2>5, <2>7, <2>8, MarkOnce
<1>5. ASSUME CloseDone \/ CloseEnds PROVE MarkersOK'
  <2>1. Closer \notin Loops \cup Hooks /\ Loops \subseteq Procs /\ Hooks \subseteq Procs
    BY Names
  <2>2. UNCHANGED <<displaced, ready, connOf>>
    BY <1>5 DEF CloseDone, CloseEnds, objects, notes
  <2>3. \A q \in Procs : q # Closer => pc'[q] = pc[q] /\ obj'[q] = obj[q]
    BY <1>5 DEF CloseDone, CloseEnds, CallEnd, Goto, TypeOK
  <2> QED
    BY <2>1, <2>2, <2>3, MarkersKept
<1>6. ASSUME NEW s \in Sockets, PeerLost(s) PROVE MarkersOK'
  BY <1>6, MarkersKept DEF PeerLost, objects, notes
<1>7. CASE UNCHANGED vars
  BY <1>7, MarkersKept DEF vars
<1> QED
  BY <1>1, <1>2, <1>3, <1>4, <1>5, <1>6, <1>7, NextSteps, DialMarkers DEF HookStep

\* Every step preserves LeaversOK.
LEMMA NextLeavers ==
  ASSUME TypeOK, LeaversOK, [Next]_vars
  PROVE  LeaversOK'
<1>1. done => done'
  BY NextSteps
  DEF EndStep, EndTest, EndFlag, EndCheck, EndClose, DialStep, DialStart, DialFails,
      DialGivesUp, DialSucceeds, Refresh, Install, PreambleSent, PreambleFails,
      ConnectReturns, BackoffEnds, LoopStep, LoopStarts, LoopFails, LoopCleansUp,
      LoopRedials, HookStep, HookReturns, HookMarksReady, CloseDone, CloseEnds, PeerLost, vars
<1>2. SUFFICES ASSUME NEW q \in Loops, pc'[q] \in EndPCs, goesTo'[q] = "gone"
               PROVE  done \/ (pc[q] \in EndPCs /\ goesTo[q] = "gone")
  BY <1>1 DEF LeaversOK
<1>3. q \in Procs
  BY Names
<1>4. ASSUME NEW p \in Procs, EndStep(p) PROVE pc[q] \in EndPCs /\ goesTo[q] = "gone"
  <2>1. UNCHANGED goesTo /\ pc[p] \in EndPCs /\ \E l : pc' = [pc EXCEPT ![p] = l]
    BY <1>4
    DEF EndStep, EndTest, EndFlag, EndCheck, EndClose, At, Goto, EndPCs
  <2> QED
    BY <1>2, <1>3, <2>1, Moved
<1>5. ASSUME NEW g \in 0 .. MaxDials, DialStep(g)
      PROVE  pc[q] \in EndPCs /\ goesTo[q] = "gone"
  <2>1. Loop(g) \in Loops /\ Loop(g) \in Procs
    BY Names
  <2>2. CASE PreambleSent(g)
    <3>1. /\ UNCHANGED goesTo
          /\ pc' = [pc EXCEPT ![Loop(g)] = "spawned", ![Loop(dialed[Loop(g)])] = "start"]
      BY <2>2 DEF PreambleSent
    <3> QED
      BY <1>2, <1>3, <3>1 DEF TypeOK, EndPCs
  <2>3. CASE ConnectReturns(g)
    <3>1. /\ UNCHANGED goesTo
          /\ \/ pc' = [pc EXCEPT ![Loop(g)] = "gone", ![Hook(dialed[Loop(g)])] = "running"]
             \/ pc' = [pc EXCEPT ![Loop(g)] = "gone"]
      BY <2>3 DEF ConnectReturns, Goto
    <3> QED
      BY <1>2, <1>3, <3>1 DEF TypeOK, EndPCs
  <2>4. CASE ~PreambleSent(g) /\ ~ConnectReturns(g)
    <3>1. /\ UNCHANGED goesTo
          /\ \E l \in {"gone", "dialing", "backoff", "refresh", "install", "preamble"} :
                pc' = [pc EXCEPT ![Loop(g)] = l]
      BY <1>5, <2>4
      DEF DialStep, DialStart, DialFails, DialGivesUp, DialSucceeds, Refresh, Install,
          PreambleFails, BackoffEnds, Goto
    <3> QED
      BY <1>2, <1>3, <2>1, <3>1, Moved DEF EndPCs
  <2> QED
    BY <2>2, <2>3, <2>4
<1>6. ASSUME NEW r \in Sockets, LoopStep(r)
      PROVE  done \/ (pc[q] \in EndPCs /\ goesTo[q] = "gone")
  <2>1. Loop(r) \in Procs
    BY Names
  <2>2. CASE q = Loop(r)
    BY <1>2, <1>3, <1>6, <2>2
    DEF LoopStep, LoopStarts, LoopFails, LoopCleansUp, LoopRedials, CallEnd, Goto, TypeOK,
        EndPCs
  <2>3. CASE q # Loop(r)
    BY <1>2, <1>3, <1>6, <2>1, <2>3
    DEF LoopStep, LoopStarts, LoopFails, LoopCleansUp, LoopRedials, CallEnd, Goto, TypeOK
  <2> QED
    BY <2>2, <2>3
<1>7. ASSUME NEW r \in Sockets, HookStep(r) PROVE pc[q] \in EndPCs /\ goesTo[q] = "gone"
  <2>1. Hook(r) \in Procs /\ Hook(r) # q
    BY Names
  <2> QED
    BY <1>2, <1>3, <1>7, <2>1
    DEF HookStep, HookReturns, HookMarksReady, CallEnd, Goto, TypeOK
<1>8. ASSUME CloseDone \/ CloseEnds PROVE pc[q] \in EndPCs /\ goesTo[q] = "gone"
  <2>1. Closer \in Procs /\ Closer # q
    BY Names
  <2> QED
    BY <1>2, <1>3, <1>8, <2>1 DEF CloseDone, CloseEnds, CallEnd, Goto, TypeOK
<1>9. ASSUME NEW s \in Sockets, PeerLost(s) PROVE pc[q] \in EndPCs /\ goesTo[q] = "gone"
  BY <1>2, <1>9 DEF PeerLost
<1>10. CASE UNCHANGED vars
  BY <1>2, <1>10 DEF vars
<1> QED
  BY <1>4, <1>5, <1>6, <1>7, <1>8, <1>9, <1>10, NextSteps

\* Steps that leave the net.Conns, and those who are about to close one, alone preserve
\* ClosersOK.
LEMMA ClosersKept ==
  ASSUME ClosersOK, UNCHANGED connOf, displaced \subseteq displaced',
         pc'[Closer] = "idle" => pc[Closer] = "idle",
         \A p \in Procs : pc'[p] = "endClose" => pc[p] = "endClose" /\ obj'[p] = obj[p]
  PROVE  ClosersOK'
<1>1. displaced' = {} => displaced = {}
  OBVIOUS
<1> QED
  BY <1>1 DEF ClosersOK

\* Every step preserves ClosersOK: whoever dials is alone with its object, but for Close()
\* and the hook of a net.Conn that it displaced.
LEMMA NextClosers ==
  ASSUME TypeOK, ControlOK, SocketsOK, ObjectsOK, OwnerOK, ChargeOK, MarkersOK, LeaversOK,
         ClosersOK, [Next]_vars
  PROVE  ClosersOK'
<1>1. ASSUME NEW p \in Procs, EndStep(p) PROVE ClosersOK'
  <2>1. UNCHANGED <<connOf, obj, displaced>> /\ pc[p] \in EndPCs
    BY <1>1 DEF EndStep, EndTest, EndFlag, EndCheck, EndClose, At, EndPCs, objects, notes
  <2>2. PICK l \in {"endFlag", "endCheck", "endClose", goesTo[p]} : pc' = [pc EXCEPT ![p] = l]
    BY <1>1 DEF EndStep, EndTest, EndFlag, EndCheck, EndClose, Goto
  <2>3. pc'[p] = l /\ \A q \in Procs : q # p => pc'[q] = pc[q]
    BY <2>2, Moved
  <2>4. Closer \in Procs /\ (p = Closer => pc[p] # "idle" /\ l # "idle")
    BY <2>1, <2>2, Names DEF ControlOK, EndPCs
  <2>5. pc'[p] = "endClose" => connOf[obj[p]] # Nil
    <3>1. goesTo[p] # "endClose"
      BY <2>1, Names DEF ControlOK
    <3>2. CASE EndCheck(p)
      <4>1. pc' = [pc EXCEPT ![p] = IF connOf[obj[p]] = Nil THEN goesTo[p] ELSE "endClose"]
        BY <3>2 DEF EndCheck, Goto
      <4> QED
        BY <3>1, <4>1, Moved
    <3>3. CASE EndTest(p) \/ EndFlag(p) \/ EndClose(p)
      <4>1. pc' \in {[pc EXCEPT ![p] = "endFlag"], [pc EXCEPT ![p] = "endCheck"],
                     [pc EXCEPT ![p] = goesTo[p]]}
        BY <3>3 DEF EndTest, EndFlag, EndClose, Goto
      <4> QED
        BY <3>1, <4>1, Moved
    <3> QED
      BY <1>1, <3>2, <3>3 DEF EndStep
  <2> QED
    BY <2>1, <2>3, <2>4, <2>5 DEF ClosersOK
<1>2. ASSUME NEW g \in 0 .. MaxDials, DialStep(g) PROVE ClosersOK'
  <2> DEFINE p == Loop(g)
  <2>1. p \in Loops /\ p \in Procs /\ Closer \in Procs /\ Closer # p
    BY Names
  <2>2. CASE PreambleSent(g)
    <3>1. dialed[p] \in Sockets
      BY <2>1, <2>2 DEF PreambleSent, At, SocketsOK, Connecting
    <3>2. Loop(dialed[p]) # Closer /\ Loop(dialed[p]) \in Procs
      BY <3>1, Names
    <3>3. /\ UNCHANGED <<connOf, obj, displaced>>
          /\ pc' = [pc EXCEPT ![p] = "spawned", ![Loop(dialed[p])] = "start"]
      BY <2>2 DEF PreambleSent, objects, notes
    <3>4. /\ pc'[Closer] = pc[Closer]
          /\ \A q \in Procs : pc'[q] = "endClose" => pc[q] = "endClose"
      BY <2>1, <3>2, <3>3 DEF TypeOK
    <3> QED
      BY <3>3, <3>4, ClosersKept
  <2>3. CASE ConnectReturns(g)
    <3>1. dialed[p] \in Sockets
      BY <2>1, <2>3 DEF ConnectReturns, At, SocketsOK
    <3>2. Hook(dialed[p]) # Closer /\ Hook(dialed[p]) \in Procs
      BY <3>1, Names
    <3>3. /\ UNCHANGED <<connOf, displaced>>
          /\ \/ /\ pc' = [pc EXCEPT ![p] = "gone", ![Hook(dialed[p])] = "running"]
                /\ obj' = [obj EXCEPT ![Hook(dialed[p])] = obj[p]]
             \/ pc' = [pc EXCEPT ![p] = "gone"] /\ obj' = obj
      BY <2>3 DEF ConnectReturns, Goto, notes
    <3>4. /\ pc'[Closer] = pc[Closer]
          /\ \A q \in Procs : pc'[q] = "endClose" => pc[q] = "endClose" /\ obj'[q] = obj[q]
      BY <2>1, <3>2, <3>3 DEF TypeOK
    <3> QED
      BY <3>3, <3>4, ClosersKept
  <2>4. CASE Install(g)
    <3>1. /\ pc[p] = "install" /\ dialed[p] \in Sockets /\ obj[p] \in Objects
          /\ pc' = [pc EXCEPT ![p] = "preamble"] /\ obj' = obj
          /\ connOf' = [connOf EXCEPT ![obj[p]] = dialed[p]]
          /\ displaced \subseteq displaced'
      BY <2>1, <2>4 DEF Install, At, Goto, SocketsOK, Connecting, OwnerOK, TypeOK
    <3>2. \A o \in Objects : connOf[o] # Nil => connOf'[o] # Nil
      <4>1. dialed[p] # Nil
        BY <3>1, BoundAssumption DEF Nil, Sockets
      <4> QED
        BY <3>1, <4>1 DEF TypeOK
    <3>3. /\ pc'[Closer] = pc[Closer]
          /\ \A q \in Procs : pc'[q] = "endClose" => pc[q] = "endClose" /\ obj[q] \in Objects
      BY <2>1, <3>1, Moved DEF TypeOK, ObjectsOK, Using, EndPCs
    <3>4. displaced' = {} => displaced = {}
      BY <3>1
    <3> QED
      BY <3>1, <3>2, <3>3, <3>4 DEF ClosersOK
  <2>5. CASE PreambleFails(g)
    <3>1. /\ pc[p] = "preamble" /\ obj[p] = cur
          /\ \E l \in {"gone", "backoff"} : pc' = [pc EXCEPT ![p] = l]
          /\ connOf' = [connOf EXCEPT ![obj[p]] = Nil]
          /\ UNCHANGED <<obj, done, displaced>>
      BY <2>1, <2>5 DEF PreambleFails, At, Goto, OwnerOK, notes
    <3>2. \A q \in Procs : pc'[q] = "endClose" => pc[q] = "endClose" /\ q # p
      BY <2>1, <3>1, Moved
    <3>3. pc'[Closer] = pc[Closer]
      BY <2>1, <3>1, Moved
    <3> SUFFICES ASSUME displaced = {}, pc[Closer] = "idle", NEW q \in Procs, q # p,
                        pc[q] = "endClose"
                 PROVE  connOf'[obj[q]] # Nil
      BY <3>1, <3>2, <3>3 DEF ClosersOK
    <3>4. connOf[obj[q]] # Nil
      BY DEF ClosersOK
    <3>5. p \in InCharge
      BY <2>1, <3>1 DEF InCharge, DialPCs
    <3>6. obj[q] # obj[p]
      <4>1. CASE q \in Loops
        <5>1. goesTo[q] # "cleanup"
          BY <3>5, <4>1 DEF ChargeOK, OneInCharge, InCharge, EndPCs
        <5>2. goesTo[q] = "gone"
          BY <4>1, <5>1 DEF ControlOK, EndPCs
        <5>3. done
          BY <4>1, <5>2 DEF LeaversOK, EndPCs
        <5> QED
          BY <3>5, <5>3 DEF ChargeOK
      <4>2. CASE q \in Hooks
        <5>1. q \in Markers
          BY <4>2 DEF Markers
        <5> QED
          BY <2>1, <3>1, <5>1 DEF MarkersOK, Unmarked
      <4>3. CASE q = Closer
        BY <4>3
      <4> QED
        BY <4>1, <4>2, <4>3 DEF Procs
    <3>7. obj[q] \in Objects
      BY DEF TypeOK, ObjectsOK, Using, EndPCs
    <3> QED
      BY <3>1, <3>4, <3>6, <3>7 DEF TypeOK
  <2>6. CASE /\ ~PreambleSent(g) /\ ~ConnectReturns(g) /\ ~Install(g) /\ ~PreambleFails(g)
    <3>1. /\ UNCHANGED <<connOf, displaced>>
          /\ \E l \in {"gone", "dialing", "backoff", "refresh", "install"} :
                pc' = [pc EXCEPT ![p] = l]
          /\ \A q \in Procs : q # p => obj'[q] = obj[q]
      BY <1>2, <2>1, <2>6
      DEF DialStep, DialStart, DialFails, DialGivesUp, DialSucceeds, Refresh, BackoffEnds,
          Goto, objects, notes, TypeOK
    <3>2. /\ pc'[Closer] = pc[Closer]
          /\ \A q \in Procs : pc'[q] = "endClose" => pc[q] = "endClose" /\ obj'[q] = obj[q]
      BY <2>1, <3>1, Moved
    <3> QED
      BY <3>1, <3>2, ClosersKept
  <2> QED
    BY <2>2, <2>3, <2>4, <2>5, <2>6
<1>3. ASSUME NEW r \in Sockets, LoopStep(r) PROVE ClosersOK'
  <2>1. Loop(r) \in Procs /\ Closer \in Procs /\ Closer # Loop(r)
    BY Names
  <2>2. /\ UNCHANGED <<connOf, displaced>> /\ pc'[Closer] = pc[Closer]
        /\ \A q \in Procs : pc'[q] = "endClose" => pc[q] = "endClose" /\ obj'[q] = obj[q]
    BY <1>3, <2>1
    DEF LoopStep, LoopStarts, LoopFails, LoopCleansUp, LoopRedials, CallEnd, Goto, TypeOK,
        objects, notes
  <2> QED
    BY <2>2, ClosersKept
<1>4. ASSUME NEW r \in Sockets, HookStep(r) PROVE ClosersOK'
  <2>1. Hook(r) \in Procs /\ Closer \in Procs /\ Closer # Hook(r)
    BY Names
  <2>2. /\ UNCHANGED <<connOf, displaced>> /\ pc'[Closer] = pc[Closer]
        /\ \A q \in Procs : pc'[q] = "endClose" => pc[q] = "endClose" /\ obj'[q] = obj[q]
    BY <1>4, <2>1
    DEF HookStep, HookReturns, HookMarksReady, CallEnd, Goto, TypeOK, objects, notes
  <2> QED
    BY <2>2, ClosersKept
<1>5. ASSUME CloseDone \/ CloseEnds PROVE ClosersOK'
  <2>1. Closer \in Procs
    BY Names
  <2>2. /\ UNCHANGED <<connOf, displaced>>
        /\ \E l \in {"closing", "endTest"} : pc' = [pc EXCEPT ![Closer] = l]
    BY <1>5 DEF CloseDone, CloseEnds, CallEnd, Goto, objects, notes
  <2>3. pc'[Closer] # "idle"
    BY <2>1, <2>2, Moved
  <2> QED
    BY <2>3 DEF ClosersOK
<1>6. ASSUME NEW s \in Sockets, PeerLost(s) PROVE ClosersOK'
  BY <1>6, ClosersKept DEF PeerLost, objects, notes
<1>7. CASE UNCHANGED vars
  BY <1>7, ClosersKept DEF vars
<1> QED
  BY <1>1, <1>2, <1>3, <1>4, <1>5, <1>6, <1>7, NextSteps

\* Every step preserves PanicCauses.
LEMMA NextPanic ==
  ASSUME TypeOK, ControlOK, SocketsOK, ChargeOK, MarkersOK, ClosersOK, PanicCauses, [Next]_vars
  PROVE  PanicCauses'
<1>1. ASSUME crash' = crash, pc'[Closer] # "idle" \/ pc'[Closer] = pc[Closer],
             displaced \subseteq displaced'
      PROVE  PanicCauses'
  <2>1. displaced' = {} => displaced = {}
    BY <1>1
  <2> QED
    BY <1>1, <2>1 DEF PanicCauses
<1>2. ASSUME NEW p \in Procs, EndStep(p) PROVE PanicCauses'
  <2>1. UNCHANGED displaced /\ pc[p] \in EndPCs /\ crash = "none"
    BY <1>2 DEF EndStep, EndTest, EndFlag, EndCheck, EndClose, At, EndPCs, notes
  <2>2. PICK l \in {"endFlag", "endCheck", "endClose", goesTo[p]} : pc' = [pc EXCEPT ![p] = l]
    BY <1>2 DEF EndStep, EndTest, EndFlag, EndCheck, EndClose, Goto
  <2>3. p = Closer => l # "idle"
    BY <2>1, <2>2 DEF ControlOK
  <2>4. pc'[Closer] # "idle" \/ pc'[Closer] = pc[Closer]
    BY <2>2, <2>3, Moved, Names
  <2>5. CASE crash' = crash
    BY <1>1, <2>1, <2>4, <2>5
  <2>6. CASE crash' # crash
    <3>1. pc[p] = "endClose" /\ connOf[obj[p]] = Nil /\ crash' = "nil closed"
      BY <1>2, <2>6 DEF EndStep, EndTest, EndFlag, EndCheck, EndClose, At
    <3>2. pc[Closer] # "idle" \/ displaced # {}
      BY <3>1 DEF ClosersOK
    <3> QED
      BY <2>1, <2>4, <3>1, <3>2 DEF PanicCauses
  <2> QED
    BY <2>5, <2>6
<1>3. ASSUME NEW g \in 0 .. MaxDials, DialStep(g) PROVE PanicCauses'
  <2> DEFINE p == Loop(g)
  <2>1. p \in Loops /\ p \in Procs /\ Closer \in Procs /\ Closer # p
    BY Names
  <2>2. pc'[Closer] = pc[Closer]
    <3>1. CASE PreambleSent(g)
      <4>1. dialed[p] \in Sockets
        BY <2>1, <3>1 DEF PreambleSent, At, SocketsOK, Connecting
      <4>2. Loop(dialed[p]) # Closer
        BY <4>1, Names
      <4> QED
        BY <2>1, <3>1, <4>2 DEF PreambleSent, TypeOK
    <3>2. CASE ConnectReturns(g)
      <4>1. dialed[p] \in Sockets
        BY <2>1, <3>2 DEF ConnectReturns, At, SocketsOK
      <4>2. Hook(dialed[p]) # Closer
        BY <4>1, Names
      <4> QED
        BY <2>1, <3>2, <4>2 DEF ConnectReturns, Goto, TypeOK
    <3>3. CASE ~PreambleSent(g) /\ ~ConnectReturns(g)
      BY <1>3, <2>1, <3>3
      DEF DialStep, DialStart, DialFails, DialGivesUp, DialSucceeds, Refresh, Install,
          PreambleFails, BackoffEnds, Goto, TypeOK
    <3> QED
      BY <3>1, <3>2, <3>3
  <2>3. CASE DialGivesUp(g)
    <3>1. /\ pc[p] = "dialing" /\ MayGiveUp /\ UNCHANGED displaced /\ crash = "none"
          /\ crash' = IF done THEN "done closed twice" ELSE crash
      BY <2>3 DEF DialGivesUp, At, notes
    <3>2. p \in InCharge
      BY <2>1, <3>1 DEF InCharge, DialPCs
    <3>3. done => pc[Closer] # "idle"
      BY <3>2 DEF ChargeOK
    <3> QED
      BY <2>2, <3>1, <3>3 DEF PanicCauses
  <2>4. CASE ConnectReturns(g)
    <3>1. pc[p] = "spawned" /\ UNCHANGED displaced /\ crash = "none"
      BY <2>4 DEF ConnectReturns, At, notes
    <3>2. p \in Markers
      BY <2>1, <3>1 DEF Markers
    <3>3. crash' = crash \/ (crash' = "ready closed twice" /\ ready[obj[p]])
      BY <2>4 DEF ConnectReturns, CloseReady
    <3>4. ready[obj[p]] => displaced # {}
      BY <3>2 DEF MarkersOK
    <3> QED
      BY <3>1, <3>3, <3>4 DEF PanicCauses
  <2>5. CASE ~DialGivesUp(g) /\ ~ConnectReturns(g)
    <3>1. crash' = crash
      BY <1>3, <2>5 DEF DialStep, DialStart, DialFails, DialSucceeds, Refresh, Install,
                        PreambleSent, PreambleFails, BackoffEnds
    <3>2. displaced \subseteq displaced'
      BY <1>3, <2>5 DEF DialStep, DialStart, DialFails, DialSucceeds, Refresh, Install,
                        PreambleSent, PreambleFails, BackoffEnds, notes
    <3> QED
      BY <1>1, <2>2, <3>1, <3>2
  <2> QED
    BY <2>3, <2>4, <2>5
<1>4. ASSUME NEW r \in Sockets, LoopStep(r) PROVE PanicCauses'
  <2>1. Loop(r) \in Procs /\ Closer \in Procs /\ Closer # Loop(r)
    BY Names
  <2>2. UNCHANGED <<crash, displaced>> /\ pc'[Closer] = pc[Closer]
    BY <1>4, <2>1
    DEF LoopStep, LoopStarts, LoopFails, LoopCleansUp, LoopRedials, CallEnd, Goto, TypeOK, notes
  <2> QED
    BY <1>1, <2>2
<1>5. ASSUME NEW r \in Sockets, HookStep(r) PROVE PanicCauses'
  <2>1. Hook(r) \in Procs /\ Hook(r) \in Hooks /\ Closer \in Procs /\ Closer # Hook(r)
    BY Names
  <2>2. UNCHANGED displaced /\ pc'[Closer] = pc[Closer] /\ crash = "none"
    BY <1>5, <2>1 DEF HookStep, HookReturns, HookMarksReady, CallEnd, At, Goto, TypeOK, notes
  <2>3. pc[Hook(r)] \in {"running", "markReady"}
    BY <1>5 DEF HookStep, HookReturns, HookMarksReady, At
  <2>4. Hook(r) \in Markers
    BY <2>1, <2>3 DEF Markers
  <2>5. crash' = crash \/ (crash' = "ready closed twice" /\ ready[obj[Hook(r)]])
    BY <1>5 DEF HookStep, HookReturns, HookMarksReady, CloseReady
  <2>6. ready[obj[Hook(r)]] => displaced # {}
    BY <2>4 DEF MarkersOK
  <2> QED
    BY <2>2, <2>5, <2>6 DEF PanicCauses
<1>6. ASSUME CloseDone PROVE PanicCauses'
  <2>1. /\ pc[Closer] = "idle" /\ crash = "none" /\ UNCHANGED displaced
        /\ crash' = IF done THEN "done closed twice" ELSE crash
    BY <1>6 DEF CloseDone, At, notes
  <2>2. pc'[Closer] = "closing"
    BY <1>6, Names DEF CloseDone, Goto, TypeOK
  <2>3. done => MayGiveUp
    BY <2>1 DEF ChargeOK
  <2> QED
    BY <2>1, <2>2, <2>3 DEF PanicCauses
<1>7. ASSUME CloseEnds PROVE PanicCauses'
  <2>1. UNCHANGED <<crash, displaced>> /\ pc' = [pc EXCEPT ![Closer] = "endTest"]
    BY <1>7 DEF CloseEnds, CallEnd, Goto, notes
  <2>2. pc'[Closer] = "endTest"
    BY <2>1, Moved, Names
  <2> QED
    BY <1>1, <2>1, <2>2
<1>8. ASSUME NEW s \in Sockets, PeerLost(s) PROVE PanicCauses'
  BY <1>1, <1>8 DEF PeerLost, notes
<1>9. CASE UNCHANGED vars
  BY <1>1, <1>9 DEF vars
<1> QED
  BY <1>2, <1>3, <1>4, <1>5, <1>6, <1>7, <1>8, <1>9, NextSteps

-----------------------------------------------------------------------------
(* The theorems.                                                           *)

\* The initial state satisfies every part of the invariant.
LEMMA InitInv == Init => LInv
<1> SUFFICES ASSUME Init PROVE LInv
  OBVIOUS
<1>1. TypeOK
  BY InitType
<1>2. Loop(0) \in Loops /\ Loop(0) \in Procs /\ Closer \in Procs /\ Loop(0) # Closer
  BY Names, Numbers
<1>3. /\ pc[Loop(0)] = IF options.conn THEN "refresh" ELSE "dial"
      /\ pc[Closer] = "idle"
      /\ \A p \in Procs : p # Loop(0) /\ p # Closer => pc[p] = "none"
  BY <1>2 DEF Init
<1>4. /\ \A s \in Sockets : Loop(s) \in Loops /\ Loop(s) # Loop(0)
      /\ Loops \subseteq Procs /\ Hooks \subseteq Procs
      /\ Closer \notin Loops /\ Closer \notin Hooks /\ Loop(0) \notin Hooks
  BY <1>2, Names, Numbers
<1>5. "refresh" \in DialPCs /\ "dial" \in DialPCs
  BY DEF DialPCs
<1>6. ControlOK
  BY <1>2, <1>3, <1>4, <1>5, Disjoint DEF ControlOK
<1>7. SocketsOK
  <2>1. \A s \in Sockets : /\ pc[Loop(s)] = "none" /\ allocated <= s
                           /\ sock[s] = "unused" <=> ~(options.conn /\ s = 1)
    BY <1>2, <1>3, <1>4 DEF Init, Sockets
  <2>2. \A s \in Sockets : sock[s] = "unused" =>
          \A r \in Sockets : r > s => sock[r] = "unused"
    <3>1. \A s, r \in Sockets : r > s => r # 1
      BY DEF Sockets
    <3> QED
      BY <2>1, <3>1
  <2>3. \A p \in Loops : pc[p] # "spawned"
    BY <1>3, <1>4
  <2>4. \A p \in Loops : pc[p] \in Connecting => p = Loop(0) /\ options.conn
    BY <1>2, <1>3, <1>4 DEF Connecting
  <2>5. options.conn => dialed[Loop(0)] = 1 /\ 1 \in Sockets /\ allocated = 1
    BY <1>2, Numbers DEF Init
  <2>6. \A o \in Objects : connOf[o] = Nil
    BY DEF Init
  <2>7. \A p \in Loops : pc[p] \in Connecting =>
          /\ dialed[p] \in Sockets
          /\ sock[dialed[p]] # "unused"
          /\ pc[Loop(dialed[p])] = "none"
          /\ pc[p] = "refresh" => allocated <= dialed[p]
    BY <2>1, <2>4, <2>5
  <2> QED
    BY <2>1, <2>2, <2>3, <2>6, <2>7 DEF SocketsOK
<1>8. ObjectsOK
  <2>1. cur = 1 /\ allocated = 1 /\ \A p \in Procs : obj[p] = 0
    BY DEF Init
  <2>2. \A p \in Procs : pc[p] \notin Using
    BY <1>3 DEF Using, EndPCs
  <2>3. \A o \in Objects : connOf[o] = Nil /\ ~ready[o]
    BY DEF Init
  <2> QED
    BY <2>1, <2>2, <2>3 DEF ObjectsOK
<1>9. OwnerOK
  <2>1. \A p \in Loops : pc[p] \in {"refresh", "dial", "none"}
    BY <1>3, <1>4
  <2> QED
    BY <1>4, <2>1 DEF OwnerOK
<1>10. ChargeOK
  <2>1. \A p \in Loops : p \in InCharge <=> p = Loop(0)
    BY <1>2, <1>3, <1>4, <1>5, Disjoint DEF InCharge
  <2>2. InCharge \subseteq Loops /\ done = FALSE
    BY DEF InCharge, Init
  <2> QED
    BY <1>2, <2>1, <2>2 DEF ChargeOK, OneInCharge
<1>11. MarkersOK
  <2>1. Markers = {} /\ \A p \in Loops : pc[p] # "preamble"
    BY <1>3, <1>4 DEF Markers
  <2>2. \A o \in Objects : ~ready[o]
    BY DEF Init
  <2> QED
    BY <2>1, <2>2 DEF MarkersOK, Unmarked
<1>12. PanicCauses
  BY DEF Init, PanicCauses
<1>13. ClosersOK /\ LeaversOK
  BY <1>3, Names DEF ClosersOK, LeaversOK, EndPCs
<1> QED
  BY <1>1, <1>6, <1>7, <1>8, <1>9, <1>10, <1>11, <1>12, <1>13 DEF LInv

\* And every step preserves it.
LEMMA NextInv == LInv /\ [Next]_vars => LInv'
<1>1. ChargeOK => OneInCharge
  BY DEF ChargeOK
<1> QED
  BY <1>1, NextType, NextControl, NextSockets, NextObjects, NextOwner, NextCharge, NextMarkers,
     NextLeavers, NextClosers, NextPanic
  DEF LInv

\* The inductive invariant holds of every execution.
THEOREM Invariance == Spec => []LInv
  BY InitInv, NextInv, PTL DEF Spec

\* Every variable keeps its type; above all, MaxDials + 1 objects are enough for
\* MaxDials dials.
THEOREM TypeCorrect == Spec => []TypeOK
<1>1. LInv => TypeOK
  BY DEF LInv
<1> QED
  BY <1>1, Invariance, PTL

\* However readLoop, connect() and dial() overlap, one goroutine is in charge at
\* a time, and with a dialer there is one until done is closed.
THEOREM ChargeIsUnique == Spec => []OneInCharge
<1>1. LInv => OneInCharge
  BY DEF LInv, ChargeOK
<1> QED
  BY <1>1, Invariance, PTL

\* The object a read loop finds in c.conn when it gets to run is the one it was
\* started for, however long that takes.
THEOREM LoopsOwnTheirSockets == Spec => []LoopOwnsSocket
<1>1. LInv => LoopOwnsSocket
  BY DEF LInv, OwnerOK, LoopOwnsSocket
<1> QED
  BY <1>1, Invariance, PTL

\* No reconnect is attempted before the disconnect hook has returned.
THEOREM HooksBeforeRedial == Spec => []HookBeforeRedial
<1>1. LInv => HookBeforeRedial
  <2> SUFFICES ASSUME LInv, NEW p \in Loops, pc[p] \in DialPCs, NEW s \in Sockets,
                      pc[Loop(s)] \in ReadPCs
               PROVE  FALSE
    BY DEF HookBeforeRedial
  <2>1. Loop(s) \in Loops
    BY Names
  <2>2. p = Loop(s)
    BY <2>1 DEF LInv, ChargeOK, OneInCharge, InCharge
  <2> QED
    BY <2>2, Disjoint
<1> QED
  BY <1>1, Invariance, PTL

\* The process panics only if Close() and ErrGiveUp meet, if an object was given a second
\* net.Conn, or if a preamble fails while Close() is about to close its net.Conn.
THEOREM PanicsExplained == Spec => []PanicCauses
<1>1. LInv => PanicCauses
  BY DEF LInv
<1> QED
  BY <1>1, Invariance, PTL

-----------------------------------------------------------------------------
(* Who owes what: DInv.                                                    *)

\* What a step of end() changes.
LEMMA EndMoves ==
  ASSUME TypeOK, NEW p \in Procs, EndStep(p)
  PROVE  /\ pc[p] \in EndPCs
         /\ pc'[p] \in {"endFlag", "endCheck", "endClose", goesTo[p]}
         /\ \A q \in Procs : q # p => pc'[q] = pc[q]
         /\ UNCHANGED <<done, cur, allocated, ready, connOf, obj, dialed, goesTo, options,
                        notified, bornDead, displaced>>
         /\ crash' = "none" => crash = "none"
         /\ \A o \in Objects : connected'[o] => connected[o]
         /\ \A s \in Sockets : sock'[s] \in {sock[s], "closed"}
<1> USE Moved DEF At, Goto, EndPCs, objects, notes, TypeOK
<1>1. CASE EndTest(p)
  BY <1>1 DEF EndTest
<1>2. CASE EndFlag(p)
  BY <1>2 DEF EndFlag
<1>3. CASE EndCheck(p)
  BY <1>3 DEF EndCheck
<1>4. CASE EndClose(p)
  BY <1>4 DEF EndClose
<1> QED
  BY <1>1, <1>2, <1>3, <1>4 DEF EndStep

\* What a step of a read loop changes: its own place, and the object it has in hand.
LEMMA LoopMoves ==
  ASSUME TypeOK, NEW s \in Sockets, LoopStep(s)
  PROVE  /\ pc[Loop(s)] \in ReadPCs
         /\ pc'[Loop(s)] \in {"endTest", "reading", "disconnecting", "dial", "gone"}
         /\ \A q \in Procs : q # Loop(s) => pc'[q] = pc[q] /\ obj'[q] = obj[q]
         /\ UNCHANGED <<done, cur, allocated, ready, connected, connOf, sock, dialed,
                        bornDead, displaced, crash>>
<1>1. Loop(s) \in Procs
  BY Names
<1> QED
  BY <1>1 DEF LoopStep, LoopStarts, LoopFails, LoopCleansUp, LoopRedials, CallEnd, Goto, At,
              ReadPCs, objects, notes, TypeOK

\* What a step of a connect hook changes.
LEMMA HookMoves ==
  ASSUME TypeOK, ObjectsOK, NEW s \in Sockets, HookStep(s)
  PROVE  /\ pc[Hook(s)] \in {"running", "markReady"}
         /\ pc'[Hook(s)] \in {"markReady", "endTest", "gone"}
         /\ \A q \in Procs : q # Hook(s) => pc'[q] = pc[q]
         /\ UNCHANGED <<done, cur, allocated, connected, connOf, sock, obj, dialed,
                        bornDead, displaced>>
         /\ \A o \in Objects : ready[o] => ready'[o]
         /\ crash' = "none" => crash = "none"
         /\ pc'[Hook(s)] = "gone" /\ crash' = "none" => ready'[obj[Hook(s)]]
<1>1. Hook(s) \in Procs
  BY Names
<1>2. CASE HookReturns(s)
  BY <1>1, <1>2 DEF HookReturns, CallEnd, Goto, At, objects, notes, TypeOK
<1>3. CASE HookMarksReady(s)
  <2>1. /\ pc[Hook(s)] = "markReady" /\ pc' = [pc EXCEPT ![Hook(s)] = "gone"]
        /\ UNCHANGED <<done, cur, allocated, connected, connOf, sock, obj, dialed,
                       bornDead, displaced>>
        /\ crash = "none"
    BY <1>3 DEF HookMarksReady, At, Goto, notes
  <2>2. obj[Hook(s)] \in Objects
    BY <1>1, <2>1 DEF ObjectsOK, Using, TypeOK
  <2>3. /\ \A o \in Objects : ready[o] => ready'[o]
        /\ crash' = "none" => ready'[obj[Hook(s)]]
    <3>1. CASE ready[obj[Hook(s)]]
      BY <1>3, <3>1 DEF HookMarksReady, CloseReady
    <3>2. CASE ~ready[obj[Hook(s)]]
      <4>1. ready' = [ready EXCEPT ![obj[Hook(s)]] = TRUE]
        BY <1>3, <3>2 DEF HookMarksReady, CloseReady
      <4> QED
        BY <2>2, <4>1 DEF TypeOK
    <3> QED
      BY <3>1, <3>2
  <2> QED
    BY <1>1, <2>1, <2>3, Moved
<1> QED
  BY <1>2, <1>3 DEF HookStep

\* What Close() changes.
LEMMA CloseMoves ==
  ASSUME TypeOK, CloseDone \/ CloseEnds
  PROVE  /\ pc[Closer] \in {"idle", "closing"}
         /\ pc'[Closer] \in {"closing", "endTest"}
         /\ \A q \in Procs : q # Closer => pc'[q] = pc[q] /\ obj'[q] = obj[q]
         /\ UNCHANGED <<cur, allocated, ready, connected, connOf, sock, dialed,
                        bornDead, displaced>>
         /\ crash' = "none" => crash = "none"
<1>1. Closer \in Procs
  BY Names
<1> QED
  BY <1>1 DEF CloseDone, CloseEnds, CallEnd, Goto, At, objects, notes, TypeOK

\* The simple steps of a dialling goroutine: they install, start and mark nothing.
LEMMA DialMoves ==
  ASSUME TypeOK, NEW g \in 0 .. MaxDials,
         DialStart(g) \/ DialFails(g) \/ DialGivesUp(g) \/ BackoffEnds(g) \/ Refresh(g)
  PROVE  /\ pc[Loop(g)] \in {"dial", "dialing", "backoff", "refresh"}
         /\ pc'[Loop(g)] \in {"dialing", "backoff", "gone", "install"}
         /\ pc'[Loop(g)] = "install" <=> pc[Loop(g)] = "refresh"
         /\ \A q \in Procs : q # Loop(g) => pc'[q] = pc[q] /\ obj'[q] = obj[q]
         /\ UNCHANGED <<ready, connected, connOf, sock, dialed, bornDead, displaced>>
         /\ crash' = "none" => crash = "none"
<1>1. Loop(g) \in Procs
  BY Names
<1> QED
  BY <1>1 DEF DialStart, DialFails, DialGivesUp, BackoffEnds, Refresh, Goto, At, objects, notes,
              TypeOK

\* A dial that succeeds.
LEMMA DialledMoves ==
  ASSUME TypeOK, NEW g \in 0 .. MaxDials, DialSucceeds(g)
  PROVE  /\ pc[Loop(g)] = "dialing" /\ pc'[Loop(g)] = "refresh"
         /\ \A q \in Procs : q # Loop(g) => pc'[q] = pc[q]
         /\ \A q \in Loops : q # Loop(g) => dialed'[q] = dialed[q]
         /\ dialed'[Loop(g)] \in Sockets /\ sock[dialed'[Loop(g)]] = "unused"
         /\ sock'[dialed'[Loop(g)]] = "open"
         /\ \A s \in Sockets : s # dialed'[Loop(g)] => sock'[s] = sock[s]
         /\ UNCHANGED <<done, cur, ready, connected, connOf, obj, bornDead, displaced, crash>>
<1>1. Loop(g) \in Procs /\ Loop(g) \in Loops
  BY Names
<1> QED
  BY <1>1 DEF DialSucceeds, Goto, At, objects, notes, TypeOK

\* A net.Conn that is put into its object.
LEMMA InstallMoves ==
  ASSUME TypeOK, OwnerOK, SocketsOK, NEW g \in 0 .. MaxDials, Install(g)
  PROVE  /\ pc[Loop(g)] = "install" /\ pc'[Loop(g)] = "preamble"
         /\ \A q \in Procs : q # Loop(g) => pc'[q] = pc[q]
         /\ obj[Loop(g)] = cur /\ dialed[Loop(g)] \in Sockets
         /\ connOf' = [connOf EXCEPT ![cur] = dialed[Loop(g)]]
         /\ bornDead' = IF connected[cur] THEN bornDead ELSE bornDead \cup {dialed[Loop(g)]}
         /\ displaced' = displaced \cup ({connOf[cur]} \ {Nil})
         /\ UNCHANGED <<done, cur, ready, connected, sock, obj, dialed, crash>>
<1>1. Loop(g) \in Procs /\ Loop(g) \in Loops
  BY Names
<1>2. pc[Loop(g)] = "install" /\ pc' = [pc EXCEPT ![Loop(g)] = "preamble"]
  BY DEF Install, At, Goto
<1>3. obj[Loop(g)] = cur /\ dialed[Loop(g)] \in Sockets
  BY <1>1, <1>2 DEF OwnerOK, SocketsOK, Connecting
<1> QED
  BY <1>1, <1>2, <1>3, Moved DEF Install

\* A read loop that is started.
LEMMA SentMoves ==
  ASSUME TypeOK, SocketsOK, OwnerOK, NEW g \in 0 .. MaxDials, PreambleSent(g)
  PROVE  LET s == dialed[Loop(g)]
         IN  /\ pc[Loop(g)] = "preamble" /\ pc'[Loop(g)] = "spawned"
             /\ s \in Sockets /\ pc[Loop(s)] = "none" /\ pc'[Loop(s)] = "start"
             /\ connOf[cur] = s /\ obj[Loop(g)] = cur
             /\ \A q \in Procs : q # Loop(g) /\ q # Loop(s) => pc'[q] = pc[q]
             /\ UNCHANGED <<done, cur, ready, connected, connOf, sock, obj, dialed,
                            bornDead, displaced, crash>>
<1> DEFINE s == dialed[Loop(g)]
<1>1. Loop(g) \in Procs /\ Loop(g) \in Loops
  BY Names
<1>2. /\ pc[Loop(g)] = "preamble"
      /\ pc' = [pc EXCEPT ![Loop(g)] = "spawned", ![Loop(s)] = "start"]
      /\ UNCHANGED <<done, cur, ready, connected, connOf, sock, obj, dialed,
                     bornDead, displaced, crash>>
  BY DEF PreambleSent, At, objects, notes
<1>3. /\ s \in Sockets /\ pc[Loop(s)] = "none"
      /\ connOf[cur] = s /\ obj[Loop(g)] = cur
  BY <1>1, <1>2 DEF OwnerOK, SocketsOK, Connecting
<1>4. Loop(s) \in Procs
  BY <1>3, Names
<1> QED
  BY <1>1, <1>2, <1>3, <1>4 DEF TypeOK

\* A preamble that cannot be sent.
LEMMA FailMoves ==
  ASSUME TypeOK, SocketsOK, OwnerOK, NEW g \in 0 .. MaxDials, PreambleFails(g)
  PROVE  LET s == dialed[Loop(g)]
         IN  /\ pc[Loop(g)] = "preamble" /\ pc'[Loop(g)] \in {"gone", "backoff"}
             /\ s \in Sockets /\ pc[Loop(s)] = "none"
             /\ connOf[cur] = s /\ obj[Loop(g)] = cur
             /\ connOf' = [connOf EXCEPT ![cur] = Nil] /\ sock' = [sock EXCEPT ![s] = "closed"]
             /\ sock[s] # "unused"
             /\ \A q \in Procs : q # Loop(g) => pc'[q] = pc[q]
             /\ UNCHANGED <<done, cur, ready, connected, obj, dialed, bornDead, displaced,
                            crash>>
<1>1. Loop(g) \in Procs /\ Loop(g) \in Loops
  BY Names
<1>2. PICK l \in {"gone", "backoff"} : pc[Loop(g)] = "preamble" /\ pc' = [pc EXCEPT ![Loop(g)] = l]
  BY DEF PreambleFails, At, Goto
<1>3. /\ dialed[Loop(g)] \in Sockets /\ pc[Loop(dialed[Loop(g)])] = "none"
      /\ connOf[cur] = dialed[Loop(g)] /\ obj[Loop(g)] = cur
  BY <1>1, <1>2 DEF OwnerOK, SocketsOK, Connecting
<1> QED
  BY <1>1, <1>2, <1>3, Moved DEF PreambleFails, notes

\* The end of connect(): the hook is started, or the object marked.
LEMMA ReturnMoves ==
  ASSUME TypeOK, SocketsOK, NEW g \in 0 .. MaxDials, ConnectReturns(g)
  PROVE  LET s == dialed[Loop(g)]  o == obj[Loop(g)]
         IN  /\ pc[Loop(g)] = "spawned" /\ pc'[Loop(g)] = "gone" /\ s \in Sockets
             /\ \A q \in Procs : q # Loop(g) /\ q # Hook(s) => pc'[q] = pc[q] /\ obj'[q] = obj[q]
             /\ \/ pc'[Hook(s)] = "running" /\ obj'[Hook(s)] = o
                \/ /\ pc'[Hook(s)] = pc[Hook(s)] /\ obj'[Hook(s)] = obj[Hook(s)]
                   /\ crash' = "none" /\ o \in Objects => ready'[o]
             /\ \A u \in Objects : ready[u] => ready'[u]
             /\ obj'[Loop(g)] = obj[Loop(g)]
             /\ UNCHANGED <<done, cur, connected, connOf, sock, dialed, bornDead, displaced>>
             /\ crash' = "none" => crash = "none"
<1> DEFINE s == dialed[Loop(g)]  o == obj[Loop(g)]
<1>1. /\ Loop(g) \in Procs /\ Loop(g) \in Loops /\ pc[Loop(g)] = "spawned"
      /\ UNCHANGED <<done, cur, connected, connOf, sock, dialed, bornDead, displaced>>
      /\ crash = "none"
  BY Names DEF ConnectReturns, At, notes
<1>2. s \in Sockets /\ Hook(s) \in Procs /\ Hook(s) # Loop(g)
  BY <1>1, Names DEF SocketsOK
<1>3. CASE /\ pc' = [pc EXCEPT ![Loop(g)] = "gone", ![Hook(s)] = "running"]
           /\ obj' = [obj EXCEPT ![Hook(s)] = o]
           /\ UNCHANGED <<ready, crash>>
  BY <1>1, <1>2, <1>3 DEF TypeOK
<1>4. CASE CloseReady(o) /\ pc' = [pc EXCEPT ![Loop(g)] = "gone"] /\ UNCHANGED obj
  <2>1. CASE ready[o]
    BY <1>1, <1>2, <1>4, <2>1 DEF TypeOK, CloseReady
  <2>2. CASE ~ready[o]
    BY <1>1, <1>2, <1>4, <2>2 DEF TypeOK, CloseReady
  <2> QED
    BY <2>1, <2>2
<1> QED
  BY <1>3, <1>4 DEF ConnectReturns, Goto

\* The names that the invariant is about.
LEMMA OwedNames ==
  /\ Loops \subseteq Procs /\ Hooks \subseteq Procs /\ Closer \in Procs
  /\ \A s \in Sockets : Loop(s) \in Loops /\ Hook(s) \in Hooks
  /\ \A g \in 0 .. MaxDials : Loop(g) \in Loops
  /\ \A s, r \in Sockets : (Loop(s) = Loop(r) \/ Hook(s) = Hook(r)) => s = r
  /\ Loops \cap Hooks = {} /\ Closer \notin Loops /\ Closer \notin Hooks
  BY Names

\* Steps that dial nothing and start no hook preserve HooksOK.
LEMMA HooksKept ==
  ASSUME HooksOK, SocketsOK, UNCHANGED dialed,
         \A s \in Sockets : sock'[s] = "unused" <=> sock[s] = "unused",
         \A p \in Loops : pc'[p] \in Connecting \cup {"spawned"} =>
             pc[p] \in Connecting \cup {"spawned"},
         \A h \in Hooks : pc[h] = "none" => pc'[h] = "none"
  PROVE  HooksOK'
<1>1. \A p \in Loops : pc[p] \in Connecting \cup {"spawned"} => dialed[p] \in Sockets
  BY DEF SocketsOK
<1>2. \A s \in Sockets : sock'[s] = "unused" => pc'[Hook(s)] = "none"
  BY OwedNames DEF HooksOK
<1>3. ASSUME NEW p \in Loops, pc'[p] \in Connecting \cup {"spawned"}
      PROVE  /\ sock'[dialed'[p]] # "unused"
             /\ pc'[Hook(dialed'[p])] = "none"
             /\ \A q \in Loops :
                  pc'[q] \in Connecting \cup {"spawned"} /\ dialed'[q] = dialed'[p] => q = p
  BY <1>1, <1>3, OwedNames DEF HooksOK
<1> QED
  BY <1>2, <1>3 DEF HooksOK

\* Every step preserves HooksOK: what is dialled is new, and a hook is started by the
\* only goroutine that has its socket in hand.
LEMMA NextHooks ==
  ASSUME LInv, HooksOK, [Next]_vars
  PROVE  HooksOK'
<1> USE OwedNames DEF LInv
<1>1. ASSUME NEW p \in Procs, EndStep(p) PROVE HooksOK'
  <2>1. /\ p \in Loops => pc'[p] \in EndPCs \cup {"gone", "cleanup"}
        /\ p \in Hooks => pc[p] # "none"
        /\ \A q \in Procs : q # p => pc'[q] = pc[q]
        /\ UNCHANGED dialed
        /\ \A s \in Sockets : sock'[s] \in {sock[s], "closed"}
    BY <1>1, EndMoves DEF ControlOK, EndPCs
  <2>2. \A s \in Sockets : sock'[s] = "unused" <=> sock[s] = "unused"
    <3>1. CASE UNCHANGED sock
      BY <3>1
    <3>2. CASE sock' = [s \in Sockets |-> IF s = connOf[obj[p]] THEN "closed" ELSE sock[s]]
      <4>1. obj[p] \in Objects
        BY <1>1, EndMoves DEF ObjectsOK, Using, TypeOK
      <4>2. connOf[obj[p]] # Nil => sock[connOf[obj[p]]] # "unused"
        BY <4>1 DEF SocketsOK
      <4> QED
        BY <3>2, <4>2, Numbers
    <3> QED
      BY <1>1, <3>1, <3>2 DEF EndStep, EndTest, EndFlag, EndCheck, EndClose
  <2> QED
    BY <2>1, <2>2, HooksKept DEF EndPCs, Connecting
<1>2. ASSUME NEW g \in 0 .. MaxDials, DialStep(g) PROVE HooksOK'
  <2> DEFINE p == Loop(g)
  <2>1. CASE DialStart(g) \/ DialFails(g) \/ DialGivesUp(g) \/ BackoffEnds(g) \/ Refresh(g)
    <3>1. \A q \in Loops : pc'[q] \in Connecting \cup {"spawned"} =>
            pc[q] \in Connecting \cup {"spawned"}
      BY <2>1, DialMoves DEF Connecting
    <3> QED
      BY <2>1, <3>1, DialMoves, HooksKept
  <2>2. CASE DialSucceeds(g)
    <3> DEFINE r == dialed'[p]
    <3>1. /\ \A q \in Procs : q # p => pc'[q] = pc[q]
          /\ \A q \in Loops : q # p => dialed'[q] = dialed[q]
          /\ r \in Sockets /\ sock[r] = "unused" /\ sock'[r] = "open"
          /\ \A s \in Sockets : s # r => sock'[s] = sock[s]
      BY <2>2, DialledMoves
    <3>2. \A q \in Loops : q # p /\ pc[q] \in Connecting \cup {"spawned"} =>
            dialed[q] \in Sockets /\ dialed[q] # r
      BY <3>1 DEF HooksOK, SocketsOK
    <3>3. \A h \in Hooks : pc'[h] = pc[h]
      BY <3>1
    <3>4. ASSUME NEW q \in Loops, pc'[q] \in Connecting \cup {"spawned"}
          PROVE  /\ sock'[dialed'[q]] # "unused"
                 /\ pc'[Hook(dialed'[q])] = "none"
                 /\ \A t \in Loops :
                      pc'[t] \in Connecting \cup {"spawned"} /\ dialed'[t] = dialed'[q] => t = q
      <4>1. CASE q = p
        BY <3>1, <3>2, <3>3, <4>1 DEF HooksOK
      <4>2. CASE q # p
        <5>1. pc[q] \in Connecting \cup {"spawned"} /\ dialed'[q] = dialed[q]
          BY <3>1, <3>4, <4>2
        <5> QED
          BY <3>1, <3>2, <3>3, <4>2, <5>1 DEF HooksOK
      <4> QED
        BY <4>1, <4>2
    <3>5. \A s \in Sockets : sock'[s] = "unused" => pc'[Hook(s)] = "none"
      BY <3>1, <3>3 DEF HooksOK
    <3> QED
      BY <3>4, <3>5 DEF HooksOK
  <2>3. CASE Install(g)
    BY <2>3, InstallMoves, HooksKept DEF Connecting
  <2>4. CASE PreambleSent(g)
    <3>1. /\ pc[p] = "preamble" /\ pc'[p] = "spawned"
          /\ dialed[p] \in Sockets /\ pc'[Loop(dialed[p])] = "start"
          /\ \A q \in Procs : q # p /\ q # Loop(dialed[p]) => pc'[q] = pc[q]
          /\ UNCHANGED <<dialed, sock>>
      BY <2>4, SentMoves
    <3> QED
      BY <3>1, HooksKept DEF Connecting
  <2>5. CASE PreambleFails(g)
    <3>1. /\ pc'[p] \in {"gone", "backoff"}
          /\ sock' = [sock EXCEPT ![dialed[p]] = "closed"] /\ sock[dialed[p]] # "unused"
          /\ \A q \in Procs : q # p => pc'[q] = pc[q]
          /\ UNCHANGED dialed
      BY <2>5, FailMoves
    <3>2. \A s \in Sockets : sock'[s] = "unused" <=> sock[s] = "unused"
      BY <3>1 DEF TypeOK
    <3> QED
      BY <3>1, <3>2, HooksKept DEF Connecting
  <2>6. CASE ConnectReturns(g)
    <3> DEFINE s == dialed[p]
    <3>1. /\ pc[p] = "spawned" /\ pc'[p] = "gone" /\ s \in Sockets
          /\ \A q \in Procs : q # p /\ q # Hook(s) => pc'[q] = pc[q]
          /\ UNCHANGED <<dialed, sock>>
      BY <2>6, ReturnMoves
    <3>2. \A q \in Loops : pc'[q] \in Connecting \cup {"spawned"} =>
            q # p /\ pc[q] \in Connecting \cup {"spawned"}
      BY <3>1 DEF Connecting
    <3>3. \A q \in Loops : pc'[q] \in Connecting \cup {"spawned"} =>
            dialed[q] \in Sockets /\ dialed[q] # s
      BY <3>1, <3>2 DEF HooksOK, SocketsOK
    <3>4. \A r \in Sockets : r # s => pc'[Hook(r)] = pc[Hook(r)]
      BY <3>1
    <3>5. sock[s] # "unused"
      BY <3>1 DEF HooksOK
    <3>6. \A r \in Sockets : sock'[r] = "unused" => pc'[Hook(r)] = "none"
      BY <3>1, <3>4, <3>5 DEF HooksOK
    <3>7. ASSUME NEW q \in Loops, pc'[q] \in Connecting \cup {"spawned"}
          PROVE  /\ sock'[dialed'[q]] # "unused"
                 /\ pc'[Hook(dialed'[q])] = "none"
                 /\ \A t \in Loops :
                      pc'[t] \in Connecting \cup {"spawned"} /\ dialed'[t] = dialed'[q] => t = q
      BY <3>1, <3>2, <3>3, <3>4, <3>7 DEF HooksOK
    <3> QED
      BY <3>6, <3>7 DEF HooksOK
  <2> QED
    BY <1>2, <2>1, <2>2, <2>3, <2>4, <2>5, <2>6 DEF DialStep
<1>3. ASSUME NEW s \in Sockets, LoopStep(s) PROVE HooksOK'
  BY <1>3, LoopMoves, HooksKept DEF Connecting
<1>4. ASSUME NEW s \in Sockets, HookStep(s) PROVE HooksOK'
  BY <1>4, HookMoves, HooksKept DEF Connecting
<1>5. ASSUME NEW s \in Sockets, PeerLost(s) PROVE HooksOK'
  <2>1. /\ UNCHANGED <<pc, dialed>> /\ sock[s] = "open" /\ sock' = [sock EXCEPT ![s] = "lost"]
    BY <1>5 DEF PeerLost
  <2>2. \A r \in Sockets : sock'[r] = "unused" <=> sock[r] = "unused"
    BY <2>1 DEF TypeOK
  <2> QED
    BY <2>1, <2>2, HooksKept
<1>6. CASE CloseDone \/ CloseEnds
  BY <1>6, CloseMoves, HooksKept DEF Connecting
<1>7. CASE UNCHANGED vars
  BY <1>7 DEF vars, HooksOK
<1> QED
  BY <1>1, <1>2, <1>3, <1>4, <1>5, <1>6, <1>7, NextSteps

\* Steps that put no net.Conn into an object preserve InstalledOK.
LEMMA InstalledKept ==
  ASSUME InstalledOK, UNCHANGED <<connOf, dialed, displaced>>,
         \A s \in Sockets : sock'[s] \in Live => sock[s] \in Live,
         \A p \in Loops : pc'[p] \in Arriving <=> pc[p] \in Arriving
  PROVE  InstalledOK'
  BY DEF InstalledOK

\* Every step preserves InstalledOK.
LEMMA NextInstalled ==
  ASSUME LInv, InstalledOK, [Next]_vars
  PROVE  InstalledOK'
<1> USE OwedNames, Numbers DEF LInv
<1>1. ASSUME NEW p \in Procs, EndStep(p) PROVE InstalledOK'
  <2>1. /\ p \in Loops => pc'[p] \in EndPCs \cup {"gone", "cleanup"} /\ pc[p] \in EndPCs
        /\ \A q \in Procs : q # p => pc'[q] = pc[q]
        /\ UNCHANGED <<connOf, dialed, displaced>>
        /\ \A s \in Sockets : sock'[s] \in {sock[s], "closed"}
    BY <1>1, EndMoves DEF ControlOK, EndPCs
  <2>2. \A q \in Loops : pc'[q] \in Arriving <=> pc[q] \in Arriving
    BY <2>1 DEF Arriving, EndPCs
  <2> QED
    BY <2>1, <2>2, InstalledKept DEF Live
<1>2. ASSUME NEW g \in 0 .. MaxDials, DialStep(g) PROVE InstalledOK'
  <2> DEFINE p == Loop(g)
  <2>0. ASSUME pc[p] \in DialPCs PROVE \A q \in Loops : q # p => pc[q] \notin DialPCs
    BY <2>0, Alone DEF ChargeOK
  <2>1. CASE DialStart(g) \/ DialFails(g) \/ DialGivesUp(g) \/ BackoffEnds(g) \/ Refresh(g)
    <3>1. \A q \in Loops : pc'[q] \in Arriving <=> pc[q] \in Arriving
      BY <2>1, DialMoves DEF Arriving
    <3> QED
      BY <2>1, <3>1, DialMoves, InstalledKept
  <2>2. CASE DialSucceeds(g)
    <3> DEFINE r == dialed'[p]
    <3>1. /\ pc[p] = "dialing" /\ pc'[p] = "refresh"
          /\ \A q \in Procs : q # p => pc'[q] = pc[q]
          /\ r \in Sockets /\ sock[r] = "unused"
          /\ \A s \in Sockets : s # r => sock'[s] = sock[s]
          /\ UNCHANGED <<connOf, displaced>>
      BY <2>2, DialledMoves
    <3>2. \A q \in Loops : q # p => pc[q] \notin Arriving /\ pc'[q] \notin Arriving
      BY <2>0, <3>1 DEF DialPCs, Arriving
    <3>3. \A o \in Objects : connOf[o] # r
      BY <3>1 DEF SocketsOK
    <3>4. pc[p] \notin Arriving
      BY <3>1 DEF Arriving
    <3> QED
      BY <3>1, <3>2, <3>3, <3>4 DEF InstalledOK, Arriving
  <2>3. CASE Install(g)
    <3> DEFINE r == dialed[p]
    <3>1. /\ pc[p] = "install" /\ pc'[p] = "preamble"
          /\ \A q \in Procs : q # p => pc'[q] = pc[q]
          /\ r \in Sockets /\ cur \in Objects
          /\ connOf' = [connOf EXCEPT ![cur] = r]
          /\ displaced' = displaced \cup ({connOf[cur]} \ {Nil})
          /\ UNCHANGED <<sock, dialed>>
      BY <2>3, InstallMoves DEF TypeOK
    <3>2. \A q \in Loops : q # p => pc[q] \notin Arriving /\ pc'[q] \notin Arriving
      BY <2>0, <3>1 DEF DialPCs, Arriving
    <3>3. \A o \in Objects : connOf[o] # r
      BY <3>1 DEF InstalledOK, Arriving
    <3>4. connOf'[cur] = r /\ \A o \in Objects : o # cur => connOf'[o] = connOf[o]
      BY <3>1 DEF TypeOK
    <3>5. \A o, u \in Objects : connOf'[o] # Nil /\ connOf'[o] = connOf'[u] => o = u
      BY <3>3, <3>4 DEF InstalledOK
    <3>6. \A q \in Loops : pc'[q] \notin Arriving
      BY <3>1, <3>2 DEF Arriving
    <3>7. ASSUME NEW s \in Sockets, sock[s] \in Live, s \notin displaced'
          PROVE  \E o \in Objects : connOf'[o] = s
      <4>1. s \notin displaced /\ s # connOf[cur]
        BY <3>1, <3>7
      <4>2. CASE s = r
        BY <3>1, <3>4, <4>2
      <4>3. CASE s # r
        <5>1. \E o \in Objects : connOf[o] = s
          BY <3>2, <3>7, <4>1, <4>3 DEF InstalledOK
        <5> QED
          BY <3>4, <4>1, <5>1
      <4> QED
        BY <4>2, <4>3
    <3> QED
      BY <3>1, <3>5, <3>6, <3>7 DEF InstalledOK
  <2>4. CASE PreambleSent(g)
    <3>1. /\ pc[p] = "preamble" /\ pc'[p] = "spawned"
          /\ pc[Loop(dialed[p])] = "none" /\ pc'[Loop(dialed[p])] = "start"
          /\ \A q \in Procs : q # p /\ q # Loop(dialed[p]) => pc'[q] = pc[q]
          /\ UNCHANGED <<connOf, dialed, sock, displaced>>
      BY <2>4, SentMoves
    <3>2. \A q \in Loops : pc'[q] \in Arriving <=> pc[q] \in Arriving
      BY <3>1 DEF Arriving
    <3> QED
      BY <3>1, <3>2, InstalledKept
  <2>5. CASE PreambleFails(g)
    <3> DEFINE r == dialed[p]
    <3>1. /\ pc[p] = "preamble" /\ pc'[p] \in {"gone", "backoff"}
          /\ r \in Sockets /\ connOf[cur] = r /\ cur \in Objects
          /\ connOf' = [connOf EXCEPT ![cur] = Nil] /\ sock' = [sock EXCEPT ![r] = "closed"]
          /\ \A q \in Procs : q # p => pc'[q] = pc[q]
          /\ UNCHANGED <<dialed, displaced>>
      BY <2>5, FailMoves DEF TypeOK
    <3>2. connOf'[cur] = Nil /\ \A o \in Objects : o # cur => connOf'[o] = connOf[o]
      BY <3>1 DEF TypeOK
    <3>3. sock'[r] = "closed" /\ \A s \in Sockets : s # r => sock'[s] = sock[s]
      BY <3>1 DEF TypeOK
    <3>4. \A q \in Loops : pc'[q] \in Arriving <=> pc[q] \in Arriving
      BY <3>1 DEF Arriving
    <3>5. \A q \in Loops : pc[q] \in Arriving => dialed[q] \in Sockets
      BY DEF SocketsOK, Arriving, Connecting
    <3>6. \A s \in Sockets : sock'[s] \in Live => s # r
      BY <3>3 DEF Live
    <3>7. \A o, u \in Objects : connOf'[o] # Nil /\ connOf'[o] = connOf'[u] => o = u
      BY <3>2 DEF InstalledOK
    <3>8. \A q \in Loops : pc'[q] \in Arriving => \A o \in Objects : connOf'[o] # dialed'[q]
      <4> SUFFICES ASSUME NEW q \in Loops, pc'[q] \in Arriving, NEW o \in Objects
                   PROVE  connOf'[o] # dialed[q]
        BY <3>1
      <4>1. pc[q] \in Arriving /\ dialed[q] \in Sockets
        BY <3>4, <3>5
      <4>2. CASE o = cur
        BY <3>2, <4>1, <4>2, Numbers
      <4>3. CASE o # cur
        BY <3>2, <4>1, <4>3 DEF InstalledOK
      <4> QED
        BY <4>2, <4>3
    <3>9. \A s \in Sockets : sock'[s] \in Live /\ s \notin displaced' =>
            \/ \E q \in Loops : pc'[q] \in Arriving /\ dialed'[q] = s
            \/ \E o \in Objects : connOf'[o] = s
      BY <3>1, <3>2, <3>3, <3>4, <3>6 DEF InstalledOK
    <3> QED
      BY <3>7, <3>8, <3>9 DEF InstalledOK
  <2>6. CASE ConnectReturns(g)
    <3>1. /\ pc[p] = "spawned" /\ pc'[p] = "gone" /\ dialed[p] \in Sockets
          /\ \A q \in Procs : q # p /\ q # Hook(dialed[p]) => pc'[q] = pc[q]
          /\ UNCHANGED <<connOf, dialed, sock, displaced>>
      BY <2>6, ReturnMoves
    <3>2. \A q \in Loops : pc'[q] \in Arriving <=> pc[q] \in Arriving
      BY <3>1 DEF Arriving
    <3> QED
      BY <3>1, <3>2, InstalledKept
  <2> QED
    BY <1>2, <2>1, <2>2, <2>3, <2>4, <2>5, <2>6 DEF DialStep
<1>3. ASSUME NEW s \in Sockets, LoopStep(s) PROVE InstalledOK'
  <2>1. \A q \in Loops : pc'[q] \in Arriving <=> pc[q] \in Arriving
    BY <1>3, LoopMoves DEF Arriving, ReadPCs
  <2> QED
    BY <1>3, <2>1, LoopMoves, InstalledKept
<1>4. ASSUME NEW s \in Sockets, HookStep(s) PROVE InstalledOK'
  <2>1. \A q \in Loops : pc'[q] = pc[q]
    BY <1>4, HookMoves
  <2> QED
    BY <1>4, <2>1, HookMoves, InstalledKept
<1>5. ASSUME NEW s \in Sockets, PeerLost(s) PROVE InstalledOK'
  <2>1. /\ UNCHANGED <<pc, dialed, connOf, displaced>>
        /\ sock[s] = "open" /\ sock' = [sock EXCEPT ![s] = "lost"]
    BY <1>5 DEF PeerLost, objects, notes
  <2>2. \A r \in Sockets : sock'[r] \in Live => sock[r] \in Live
    BY <2>1 DEF TypeOK, Live
  <2> QED
    BY <2>1, <2>2, InstalledKept
<1>6. CASE CloseDone \/ CloseEnds
  <2>1. \A q \in Loops : pc'[q] = pc[q]
    BY <1>6, CloseMoves
  <2> QED
    BY <1>6, <2>1, CloseMoves, InstalledKept
<1>7. CASE UNCHANGED vars
  BY <1>7 DEF vars, InstalledOK
<1> QED
  BY <1>1, <1>2, <1>3, <1>4, <1>5, <1>6, <1>7, NextSteps

\* Steps that end no object, install nothing and take nobody away from the closing of a
\* socket preserve EndingOK.
LEMMA EndingKept ==
  ASSUME EndingOK, UNCHANGED <<connOf, connected, bornDead>>,
         \A s \in Sockets : (\E o \in Objects : connOf[o] = s) /\ sock'[s] \in Live => sock[s] \in Live,
         \A p \in Procs : pc[p] \in Closing => pc'[p] \in Closing /\ obj'[p] = obj[p]
  PROVE  EndingOK'
<1> USE DEF Closing
<1> SUFFICES ASSUME NEW o \in Objects, NEW s \in Sockets,
                    connOf[o] = s, sock'[s] \in Live, s \notin bornDead, ~connected[o]
             PROVE  \E p \in Procs : pc'[p] \in Closing /\ obj'[p] = o
  BY DEF EndingOK, Live
<1>1. PICK p \in Procs : pc[p] \in Closing /\ obj[p] = o
  BY DEF EndingOK
<1> QED
  BY <1>1

\* Every step preserves EndingOK.
LEMMA NextEnding ==
  ASSUME LInv, HooksOK, EndingOK, [Next]_vars
  PROVE  EndingOK'
<1> USE OwedNames, Numbers DEF LInv, Closing
<1>1. ASSUME NEW p \in Procs, EndStep(p) PROVE EndingOK'
  <2>1. CASE EndTest(p)
    <3>1. /\ pc[p] = "endTest" /\ \A q \in Procs : q # p => pc'[q] = pc[q]
          /\ UNCHANGED <<connOf, connected, bornDead, sock, obj>>
      BY <2>1, Moved DEF EndTest, At, Goto, objects, notes, TypeOK
    <3> QED
      BY <3>1, EndingKept
  <2>2. CASE EndFlag(p)
    <3>1. /\ pc[p] = "endFlag" /\ pc'[p] = "endCheck"
          /\ \A q \in Procs : q # p => pc'[q] = pc[q]
          /\ UNCHANGED <<connOf, bornDead, sock, obj>>
          /\ \A o \in Objects : o # obj[p] => connected'[o] = connected[o]
      BY <2>2, Moved DEF EndFlag, At, Goto, notes, TypeOK
    <3> SUFFICES ASSUME NEW o \in Objects, NEW s \in Sockets,
                        connOf[o] = s, sock[s] \in Live, s \notin bornDead, ~connected'[o]
                 PROVE  \E q \in Procs : pc'[q] \in Closing /\ obj'[q] = o
      BY <3>1 DEF EndingOK, Live
    <3>2. CASE o = obj[p]
      BY <3>1, <3>2
    <3>3. CASE o # obj[p]
      <4>1. PICK q \in Procs : pc[q] \in Closing /\ obj[q] = o
        BY <3>1, <3>3 DEF EndingOK
      <4> QED
        BY <3>1, <4>1
    <3> QED
      BY <3>2, <3>3
  <2>3. CASE EndCheck(p)
    <3>1. /\ pc[p] = "endCheck" /\ \A q \in Procs : q # p => pc'[q] = pc[q]
          /\ pc'[p] = IF connOf[obj[p]] = Nil THEN goesTo[p] ELSE "endClose"
          /\ UNCHANGED <<connOf, connected, bornDead, sock, obj>>
      BY <2>3, Moved DEF EndCheck, At, Goto, objects, notes, TypeOK
    <3> SUFFICES ASSUME NEW o \in Objects, NEW s \in Sockets,
                        connOf[o] = s, sock[s] \in Live, s \notin bornDead, ~connected[o]
                 PROVE  \E q \in Procs : pc'[q] \in Closing /\ obj'[q] = o
      BY <3>1 DEF EndingOK, Live
    <3>2. PICK q \in Procs : pc[q] \in Closing /\ obj[q] = o
      BY DEF EndingOK
    <3>3. q = p => pc'[q] = "endClose"
      BY <3>1, <3>2
    <3> QED
      BY <3>1, <3>2, <3>3
  <2>4. CASE EndClose(p)
    <3>1. /\ \A q \in Procs : q # p => pc'[q] = pc[q]
          /\ UNCHANGED <<connOf, connected, bornDead, obj>>
          /\ sock' = [s \in Sockets |-> IF s = connOf[obj[p]] THEN "closed" ELSE sock[s]]
      BY <2>4, Moved DEF EndClose, At, Goto, objects, notes, TypeOK
    <3> SUFFICES ASSUME NEW o \in Objects, NEW s \in Sockets,
                        connOf[o] = s, sock'[s] \in Live, s \notin bornDead, ~connected[o]
                 PROVE  \E q \in Procs : pc'[q] \in Closing /\ obj'[q] = o
      BY <3>1 DEF EndingOK, Live
    <3>2. s # connOf[obj[p]] /\ sock[s] \in Live
      BY <3>1 DEF Live
    <3>3. PICK q \in Procs : pc[q] \in Closing /\ obj[q] = o
      BY <3>2 DEF EndingOK
    <3> QED
      BY <3>1, <3>2, <3>3
  <2> QED
    BY <1>1, <2>1, <2>2, <2>3, <2>4 DEF EndStep
<1>2. ASSUME NEW g \in 0 .. MaxDials, DialStep(g) PROVE EndingOK'
  <2> DEFINE p == Loop(g)
  <2>1. CASE DialStart(g) \/ DialFails(g) \/ DialGivesUp(g) \/ BackoffEnds(g) \/ Refresh(g)
    BY <2>1, DialMoves, EndingKept
  <2>2. CASE DialSucceeds(g)
    <3>1. /\ pc[p] = "dialing" /\ \A q \in Procs : q # p => pc'[q] = pc[q]
          /\ sock[dialed'[p]] = "unused" /\ dialed'[p] \in Sockets
          /\ \A s \in Sockets : s # dialed'[p] => sock'[s] = sock[s]
          /\ UNCHANGED <<connected, connOf, obj, bornDead>>
      BY <2>2, DialledMoves
    <3>2. \A o \in Objects : connOf[o] # dialed'[p]
      BY <3>1 DEF SocketsOK
    <3> QED
      BY <3>1, <3>2, EndingKept
  <2>3. CASE Install(g)
    <3> DEFINE r == dialed[p]
    <3>1. /\ pc[p] = "install" /\ r \in Sockets /\ cur \in Objects
          /\ \A q \in Procs : q # p => pc'[q] = pc[q]
          /\ connOf' = [connOf EXCEPT ![cur] = r]
          /\ bornDead' = IF connected[cur] THEN bornDead ELSE bornDead \cup {r}
          /\ UNCHANGED <<connected, sock, obj>>
      BY <2>3, InstallMoves DEF TypeOK
    <3>2. connOf'[cur] = r /\ \A o \in Objects : o # cur => connOf'[o] = connOf[o]
      BY <3>1 DEF TypeOK
    <3> SUFFICES ASSUME NEW o \in Objects, NEW s \in Sockets,
                        connOf'[o] = s, sock[s] \in Live, s \notin bornDead', ~connected[o]
                 PROVE  \E q \in Procs : pc'[q] \in Closing /\ obj'[q] = o
      BY <3>1 DEF EndingOK, Live
    <3>3. o # cur
      BY <3>1, <3>2
    <3>4. PICK q \in Procs : pc[q] \in Closing /\ obj[q] = o
      BY <3>1, <3>2, <3>3 DEF EndingOK
    <3> QED
      BY <3>1, <3>4
  <2>4. CASE PreambleSent(g)
    <3>1. /\ pc[p] = "preamble" /\ dialed[p] \in Sockets /\ pc[Loop(dialed[p])] = "none"
          /\ \A q \in Procs : q # p /\ q # Loop(dialed[p]) => pc'[q] = pc[q]
          /\ UNCHANGED <<connected, connOf, sock, obj, bornDead>>
      BY <2>4, SentMoves
    <3> QED
      BY <3>1, EndingKept
  <2>5. CASE PreambleFails(g)
    <3>1. /\ pc[p] = "preamble" /\ dialed[p] \in Sockets
          /\ connOf' = [connOf EXCEPT ![cur] = Nil]
          /\ sock' = [sock EXCEPT ![dialed[p]] = "closed"]
          /\ \A q \in Procs : q # p => pc'[q] = pc[q]
          /\ UNCHANGED <<connected, obj, bornDead>>
      BY <2>5, FailMoves
    <3> SUFFICES ASSUME NEW o \in Objects, NEW s \in Sockets,
                        connOf'[o] = s, sock'[s] \in Live, s \notin bornDead, ~connected[o]
                 PROVE  \E q \in Procs : pc'[q] \in Closing /\ obj'[q] = o
      BY <3>1 DEF EndingOK, Live
    <3>2. connOf[o] = s /\ sock[s] \in Live
      BY <3>1 DEF TypeOK, Live
    <3>3. PICK q \in Procs : pc[q] \in Closing /\ obj[q] = o
      BY <3>2 DEF EndingOK
    <3> QED
      BY <3>1, <3>3
  <2>6. CASE ConnectReturns(g)
    <3>1. /\ pc[p] = "spawned" /\ dialed[p] \in Sockets
          /\ \A q \in Procs : q # p /\ q # Hook(dialed[p]) => pc'[q] = pc[q] /\ obj'[q] = obj[q]
          /\ UNCHANGED <<connected, connOf, sock, bornDead>>
      BY <2>6, ReturnMoves
    <3>2. pc[Hook(dialed[p])] = "none"
      BY <3>1 DEF HooksOK
    <3> QED
      BY <3>1, <3>2, EndingKept
  <2> QED
    BY <1>2, <2>1, <2>2, <2>3, <2>4, <2>5, <2>6 DEF DialStep
<1>3. ASSUME NEW s \in Sockets, LoopStep(s) PROVE EndingOK'
  BY <1>3, LoopMoves, EndingKept DEF ReadPCs
<1>4. ASSUME NEW s \in Sockets, HookStep(s) PROVE EndingOK'
  BY <1>4, HookMoves, EndingKept
<1>5. ASSUME NEW s \in Sockets, PeerLost(s) PROVE EndingOK'
  <2>1. /\ UNCHANGED <<pc, obj, connOf, connected, bornDead>>
        /\ sock[s] = "open" /\ sock' = [sock EXCEPT ![s] = "lost"]
    BY <1>5 DEF PeerLost, objects, notes
  <2>2. \A r \in Sockets : sock'[r] \in Live => sock[r] \in Live
    BY <2>1 DEF TypeOK, Live
  <2> QED
    BY <2>1, <2>2, EndingKept
<1>6. CASE CloseDone \/ CloseEnds
  BY <1>6, CloseMoves, EndingKept
<1>7. CASE UNCHANGED vars
  BY <1>7 DEF vars, EndingOK
<1> QED
  BY <1>1, <1>2, <1>3, <1>4, <1>5, <1>6, <1>7, NextSteps

\* Steps that install nothing and take no read loop away from its object preserve
\* WatchedOK.
LEMMA WatchedKept ==
  ASSUME WatchedOK, UNCHANGED connOf,
         \A o \in Objects : connected'[o] => connected[o],
         \A s \in Sockets : pc[Loop(s)] \in {"start", "reading"} =>
             pc'[Loop(s)] = pc[Loop(s)],
         \A s \in Sockets : pc[Loop(s)] \in {"endTest", "endFlag"} =>
             \/ pc'[Loop(s)] \in {"endTest", "endFlag"} /\ obj'[Loop(s)] = obj[Loop(s)]
             \/ obj[Loop(s)] \in Objects => ~connected'[obj[Loop(s)]],
         \A p \in Loops : pc[p] = "preamble" => pc'[p] = "preamble" /\ dialed'[p] = dialed[p]
  PROVE  WatchedOK'
<1> SUFFICES ASSUME NEW o \in Objects, NEW s \in Sockets, connOf[o] = s, connected'[o]
             PROVE  \/ pc'[Loop(s)] \in {"start", "reading"}
                    \/ pc'[Loop(s)] \in {"endTest", "endFlag"} /\ obj'[Loop(s)] = o
                    \/ \E p \in Loops : pc'[p] = "preamble" /\ dialed'[p] = s
  BY DEF WatchedOK
<1>1. \/ pc[Loop(s)] \in {"start", "reading"}
      \/ pc[Loop(s)] \in {"endTest", "endFlag"} /\ obj[Loop(s)] = o
      \/ \E p \in Loops : pc[p] = "preamble" /\ dialed[p] = s
  BY DEF WatchedOK
<1>2. CASE pc[Loop(s)] \in {"start", "reading"}
  BY <1>2
<1>3. CASE pc[Loop(s)] \in {"endTest", "endFlag"} /\ obj[Loop(s)] = o
  BY <1>3
<1>4. CASE \E p \in Loops : pc[p] = "preamble" /\ dialed[p] = s
  <2>1. PICK p \in Loops : pc[p] = "preamble" /\ dialed[p] = s
    BY <1>4
  <2> QED
    BY <2>1
<1> QED
  BY <1>1, <1>2, <1>3, <1>4

\* Every step preserves WatchedOK.
LEMMA NextWatched ==
  ASSUME LInv, InstalledOK, WatchedOK, [Next]_vars
  PROVE  WatchedOK'
<1> USE OwedNames, Numbers DEF LInv
<1>1. ASSUME NEW p \in Procs, EndStep(p) PROVE WatchedOK'
  <2>0. \A q \in Procs : q # p => pc'[q] = pc[q]
    BY <1>1, EndMoves
  <2>1. CASE EndTest(p)
    <3>1. /\ pc[p] = "endTest" /\ obj[p] \in Objects
          /\ pc'[p] = IF connected[obj[p]] THEN "endFlag" ELSE goesTo[p]
          /\ UNCHANGED <<connOf, connected, obj, dialed>>
      BY <2>1, Moved DEF EndTest, At, Goto, objects, TypeOK, ObjectsOK, Using, EndPCs
    <3> QED
      BY <2>0, <3>1, WatchedKept
  <2>2. CASE EndFlag(p)
    <3>1. /\ pc[p] = "endFlag" /\ obj[p] \in Objects
          /\ connected' = [connected EXCEPT ![obj[p]] = FALSE]
          /\ UNCHANGED <<connOf, obj, dialed>>
      BY <2>2, Moved DEF EndFlag, At, Goto, TypeOK, ObjectsOK, Using, EndPCs
    <3>2. ~connected'[obj[p]] /\ \A o \in Objects : connected'[o] => connected[o]
      BY <3>1 DEF TypeOK
    <3> QED
      BY <2>0, <3>1, <3>2, WatchedKept
  <2>3. CASE EndCheck(p) \/ EndClose(p)
    <3>1. pc[p] \in {"endCheck", "endClose"} /\ UNCHANGED <<connOf, connected, obj, dialed>>
      BY <2>3 DEF EndCheck, EndClose, At, objects
    <3> QED
      BY <2>0, <3>1, WatchedKept
  <2> QED
    BY <1>1, <2>1, <2>2, <2>3 DEF EndStep
<1>2. ASSUME NEW g \in 0 .. MaxDials, DialStep(g) PROVE WatchedOK'
  <2> DEFINE p == Loop(g)  r == dialed[p]
  <2>1. CASE DialStart(g) \/ DialFails(g) \/ DialGivesUp(g) \/ BackoffEnds(g) \/ Refresh(g)
    BY <2>1, DialMoves, WatchedKept
  <2>2. CASE DialSucceeds(g)
    BY <2>2, DialledMoves, WatchedKept
  <2>3. CASE Install(g)
    <3>1. /\ pc[p] = "install" /\ pc'[p] = "preamble" /\ r \in Sockets /\ cur \in Objects
          /\ \A q \in Procs : q # p => pc'[q] = pc[q]
          /\ connOf' = [connOf EXCEPT ![cur] = r]
          /\ UNCHANGED <<connected, obj, dialed>>
      BY <2>3, InstallMoves DEF TypeOK
    <3>2. connOf'[cur] = r /\ \A o \in Objects : o # cur => connOf'[o] = connOf[o]
      BY <3>1 DEF TypeOK
    <3> SUFFICES ASSUME NEW o \in Objects, NEW s \in Sockets, connOf'[o] = s, connected'[o]
                 PROVE  \/ pc'[Loop(s)] \in {"start", "reading"}
                        \/ pc'[Loop(s)] \in {"endTest", "endFlag"} /\ obj'[Loop(s)] = o
                        \/ \E q \in Loops : pc'[q] = "preamble" /\ dialed'[q] = s
      BY DEF WatchedOK
    <3>3. CASE o = cur
      BY <3>1, <3>2, <3>3
    <3>4. CASE o # cur
      <4>1. connOf[o] = s
        BY <3>2, <3>4
      <4>2. CASE \E q \in Loops : pc[q] = "preamble" /\ dialed[q] = s
        <5>1. PICK q \in Loops : pc[q] = "preamble" /\ dialed[q] = s
          BY <4>2
        <5> QED
          BY <3>1, <5>1
      <4>3. CASE \/ pc[Loop(s)] \in {"start", "reading"}
                 \/ pc[Loop(s)] \in {"endTest", "endFlag"} /\ obj[Loop(s)] = o
        BY <3>1, <4>3
      <4> QED
        BY <3>1, <4>1, <4>2, <4>3 DEF WatchedOK
    <3> QED
      BY <3>3, <3>4
  <2>4. CASE PreambleSent(g)
    <3>1. /\ pc[p] = "preamble" /\ r \in Sockets /\ pc[Loop(r)] = "none" /\ pc'[Loop(r)] = "start"
          /\ \A q \in Procs : q # p /\ q # Loop(r) => pc'[q] = pc[q]
          /\ UNCHANGED <<connected, connOf, obj, dialed>>
      BY <2>4, SentMoves
    <3> SUFFICES ASSUME NEW o \in Objects, NEW s \in Sockets, connOf[o] = s, connected[o], s # r
                 PROVE  \/ pc'[Loop(s)] \in {"start", "reading"}
                        \/ pc'[Loop(s)] \in {"endTest", "endFlag"} /\ obj'[Loop(s)] = o
                        \/ \E q \in Loops : pc'[q] = "preamble" /\ dialed'[q] = s
      BY <3>1 DEF WatchedOK
    <3>2. CASE \E q \in Loops : pc[q] = "preamble" /\ dialed[q] = s
      <4>1. PICK q \in Loops : pc[q] = "preamble" /\ dialed[q] = s
        BY <3>2
      <4> QED
        BY <3>1, <4>1
    <3>3. CASE \/ pc[Loop(s)] \in {"start", "reading"}
               \/ pc[Loop(s)] \in {"endTest", "endFlag"} /\ obj[Loop(s)] = o
      BY <3>1, <3>3
    <3> QED
      BY <3>2, <3>3 DEF WatchedOK
  <2>5. CASE PreambleFails(g)
    <3>1. /\ pc[p] = "preamble" /\ r \in Sockets /\ connOf[cur] = r /\ cur \in Objects
          /\ connOf' = [connOf EXCEPT ![cur] = Nil]
          /\ \A q \in Procs : q # p => pc'[q] = pc[q]
          /\ UNCHANGED <<connected, obj, dialed>>
      BY <2>5, FailMoves DEF TypeOK
    <3> SUFFICES ASSUME NEW o \in Objects, NEW s \in Sockets, connOf'[o] = s, connected'[o]
                 PROVE  \/ pc'[Loop(s)] \in {"start", "reading"}
                        \/ pc'[Loop(s)] \in {"endTest", "endFlag"} /\ obj'[Loop(s)] = o
                        \/ \E q \in Loops : pc'[q] = "preamble" /\ dialed'[q] = s
      BY DEF WatchedOK
    <3>2. o # cur /\ connOf[o] = s
      BY <3>1 DEF TypeOK
    <3>3. s # r
      <4>1. connOf[o] # Nil /\ connOf[o] # connOf[cur]
        BY <3>1, <3>2 DEF InstalledOK
      <4> QED
        BY <3>1, <3>2, <4>1
    <3>4. CASE \E q \in Loops : pc[q] = "preamble" /\ dialed[q] = s
      <4>1. PICK q \in Loops : pc[q] = "preamble" /\ dialed[q] = s
        BY <3>4
      <4> QED
        BY <3>1, <3>3, <4>1
    <3>5. CASE \/ pc[Loop(s)] \in {"start", "reading"}
               \/ pc[Loop(s)] \in {"endTest", "endFlag"} /\ obj[Loop(s)] = o
      BY <3>1, <3>5
    <3> QED
      BY <3>1, <3>2, <3>4, <3>5 DEF WatchedOK
  <2>6. CASE ConnectReturns(g)
    <3>1. /\ pc[p] = "spawned" /\ dialed[p] \in Sockets
          /\ \A q \in Procs : q # p /\ q # Hook(dialed[p]) => pc'[q] = pc[q] /\ obj'[q] = obj[q]
          /\ UNCHANGED <<connected, connOf, dialed>>
      BY <2>6, ReturnMoves
    <3> QED
      BY <3>1, WatchedKept
  <2> QED
    BY <1>2, <2>1, <2>2, <2>3, <2>4, <2>5, <2>6 DEF DialStep
<1>3. ASSUME NEW s \in Sockets, LoopStep(s) PROVE WatchedOK'
  <2>1. /\ \A q \in Procs : q # Loop(s) => pc'[q] = pc[q] /\ obj'[q] = obj[q]
        /\ UNCHANGED <<connected, connOf, dialed>>
        /\ pc[Loop(s)] \in ReadPCs
    BY <1>3, LoopMoves
  <2>2. CASE LoopStarts(s) \/ LoopFails(s)
    <3>1. \/ pc'[Loop(s)] = "reading"
          \/ pc'[Loop(s)] = "endTest" /\ obj'[Loop(s)] = cur
      <4>1. CASE LoopStarts(s)
        BY <4>1, Moved DEF LoopStarts, CallEnd, Goto, At, OwnerOK, TypeOK
      <4>2. CASE LoopFails(s)
        BY <4>2, Moved DEF LoopFails, CallEnd, Goto, At, OwnerOK, TypeOK
      <4> QED
        BY <2>2, <4>1, <4>2
    <3>2. connOf[cur] = s /\ cur \in Objects
      BY <2>2 DEF LoopStarts, LoopFails, At, OwnerOK, TypeOK
    <3> SUFFICES ASSUME NEW o \in Objects, NEW r \in Sockets, connOf'[o] = r, connected'[o]
                 PROVE  \/ pc'[Loop(r)] \in {"start", "reading"}
                        \/ pc'[Loop(r)] \in {"endTest", "endFlag"} /\ obj'[Loop(r)] = o
                        \/ \E q \in Loops : pc'[q] = "preamble" /\ dialed'[q] = r
      BY DEF WatchedOK
    <3>3. connOf[o] = r /\ connected[o]
      BY <2>1
    <3>4. CASE r = s
      <4>1. o = cur
        BY <3>2, <3>3, <3>4 DEF InstalledOK
      <4> QED
        BY <3>1, <3>4, <4>1
    <3>5. CASE r # s
      <4>1. Loop(r) # Loop(s)
        BY <3>5
      <4>2. CASE \E q \in Loops : pc[q] = "preamble" /\ dialed[q] = r
        <5>1. PICK q \in Loops : pc[q] = "preamble" /\ dialed[q] = r
          BY <4>2
        <5>2. q # Loop(s)
          BY <2>1, <5>1 DEF ReadPCs
        <5> QED
          BY <2>1, <5>1, <5>2
      <4>3. CASE \/ pc[Loop(r)] \in {"start", "reading"}
                 \/ pc[Loop(r)] \in {"endTest", "endFlag"} /\ obj[Loop(r)] = o
        BY <2>1, <4>1, <4>3
      <4> QED
        BY <3>3, <4>2, <4>3 DEF WatchedOK
    <3> QED
      BY <3>4, <3>5
  <2>3. CASE LoopCleansUp(s) \/ LoopRedials(s)
    <3>1. pc[Loop(s)] \in {"cleanup", "disconnecting"}
      BY <2>3 DEF LoopCleansUp, LoopRedials, At
    <3> QED
      BY <2>1, <3>1, WatchedKept
  <2> QED
    BY <1>3, <2>2, <2>3 DEF LoopStep
<1>4. ASSUME NEW s \in Sockets, HookStep(s) PROVE WatchedOK'
  BY <1>4, HookMoves, WatchedKept
<1>5. ASSUME NEW s \in Sockets, PeerLost(s) PROVE WatchedOK'
  BY <1>5 DEF PeerLost, objects, WatchedOK
<1>6. CASE CloseDone \/ CloseEnds
  BY <1>6, CloseMoves, WatchedKept
<1>7. CASE UNCHANGED vars
  BY <1>7 DEF vars, WatchedOK
<1> QED
  BY <1>1, <1>2, <1>3, <1>4, <1>5, <1>6, <1>7, NextSteps

\* Steps that start no reading, and leave the current object and Close() alone, preserve
\* ShutOK.
LEMMA ShutKept ==
  ASSUME ShutOK, UNCHANGED cur, done' => done, connected'[cur] => connected[cur],
         \A s \in Sockets : pc'[Loop(s)] = "reading" => pc[Loop(s)] = "reading",
         pc'[Closer] = pc[Closer], obj'[Closer] = obj[Closer]
  PROVE  ShutOK'
  BY DEF ShutOK

\* Every step preserves ShutOK.
LEMMA NextShut ==
  ASSUME LInv, ShutOK, [Next]_vars
  PROVE  ShutOK'
<1> USE OwedNames, Numbers DEF LInv
<1>0. cur \in Objects
  BY DEF TypeOK
<1>1. ASSUME NEW p \in Procs, EndStep(p) PROVE ShutOK'
  <2>1. /\ pc[p] \in EndPCs /\ pc'[p] \in {"endFlag", "endCheck", "endClose", goesTo[p]}
        /\ \A q \in Procs : q # p => pc'[q] = pc[q]
        /\ UNCHANGED <<done, cur, obj>>
        /\ \A o \in Objects : connected'[o] => connected[o]
    BY <1>1, EndMoves
  <2>2. CASE p # Closer
    <3>1. p \in Loops => pc'[p] # "reading"
      BY <2>1 DEF ControlOK
    <3>2. \A s \in Sockets : pc'[Loop(s)] = "reading" => pc[Loop(s)] = "reading"
      BY <2>1, <3>1
    <3> QED
      BY <1>0, <2>1, <2>2, <3>2, ShutKept
  <2>3. CASE p = Closer
    <3> SUFFICES ASSUME NEW s \in Sockets, done, pc[Loop(s)] = "reading"
                 PROVE  \/ ~connected'[cur]
                        \/ pc'[Closer] = "closing"
                        \/ pc'[Closer] \in {"endTest", "endFlag"} /\ obj'[Closer] = cur
      BY <2>1, <2>3 DEF ShutOK
    <3>1. CASE ~connected[cur]
      BY <1>0, <2>1, <3>1
    <3>2. CASE connected[cur]
      <4>1. pc[Closer] \in {"endTest", "endFlag"} /\ obj[Closer] = cur
        BY <2>1, <2>3, <3>2 DEF ShutOK, EndPCs
      <4>2. CASE EndTest(p)
        BY <2>1, <2>3, <3>2, <4>1, <4>2, Moved DEF EndTest, Goto
      <4>3. CASE EndFlag(p)
        BY <1>0, <2>3, <4>1, <4>3 DEF EndFlag, TypeOK
      <4>4. CASE EndCheck(p) \/ EndClose(p)
        BY <2>3, <4>1, <4>4 DEF EndCheck, EndClose, At
      <4> QED
        BY <1>1, <4>2, <4>3, <4>4 DEF EndStep
    <3> QED
      BY <3>1, <3>2
  <2> QED
    BY <2>2, <2>3
<1>2. ASSUME NEW g \in 0 .. MaxDials, DialStep(g) PROVE ShutOK'
  <2> DEFINE p == Loop(g)
  \* While a goroutine dials, nobody reads.
  <2>0. ASSUME pc[p] \in DialPCs PROVE \A s \in Sockets : pc[Loop(s)] # "reading"
    <3>1. pc[p] # "reading"
      BY <2>0 DEF DialPCs
    <3>2. \A q \in Loops : q # p => pc[q] # "reading"
      BY <2>0, Alone DEF ChargeOK, ReadPCs
    <3> QED
      BY <3>1, <3>2
  <2>1. CASE DialStart(g) \/ DialFails(g) \/ DialGivesUp(g) \/ BackoffEnds(g) \/ Refresh(g)
    <3>1. /\ pc[p] \in DialPCs /\ pc'[p] # "reading"
          /\ \A q \in Procs : q # p => pc'[q] = pc[q]
      BY <2>1, DialMoves DEF DialPCs
    <3> QED
      BY <2>0, <3>1 DEF ShutOK
  <2>2. CASE DialSucceeds(g)
    <3>1. /\ pc[p] \in DialPCs /\ pc'[p] # "reading"
          /\ \A q \in Procs : q # p => pc'[q] = pc[q]
      BY <2>2, DialledMoves DEF DialPCs
    <3> QED
      BY <2>0, <3>1 DEF ShutOK
  <2>3. CASE Install(g)
    <3>1. /\ pc[p] \in DialPCs /\ pc'[p] # "reading"
          /\ \A q \in Procs : q # p => pc'[q] = pc[q]
      BY <2>3, InstallMoves DEF DialPCs
    <3> QED
      BY <2>0, <3>1 DEF ShutOK
  <2>4. CASE PreambleSent(g)
    <3>1. /\ pc[p] \in DialPCs /\ pc'[p] = "spawned" /\ pc'[Loop(dialed[p])] = "start"
          /\ \A q \in Procs : q # p /\ q # Loop(dialed[p]) => pc'[q] = pc[q]
      BY <2>4, SentMoves DEF DialPCs
    <3> QED
      BY <2>0, <3>1 DEF ShutOK
  <2>5. CASE PreambleFails(g)
    <3>1. /\ pc[p] \in DialPCs /\ pc'[p] \in {"gone", "backoff"}
          /\ \A q \in Procs : q # p => pc'[q] = pc[q]
      BY <2>5, FailMoves DEF DialPCs
    <3> QED
      BY <2>0, <3>1 DEF ShutOK
  <2>6. CASE ConnectReturns(g)
    <3>1. /\ pc'[p] = "gone" /\ dialed[p] \in Sockets
          /\ \A q \in Procs : q # p /\ q # Hook(dialed[p]) => pc'[q] = pc[q] /\ obj'[q] = obj[q]
          /\ UNCHANGED <<done, cur, connected>>
      BY <2>6, ReturnMoves
    <3> QED
      BY <3>1, ShutKept
  <2> QED
    BY <1>2, <2>1, <2>2, <2>3, <2>4, <2>5, <2>6 DEF DialStep
<1>3. ASSUME NEW s \in Sockets, LoopStep(s) PROVE ShutOK'
  <2>1. /\ \A q \in Procs : q # Loop(s) => pc'[q] = pc[q] /\ obj'[q] = obj[q]
        /\ UNCHANGED <<done, cur, connected>>
        /\ pc'[Loop(s)] = "reading" => ~done
    <3>1. /\ \A q \in Procs : q # Loop(s) => pc'[q] = pc[q] /\ obj'[q] = obj[q]
          /\ UNCHANGED <<done, cur, connected>>
      BY <1>3, LoopMoves
    <3>2. Loop(s) \in Procs
      BY Names
    <3>3. CASE LoopStarts(s)
      <4>1. CASE done
        <5>1. pc' = [pc EXCEPT ![Loop(s)] = "endTest"]
          BY <3>3, <4>1 DEF LoopStarts, CallEnd, Goto
        <5>2. pc'[Loop(s)] = "endTest"
          BY <3>2, <5>1 DEF TypeOK
        <5> QED
          BY <3>1, <5>2
      <4>2. CASE ~done
        BY <3>1, <4>2
      <4> QED
        BY <4>1, <4>2
    <3>4. CASE LoopFails(s) \/ LoopCleansUp(s) \/ LoopRedials(s)
      <4>1. \E l \in {"endTest", "disconnecting", "dial", "gone"} :
               pc' = [pc EXCEPT ![Loop(s)] = l]
        BY <3>4 DEF LoopFails, LoopCleansUp, LoopRedials, CallEnd, Goto
      <4>2. pc'[Loop(s)] # "reading"
        BY <3>2, <4>1 DEF TypeOK
      <4> QED
        BY <3>1, <4>2
    <3> QED
      BY <1>3, <3>1, <3>3, <3>4 DEF LoopStep
  <2>2. CASE done
    BY <2>1, <2>2, ShutKept
  <2>3. CASE ~done
    BY <2>1, <2>3 DEF ShutOK
  <2> QED
    BY <2>2, <2>3
<1>4. ASSUME NEW s \in Sockets, HookStep(s) PROVE ShutOK'
  BY <1>4, HookMoves, ShutKept
<1>5. ASSUME NEW s \in Sockets, PeerLost(s) PROVE ShutOK'
  BY <1>5, ShutKept DEF PeerLost, objects
<1>6. CASE CloseDone \/ CloseEnds
  <2>1. /\ \/ pc'[Closer] = "closing"
           \/ pc'[Closer] = "endTest" /\ obj'[Closer] = cur
        /\ UNCHANGED cur
    BY <1>6, Moved DEF CloseDone, CloseEnds, CallEnd, Goto, objects, TypeOK
  <2> QED
    BY <2>1 DEF ShutOK
<1>7. CASE UNCHANGED vars
  BY <1>7 DEF vars, ShutOK
<1> QED
  BY <1>1, <1>2, <1>3, <1>4, <1>5, <1>6, <1>7, NextSteps

\* Steps that install nothing, start no read loop and leave the goroutines that mark
\* objects to it preserve ReadyIsOwed.
LEMMA OwedKept ==
  ASSUME ReadyIsOwed, UNCHANGED connOf, crash' = "none" => crash = "none",
         \A o \in Objects : ready[o] => ready'[o],
         \A s \in Sockets : pc[Loop(s)] = "none" => pc'[Loop(s)] = "none",
         \A p \in Markers : p \in Markers' /\ obj'[p] = obj[p]
  PROVE  ReadyIsOwed'
<1> SUFFICES ASSUME crash' = "none", NEW o \in Objects, NEW s \in Sockets,
                    connOf[o] = s, pc'[Loop(s)] # "none"
             PROVE  ready'[o] \/ \E p \in Markers' : obj'[p] = o
  BY DEF ReadyIsOwed
<1>1. CASE ready[o]
  BY <1>1
<1>2. CASE \E p \in Markers : obj[p] = o
  <2>1. PICK p \in Markers : obj[p] = o
    BY <1>2
  <2> QED
    BY <2>1
<1> QED
  BY <1>1, <1>2 DEF ReadyIsOwed

\* Who does not move, and has no hook to run, marks what it marked before.
LEMMA MarkersStay ==
  ASSUME NEW p \in Procs, \A q \in Procs : q # p => pc'[q] = pc[q] /\ obj'[q] = obj[q],
         p \notin Markers \/ (p \in Hooks /\ pc'[p] \notin {"none", "gone"} /\ obj'[p] = obj[p])
  PROVE  \A q \in Markers : q \in Markers' /\ obj'[q] = obj[q]
  BY OwedNames DEF Markers

\* Every step preserves ReadyIsOwed: connect() hands the object on to the hook, and
\* the hook, failing or not, marks it.
LEMMA NextOwed ==
  ASSUME LInv, HooksOK, InstalledOK, ReadyIsOwed, [Next]_vars
  PROVE  ReadyIsOwed'
<1> USE OwedNames, Numbers DEF LInv
<1>0. cur \in Objects
  BY DEF TypeOK
<1>1. ASSUME NEW p \in Procs, EndStep(p) PROVE ReadyIsOwed'
  <2>1. /\ pc[p] \in EndPCs /\ pc'[p] \in {"endFlag", "endCheck", "endClose", goesTo[p]}
        /\ \A q \in Procs : q # p => pc'[q] = pc[q]
        /\ UNCHANGED <<connOf, ready, obj>> /\ (crash' = "none" => crash = "none")
    BY <1>1, EndMoves
  <2>2. p \in Hooks => pc'[p] \notin {"none", "gone"}
    BY <2>1 DEF ControlOK
  <2>3. p \notin Hooks => p \notin Markers
    BY <2>1 DEF Markers, EndPCs
  <2>4. \A q \in Markers : q \in Markers' /\ obj'[q] = obj[q]
    BY <2>1, <2>2, <2>3, MarkersStay
  <2>5. \A s \in Sockets : pc[Loop(s)] = "none" => pc'[Loop(s)] = "none"
    BY <2>1 DEF EndPCs
  <2> QED
    BY <2>1, <2>4, <2>5, OwedKept
<1>2. ASSUME NEW g \in 0 .. MaxDials, DialStep(g) PROVE ReadyIsOwed'
  <2> DEFINE p == Loop(g)  r == dialed[p]
  <2>1. CASE DialStart(g) \/ DialFails(g) \/ DialGivesUp(g) \/ BackoffEnds(g) \/ Refresh(g)
    <3>1. /\ pc[p] \in {"dial", "dialing", "backoff", "refresh"}
          /\ \A q \in Procs : q # p => pc'[q] = pc[q] /\ obj'[q] = obj[q]
          /\ UNCHANGED <<ready, connOf>> /\ (crash' = "none" => crash = "none")
      BY <2>1, DialMoves
    <3>2. p \notin Markers
      BY <3>1 DEF Markers
    <3>3. \A q \in Markers : q \in Markers' /\ obj'[q] = obj[q]
      BY <3>1, <3>2, MarkersStay
    <3> QED
      BY <3>1, <3>3, OwedKept
  <2>2. CASE DialSucceeds(g)
    <3>1. /\ pc[p] = "dialing" /\ \A q \in Procs : q # p => pc'[q] = pc[q]
          /\ UNCHANGED <<ready, connOf, obj, crash>>
      BY <2>2, DialledMoves
    <3>2. p \notin Markers
      BY <3>1 DEF Markers
    <3>3. \A q \in Markers : q \in Markers' /\ obj'[q] = obj[q]
      BY <3>1, <3>2, MarkersStay
    <3> QED
      BY <3>1, <3>3, OwedKept
  <2>3. CASE Install(g)
    <3>1. /\ pc[p] = "install" /\ r \in Sockets /\ pc'[p] = "preamble"
          /\ \A q \in Procs : q # p => pc'[q] = pc[q]
          /\ connOf' = [connOf EXCEPT ![cur] = r]
          /\ UNCHANGED <<ready, obj, crash>>
      BY <2>3, InstallMoves
    <3>2. connOf'[cur] = r /\ \A o \in Objects : o # cur => connOf'[o] = connOf[o]
      BY <1>0, <3>1 DEF TypeOK
    <3>3. pc[Loop(r)] = "none" /\ pc'[Loop(r)] = "none"
      BY <3>1 DEF SocketsOK, Connecting
    <3>4. p \notin Markers
      BY <3>1 DEF Markers
    <3>5. \A q \in Markers : q \in Markers' /\ obj'[q] = obj[q]
      BY <3>1, <3>4, MarkersStay
    <3>6. ASSUME crash' = "none", NEW o \in Objects, NEW s \in Sockets,
                 connOf'[o] = s, pc'[Loop(s)] # "none"
          PROVE  ready'[o] \/ \E q \in Markers' : obj'[q] = o
      <4>1. o # cur /\ connOf[o] = s
        BY <3>2, <3>3, <3>6
      <4>2. pc[Loop(s)] # "none"
        BY <3>1, <3>6
      <4>3. CASE ready[o]
        BY <3>1, <4>3
      <4>4. CASE \E q \in Markers : obj[q] = o
        <5>1. PICK q \in Markers : obj[q] = o
          BY <4>4
        <5> QED
          BY <3>5, <5>1
      <4> QED
        BY <3>1, <3>6, <4>1, <4>2, <4>3, <4>4 DEF ReadyIsOwed
    <3> QED
      BY <3>6 DEF ReadyIsOwed
  <2>4. CASE PreambleSent(g)
    <3>1. /\ pc[p] = "preamble" /\ pc'[p] = "spawned" /\ r \in Sockets
          /\ pc[Loop(r)] = "none" /\ pc'[Loop(r)] = "start"
          /\ connOf[cur] = r /\ obj[p] = cur
          /\ \A q \in Procs : q # p /\ q # Loop(r) => pc'[q] = pc[q]
          /\ UNCHANGED <<ready, connOf, obj, crash>>
      BY <2>4, SentMoves
    <3>2. p \in Markers'
      BY <3>1 DEF Markers
    <3>3. p \notin Markers /\ Loop(r) \notin Markers
      BY <3>1 DEF Markers
    <3>4. \A q \in Markers : q \in Markers'
      BY <3>1, <3>3 DEF Markers
    <3>5. ASSUME crash' = "none", NEW o \in Objects, NEW s \in Sockets,
                 connOf'[o] = s, pc'[Loop(s)] # "none"
          PROVE  ready'[o] \/ \E q \in Markers' : obj'[q] = o
      <4>1. CASE s = r
        <5>1. o = cur
          BY <1>0, <3>1, <3>5, <4>1 DEF InstalledOK
        <5> QED
          BY <3>1, <3>2, <5>1
      <4>2. CASE s # r
        <5>1. pc[Loop(s)] # "none"
          BY <3>1, <3>5, <4>2
        <5>2. CASE ready[o]
          BY <3>1, <5>2
        <5>3. CASE \E q \in Markers : obj[q] = o
          <6>1. PICK q \in Markers : obj[q] = o
            BY <5>3
          <6> QED
            BY <3>1, <3>4, <6>1
        <5> QED
          BY <3>1, <3>5, <5>1, <5>2, <5>3 DEF ReadyIsOwed
      <4> QED
        BY <4>1, <4>2
    <3> QED
      BY <3>5 DEF ReadyIsOwed
  <2>5. CASE PreambleFails(g)
    <3>1. /\ pc[p] = "preamble" /\ pc'[p] \in {"gone", "backoff"}
          /\ connOf' = [connOf EXCEPT ![cur] = Nil]
          /\ \A q \in Procs : q # p => pc'[q] = pc[q]
          /\ UNCHANGED <<ready, obj, crash>>
      BY <2>5, FailMoves
    <3>2. p \notin Markers
      BY <3>1 DEF Markers
    <3>3. \A q \in Markers : q \in Markers' /\ obj'[q] = obj[q]
      BY <3>1, <3>2, MarkersStay
    <3>4. ASSUME crash' = "none", NEW o \in Objects, NEW s \in Sockets,
                 connOf'[o] = s, pc'[Loop(s)] # "none"
          PROVE  ready'[o] \/ \E q \in Markers' : obj'[q] = o
      <4>1. connOf[o] = s /\ pc[Loop(s)] # "none"
        BY <1>0, <3>1, <3>4 DEF TypeOK
      <4>2. CASE ready[o]
        BY <3>1, <4>2
      <4>3. CASE \E q \in Markers : obj[q] = o
        <5>1. PICK q \in Markers : obj[q] = o
          BY <4>3
        <5> QED
          BY <3>3, <5>1
      <4> QED
        BY <3>1, <3>4, <4>1, <4>2, <4>3 DEF ReadyIsOwed
    <3> QED
      BY <3>4 DEF ReadyIsOwed
  <2>6. CASE ConnectReturns(g)
    <3> DEFINE h == Hook(r)
    <3>1. /\ pc[p] = "spawned" /\ pc'[p] = "gone" /\ r \in Sockets
          /\ \A q \in Procs : q # p /\ q # h => pc'[q] = pc[q] /\ obj'[q] = obj[q]
          /\ \/ pc'[h] = "running" /\ obj'[h] = obj[p]
             \/ crash' = "none" /\ obj[p] \in Objects => ready'[obj[p]]
          /\ \A u \in Objects : ready[u] => ready'[u]
          /\ UNCHANGED connOf
          /\ crash' = "none" => crash = "none"
      BY <2>6, ReturnMoves
    <3>2. pc[h] = "none"
      BY <3>1 DEF HooksOK
    <3>3. h \notin Markers
      BY <3>1, <3>2 DEF Markers
    <3>4. \A q \in Markers : q # p => q \in Markers' /\ obj'[q] = obj[q]
      BY <3>1, <3>3 DEF Markers
    <3>5. pc'[h] = "running" => h \in Markers'
      BY <3>1 DEF Markers
    <3>6. ASSUME crash' = "none", NEW o \in Objects, NEW s \in Sockets,
                 connOf'[o] = s, pc'[Loop(s)] # "none"
          PROVE  ready'[o] \/ \E q \in Markers' : obj'[q] = o
      <4>1. pc[Loop(s)] # "none"
        BY <3>1, <3>6
      <4>2. CASE ready[o]
        BY <3>1, <4>2
      <4>3. CASE \E q \in Markers : obj[q] = o
        <5>1. PICK q \in Markers : obj[q] = o
          BY <4>3
        <5>2. CASE q = p
          BY <3>1, <3>5, <3>6, <5>1, <5>2
        <5>3. CASE q # p
          BY <3>4, <5>1, <5>3
        <5> QED
          BY <5>2, <5>3
      <4> QED
        BY <3>1, <3>6, <4>1, <4>2, <4>3 DEF ReadyIsOwed
    <3> QED
      BY <3>6 DEF ReadyIsOwed
  <2> QED
    BY <1>2, <2>1, <2>2, <2>3, <2>4, <2>5, <2>6 DEF DialStep
<1>3. ASSUME NEW s \in Sockets, LoopStep(s) PROVE ReadyIsOwed'
  <2>1. /\ pc[Loop(s)] \in ReadPCs
        /\ \A q \in Procs : q # Loop(s) => pc'[q] = pc[q] /\ obj'[q] = obj[q]
        /\ UNCHANGED <<ready, connOf, crash>>
    BY <1>3, LoopMoves
  <2>2. Loop(s) \notin Markers
    BY <2>1 DEF Markers, ReadPCs
  <2>3. \A q \in Markers : q \in Markers' /\ obj'[q] = obj[q]
    BY <2>1, <2>2, MarkersStay
  <2> QED
    BY <2>1, <2>3, OwedKept DEF ReadPCs
<1>4. ASSUME NEW s \in Sockets, HookStep(s) PROVE ReadyIsOwed'
  <2> DEFINE h == Hook(s)
  <2>1. /\ pc[h] \in {"running", "markReady"} /\ pc'[h] \in {"markReady", "endTest", "gone"}
        /\ \A q \in Procs : q # h => pc'[q] = pc[q]
        /\ UNCHANGED <<connOf, obj>>
        /\ \A o \in Objects : ready[o] => ready'[o]
        /\ crash' = "none" => crash = "none"
        /\ pc'[h] = "gone" /\ crash' = "none" => ready'[obj[h]]
    BY <1>4, HookMoves
  <2>2. CASE pc'[h] # "gone"
    <3>1. \A q \in Markers : q \in Markers' /\ obj'[q] = obj[q]
      BY <2>1, <2>2, MarkersStay
    <3> QED
      BY <2>1, <3>1, OwedKept
  <2>3. CASE pc'[h] = "gone"
    <3> SUFFICES ASSUME crash' = "none", NEW o \in Objects, NEW r \in Sockets,
                        connOf[o] = r, pc'[Loop(r)] # "none"
                 PROVE  ready'[o] \/ \E q \in Markers' : obj'[q] = o
      BY <2>1 DEF ReadyIsOwed
    <3>1. pc[Loop(r)] # "none"
      BY <2>1
    <3>2. CASE ready[o]
      BY <2>1, <3>2
    <3>3. CASE \E q \in Markers : obj[q] = o
      <4>1. PICK q \in Markers : obj[q] = o
        BY <3>3
      <4>2. CASE q = h
        BY <2>1, <2>3, <4>1, <4>2
      <4>3. CASE q # h
        <5>1. q \in Markers'
          BY <2>1, <4>1, <4>3 DEF Markers
        <5> QED
          BY <2>1, <4>1, <5>1
      <4> QED
        BY <4>2, <4>3
    <3> QED
      BY <2>1, <3>1, <3>2, <3>3 DEF ReadyIsOwed
  <2> QED
    BY <2>2, <2>3
<1>5. ASSUME NEW s \in Sockets, PeerLost(s) PROVE ReadyIsOwed'
  BY <1>5 DEF PeerLost, objects, ReadyIsOwed, Markers
<1>6. CASE CloseDone \/ CloseEnds
  <2>1. /\ \A q \in Procs : q # Closer => pc'[q] = pc[q] /\ obj'[q] = obj[q]
        /\ UNCHANGED <<ready, connOf>> /\ (crash' = "none" => crash = "none")
    BY <1>6, CloseMoves
  <2>2. Closer \notin Markers
    BY DEF Markers
  <2>3. \A q \in Markers : q \in Markers' /\ obj'[q] = obj[q]
    BY <2>1, <2>2, MarkersStay
  <2> QED
    BY <2>1, <2>3, OwedKept
<1>7. CASE UNCHANGED vars
  BY <1>7 DEF vars, ReadyIsOwed, Markers
<1> QED
  BY <1>1, <1>2, <1>3, <1>4, <1>5, <1>6, <1>7, NextSteps

\* Nothing is owed to begin with: no object has a net.Conn, and options.Conn, if there
\* is one, is on its way into the first.
LEMMA InitOwed == Init => DInv
<1> SUFFICES ASSUME Init PROVE DInv
  OBVIOUS
<1> USE OwedNames, Numbers
<1>1. /\ \A o \in Objects : connOf[o] = Nil
      /\ ~done /\ crash = "none"
      /\ Loop(0) \in Loops
      /\ \A p \in Procs : p # Loop(0) /\ p # Closer => pc[p] = "none"
      /\ pc[Loop(0)] = IF options.conn THEN "refresh" ELSE "dial"
      /\ dialed[Loop(0)] = IF options.conn THEN 1 ELSE 0
      /\ \A s \in Sockets : sock[s] = IF options.conn /\ s = 1 THEN "open" ELSE "unused"
      /\ 1 \in Sockets
  BY DEF Init
<1>2. \A o \in Objects : connOf[o] \notin Sockets
  BY <1>1
<1>3. \A p \in Loops : pc[p] \in Connecting \cup {"spawned"} =>
        p = Loop(0) /\ dialed[p] = 1 /\ options.conn
  BY <1>1 DEF Connecting
<1>4. HooksOK
  BY <1>1, <1>3 DEF HooksOK
<1>5. InstalledOK
  <2>1. \A p \in Loops : pc[p] \in Arriving => dialed[p] = 1
    BY <1>3 DEF Arriving, Connecting
  <2>2. \A s \in Sockets : sock[s] \in Live =>
          pc[Loop(0)] \in Arriving /\ dialed[Loop(0)] = s
    BY <1>1 DEF Arriving, Live
  <2> QED
    BY <1>1, <1>2, <2>1, <2>2 DEF InstalledOK
<1>6. EndingOK /\ WatchedOK /\ ShutOK /\ ReadyIsOwed
  BY <1>1, <1>2 DEF EndingOK, WatchedOK, ShutOK, ReadyIsOwed
<1> QED
  BY <1>4, <1>5, <1>6 DEF DInv

\* Every step preserves the second invariant.
LEMMA NextDInv ==
  ASSUME LInv, DInv, [Next]_vars
  PROVE  DInv'
  BY NextHooks, NextInstalled, NextEnding, NextWatched, NextShut, NextOwed DEF DInv

\* The second invariant holds of every execution.
THEOREM OwedInvariance == Spec => [](LInv /\ DInv)
<1>1. Init => LInv /\ DInv
  BY InitInv, InitOwed
<1>2. LInv /\ DInv /\ [Next]_vars => LInv' /\ DInv'
  BY NextInv, NextDInv
<1> QED
  BY <1>1, <1>2, PTL DEF Spec

\* Once done is closed and every goroutine has come to rest or reads, no socket has been
\* left open, but for the two kinds that a recycled object can strand.
THEOREM SocketsAreReaped == Spec => []NothingLeftOpen
<1>1. LInv /\ DInv => NothingLeftOpen
  <2> SUFFICES ASSUME LInv, DInv, done, NEW s \in Sockets, sock[s] \in Live,
                      \A p \in Procs : pc[p] \in {"none", "idle", "reading", "gone"},
                      s \notin bornDead \cup displaced
               PROVE  FALSE
    BY DEF NothingLeftOpen, Live
  <2> USE OwedNames DEF LInv, DInv
  <2>1. \A p \in Loops : pc[p] \notin Arriving /\ pc[p] # "preamble"
    BY DEF Arriving
  <2>2. PICK o \in Objects : connOf[o] = s
    BY <2>1 DEF InstalledOK
  <2>3. connected[o]
    BY <2>2 DEF EndingOK, Closing
  <2>4. pc[Loop(s)] = "reading"
    BY <2>1, <2>2, <2>3 DEF WatchedOK
  <2>5. connOf[cur] = s /\ cur \in Objects /\ s # Nil
    BY <2>4, Numbers DEF OwnerOK, TypeOK
  <2>6. o = cur
    BY <2>2, <2>5 DEF InstalledOK
  <2> QED
    BY <2>3, <2>4, <2>6 DEF ShutOK
<1> QED
  BY <1>1, OwedInvariance, PTL

\* From the moment its read loop is started, an object is ready, or connect() or the
\* hook is about to mark it: nobody who waits in Ready() or in call() is forgotten.
THEOREM ReadyAlwaysOwed == Spec => []ReadyIsOwed
<1>1. LInv /\ DInv => ReadyIsOwed
  BY DEF DInv
<1> QED
  BY <1>1, OwedInvariance, PTL

=============================================================================
