----------------------------- MODULE SwiftProofs -----------------------------
(***************************************************************************)
(* Theorems about SwiftConnection, for any calls, any calls of the peer    *)
(* and any number of connections, whatever the application does in the     *)
(* callbacks, methods and hooks that are run in the middle of things.      *)
(***************************************************************************)
EXTENDS SwiftConnection, FiniteSetTheorems, SequenceTheorems, TLAPS

-----------------------------------------------------------------------------
(* The inductive invariant.                                                *)

\* The loops of disconnect() on the stack st that will call c back.
In(c, st) == {i \in 1 .. Len(st) : c \in st[i].left}

\* The connection is not disconnected, so that its end will call c back.
Held(c) == IF c \in slots /\ connectionState # "disconnected" THEN 1 ELSE 0

\* How often c has been called back or is going to be, by what is on the stack and by
\* the end of the connection, if no reply comes.
Debt(c) == runs[c] + Cardinality(In(c, stack)) + Held(c)

\* Who can be called back has been placed, and the table is empty once disconnect() has
\* returned.
SlotsOK ==
    /\ slots \subseteq placed /\ late \subseteq placed
    /\ \A c \in Calls : In(c, stack) # {} => c \in placed
    /\ connectionState = "disconnected" /\ ~Disconnecting => slots = {}

\* Each connection calls a call back once at most; all of them together do, as long as
\* disconnect() was never interrupted by connect().
DebtOK ==
    /\ connectionState # "disconnected" => connects >= 1
    /\ \A c \in placed : Debt(c) <= connects /\ (~reconnected => Debt(c) <= 1)
    /\ \A c \in Calls \ placed : runs[c] <= 1

\* A call that was not placed while disconnect() ran callbacks has been called back, or
\* is left to one of the loops on the stack, or to the end of the connection.
PendingOK ==
    \A c \in placed \ late :
        \/ runs[c] > 0
        \/ In(c, stack) # {}
        \/ ~Disconnecting /\ c \in slots /\ connectionState # "disconnected"

\* What has arrived on this connection, read or not.
Arrived(n) == IF n <= readPos THEN readBuffer[n - 1] ELSE inbound[n - readPos]

\* A connection that began with an empty buffer reads to where the last read stopped,
\* and what arrives first is the preamble.
StreamOK ==
    /\ fault \in {"preamble", "bounds"} => startPos # 0
    /\ connectionState # "disconnected" /\ startPos = 0 =>
         /\ readPos \in 0 .. readNeeds
         /\ readState = "preamble" =>
              /\ readNeeds = Preamble
              /\ PreambleMsg \notin heard => readPos = 0 /\ inbound = <<>>
              /\ PreambleMsg \in heard =>
                    /\ readPos + Len(inbound) >= Preamble
                    /\ \A n \in 1 .. Preamble : Arrived(n) = Unit(PreambleMsg, n)

SwiftInv == TypeOK /\ SlotsOK /\ DebtOK /\ PendingOK /\ StreamOK

-----------------------------------------------------------------------------
(* The stack.                                                              *)

LEMMA FrameFacts ==
    /\ \A f \in {"method", "badReturn"} : Frame(f, {}) \in Frames
    /\ \A S \in SUBSET Calls : Frame("disconnect", S) \in Frames
    /\ \A f \in Frames :
         /\ f.left \subseteq Calls
         /\ f.is # "disconnect" => f.left = {}
         /\ f.is \in {"disconnect", "method", "badReturn"}
         /\ f.is = "disconnect" => f = Frame("disconnect", f.left)
  BY DEF Frames, Frame

Loops(st) == {i \in 1 .. Len(st) : st[i].is = "disconnect"}

LEMMA OnTop ==
  ASSUME NEW st \in Seq(Frames), NEW f \in Frames
  PROVE  LET on == Append(st, f) IN
         /\ on \in Seq(Frames)
         /\ \A c : In(c, on) = IF c \in f.left THEN In(c, st) \cup {Len(st) + 1} ELSE In(c, st)
         /\ \A c : Len(st) + 1 \notin In(c, st)
         /\ Loops(on) = IF f.is = "disconnect" THEN Loops(st) \cup {Len(st) + 1} ELSE Loops(st)
<1> DEFINE on == Append(st, f)
<1>1. /\ on \in Seq(Frames) /\ Len(on) = Len(st) + 1 /\ Len(st) \in Nat
      /\ \A i \in 1 .. Len(st) : on[i] = st[i]
      /\ on[Len(st) + 1] = f
  BY AppendProperties
<1>2. 1 .. Len(on) = (1 .. Len(st)) \cup {Len(st) + 1} /\ Len(st) + 1 \notin 1 .. Len(st)
  BY <1>1
<1> HIDE DEF on
<1>3. \A c : In(c, on) = IF c \in f.left THEN In(c, st) \cup {Len(st) + 1} ELSE In(c, st)
  BY <1>1, <1>2 DEF In
<1>4. Loops(on) = IF f.is = "disconnect" THEN Loops(st) \cup {Len(st) + 1} ELSE Loops(st)
  BY <1>1, <1>2 DEF Loops
<1>5. \A c : Len(st) + 1 \notin In(c, st)
  BY <1>2 DEF In
<1> QED
  BY <1>1, <1>3, <1>4, <1>5 DEF on

LEMMA Below ==
  ASSUME stack \in Seq(Frames), stack # <<>>
  PROVE  /\ Under \in Seq(Frames) /\ Top \in Frames /\ Len(stack) \in 1 .. Len(stack)
         /\ Len(Under) + 1 = Len(stack)
         /\ \A c : In(c, Under) = In(c, stack) \ {Len(stack)}
         /\ \A c : Len(stack) \in In(c, stack) <=> c \in Top.left
         /\ Loops(Under) = Loops(stack) \ {Len(stack)}
         /\ Len(stack) \in Loops(stack) <=> Top.is = "disconnect"
<1>1. Len(stack) \in Nat \ {0} /\ Top \in Frames
  BY EmptySeq, LenProperties, ElementOfSeq DEF Top
<1>2. /\ Under \in Seq(Frames) /\ Len(Under) = Len(stack) - 1
      /\ \A i \in 1 .. Len(Under) : Under[i] = stack[i]
  <2> DEFINE n == Len(stack) - 1
  <2>1. n \in Int /\ 1 \in Int /\ \A i \in 1 .. n : stack[i] \in Frames
    BY <1>1, ElementOfSeq
  <2>2. Under = SubSeq(stack, 1, n) /\ n >= 0
    BY <1>1 DEF Under
  <2> HIDE DEF n
  <2>3. /\ SubSeq(stack, 1, n) \in Seq(Frames)
        /\ Len(SubSeq(stack, 1, n)) = IF 1 <= n THEN n - 1 + 1 ELSE 0
        /\ \A i \in 1 .. n - 1 + 1 : SubSeq(stack, 1, n)[i] = stack[1 + i - 1]
    BY <2>1, SubSeqProperties
  <2>4. Len(Under) = n /\ \A i \in 1 .. n : Under[i] = stack[i]
    BY <2>1, <2>2, <2>3
  <2> QED
    BY <2>2, <2>3, <2>4 DEF n
<1>3. 1 .. Len(Under) = (1 .. Len(stack)) \ {Len(stack)} /\ Len(stack) \in 1 .. Len(stack)
  BY <1>1, <1>2
<1>4. \A c : In(c, Under) = In(c, stack) \ {Len(stack)}
  BY <1>2, <1>3 DEF In
<1>5. Loops(Under) = Loops(stack) \ {Len(stack)}
  BY <1>2, <1>3 DEF Loops
<1>6. /\ \A c : Len(stack) \in In(c, stack) <=> c \in Top.left
      /\ Len(stack) \in Loops(stack) <=> Top.is = "disconnect"
  BY <1>3 DEF In, Loops, Top
<1> QED
  BY <1>1, <1>2, <1>3, <1>4, <1>5, <1>6

\* How many loops will call c back.
LEMMA Counts ==
  ASSUME NEW st \in Seq(Frames), NEW c
  PROVE  /\ IsFiniteSet(In(c, st)) /\ Cardinality(In(c, st)) \in Nat
         /\ In(c, st) = {} => Cardinality(In(c, st)) = 0
         /\ \A i : i \notin In(c, st) =>
              Cardinality(In(c, st) \cup {i}) = Cardinality(In(c, st)) + 1
         /\ \A i \in In(c, st) :
              /\ Cardinality(In(c, st) \ {i}) \in Nat
              /\ Cardinality(In(c, st) \ {i}) + 1 = Cardinality(In(c, st))
<1>1. IsFiniteSet(1 .. Len(st)) /\ In(c, st) \subseteq 1 .. Len(st)
  BY LenProperties, FS_Interval DEF In
<1>2. IsFiniteSet(In(c, st))
  BY <1>1, FS_Subset
<1>3. \A i \in In(c, st) :
          /\ IsFiniteSet(In(c, st) \ {i})
          /\ Cardinality(In(c, st) \ {i}) = Cardinality(In(c, st)) - 1
  BY <1>2, FS_RemoveElement
<1>4. Cardinality(In(c, st)) \in Nat
       /\ \A i \in In(c, st) : Cardinality(In(c, st) \ {i}) \in Nat
  BY <1>2, <1>3, FS_CardinalityType
<1>5. In(c, st) = {} => Cardinality(In(c, st)) = 0
  BY FS_EmptySet
<1>6. \A i : i \notin In(c, st) =>
              Cardinality(In(c, st) \cup {i}) = Cardinality(In(c, st)) + 1
  BY <1>2, FS_AddElement
<1>7. ASSUME NEW i \in In(c, st) PROVE Cardinality(In(c, st) \ {i}) + 1 = Cardinality(In(c, st))
  <2> DEFINE n == Cardinality(In(c, st))
             k == Cardinality(In(c, st) \ {i})
  <2>1. k = n - 1 /\ n \in Nat
    BY <1>3, <1>4, <1>7, Zenon
  <2> HIDE DEF n, k
  <2>2. k + 1 = n
    BY <2>1
  <2> QED
    BY <2>2 DEF n, k
<1> QED
  BY <1>2, <1>4, <1>5, <1>6, <1>7, Zenon

-----------------------------------------------------------------------------
(* What the steps do to calls and to the stack.                            *)

\* The stack st has the loops of the present one.
Calm(st) ==
    /\ st \in Seq(Frames)
    /\ \A c : In(c, st) = In(c, stack)
    /\ Loops(st) = {} <=> Loops(stack) = {}

LEMMA CalmFacts ==
  ASSUME stack \in Seq(Frames)
  PROVE  /\ Calm(stack)
         /\ stack # <<>> /\ Top.is # "disconnect" => Calm(Under)
         /\ \A f \in {"method", "badReturn"} : Calm(Append(stack, Frame(f, {})))
<1>1. Calm(stack)
  BY DEF Calm
<1>2. ASSUME stack # <<>>, Top.is # "disconnect" PROVE Calm(Under)
  <2>1. Top.left = {}
    BY <1>2, Below, FrameFacts
  <2> QED
    BY <1>2, <2>1, Below DEF Calm
<1>3. ASSUME NEW f \in {"method", "badReturn"} PROVE Calm(Append(stack, Frame(f, {})))
  <2>1. Frame(f, {}) \in Frames /\ Frame(f, {}).left = {} /\ Frame(f, {}).is # "disconnect"
    BY FrameFacts DEF Frame
  <2> QED
    BY <2>1, OnTop DEF Calm
<1> QED
  BY <1>1, <1>2, <1>3

Up == connectionState # "disconnected"

\* The same calls, and nobody ends or begins.
Moves ==
    /\ UNCHANGED <<connects, slots, runs, placed, late, reconnected>>
    /\ Up' <=> Up
    /\ Calm(stack')

\* disconnect() with what is in the table `pending`.
Pushes(pending) ==
    /\ Up /\ ~Up'
    /\ \E st : Calm(st) /\ stack' = Append(st, Frame("disconnect", pending))

Ends ==
    /\ UNCHANGED <<connects, slots, runs, placed, late, reconnected>>
    /\ Pushes(slots)

Begins ==
    /\ ~Up /\ Up'
    /\ connects < MaxConnects /\ connects' = connects + 1
    /\ reconnected' = (reconnected \/ Disconnecting)
    /\ UNCHANGED <<slots, runs, placed, late, stack>>

CallsBack(c) ==
    /\ stack # <<>> /\ Top.is = "disconnect" /\ c \in Top.left
    /\ runs' = [runs EXCEPT ![c] = @ + 1]
    /\ stack' = Append(Under, Frame("disconnect", Top.left \ {c}))
    /\ UNCHANGED <<connects, slots, placed, late, reconnected, connectionState>>

Drops ==
    /\ stack # <<>> /\ Top = Frame("disconnect", {})
    /\ slots' = {}
    /\ stack' = Under
    /\ UNCHANGED <<connects, runs, placed, late, reconnected, connectionState>>

Refuses(c) ==
    /\ c \notin placed /\ runs[c] = 0
    /\ runs' = [runs EXCEPT ![c] = 1]
    /\ UNCHANGED <<connects, slots, placed, late, reconnected, connectionState, stack>>

Places(c) ==
    /\ c \notin placed /\ runs[c] = 0
    /\ Up
    /\ placed' = placed \cup {c}
    /\ slots' = slots \cup {c}
    /\ late' = IF Disconnecting THEN late \cup {c} ELSE late
    /\ \/ stack' = stack /\ Up'
       \/ Pushes(slots')
    /\ UNCHANGED <<connects, runs, reconnected>>

Answers(c) ==
    /\ Up /\ c \in slots
    /\ slots' = slots \ {c}
    /\ runs' = [runs EXCEPT ![c] = @ + 1]
    /\ Calm(stack')
    /\ UNCHANGED <<connects, placed, late, reconnected, connectionState>>

\* disconnect() and send() on a stack with the same loops.
LEMMA DisconnectKinds ==
  ASSUME TypeOK, NEW below, Calm(below), NEW pending, disconnect(below, pending)
  PROVE  \/ Calm(stack') /\ (Up' <=> Up)
         \/ Pushes(pending)
  BY DEF disconnect, Pushes, Up

LEMMA SendKinds ==
  ASSUME TypeOK, NEW b, NEW below, Calm(below), NEW pending, send(b, below, pending)
  PROVE  \/ stack' = below /\ (Up' <=> Up)
         \/ Pushes(pending)
  BY DEF send, disconnect, Pushes, Up

LEMMA Kinds ==
  ASSUME SwiftInv, [Next]_vars
  PROVE  \/ Moves \/ Ends \/ Begins \/ Drops
         \/ \E c \in Calls : CallsBack(c) \/ Refuses(c) \/ Places(c) \/ Answers(c)
<1> USE DEF notes, reading
<1>0. TypeOK /\ stack \in Seq(Frames) /\ slots \subseteq Calls
  BY DEF SwiftInv, TypeOK
<1>1. CASE UNCHANGED vars
  BY <1>0, <1>1, CalmFacts DEF vars, Moves, Up
<1>2. CASE connect
  BY <1>2 DEF connect, Begins, Up
<1>3. CASE Disconnect
  <2>1. Pushes(slots)
    BY <1>0, <1>3, CalmFacts DEF Disconnect, disconnect, Pushes, Up
  <2> QED
    BY <1>3, <2>1 DEF Disconnect, Ends
<1>4. ASSUME NEW c \in Calls, Call(c) PROVE Refuses(c) \/ Places(c)
  <2>1. CASE connectionState = "disconnected"
    BY <1>4, <2>1 DEF Call, Refuses
  <2>2. CASE connectionState # "disconnected"
    <3>1. /\ c \notin placed /\ runs[c] = 0
          /\ placed' = placed \cup {c}
          /\ slots' = slots \cup {c}
          /\ late' = IF Disconnecting THEN late \cup {c} ELSE late
          /\ send(Append(writeBuffer, Msg("call", c)), stack, slots')
          /\ UNCHANGED <<connects, runs, reconnected>>
      BY <1>4, <2>2 DEF Call
    <3>2. (stack' = stack /\ Up') \/ Pushes(slots')
      BY <1>0, <2>2, <3>1, CalmFacts, SendKinds DEF Up
    <3> QED
      BY <2>2, <3>1, <3>2 DEF Places, Up
  <2> QED
    BY <2>1, <2>2
<1>5. ASSUME NEW c \in Calls, CallBack(c) PROVE CallsBack(c)
  BY <1>5 DEF CallBack, CallsBack
<1>6. CASE DisconnectReturns
  BY <1>6 DEF DisconnectReturns, Drops
<1>7. CASE MethodReturns
  <2>1. stack # <<>> /\ Top.is # "disconnect" /\ Calm(Under)
    BY <1>0, <1>7, CalmFacts DEF MethodReturns
  <2>2. UNCHANGED <<connects, slots, runs, placed, late, reconnected>>
    BY <1>7 DEF MethodReturns
  <2>3. (Calm(stack') /\ (Up' <=> Up)) \/ Pushes(slots)
    <3>1. CASE connectionState = "disconnected" /\ UNCHANGED <<connectionState, stack>>
      BY <1>0, <3>1, CalmFacts DEF Up
    <3>2. CASE send(Append(writeBuffer, Msg("return", "none")), Under, slots)
      BY <1>0, <2>1, <3>2, SendKinds
    <3>3. CASE disconnect(Under, slots)
      BY <1>0, <2>1, <3>3, DisconnectKinds
    <3> QED
      BY <1>7, <3>1, <3>2, <3>3 DEF MethodReturns
  <2> QED
    BY <2>2, <2>3 DEF Moves, Ends
<1>8. CASE BadReturnEnds
  <2>1. Calm(Under) /\ disconnect(Under, slots)
    BY <1>0, <1>8, CalmFacts DEF BadReturnEnds
  <2> QED
    BY <1>0, <1>8, <2>1, DisconnectKinds DEF BadReturnEnds, Moves, Ends
<1>9. CASE OpenCompleted
  BY <1>0, <1>9, CalmFacts DEF OpenCompleted, Moves, Up
<1>10. CASE HasSpaceAvailable
  BY <1>0, <1>10, CalmFacts, SendKinds DEF HasSpaceAvailable, Moves, Ends
<1>11. CASE StreamEnds
  BY <1>0, <1>11, CalmFacts, DisconnectKinds DEF StreamEnds, Moves, Ends
<1>12. ASSUME NEW m \in {PreambleMsg} \cup Incoming, PeerSends(m) PROVE Moves
  BY <1>0, <1>12, CalmFacts DEF PeerSends, Moves, Up
<1>13. CASE HasBytesAvailable
  <2>1. Calm(stack) /\ Up /\ UNCHANGED <<connects, placed, late, reconnected>>
    BY <1>0, <1>13, CalmFacts DEF HasBytesAvailable, Up
  <2>2. CASE UNCHANGED <<connectionState, slots, runs, stack>>
    BY <2>1, <2>2 DEF Moves, Up
  <2>3. ASSUME UNCHANGED <<slots, runs>>, disconnect(stack, slots) PROVE Moves \/ Ends
    BY <1>0, <2>1, <2>3, DisconnectKinds DEF Moves, Ends
  <2>4. ASSUME NEW m, gotMessage(m) PROVE Moves \/ Ends \/ \E c \in Calls : Answers(c)
    <3>1. CASE stack' = Append(stack, Frame("method", {})) /\ UNCHANGED <<connectionState, slots, runs>>
      BY <1>0, <2>1, <3>1, CalmFacts DEF Moves, Up
    <3>2. CASE /\ m.call \in slots
               /\ slots' = slots \ {m.call}
               /\ runs' = [runs EXCEPT ![m.call] = @ + 1]
               /\ stack' = stack \/ stack' = Append(stack, Frame("badReturn", {}))
               /\ UNCHANGED connectionState
      BY <1>0, <2>1, <3>2, CalmFacts DEF Answers
    <3>3. CASE UNCHANGED <<slots, runs>> /\ disconnect(stack, slots)
      BY <2>3, <3>3
    <3>4. \/ stack' = Append(stack, Frame("method", {})) /\ UNCHANGED <<connectionState, slots, runs>>
          \/ /\ m.call \in slots
             /\ slots' = slots \ {m.call}
             /\ runs' = [runs EXCEPT ![m.call] = @ + 1]
             /\ stack' = stack \/ stack' = Append(stack, Frame("badReturn", {}))
             /\ UNCHANGED connectionState
          \/ UNCHANGED <<slots, runs>> /\ disconnect(stack, slots)
      BY <2>4 DEF gotMessage
    <3> QED
      BY <3>1, <3>2, <3>3, <3>4, Zenon
  <2>5. \/ UNCHANGED <<connectionState, slots, runs, stack>>
        \/ UNCHANGED <<slots, runs>> /\ disconnect(stack, slots)
        \/ \E m : gotMessage(m)
    BY <1>13 DEF HasBytesAvailable, readingPreamble, readingHeader, readingBody
  <2> QED
    BY <2>2, <2>3, <2>4, <2>5
<1> QED
  BY <1>1, <1>2, <1>3, <1>4, <1>5, <1>6, <1>7, <1>8, <1>9, <1>10, <1>11, <1>12, <1>13 DEF Next

-----------------------------------------------------------------------------
(* What each kind of step does to the number of loops that will call c.    *)

Loop(c) == Cardinality(In(c, stack))

LEMMA LoopType ==
  ASSUME TypeOK, NEW c
  PROVE  Loop(c) \in Nat /\ (In(c, stack) = {} <=> Loop(c) = 0)
<1>1. stack \in Seq(Frames)
  BY DEF TypeOK
<1>2. IsFiniteSet(In(c, stack)) /\ Loop(c) \in Nat
  BY <1>1, Counts DEF Loop
<1>3. In(c, stack) = {} <=> Loop(c) = 0
  BY <1>2, FS_EmptySet DEF Loop
<1> QED
  BY <1>2, <1>3

LEMMA CalmStep ==
  ASSUME Calm(stack')
  PROVE  (Disconnecting' <=> Disconnecting) /\ \A c : Loop(c)' = Loop(c) /\ In(c, stack') = In(c, stack)
  BY DEF Calm, Disconnecting, Loops, Loop

LEMMA PushStep ==
  ASSUME TypeOK, NEW pending \in SUBSET Calls, Pushes(pending)
  PROVE  /\ Disconnecting'
         /\ \A c : c \notin pending => In(c, stack') = In(c, stack) /\ Loop(c)' = Loop(c)
         /\ \A c \in pending : In(c, stack') # {} /\ Loop(c)' = Loop(c) + 1
<1>1. PICK st : Calm(st) /\ stack' = Append(st, Frame("disconnect", pending))
  BY DEF Pushes
<1> DEFINE f == Frame("disconnect", pending)
<1>2. f \in Frames /\ f.is = "disconnect" /\ f.left = pending /\ st \in Seq(Frames)
  BY <1>1, FrameFacts DEF Frame, Calm
<1> HIDE DEF f
<1>3. /\ \A c : In(c, stack') = IF c \in pending THEN In(c, st) \cup {Len(st) + 1} ELSE In(c, st)
      /\ \A c : Len(st) + 1 \notin In(c, st)
      /\ Loops(stack') # {}
  BY <1>1, <1>2, OnTop DEF f
<1>4. \A c : In(c, st) = In(c, stack)
  BY <1>1 DEF Calm
<1>5. Disconnecting'
  BY <1>3 DEF Loops, Disconnecting
<1>6. ASSUME NEW c, c \notin pending PROVE In(c, stack') = In(c, stack) /\ Loop(c)' = Loop(c)
  BY <1>3, <1>4, <1>6 DEF Loop
<1>7. ASSUME NEW c \in pending PROVE In(c, stack') # {} /\ Loop(c)' = Loop(c) + 1
  <2>1. In(c, stack') = In(c, st) \cup {Len(st) + 1} /\ Len(st) + 1 \notin In(c, st)
    BY <1>3, <1>7
  <2>2. Cardinality(In(c, st) \cup {Len(st) + 1}) = Cardinality(In(c, st)) + 1
    BY <1>2, <2>1, Counts
  <2> QED
    BY <1>4, <2>1, <2>2 DEF Loop
<1> QED
  BY <1>5, <1>6, <1>7

LEMMA CallBackStep ==
  ASSUME TypeOK, NEW c \in Calls, CallsBack(c)
  PROVE  /\ Disconnecting /\ Disconnecting'
         /\ \A d : d # c => In(d, stack') = In(d, stack) /\ Loop(d)' = Loop(d)
         /\ In(c, stack) # {} /\ In(c, stack') \subseteq In(c, stack)
         /\ Loop(c)' + 1 = Loop(c)
<1>1. stack \in Seq(Frames) /\ stack # <<>> /\ Top.is = "disconnect" /\ c \in Top.left
  BY DEF TypeOK, CallsBack
<1> DEFINE rest == Top.left \ {c}
           f == Frame("disconnect", rest)
           L == Len(stack)
<1>2. f \in Frames /\ f.is = "disconnect" /\ f.left = rest
  BY <1>1, Below, FrameFacts DEF Frame
<1>3. /\ Under \in Seq(Frames) /\ Len(Under) + 1 = L
      /\ \A d : In(d, Under) = In(d, stack) \ {L}
      /\ \A d : L \in In(d, stack) <=> d \in Top.left
      /\ L \in Loops(stack)
  BY <1>1, Below
<1>4. stack' = Append(Under, f)
  BY DEF CallsBack
<1> HIDE DEF f, L
<1>5. /\ \A d : In(d, stack') = IF d \in rest THEN In(d, Under) \cup {L} ELSE In(d, Under)
      /\ Loops(stack') # {}
  <2>1. /\ \A d : In(d, Append(Under, f)) =
                     IF d \in f.left THEN In(d, Under) \cup {Len(Under) + 1} ELSE In(d, Under)
        /\ Loops(Append(Under, f)) =
              IF f.is = "disconnect" THEN Loops(Under) \cup {Len(Under) + 1} ELSE Loops(Under)
    BY <1>2, <1>3, OnTop
  <2>2. \A d : In(d, stack') = IF d \in rest THEN In(d, Under) \cup {L} ELSE In(d, Under)
    BY <1>2, <1>3, <1>4, <2>1
  <2>3. Loops(stack') # {}
    BY <1>2, <1>4, <2>1
  <2> QED
    BY <2>2, <2>3
<1>6. ASSUME NEW d, d # c PROVE In(d, stack') = In(d, stack)
  <2>1. In(d, stack') = IF d \in Top.left THEN In(d, Under) \cup {L} ELSE In(d, Under)
    BY <1>5, <1>6
  <2>2. In(d, Under) = In(d, stack) \ {L} /\ (L \in In(d, stack) <=> d \in Top.left)
    BY <1>3
  <2> QED
    BY <2>1, <2>2
<1>7. In(c, stack') = In(c, stack) \ {L} /\ L \in In(c, stack)
  BY <1>1, <1>3, <1>5
<1>8. Loop(c)' + 1 = Loop(c)
  BY <1>1, <1>7, Counts DEF Loop
<1>9. Disconnecting /\ Disconnecting'
  BY <1>3, <1>5 DEF Disconnecting, Loops
<1> QED
  BY <1>6, <1>7, <1>8, <1>9 DEF Loop

LEMMA DropStep ==
  ASSUME TypeOK, Drops
  PROVE  Disconnecting /\ \A c : In(c, stack') = In(c, stack) /\ Loop(c)' = Loop(c)
<1>1. stack \in Seq(Frames) /\ stack # <<>> /\ Top.left = {} /\ Top.is = "disconnect" /\ stack' = Under
  BY DEF TypeOK, Drops, Frame
<1>2. Len(stack) \in Loops(stack)
  BY <1>1, Below
<1>3. \A c : In(c, stack') = In(c, stack)
  BY <1>1, Below
<1> QED
  BY <1>2, <1>3 DEF Disconnecting, Loops, Loop

-----------------------------------------------------------------------------
(* The parts of the invariant that are about calls are inductive.          *)

LEMMA SlotsStep ==
  ASSUME SwiftInv, [Next]_vars
  PROVE  SlotsOK'
<1>0. TypeOK /\ SlotsOK /\ slots \in SUBSET Calls
  BY DEF SwiftInv, TypeOK
<1>1. CASE Moves
  BY <1>0, <1>1, CalmStep DEF Moves, SlotsOK, Up
<1>2. CASE Ends
  <2>1. /\ Disconnecting'
        /\ \A c : c \notin slots => In(c, stack') = In(c, stack)
    BY <1>0, <1>2, PushStep DEF Ends
  <2> QED
    BY <1>0, <1>2, <2>1 DEF Ends, SlotsOK
<1>3. CASE Begins
  BY <1>0, <1>3 DEF Begins, SlotsOK, Up
<1>4. CASE Drops
  BY <1>0, <1>4, DropStep DEF Drops, SlotsOK
<1>5. ASSUME NEW c \in Calls, CallsBack(c) PROVE SlotsOK'
  BY <1>0, <1>5, CallBackStep DEF CallsBack, SlotsOK
<1>6. ASSUME NEW c \in Calls, Refuses(c) PROVE SlotsOK'
  BY <1>0, <1>6 DEF Refuses, SlotsOK, Disconnecting
<1>7. ASSUME NEW c \in Calls, Places(c) PROVE SlotsOK'
  <2>1. slots' \in SUBSET Calls /\ slots' \subseteq placed' /\ late' \subseteq placed'
    BY <1>0, <1>7 DEF Places, SlotsOK
  <2>2. CASE stack' = stack /\ Up'
    BY <1>0, <1>7, <2>1, <2>2 DEF Places, SlotsOK, Up
  <2>3. CASE Pushes(slots')
    <3>1. /\ Disconnecting'
          /\ \A d : d \notin slots' => In(d, stack') = In(d, stack)
      BY <1>0, <2>1, <2>3, PushStep
    <3> QED
      BY <1>0, <1>7, <2>1, <3>1 DEF Places, SlotsOK
  <2> QED
    BY <1>7, <2>2, <2>3 DEF Places
<1>8. ASSUME NEW c \in Calls, Answers(c) PROVE SlotsOK'
  BY <1>0, <1>8, CalmStep DEF Answers, SlotsOK, Up
<1> QED
  BY <1>1, <1>2, <1>3, <1>4, <1>5, <1>6, <1>7, <1>8, Kinds

LEMMA HeldFacts ==
  ASSUME NEW c
  PROVE  /\ Held(c) \in {0, 1} /\ (Held(c) = 1 <=> c \in slots /\ Up)
         /\ Held(c)' \in {0, 1} /\ (Held(c)' = 1 <=> c \in slots' /\ Up')
  BY DEF Held, Up

LEMMA TypeFacts ==
  ASSUME TypeOK
  PROVE  /\ runs \in [Calls -> Nat] /\ connects \in Nat
         /\ placed \subseteq Calls /\ slots \in SUBSET Calls
<1>1. runs \in [Calls -> 0 .. MaxConnects] /\ connects \in 0 .. MaxConnects
  BY DEF TypeOK
<1>2. runs \in [Calls -> Nat] /\ connects \in Nat
  BY <1>1, SwiftAssumption
<1> QED
  BY <1>2 DEF TypeOK

LEMMA DebtStep ==
  ASSUME SwiftInv, [Next]_vars
  PROVE  DebtOK'
<1>0. /\ TypeOK /\ SlotsOK /\ DebtOK
      /\ connects \in Nat /\ runs \in [Calls -> Nat] /\ placed \subseteq Calls /\ slots \in SUBSET Calls
      /\ slots \subseteq placed
  BY TypeFacts DEF SwiftInv, SlotsOK
<1>n. \A c \in Calls : runs[c] \in Nat /\ Loop(c) \in Nat
  BY <1>0, LoopType
<1> DEFINE Fine(c) == Debt(c) <= connects /\ (~reconnected => Debt(c) <= 1)
<1>d. \A c : Debt(c) = runs[c] + Loop(c) + Held(c) /\ Debt(c)' = runs'[c] + Loop(c)' + Held(c)'
  BY DEF Debt, Loop
<1>f. \A c \in placed : Fine(c)
  BY <1>0 DEF DebtOK
<1>1. CASE Moves
  <2>1. \A c : Debt(c)' = Debt(c)
    BY <1>1, <1>d, CalmStep, HeldFacts DEF Moves
  <2> QED
    BY <1>0, <1>1, <2>1 DEF Moves, DebtOK, Up
<1>2. CASE Ends
  <2>1. ASSUME NEW c \in placed PROVE Debt(c)' = Debt(c)
    <3>1. Up /\ ~Up' /\ UNCHANGED <<slots, runs>> /\ Pushes(slots)
      BY <1>2 DEF Ends, Pushes
    <3>2. CASE c \in slots
      <4>1. Loop(c)' = Loop(c) + 1 /\ Held(c) = 1 /\ Held(c)' = 0
        BY <1>0, <3>1, <3>2, PushStep, HeldFacts
      <4> QED
        BY <1>0, <1>n, <1>d, <3>1, <4>1
    <3>3. CASE c \notin slots
      <4>1. Loop(c)' = Loop(c) /\ Held(c) = 0 /\ Held(c)' = 0
        BY <1>0, <3>1, <3>3, PushStep, HeldFacts
      <4> QED
        BY <1>d, <3>1, <4>1
    <3> QED
      BY <3>2, <3>3
  <2> QED
    BY <1>0, <1>2, <2>1 DEF Ends, Pushes, DebtOK, Up
<1>3. CASE Begins
  <2>1. ASSUME NEW c \in placed PROVE Fine(c)'
    <3>1. Loop(c)' = Loop(c) /\ runs' = runs /\ Held(c) = 0 /\ Held(c)' \in {0, 1}
      BY <1>3, HeldFacts DEF Begins, Loop
    <3>2. Fine(c) /\ runs[c] \in Nat /\ Loop(c) \in Nat
      BY <1>0, <1>n, <1>f
    <3>3. Debt(c)' <= connects'
      BY <1>0, <1>3, <1>d, <3>1, <3>2 DEF Begins
    <3>4. ASSUME ~reconnected' PROVE Debt(c)' <= 1
      <4>1. ~reconnected /\ slots' = {}
        BY <1>0, <1>3, <3>4 DEF Begins, SlotsOK, Up
      <4>2. Held(c)' = 0
        BY <4>1, HeldFacts
      <4> QED
        BY <1>d, <3>1, <3>2, <4>1, <4>2
    <3> QED
      BY <3>3, <3>4
  <2>2. connects' >= 1
    BY <1>0, <1>3 DEF Begins
  <2> QED
    BY <1>0, <1>3, <2>1, <2>2 DEF Begins, DebtOK
<1>4. CASE Drops
  <2>1. ASSUME NEW c \in placed PROVE Debt(c)' <= Debt(c) /\ Debt(c)' \in Nat /\ Debt(c) \in Nat
    <3>1. Loop(c)' = Loop(c) /\ runs' = runs /\ Held(c)' = 0 /\ Held(c) \in {0, 1}
      BY <1>0, <1>4, DropStep, HeldFacts DEF Drops
    <3> QED
      BY <1>0, <1>n, <1>d, <3>1
  <2>2. \A c \in placed : Fine(c)'
    BY <1>0, <1>4, <1>f, <2>1 DEF Drops
  <2> QED
    BY <1>0, <1>4, <2>2 DEF Drops, DebtOK
<1>5. ASSUME NEW c \in Calls, CallsBack(c) PROVE DebtOK'
  <2>1. /\ Loop(c)' + 1 = Loop(c) /\ runs'[c] = runs[c] + 1 /\ c \in placed
        /\ \A d \in Calls : d # c => Loop(d)' = Loop(d) /\ runs'[d] = runs[d]
        /\ UNCHANGED <<connects, placed, reconnected, connectionState>>
        /\ \A d : Held(d)' = Held(d)
    BY <1>0, <1>5, CallBackStep DEF CallsBack, SlotsOK, Held
  <2>2. c \in placed /\ Debt(c)' = Debt(c)
    <3>1. Loop(c)' \in Nat
      <4>1. stack' \in Seq(Frames)
        <5>1. Under \in Seq(Frames) /\ Frame("disconnect", Top.left \ {c}) \in Frames
          <6>1. Top \in Frames /\ Under \in Seq(Frames)
            BY <1>0, <1>5, Below DEF CallsBack, TypeOK
          <6> QED
            BY <6>1, FrameFacts
        <5> QED
          BY <1>5, <5>1, AppendProperties DEF CallsBack
      <4> QED
        BY <4>1, Counts DEF Loop
    <3>2. runs[c] + Loop(c) + Held(c) = runs'[c] + Loop(c)' + Held(c)'
      BY <1>n, <2>1, <3>1, HeldFacts
    <3> QED
      BY <1>d, <2>1, <3>2
  <2>3. \A d \in placed : Debt(d)' = Debt(d)
    BY <1>0, <1>d, <2>1, <2>2
  <2>4. \A d \in Calls \ placed : runs'[d] = runs[d]
    BY <2>1, <2>2
  <2> QED
    BY <1>0, <2>1, <2>3, <2>4 DEF DebtOK
<1>6. ASSUME NEW c \in Calls, Refuses(c) PROVE DebtOK'
  <2>1. c \notin placed /\ runs'[c] = 1 /\ \A d \in Calls : d # c => runs'[d] = runs[d]
    BY <1>0, <1>6 DEF Refuses
  <2>2. \A d \in placed : Debt(d)' = Debt(d)
    BY <1>0, <1>6, <1>d, <2>1 DEF Refuses, Held, Loop
  <2> QED
    BY <1>0, <1>6, <2>1, <2>2 DEF Refuses, DebtOK
<1>7. ASSUME NEW c \in Calls, Places(c) PROVE DebtOK'
  <2>1. /\ c \notin placed /\ runs[c] = 0 /\ Up /\ connects >= 1
        /\ slots' = slots \cup {c} /\ placed' = placed \cup {c} /\ slots' \in SUBSET Calls
        /\ UNCHANGED <<connects, runs, reconnected>>
    BY <1>0, <1>7 DEF Places, DebtOK, Up
  <2>2. Loop(c) = 0 /\ c \notin slots
    BY <1>0, <2>1, LoopType DEF SlotsOK
  <2>3. CASE stack' = stack /\ Up'
    <3>1. Debt(c)' = 1
      <4>1. Loop(c)' = 0 /\ Held(c)' = 1 /\ runs'[c] = 0
        BY <2>1, <2>2, <2>3, HeldFacts DEF Loop
      <4> QED
        BY <1>d, <4>1
    <3>2. \A d \in placed : Debt(d)' = Debt(d)
      <4>1. \A d \in placed : Held(d)' = Held(d) /\ Loop(d)' = Loop(d)
        BY <2>1, <2>3 DEF Held, Loop, Up
      <4> QED
        BY <1>d, <2>1, <4>1
    <3> QED
      BY <1>0, <2>1, <3>1, <3>2 DEF DebtOK
  <2>4. CASE Pushes(slots')
    <3>p. /\ \A d : d \notin slots' => Loop(d)' = Loop(d)
          /\ \A d \in slots' : Loop(d)' = Loop(d) + 1
      BY <1>0, <2>1, <2>4, PushStep
    <3>u. ~Up'
      BY <2>4 DEF Pushes
    <3>1. Debt(c)' = 1
      <4>1. Loop(c)' = 1 /\ Held(c)' = 0 /\ runs'[c] = 0
        BY <2>1, <2>2, <3>p, <3>u, HeldFacts
      <4> QED
        BY <1>d, <4>1
    <3>2. ASSUME NEW d \in placed PROVE Debt(d)' = Debt(d)
      <4>1. CASE d \in slots
        <5>1. Loop(d)' = Loop(d) + 1 /\ Held(d) = 1 /\ Held(d)' = 0
          BY <2>1, <3>p, <3>u, <4>1, HeldFacts
        <5> QED
          BY <1>0, <1>n, <1>d, <2>1, <5>1
      <4>2. CASE d \notin slots
        <5>1. Loop(d)' = Loop(d) /\ Held(d) = 0 /\ Held(d)' = 0
          BY <2>1, <3>p, <3>u, <4>2, HeldFacts
        <5> QED
          BY <1>d, <2>1, <5>1
      <4> QED
        BY <4>1, <4>2
    <3> QED
      BY <1>0, <2>1, <3>1, <3>2 DEF DebtOK
  <2> QED
    BY <1>7, <2>3, <2>4 DEF Places
<1>8. ASSUME NEW c \in Calls, Answers(c) PROVE DebtOK'
  <2>1. /\ c \in placed /\ c \in slots /\ Up
        /\ slots' = slots \ {c} /\ UNCHANGED <<connects, placed, reconnected, connectionState>>
        /\ runs'[c] = runs[c] + 1 /\ \A d \in Calls : d # c => runs'[d] = runs[d]
        /\ \A d : Loop(d)' = Loop(d)
    BY <1>0, <1>8, CalmStep DEF Answers, SlotsOK
  <2>2. Debt(c)' = Debt(c)
    <3>1. Held(c) = 1 /\ Held(c)' = 0
      BY <2>1, HeldFacts
    <3> QED
      BY <1>n, <1>d, <2>1, <3>1
  <2>3. \A d \in placed : Debt(d)' = Debt(d)
    <3>1. \A d : d # c => Held(d)' = Held(d)
      BY <2>1 DEF Held
    <3> QED
      BY <1>0, <1>d, <2>1, <2>2, <3>1
  <2> QED
    BY <1>0, <2>1, <2>3 DEF DebtOK
<1> QED
  BY <1>1, <1>2, <1>3, <1>4, <1>5, <1>6, <1>7, <1>8, Kinds

LEMMA PendingStep ==
  ASSUME SwiftInv, [Next]_vars
  PROVE  PendingOK'
<1>0. /\ TypeOK /\ SlotsOK /\ PendingOK
      /\ runs \in [Calls -> Nat] /\ placed \subseteq Calls /\ slots \in SUBSET Calls
  BY TypeFacts DEF SwiftInv
<1>1. CASE Moves
  BY <1>0, <1>1, CalmStep DEF Moves, PendingOK, Up
<1>2. CASE Ends
  <2>1. \A c : In(c, stack') = {} => In(c, stack) = {} /\ c \notin slots
    BY <1>0, <1>2, PushStep DEF Ends
  <2> QED
    BY <1>0, <1>2, <2>1 DEF Ends, PendingOK
<1>3. CASE Begins
  BY <1>0, <1>3 DEF Begins, PendingOK, Disconnecting, Up
<1>4. CASE Drops
  BY <1>0, <1>4, DropStep DEF Drops, PendingOK
<1>5. ASSUME NEW c \in Calls, CallsBack(c) PROVE PendingOK'
  <2>1. /\ runs'[c] > 0 /\ Disconnecting
        /\ \A d \in Calls : d # c => In(d, stack') = In(d, stack) /\ runs'[d] = runs[d]
        /\ UNCHANGED <<placed, late>>
    <3>1. runs' = [runs EXCEPT ![c] = @ + 1] /\ runs[c] \in Nat
      BY <1>0, <1>5 DEF CallsBack
    <3>2. runs'[c] > 0 /\ \A d \in Calls : d # c => runs'[d] = runs[d]
      BY <1>0, <3>1
    <3> QED
      BY <1>0, <1>5, <3>2, CallBackStep DEF CallsBack
  <2> QED
    BY <1>0, <2>1 DEF PendingOK
<1>6. ASSUME NEW c \in Calls, Refuses(c) PROVE PendingOK'
  <2>1. /\ runs'[c] > 0
        /\ \A d \in Calls : d # c => runs'[d] = runs[d]
    BY <1>0, <1>6 DEF Refuses
  <2> QED
    BY <1>0, <1>6, <2>1 DEF Refuses, PendingOK, Disconnecting
<1>7. ASSUME NEW c \in Calls, Places(c) PROVE PendingOK'
  <2>1. /\ slots' = slots \cup {c} /\ placed' = placed \cup {c} /\ slots' \in SUBSET Calls
        /\ late' = (IF Disconnecting THEN late \cup {c} ELSE late)
        /\ runs' = runs /\ Up
    BY <1>0, <1>7 DEF Places
  <2>2. CASE stack' = stack /\ Up'
    BY <1>0, <2>1, <2>2 DEF PendingOK, Disconnecting, Up
  <2>3. CASE Pushes(slots')
    <3>1. \A d : In(d, stack') = {} => In(d, stack) = {} /\ d \notin slots'
      BY <1>0, <2>1, <2>3, PushStep
    <3> QED
      BY <1>0, <2>1, <3>1 DEF PendingOK
  <2> QED
    BY <1>7, <2>2, <2>3 DEF Places
<1>8. ASSUME NEW c \in Calls, Answers(c) PROVE PendingOK'
  <2>1. /\ runs'[c] > 0 /\ slots' = slots \ {c}
        /\ \A d \in Calls : d # c => runs'[d] = runs[d]
        /\ \A d : In(d, stack') = In(d, stack)
        /\ Disconnecting' <=> Disconnecting
        /\ UNCHANGED <<placed, late, connectionState>>
    BY <1>0, <1>8, CalmStep DEF Answers
  <2> QED
    BY <1>0, <2>1 DEF PendingOK
<1> QED
  BY <1>1, <1>2, <1>3, <1>4, <1>5, <1>6, <1>7, <1>8, Kinds

-----------------------------------------------------------------------------
(* What is read.                                                           *)

\* A step that reads nothing and begins no connection.
Unread ==
    /\ UNCHANGED <<inbound, heard, reading, startPos>>
    /\ Up' => Up
    /\ fault' \in {fault, "nil stream"}

LEMMA UnreadStep ==
  ASSUME StreamOK, Unread
  PROVE  StreamOK'
BY DEF StreamOK, Unread, Up, Arrived, reading

\* As long as the preamble is awaited, what a read puts into the buffer is the part of
\* the preamble that comes next, and what it leaves is the rest of it.
LEMMA PreambleReads ==
  ASSUME TypeOK, StreamOK, Up, startPos = 0, readState = "preamble", inbound # <<>>,
         NEW n \in 0 .. readNeeds - readPos, n <= Len(inbound)
  PROVE  /\ PreambleMsg \in heard /\ readPos + Len(inbound) >= Preamble
         /\ readPos \in 0 .. Preamble /\ readNeeds = Preamble
         /\ \A k \in 1 .. Preamble :
              IF k <= readPos + n THEN Stored(n)[k - 1] = Unit(PreambleMsg, k)
              ELSE inbound[k - readPos] = Unit(PreambleMsg, k)
<1>1. /\ readPos \in 0 .. readNeeds /\ readNeeds = Preamble /\ PreambleMsg \in heard
      /\ readPos + Len(inbound) >= Preamble
      /\ \A k \in 1 .. Preamble : Arrived(k) = Unit(PreambleMsg, k)
  BY DEF StreamOK, Up
<1>2. ASSUME NEW k \in 1 .. Preamble, k <= readPos + n
      PROVE  Stored(n)[k - 1] = Unit(PreambleMsg, k)
  <2>1. k - 1 \in 0 .. Size - 1 /\ readPos \in 0 .. 2 /\ n \in 0 .. 2
    BY <1>1 DEF Preamble, Size
  <2>2. Stored(n)[k - 1] = IF k - 1 \in readPos .. readPos + n - 1 THEN inbound[k - 1 - readPos + 1]
                           ELSE readBuffer[k - 1]
    BY <2>1 DEF Stored
  <2>3. CASE k <= readPos
    <3>1. k - 1 \notin readPos .. readPos + n - 1
      BY <2>1, <2>3
    <3> QED
      BY <1>1, <2>2, <2>3, <3>1 DEF Arrived
  <2>4. CASE k > readPos
    <3>1. k - 1 \in readPos .. readPos + n - 1 /\ k - 1 - readPos + 1 = k - readPos /\ ~(k <= readPos)
      BY <1>2, <2>1, <2>4
    <3> QED
      BY <1>1, <2>2, <3>1 DEF Arrived
  <2> QED
    BY <2>1, <2>3, <2>4
<1>3. ASSUME NEW k \in 1 .. Preamble, ~(k <= readPos + n)
      PROVE  inbound[k - readPos] = Unit(PreambleMsg, k)
  <2>1. ~(k <= readPos)
    BY <1>1, <1>3 DEF Preamble
  <2> QED
    BY <1>1, <2>1 DEF Arrived
<1> QED
  BY <1>1, <1>2, <1>3

\* What is left of a sequence when its first n elements have been taken.
LEMMA RestOf ==
  ASSUME NEW S, NEW s \in Seq(S), NEW n \in Nat, n <= Len(s)
  PROVE  LET rest == SubSeq(s, n + 1, Len(s)) IN
         /\ rest \in Seq(S) /\ Len(rest) = Len(s) - n
         /\ \A i \in 1 .. Len(s) - n : rest[i] = s[n + i]
<1> DEFINE rest == SubSeq(s, n + 1, Len(s))
<1>1. Len(s) \in Nat /\ \A i \in n + 1 .. Len(s) : s[i] \in S
  BY LenProperties, ElementOfSeq
<1>2. n + 1 \in Int /\ Len(s) \in Int
  BY <1>1
<1>3. /\ rest \in Seq(S)
      /\ Len(rest) = IF n + 1 <= Len(s) THEN Len(s) - (n + 1) + 1 ELSE 0
      /\ \A i \in 1 .. Len(s) - (n + 1) + 1 : rest[i] = s[n + 1 + i - 1]
  BY <1>1, <1>2, SubSeqProperties
<1> HIDE DEF rest
<1>4. Len(rest) = Len(s) - n
  BY <1>1, <1>3
<1>5. ASSUME NEW i \in 1 .. Len(s) - n PROVE rest[i] = s[n + i]
  <2>1. n + 1 + i - 1 = n + i /\ i \in 1 .. Len(s) - (n + 1) + 1
    BY <1>1
  <2> QED
    BY <1>3, <2>1
<1> QED
  BY <1>3, <1>4, <1>5 DEF rest

LEMMA UnitsType ==
  ASSUME NEW m \in {PreambleMsg} \cup Incoming
  PROVE  Units(m) \in Seq(InUnits)
<1> DEFINE k == IF m = PreambleMsg THEN Preamble ELSE Size
<1>1. k \in Nat /\ k <= Size
  BY DEF Preamble, Size
<1>2. Units(m) = [n \in 1 .. k |-> Unit(m, n)]
  BY DEF Units
<1> HIDE DEF k
<1>3. ASSUME NEW n \in 1 .. k PROVE Unit(m, n) \in InUnits
  <2>1. n \in 1 .. Size
    BY <1>1 DEF Size
  <2> QED
    BY <2>1 DEF Unit, InUnits
<1> QED
  BY <1>1, <1>2, <1>3

LEMMA StreamStep ==
  ASSUME SwiftInv, [Next]_vars
  PROVE  StreamOK'
<1>0. TypeOK /\ StreamOK /\ inbound \in Seq(InUnits) /\ Len(inbound) \in Nat
  BY LenProperties DEF SwiftInv, TypeOK
<1>1. CASE UNCHANGED vars
  BY <1>0, <1>1, UnreadStep DEF vars, reading, Unread, Up
<1>2. CASE connect
  <2>1. /\ startPos' = readPos /\ readPos' = readPos /\ fault' = "none"
        /\ readState' = "preamble" /\ readNeeds' = Preamble /\ heard' = {} /\ inbound' = <<>>
    BY <1>2 DEF connect
  <2> QED
    BY <2>1 DEF StreamOK, Preamble
<1>3. CASE Disconnect \/ BadReturnEnds
  BY <1>0, <1>3, UnreadStep DEF Disconnect, BadReturnEnds, disconnect, notes, Unread, Up
<1>4. ASSUME NEW c \in Calls, Call(c) PROVE StreamOK'
  BY <1>0, <1>4, UnreadStep DEF Call, send, disconnect, Unread, Up
<1>5. ASSUME NEW c \in Calls, CallBack(c) PROVE StreamOK'
  BY <1>0, <1>5, UnreadStep DEF CallBack, notes, Unread, Up
<1>6. CASE DisconnectReturns
  BY <1>0, <1>6, UnreadStep DEF DisconnectReturns, notes, Unread, Up
<1>7. CASE MethodReturns
  BY <1>0, <1>7, UnreadStep DEF MethodReturns, send, disconnect, notes, Unread, Up
<1>8. CASE OpenCompleted
  BY <1>0, <1>8, UnreadStep DEF OpenCompleted, notes, Unread, Up
<1>9. CASE HasSpaceAvailable
  BY <1>0, <1>9, UnreadStep DEF HasSpaceAvailable, send, disconnect, notes, Unread, Up
<1>10. CASE StreamEnds
  <2>1. connectionState' = "disconnected" /\ UNCHANGED <<fault, startPos>>
    BY <1>10 DEF StreamEnds, disconnect, notes
  <2> QED
    BY <1>0, <2>1 DEF StreamOK
<1>11. ASSUME NEW m \in {PreambleMsg} \cup Incoming, PeerSends(m) PROVE StreamOK'
  <2>1. /\ m \notin heard /\ (m # PreambleMsg => PreambleMsg \in heard) /\ heard' = heard \cup {m}
        /\ inbound' = inbound \o Units(m) /\ Up
        /\ UNCHANGED <<reading, startPos, fault, connectionState>>
    BY <1>11 DEF PeerSends, notes, Up
  <2>2. SUFFICES ASSUME startPos = 0, readState = "preamble"
                 PROVE  /\ PreambleMsg \in heard' /\ readNeeds = Preamble
                        /\ readPos \in 0 .. Preamble
                        /\ readPos + Len(inbound') >= Preamble
                        /\ \A n \in 1 .. Preamble : Arrived(n)' = Unit(PreambleMsg, n)
    BY <1>0, <2>1 DEF StreamOK, reading, Up
  <2>3. /\ readPos \in 0 .. readNeeds /\ readNeeds = Preamble
        /\ PreambleMsg \notin heard => readPos = 0 /\ inbound = <<>>
        /\ PreambleMsg \in heard =>
              /\ readPos + Len(inbound) >= Preamble
              /\ \A n \in 1 .. Preamble : Arrived(n) = Unit(PreambleMsg, n)
    BY <1>0, <2>1, <2>2 DEF StreamOK, Up
  <2>u. Units(m) \in Seq(InUnits)
    BY UnitsType
  <2>4. /\ Len(inbound') = Len(inbound) + Len(Units(m)) /\ Len(Units(m)) \in Nat
        /\ \A i \in 1 .. Len(inbound') : inbound'[i] =
              IF i <= Len(inbound) THEN inbound[i] ELSE Units(m)[i - Len(inbound)]
    BY <1>0, <2>1, <2>u, ConcatProperties, LenProperties
  <2>5. CASE PreambleMsg \notin heard
    <3>1. m = PreambleMsg /\ readPos = 0 /\ Len(inbound) = 0
      BY <2>1, <2>3, <2>5, EmptySeq
    <3>2. Len(Units(m)) = Preamble /\ \A n \in 1 .. Preamble : Units(m)[n] = Unit(PreambleMsg, n)
      BY <3>1 DEF Units, Preamble
    <3>3. \A n \in 1 .. Preamble : Arrived(n)' = Unit(PreambleMsg, n)
      BY <2>1, <2>4, <3>1, <3>2 DEF Arrived, Preamble, reading
    <3> QED
      BY <2>1, <2>3, <2>4, <3>1, <3>2, <3>3 DEF Preamble
  <2>6. CASE PreambleMsg \in heard
    <3>1. ASSUME NEW n \in 1 .. Preamble PROVE Arrived(n)' = Arrived(n)
      BY <1>0, <2>1, <2>3, <2>4, <2>6, <3>1 DEF Arrived, Preamble, reading
    <3> QED
      BY <1>0, <2>1, <2>3, <2>4, <2>6, <3>1 DEF Preamble
  <2> QED
    BY <2>5, <2>6
<1>12. CASE HasBytesAvailable
  <2>0. Up /\ inbound # <<>> /\ startPos' = startPos /\ heard' = heard
    BY <1>12 DEF HasBytesAvailable, notes, Up
  <2>1. SUFFICES ASSUME startPos = 0
                 PROVE  /\ fault' \notin {"preamble", "bounds"}
                        /\ Up' => /\ readPos' \in 0 .. readNeeds'
                                  /\ readState' = "preamble" =>
                                       /\ readNeeds' = Preamble
                                       /\ PreambleMsg \in heard
                                       /\ readPos' + Len(inbound') >= Preamble
                                       /\ \A k \in 1 .. Preamble : Arrived(k)' = Unit(PreambleMsg, k)
    BY <2>0 DEF StreamOK, Up
  <2>2. /\ readPos \in 0 .. readNeeds /\ readNeeds \in {1, 2, 4}
        /\ fault \notin {"preamble", "bounds"}
    BY <1>0, <2>0, <2>1 DEF StreamOK, TypeOK, Preamble, Header, Size, Up
  <2>3. PICK n \in 0 .. readNeeds - readPos :
             /\ n <= Len(inbound)
             /\ inbound' = SubSeq(inbound, n + 1, Len(inbound))
             /\ readBuffer' = Stored(n)
             /\ \/ /\ readPos + n < readNeeds
                   /\ readPos' = readPos + n
                   /\ UNCHANGED <<readState, readNeeds, fault>>
                \/ /\ readPos + n = readNeeds
                   /\ readingPreamble(n) \/ readingHeader(n) \/ readingBody(n)
    BY <1>12, <2>2 DEF HasBytesAvailable
  <2>4. /\ Len(inbound') = Len(inbound) - n
        /\ \A i \in 1 .. Len(inbound) - n : inbound'[i] = inbound[n + i]
    <3>1. n \in Nat /\ n <= Len(inbound)
      BY <1>0, <2>2, <2>3
    <3> QED
      BY <1>0, <2>3, <3>1, RestOf
  <2>5. CASE readPos + n < readNeeds /\ readPos' = readPos + n /\ UNCHANGED <<readState, readNeeds, fault>>
    <3>1. readPos' \in 0 .. readNeeds' /\ fault' \notin {"preamble", "bounds"}
      BY <2>2, <2>5
    <3>2. ASSUME readState' = "preamble"
          PROVE  /\ readNeeds' = Preamble /\ PreambleMsg \in heard
                 /\ readPos' + Len(inbound') >= Preamble
                 /\ \A k \in 1 .. Preamble : Arrived(k)' = Unit(PreambleMsg, k)
      <4>1. /\ PreambleMsg \in heard /\ readPos + Len(inbound) >= Preamble
            /\ readPos \in 0 .. Preamble /\ readNeeds = Preamble
            /\ \A k \in 1 .. Preamble :
                 IF k <= readPos + n THEN Stored(n)[k - 1] = Unit(PreambleMsg, k)
                 ELSE inbound[k - readPos] = Unit(PreambleMsg, k)
        BY <1>0, <2>0, <2>1, <2>3, <2>5, <3>2, PreambleReads
      <4>2. ASSUME NEW k \in 1 .. Preamble PROVE Arrived(k)' = Unit(PreambleMsg, k)
        <5>1. CASE k <= readPos + n
          BY <2>3, <2>5, <4>1, <4>2, <5>1 DEF Arrived
        <5>2. CASE ~(k <= readPos + n)
          <6>1. k - readPos' \in 1 .. Len(inbound) - n /\ n + (k - readPos') = k - readPos
            BY <1>0, <2>3, <2>5, <4>1, <4>2, <5>2 DEF Preamble
          <6>2. inbound'[k - readPos'] = inbound[k - readPos]
            BY <2>4, <6>1
          <6> QED
            BY <2>5, <4>1, <4>2, <5>2, <6>2 DEF Arrived
        <5> QED
          BY <5>1, <5>2
      <4> QED
        BY <1>0, <2>2, <2>4, <2>5, <4>1, <4>2 DEF Preamble
    <3> QED
      BY <3>1, <3>2
  <2>6. CASE readPos + n = readNeeds /\ readingPreamble(n)
    <3>1. /\ readState = "preamble" /\ readPos' = 0 /\ readNeeds' = Header /\ readState' = "header"
          /\ IF \A i \in 1 .. Preamble : Stored(n)[i - 1] = Unit(PreambleMsg, i)
             THEN UNCHANGED fault ELSE fault' = "preamble"
      BY <2>6 DEF readingPreamble
    <3>2. \A i \in 1 .. Preamble : Stored(n)[i - 1] = Unit(PreambleMsg, i)
      <4>1. /\ readNeeds = Preamble
            /\ \A k \in 1 .. Preamble :
                 IF k <= readPos + n THEN Stored(n)[k - 1] = Unit(PreambleMsg, k)
                 ELSE inbound[k - readPos] = Unit(PreambleMsg, k)
        BY <1>0, <2>0, <2>1, <2>3, <3>1, PreambleReads
      <4> QED
        BY <2>6, <4>1 DEF Preamble
    <3> QED
      BY <2>2, <3>1, <3>2 DEF Header
  <2>7. CASE readPos + n = readNeeds /\ readingHeader(n)
    BY <2>2, <2>7 DEF readingHeader, Size
  <2>8. CASE readPos + n = readNeeds /\ readingBody(n)
    BY <2>2, <2>8 DEF readingBody, Header
  <2> QED
    BY <2>3, <2>5, <2>6, <2>7, <2>8
<1> QED
  BY <1>1, <1>2, <1>3, <1>4, <1>5, <1>6, <1>7, <1>8, <1>9, <1>10, <1>11, <1>12 DEF Next

-----------------------------------------------------------------------------
(* Types.                                                                  *)

OutMsgs == {PreambleMsg} \cup [type : {"call"}, call : Calls]
           \cup [type : {"return"}, call : {"none"}]
States == {"disconnected", "connecting", "connected"}

\* Calls, their callbacks and the stack.
CallTypes ==
    /\ connects \in 0 .. MaxConnects
    /\ slots \subseteq Calls /\ placed \subseteq Calls /\ late \subseteq Calls
    /\ runs \in [Calls -> 0 .. MaxConnects]
    /\ stack \in Seq(Frames)
    /\ reconnected \in BOOLEAN

\* What is written and read.
IOTypes ==
    /\ connectionState \in States
    /\ writeBuffer \in Seq(OutMsgs)
    /\ delivered \subseteq Calls
    /\ inbound \in Seq(InUnits)
    /\ heard \subseteq {PreambleMsg} \cup Incoming
    /\ readState \in {"preamble", "header", "body"}
    /\ readNeeds \in {Preamble, Header, Size}
    /\ readPos \in -1 .. Size
    /\ readBuffer \in [0 .. Size - 1 -> InUnits \cup {NoUnit}]
    /\ startPos \in -1 .. Size
    /\ fault \in {"none", "preamble", "nil stream", "bounds"}

LEMMA TypeParts == TypeOK <=> CallTypes /\ IOTypes
  BY DEF TypeOK, CallTypes, IOTypes, OutMsgs, States

LEMMA OutFacts ==
    /\ PreambleMsg \in OutMsgs /\ Msg("return", "none") \in OutMsgs
    /\ \A c \in Calls : Msg("call", c) \in OutMsgs
  BY DEF OutMsgs, Msg

\* disconnect() and send() of a well-typed buffer.
LEMMA SendTypes ==
  ASSUME IOTypes, NEW b \in Seq(OutMsgs), NEW below, NEW pending, send(b, below, pending)
  PROVE  connectionState' \in States /\ writeBuffer' \in Seq(OutMsgs) /\ delivered' \subseteq Calls
<1>1. CASE UNCHANGED <<connectionState, delivered>> /\ writeBuffer' = b
  BY <1>1 DEF IOTypes
<1>2. ASSUME NEW n \in 1 .. Len(b),
             writeBuffer' = SubSeq(b, n + 1, Len(b)),
             delivered' = delivered \cup {c \in Calls : \E i \in 1 .. n : b[i] = Msg("call", c)},
             UNCHANGED connectionState
      PROVE  connectionState' \in States /\ writeBuffer' \in Seq(OutMsgs) /\ delivered' \subseteq Calls
  <2>1. n \in Nat /\ n <= Len(b)
    BY LenProperties
  <2>2. writeBuffer' \in Seq(OutMsgs)
    BY <1>2, <2>1, RestOf
  <2>3. delivered' \subseteq Calls
    BY <1>2 DEF IOTypes
  <2> QED
    BY <1>2, <2>2, <2>3 DEF IOTypes
<1>3. CASE disconnect(below, pending) /\ UNCHANGED delivered
  BY <1>3, EmptySeq DEF IOTypes, disconnect, States
<1> QED
  BY <1>1, <1>2, <1>3 DEF send

LEMMA DisconnectTypes ==
  ASSUME IOTypes, NEW below, NEW pending, disconnect(below, pending)
  PROVE  connectionState' \in States /\ writeBuffer' \in Seq(OutMsgs)
  BY EmptySeq DEF IOTypes, disconnect, States

\* A step that reads nothing.
LEMMA QuietTypes ==
  ASSUME IOTypes, UNCHANGED <<inbound, heard, reading, startPos>>,
         fault' \in {fault, "nil stream"},
         connectionState' \in States, writeBuffer' \in Seq(OutMsgs), delivered' \subseteq Calls
  PROVE  IOTypes'
  BY DEF IOTypes, reading

LEMMA PositionFacts ==
  ASSUME IOTypes
  PROVE  readPos \in -1 .. 4 /\ readNeeds \in {1, 2, 4}
<1>1. readPos \in -1 .. Size /\ readNeeds \in {Preamble, Header, Size}
  BY DEF IOTypes
<1> QED
  BY <1>1 DEF Preamble, Header, Size

LEMMA StoredType ==
  ASSUME IOTypes, NEW n \in Nat, n <= Len(inbound), readPos \in 0 .. readNeeds,
         readPos + n <= readNeeds
  PROVE  Stored(n) \in [0 .. Size - 1 -> InUnits \cup {NoUnit}]
<1>1. /\ inbound \in Seq(InUnits) /\ Len(inbound) \in Nat
      /\ readNeeds \in Int /\ readPos \in Int
      /\ readBuffer \in [0 .. Size - 1 -> InUnits \cup {NoUnit}]
  <2>1. /\ inbound \in Seq(InUnits)
        /\ readBuffer \in [0 .. Size - 1 -> InUnits \cup {NoUnit}]
    BY DEF IOTypes
  <2>2. readNeeds \in Int /\ readPos \in Int
    BY PositionFacts
  <2> QED
    BY <2>1, <2>2, LenProperties
<1>2. ASSUME NEW i \in 0 .. Size - 1, i \in readPos .. readPos + n - 1
      PROVE  inbound[i - readPos + 1] \in InUnits
  <2>1. i - readPos + 1 \in 1 .. Len(inbound)
    BY <1>1, <1>2 DEF Size
  <2> QED
    BY <1>1, <2>1, ElementOfSeq
<1> QED
  BY <1>1, <1>2 DEF Stored

LEMMA CallStep ==
  ASSUME SwiftInv, DebtOK', [Next]_vars
  PROVE  CallTypes'
<1>0. TypeOK /\ CallTypes /\ SlotsOK /\ MaxConnects \in Nat /\ connects \in Nat
  BY TypeParts, TypeFacts, SwiftAssumption DEF SwiftInv
<1>1. /\ connects' \in 0 .. MaxConnects
      /\ slots' \subseteq Calls /\ placed' \subseteq Calls /\ late' \subseteq Calls
      /\ \E f \in [Calls -> Nat] : runs' = f
      /\ reconnected' \in BOOLEAN
  <2>0. /\ connects \in 0 .. MaxConnects /\ runs \in [Calls -> Nat]
        /\ slots \subseteq Calls /\ placed \subseteq Calls /\ late \subseteq Calls
        /\ reconnected \in BOOLEAN
    BY <1>0, TypeFacts DEF CallTypes
  <2>1. CASE Moves \/ Ends
    BY <2>0, <2>1 DEF Moves, Ends
  <2>2. CASE Begins
    BY <1>0, <2>0, <2>2 DEF Begins, Disconnecting
  <2>3. CASE Drops
    BY <2>0, <2>3 DEF Drops
  <2>4. ASSUME NEW c \in Calls, CallsBack(c) \/ Answers(c)
        PROVE  /\ UNCHANGED <<connects, placed, late, reconnected>> /\ slots' \subseteq slots
               /\ runs' = [runs EXCEPT ![c] = @ + 1]
    BY <2>4 DEF CallsBack, Answers
  <2>5. ASSUME NEW c \in Calls, Refuses(c)
        PROVE  /\ UNCHANGED <<connects, placed, late, reconnected, slots>>
               /\ runs' = [runs EXCEPT ![c] = 1]
    BY <2>5 DEF Refuses
  <2>6. ASSUME NEW c \in Calls, Places(c)
        PROVE  /\ UNCHANGED <<connects, reconnected, runs>>
               /\ slots' = slots \cup {c} /\ placed' = placed \cup {c} /\ late' \subseteq late \cup {c}
    BY <2>6 DEF Places
  <2> QED
    BY <2>0, <2>1, <2>2, <2>3, <2>4, <2>5, <2>6, Kinds
<1>2. stack' \in Seq(Frames)
  <2>0. stack \in Seq(Frames) /\ slots \in SUBSET Calls /\ slots' \in SUBSET Calls
    BY <1>0, <1>1 DEF CallTypes
  <2>1. ASSUME NEW pending \in SUBSET Calls, Pushes(pending) PROVE stack' \in Seq(Frames)
    <3>1. PICK st : Calm(st) /\ stack' = Append(st, Frame("disconnect", pending))
      BY <2>1 DEF Pushes
    <3>2. Frame("disconnect", pending) \in Frames /\ st \in Seq(Frames)
      BY <3>1, FrameFacts DEF Calm
    <3> QED
      BY <3>1, <3>2, AppendProperties
  <2>2. CASE Moves
    BY <2>2 DEF Moves, Calm
  <2>3. CASE Ends
    BY <2>0, <2>1, <2>3 DEF Ends
  <2>4. CASE Begins
    BY <2>0, <2>4 DEF Begins
  <2>5. CASE Drops
    BY <2>0, <2>5, Below DEF Drops
  <2>6. ASSUME NEW c \in Calls, CallsBack(c) PROVE stack' \in Seq(Frames)
    <3>1. Top \in Frames /\ Under \in Seq(Frames)
      BY <2>0, <2>6, Below DEF CallsBack
    <3>2. Frame("disconnect", Top.left \ {c}) \in Frames
      BY <3>1, FrameFacts
    <3> QED
      BY <2>6, <3>1, <3>2, AppendProperties DEF CallsBack
  <2>7. ASSUME NEW c \in Calls, Refuses(c) PROVE stack' \in Seq(Frames)
    BY <2>0, <2>7 DEF Refuses
  <2>8. ASSUME NEW c \in Calls, Places(c) PROVE stack' \in Seq(Frames)
    BY <2>0, <2>1, <2>8 DEF Places
  <2>9. ASSUME NEW c \in Calls, Answers(c) PROVE stack' \in Seq(Frames)
    BY <2>9 DEF Answers, Calm
  <2> QED
    BY <2>2, <2>3, <2>4, <2>5, <2>6, <2>7, <2>8, <2>9, Kinds
<1>3. runs' \in [Calls -> 0 .. MaxConnects]
  <2>1. runs' \in [Calls -> Nat] /\ connects' \in Nat /\ connects' <= MaxConnects
    BY <1>0, <1>1
  <2>2. ASSUME NEW c \in Calls PROVE runs'[c] <= MaxConnects
    <3>1. CASE c \in placed'
      <4>1. Cardinality(In(c, stack')) \in Nat
        BY <1>2, Counts
      <4>2. Debt(c)' = runs'[c] + Cardinality(In(c, stack')) + Held(c)' /\ Held(c)' \in {0, 1}
        BY HeldFacts DEF Debt
      <4>3. Debt(c)' <= connects'
        BY <3>1 DEF DebtOK
      <4> QED
        BY <1>0, <2>1, <4>1, <4>2, <4>3
    <3>2. CASE c \notin placed'
      BY <2>1, <3>2, SwiftAssumption DEF DebtOK
    <3> QED
      BY <3>1, <3>2
  <2>3. \A c \in Calls : runs'[c] \in 0 .. MaxConnects
    BY <1>0, <2>1, <2>2
  <2> QED
    BY <2>1, <2>3
<1> QED
  BY <1>1, <1>2, <1>3 DEF CallTypes

LEMMA IOStep ==
  ASSUME SwiftInv, [Next]_vars
  PROVE  IOTypes'
<1>0. IOTypes /\ connectionState \in States /\ writeBuffer \in Seq(OutMsgs) /\ delivered \subseteq Calls
  BY TypeParts DEF SwiftInv, IOTypes
<1>1. CASE UNCHANGED vars
  BY <1>0, <1>1 DEF vars, IOTypes, reading
<1>2. CASE connect
  <2>1. <<PreambleMsg>> \in Seq(OutMsgs) /\ <<>> \in Seq(InUnits)
    BY OutFacts, EmptySeq
  <2> QED
    BY <1>0, <1>2, <2>1 DEF connect, IOTypes, States, Preamble, Header, Size
<1>3. CASE Disconnect \/ BadReturnEnds
  BY <1>0, <1>3, DisconnectTypes, QuietTypes DEF Disconnect, BadReturnEnds, notes
<1>4. ASSUME NEW c \in Calls, Call(c) PROVE IOTypes'
  <2>1. Append(writeBuffer, Msg("call", c)) \in Seq(OutMsgs)
    BY <1>0, OutFacts, AppendProperties
  <2> QED
    BY <1>0, <1>4, <2>1, SendTypes, QuietTypes DEF Call
<1>5. ASSUME NEW c \in Calls, CallBack(c) PROVE IOTypes'
  BY <1>0, <1>5, QuietTypes DEF CallBack, notes
<1>6. CASE DisconnectReturns
  BY <1>0, <1>6, QuietTypes DEF DisconnectReturns, notes
<1>7. CASE MethodReturns
  <2>1. Append(writeBuffer, Msg("return", "none")) \in Seq(OutMsgs)
    BY <1>0, OutFacts, AppendProperties
  <2>2. /\ UNCHANGED <<inbound, heard, reading, startPos>> /\ fault' \in {fault, "nil stream"}
        /\ \/ UNCHANGED <<connectionState, writeBuffer, delivered>>
           \/ send(Append(writeBuffer, Msg("return", "none")), Under, slots)
           \/ disconnect(Under, slots) /\ UNCHANGED delivered
    BY <1>7 DEF MethodReturns, notes
  <2> QED
    BY <1>0, <2>1, <2>2, SendTypes, DisconnectTypes, QuietTypes
<1>8. CASE OpenCompleted
  BY <1>0, <1>8, QuietTypes DEF OpenCompleted, notes, States
<1>9. CASE HasSpaceAvailable
  BY <1>0, <1>9, SendTypes, QuietTypes DEF HasSpaceAvailable, notes
<1>10. CASE StreamEnds
  <2>1. readPos' \in -1 .. Size
    <3>1. readPos \in -1 .. 4 /\ (readPos' = readPos \/ (readPos >= 0 /\ readPos' = readPos - 1))
      BY <1>0, <1>10, PositionFacts DEF StreamEnds
    <3> QED
      BY <3>1 DEF Size
  <2>2. connectionState' \in States /\ writeBuffer' \in Seq(OutMsgs)
    BY <1>0, <1>10, DisconnectTypes DEF StreamEnds
  <2> QED
    BY <1>0, <1>10, <2>1, <2>2 DEF StreamEnds, notes, IOTypes
<1>11. ASSUME NEW m \in {PreambleMsg} \cup Incoming, PeerSends(m) PROVE IOTypes'
  <2>1. inbound' \in Seq(InUnits)
    BY <1>0, <1>11, UnitsType, ConcatProperties DEF PeerSends, IOTypes
  <2>2. /\ heard' = heard \cup {m}
        /\ UNCHANGED <<connectionState, writeBuffer, delivered, reading, startPos, fault>>
    BY <1>11 DEF PeerSends, notes
  <2> QED
    BY <1>0, <2>1, <2>2 DEF IOTypes, reading
<1>12. CASE HasBytesAvailable
  <2>1. /\ UNCHANGED <<delivered, heard, startPos>>
        /\ \/ fault' = "bounds" /\ UNCHANGED <<connectionState, writeBuffer, inbound, reading>>
           \/ /\ readPos \in 0 .. readNeeds
              /\ \E n \in 0 .. readNeeds - readPos :
                   /\ n <= Len(inbound)
                   /\ inbound' = SubSeq(inbound, n + 1, Len(inbound))
                   /\ readBuffer' = Stored(n)
                   /\ \/ /\ readPos + n < readNeeds
                         /\ readPos' = readPos + n
                         /\ UNCHANGED <<connectionState, writeBuffer, readState, readNeeds, fault>>
                      \/ /\ readPos + n = readNeeds
                         /\ readingPreamble(n) \/ readingHeader(n) \/ readingBody(n)
    BY <1>12 DEF HasBytesAvailable, notes
  <2>2. CASE fault' = "bounds" /\ UNCHANGED <<connectionState, writeBuffer, inbound, reading>>
    BY <1>0, <2>1, <2>2 DEF IOTypes, reading
  <2>3. ASSUME readPos \in 0 .. readNeeds,
               NEW n \in 0 .. readNeeds - readPos,
               n <= Len(inbound),
               inbound' = SubSeq(inbound, n + 1, Len(inbound)),
               readBuffer' = Stored(n),
               \/ /\ readPos + n < readNeeds
                  /\ readPos' = readPos + n
                  /\ UNCHANGED <<connectionState, writeBuffer, readState, readNeeds, fault>>
               \/ /\ readPos + n = readNeeds
                  /\ readingPreamble(n) \/ readingHeader(n) \/ readingBody(n)
        PROVE  IOTypes'
    <3>0. readNeeds \in {1, 2, 4} /\ n \in Nat /\ readPos + n <= readNeeds
      BY <1>0, <2>3, PositionFacts
    <3>1. inbound' \in Seq(InUnits) /\ readBuffer' \in [0 .. Size - 1 -> InUnits \cup {NoUnit}]
      BY <1>0, <2>3, <3>0, RestOf, StoredType DEF IOTypes
    <3>2. /\ readPos' \in -1 .. Size /\ readNeeds' \in {Preamble, Header, Size}
          /\ readState' \in {"preamble", "header", "body"}
      <4>1. CASE readPos' = readPos + n /\ UNCHANGED <<readState, readNeeds>>
        <5>1. readPos' \in -1 .. Size
          BY <2>3, <3>0, <4>1 DEF Size
        <5> QED
          BY <1>0, <4>1, <5>1 DEF IOTypes
      <4>2. CASE readingPreamble(n) \/ readingHeader(n) \/ readingBody(n)
        BY <2>3, <3>0, <4>2 DEF readingPreamble, readingHeader, readingBody, Preamble, Header, Size
      <4> QED
        BY <2>3, <4>1, <4>2
    <3>3. /\ fault' \in {fault, "preamble"}
          /\ \/ UNCHANGED <<connectionState, writeBuffer>>
             \/ disconnect(stack, slots)
      BY <2>3 DEF readingPreamble, readingHeader, readingBody, gotMessage
    <3>4. connectionState' \in States /\ writeBuffer' \in Seq(OutMsgs)
      BY <1>0, <3>3, DisconnectTypes
    <3> QED
      BY <1>0, <2>1, <3>1, <3>2, <3>3, <3>4 DEF IOTypes
  <2> QED
    BY <2>1, <2>2, <2>3
<1> QED
  BY <1>1, <1>2, <1>3, <1>4, <1>5, <1>6, <1>7, <1>8, <1>9, <1>10, <1>11, <1>12 DEF Next

-----------------------------------------------------------------------------
(* The theorems.                                                           *)

LEMMA InitInv == Init => SwiftInv
<1> SUFFICES ASSUME Init PROVE SwiftInv
  OBVIOUS
<1>1. TypeOK
  <2>1. <<>> \in Seq(Frames) /\ <<>> \in Seq(OutMsgs) /\ <<>> \in Seq(InUnits)
    BY EmptySeq
  <2>2. CallTypes
    <3>1. /\ connects = 0 /\ slots = {} /\ placed = {} /\ late = {} /\ stack = <<>>
          /\ runs = [c \in Calls |-> 0] /\ reconnected = FALSE
      BY DEF Init
    <3>2. 0 \in 0 .. MaxConnects
      BY SwiftAssumption
    <3> QED
      BY <2>1, <3>1, <3>2 DEF CallTypes
  <2>3. IOTypes
    BY <2>1 DEF Init, IOTypes, States, Preamble, Header, Size
  <2> QED
    BY <2>2, <2>3, TypeParts
<1>2. SlotsOK /\ DebtOK /\ PendingOK
  <2>1. \A c : In(c, stack) = {}
    BY EmptySeq DEF Init, In
  <2> QED
    BY <2>1 DEF Init, SlotsOK, DebtOK, PendingOK
<1>3. StreamOK
  BY DEF Init, StreamOK
<1> QED
  BY <1>1, <1>2, <1>3 DEF SwiftInv

LEMMA NextInv ==
  ASSUME SwiftInv, [Next]_vars
  PROVE  SwiftInv'
<1>1. SlotsOK' /\ DebtOK' /\ PendingOK' /\ StreamOK'
  BY SlotsStep, DebtStep, PendingStep, StreamStep
<1>2. TypeOK'
  <2>1. CallTypes' /\ IOTypes'
    BY <1>1, CallStep, IOStep
  <2> QED
    BY <2>1 DEF TypeOK, CallTypes, IOTypes, OutMsgs, States
<1> QED
  BY <1>1, <1>2 DEF SwiftInv

\* The inductive invariant of the Swift connection: each call's runs, loops on the stack
\* and slot together, who is left to whom, and where reading has come to.
THEOREM Invariance == Spec => []SwiftInv
<1>1. Init => SwiftInv
  BY InitInv
<1>2. SwiftInv /\ [Next]_vars => SwiftInv'
  BY NextInv
<1> QED
  BY <1>1, <1>2, PTL DEF Spec

\* Every variable of the connection keeps its type; above all, no callback is run more
\* often than connections were begun.
THEOREM TypeCorrect == Spec => []TypeOK
<1>1. SwiftInv => TypeOK
  BY DEF SwiftInv
<1> QED
  BY <1>1, Invariance, PTL

\* No callback is run twice, whatever the callbacks, methods and hooks do in the middle
\* of disconnect() and of reading, as long as no callback that disconnect() runs
\* reconnects.
THEOREM CallbacksRunOnce == Spec => []CallbackOnce
<1>1. SwiftInv => CallbackOnce
  <2> SUFFICES ASSUME SwiftInv, ~reconnected, NEW c \in Calls PROVE runs[c] <= 1
    BY DEF CallbackOnce
  <2>1. runs[c] \in Nat /\ Loop(c) \in Nat /\ Held(c) \in {0, 1}
    BY TypeFacts, LoopType, HeldFacts DEF SwiftInv
  <2>2. CASE c \in placed
    <3>1. runs[c] + Loop(c) + Held(c) <= 1
      BY <2>2 DEF SwiftInv, DebtOK, Debt, Loop
    <3> QED
      BY <2>1, <3>1
  <2>3. CASE c \notin placed
    BY <2>3 DEF SwiftInv, DebtOK
  <2> QED
    BY <2>2, <2>3
<1> QED
  BY <1>1, Invariance, PTL

\* When the run loop is idle, a call that was placed has been called back or still has
\* its slot on a live connection, unless it was placed while disconnect() ran callbacks.
THEOREM NobodyIsForgotten == Spec => []NobodyForgotten
<1>1. SwiftInv => NobodyForgotten
  <2> SUFFICES ASSUME SwiftInv, stack = <<>>, NEW c \in placed \ late
               PROVE  runs[c] > 0 \/ (c \in slots /\ connectionState # "disconnected")
    BY DEF NobodyForgotten
  <2>1. In(c, stack) = {}
    BY EmptySeq DEF In
  <2> QED
    BY <2>1 DEF SwiftInv, PendingOK
<1> QED
  BY <1>1, Invariance, PTL

\* A connection that began with an empty buffer finds the preamble of a correct peer, in
\* whatever portions it arrives, and never reads outside of its buffer.
THEOREM ReadsAreClean == Spec => []CleanReads
<1>1. SwiftInv => CleanReads
  BY DEF SwiftInv, StreamOK, CleanReads
<1> QED
  BY <1>1, Invariance, PTL

=============================================================================
