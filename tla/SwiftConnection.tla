--------------------------- MODULE SwiftConnection ----------------------------
(***************************************************************************)
(* The RPCConnection of the Swift runtime.  Everything runs on one run     *)
(* loop, so nothing is concurrent; but the code calls the application's    *)
(* code (callbacks of calls, methods, the disconnect hook) in the middle   *)
(* of its own work, and that may call connect(), disconnect() or another   *)
(* method of the connection.  `stack` has the functions that are doing so. *)
(*                                                                         *)
(* A message is made of Header + Body units and a preamble of Preamble;    *)
(* the peer is a correct one.                                              *)
(***************************************************************************)
EXTENDS Integers, Sequences, FiniteSets

CONSTANTS
    Calls,         \* the calls that the application places
    PeerCalls,     \* the calls that the peer places
    MaxConnects    \* bound: connect() on a connection that is disconnected

Preamble == 2
Header == 1
Size == 4          \* of a whole message

ASSUME SwiftAssumption == MaxConnects \in Nat \ {0}

VARIABLES
    connectionState,   \* "disconnected", "connecting", "connected"
    connects,          \* how often connect() opened streams
    slots,
    runs,              \* runs of each call's callback
    placed,            \* calls that were given a slot
    writeBuffer,
    delivered,         \* calls that the peer of this connection was sent
    inbound,           \* units that the peer sent and the input stream holds
    heard,             \* what the peer has sent on this connection
    readState, readNeeds, readPos, readBuffer,
    stack,
    late,              \* history: calls placed while disconnect() ran callbacks
    reconnected,       \* history: a callback that disconnect() ran called connect()
    startPos,          \* history: the read position that connect() found
    fault              \* of this connection: "none", "preamble", "nil stream", "bounds"

vars == <<connectionState, connects, slots, runs, placed, writeBuffer, delivered, inbound,
          heard, readState, readNeeds, readPos, readBuffer, stack, late, reconnected,
          startPos, fault>>

reading == <<readState, readNeeds, readPos, readBuffer>>
notes == <<late, reconnected, startPos>>

Msg(t, c) == [type |-> t, call |-> c]
PreambleMsg == Msg("preamble", "none")
Unit(m, n) == [msg |-> m, part |-> n]
Units(m) == [n \in 1 .. IF m = PreambleMsg THEN Preamble ELSE Size |-> Unit(m, n)]
NoUnit == Unit(Msg("none", "none"), 0)
Incoming == [type : {"return", "badReturn"}, call : Calls] \cup [type : {"call"}, call : PeerCalls]
InUnits == [msg : {PreambleMsg} \cup Incoming, part : 1 .. Size]

Frames == [is : {"disconnect"}, left : SUBSET Calls]
          \cup [is : {"method"}, left : {{}}]
          \cup [is : {"badReturn"}, left : {{}}]
Frame(f, left) == [is |-> f, left |-> left]
Top == stack[Len(stack)]
Under == SubSeq(stack, 1, Len(stack) - 1)
Disconnecting == \E i \in 1 .. Len(stack) : stack[i].is = "disconnect"

TypeOK ==
    /\ connectionState \in {"disconnected", "connecting", "connected"}
    /\ connects \in 0 .. MaxConnects
    /\ slots \subseteq Calls
    /\ runs \in [Calls -> 0 .. MaxConnects]
    /\ placed \subseteq Calls
    /\ writeBuffer \in Seq({PreambleMsg} \cup [type : {"call"}, call : Calls]
                           \cup [type : {"return"}, call : {"none"}])
    /\ delivered \subseteq Calls
    /\ inbound \in Seq(InUnits)
    /\ heard \subseteq {PreambleMsg} \cup Incoming
    /\ readState \in {"preamble", "header", "body"}
    /\ readNeeds \in {Preamble, Header, Size}
    /\ readPos \in -1 .. Size
    /\ readBuffer \in [0 .. Size - 1 -> InUnits \cup {NoUnit}]
    /\ stack \in Seq(Frames)
    /\ late \subseteq Calls
    /\ reconnected \in BOOLEAN
    /\ startPos \in -1 .. Size
    /\ fault \in {"none", "preamble", "nil stream", "bounds"}

Init ==
    /\ connectionState = "disconnected"
    /\ connects = 0
    /\ slots = {}
    /\ runs = [c \in Calls |-> 0]
    /\ placed = {}
    /\ writeBuffer = <<>>
    /\ delivered = {}
    /\ inbound = <<>>
    /\ heard = {}
    /\ readState = "preamble"
    /\ readNeeds = Preamble
    /\ readPos = 0
    /\ readBuffer = [i \in 0 .. Size - 1 |-> NoUnit]
    /\ stack = <<>>
    /\ late = {}
    /\ reconnected = FALSE
    /\ startPos = 0
    /\ fault = "none"

Crashed == fault \in {"nil stream", "bounds"}

-----------------------------------------------------------------------------
(* connect(), disconnect(), writing *)

\* The read position is left as it was.
connect ==
    /\ ~Crashed
    /\ connectionState = "disconnected"
    /\ connects < MaxConnects
    /\ connects' = connects + 1
    /\ writeBuffer' = <<PreambleMsg>>
    /\ connectionState' = "connecting"
    /\ readState' = "preamble"
    /\ readNeeds' = Preamble
    /\ delivered' = {}
    /\ inbound' = <<>>
    /\ heard' = {}
    /\ startPos' = readPos
    /\ fault' = "none"
    /\ reconnected' = (reconnected \/ Disconnecting)
    /\ UNCHANGED <<slots, runs, placed, readPos, readBuffer, stack, late>>

\* The body of disconnect() up to its loop over the pending calls, which goes on
\* with what `slots` was.  `below` is the stack it is called on.
disconnect(below, pending) ==
    IF connectionState = "disconnected"
    THEN /\ stack' = below
         /\ UNCHANGED <<connectionState, writeBuffer>>
    ELSE /\ connectionState' = "disconnected"
         /\ writeBuffer' = <<>>
         /\ stack' = Append(below, Frame("disconnect", pending))

\* Mutant: a write that fails leaves the pending calls to the next disconnect().
sendMutant(buffer, below, pending) ==
    \/ /\ writeBuffer' = buffer
       /\ stack' = below
       /\ UNCHANGED <<connectionState, delivered>>
    \/ /\ connectionState = "connected"
       /\ connectionState' = "disconnected"
       /\ writeBuffer' = <<>>
       /\ stack' = below
       /\ UNCHANGED delivered

\* send(): flushWriteBuffer() writes nothing, as the stream has no space or is not
\* connected; some of the buffer; or fails, which disconnects.
send(buffer, below, pending) ==
    \/ /\ writeBuffer' = buffer
       /\ stack' = below
       /\ UNCHANGED <<connectionState, delivered>>
    \/ /\ connectionState = "connected"
       /\ \E n \in 1 .. Len(buffer) :
            /\ writeBuffer' = SubSeq(buffer, n + 1, Len(buffer))
            /\ delivered' = delivered \cup
                  {c \in Calls : \E i \in 1 .. n : buffer[i] = Msg("call", c)}
       /\ stack' = below
       /\ UNCHANGED connectionState
    \/ /\ connectionState = "connected"
       /\ disconnect(below, pending)
       /\ UNCHANGED delivered

\* The loop of disconnect() calls back one of the calls.
CallBack(c) ==
    /\ ~Crashed
    /\ stack # <<>> /\ Top.is = "disconnect" /\ c \in Top.left
    /\ runs' = [runs EXCEPT ![c] = @ + 1]
    /\ stack' = Append(Under, Frame("disconnect", Top.left \ {c}))
    /\ UNCHANGED <<connectionState, connects, slots, placed, writeBuffer, delivered, inbound,
                   heard, reading, notes, fault>>

\* Mutant: the slots are kept.
DisconnectReturnsMutant ==
    /\ ~Crashed
    /\ stack # <<>> /\ Top = Frame("disconnect", {})
    /\ stack' = Under
    /\ UNCHANGED <<connectionState, connects, slots, runs, placed, writeBuffer, delivered,
                   inbound, heard, reading, notes, fault>>

\* After the loop every slot is dropped, and the disconnect hook is called.
DisconnectReturns ==
    /\ ~Crashed
    /\ stack # <<>> /\ Top = Frame("disconnect", {})
    /\ slots' = {}
    /\ stack' = Under
    /\ UNCHANGED <<connectionState, connects, runs, placed, writeBuffer, delivered, inbound,
                   heard, reading, notes, fault>>

-----------------------------------------------------------------------------
(* The application: at the top level, or in a callback, a method or the hook *)

\* A client method.  A call is refused at once while disconnected.
Call(c) ==
    /\ ~Crashed
    /\ c \notin placed /\ runs[c] = 0
    /\ \/ /\ connectionState = "disconnected"
          /\ runs' = [runs EXCEPT ![c] = 1]
          /\ UNCHANGED <<connectionState, slots, placed, writeBuffer, delivered, stack, late>>
       \/ /\ connectionState # "disconnected"
          /\ placed' = placed \cup {c}
          /\ slots' = slots \cup {c}
          /\ late' = IF Disconnecting THEN late \cup {c} ELSE late
          /\ send(Append(writeBuffer, Msg("call", c)), stack, slots')
          /\ UNCHANGED runs
    /\ UNCHANGED <<connects, inbound, heard, reading, reconnected, startPos, fault>>

Disconnect ==
    /\ ~Crashed
    /\ connectionState # "disconnected"
    /\ disconnect(stack, slots)
    /\ UNCHANGED <<connects, slots, runs, placed, delivered, inbound, heard, reading, notes,
                   fault>>

\* A method of the server returns.  Its reply goes to the current output stream,
\* which is nil if there is none; a method that fails ends the connection.
MethodReturns ==
    /\ ~Crashed
    /\ stack # <<>> /\ Top.is = "method"
    /\ \/ /\ connectionState = "disconnected"
          /\ fault' = "nil stream"
          /\ UNCHANGED <<connectionState, writeBuffer, delivered, stack>>
       \/ /\ connectionState # "disconnected"
          /\ send(Append(writeBuffer, Msg("return", "none")), Under, slots)
          /\ UNCHANGED fault
       \/ /\ disconnect(Under, slots)
          /\ UNCHANGED <<delivered, fault>>
    /\ UNCHANGED <<connects, slots, runs, placed, inbound, heard, reading, notes>>

\* The callback of a reply that could not be decoded has returned.
BadReturnEnds ==
    /\ ~Crashed
    /\ stack # <<>> /\ Top.is = "badReturn"
    /\ disconnect(Under, slots)
    /\ UNCHANGED <<connects, slots, runs, placed, delivered, inbound, heard, reading, notes,
                   fault>>

-----------------------------------------------------------------------------
(* Events of the streams, when the run loop has nothing else to do *)

Idle == ~Crashed /\ stack = <<>>

OpenCompleted ==
    /\ Idle
    /\ connectionState = "connecting"
    /\ connectionState' = "connected"
    /\ UNCHANGED <<connects, slots, runs, placed, writeBuffer, delivered, inbound, heard,
                   reading, stack, notes, fault>>

HasSpaceAvailable ==
    /\ Idle
    /\ connectionState = "connected"
    /\ writeBuffer # <<>>
    /\ send(writeBuffer, stack, slots)
    /\ UNCHANGED <<connects, slots, runs, placed, inbound, heard, reading, notes, fault>>

\* endEncountered or errorOccurred.  A read that failed first has moved the
\* position by -1.
StreamEnds ==
    /\ Idle
    /\ connectionState # "disconnected"
    /\ \/ UNCHANGED readPos
       \/ connectionState = "connected" /\ readPos >= 0 /\ readPos' = readPos - 1
    /\ disconnect(stack, slots)
    /\ UNCHANGED <<connects, slots, runs, placed, delivered, inbound, heard, readState,
                   readNeeds, readBuffer, notes, fault>>

\* gotMessage().  A callback runs when its call's reply comes, and whatever the
\* application does in it comes next.
gotMessage(m) ==
    \/ /\ m.type = "call"
       /\ stack' = Append(stack, Frame("method", {}))
       /\ UNCHANGED <<connectionState, slots, runs, writeBuffer>>
    \/ /\ m.type \in {"return", "badReturn"}
       /\ m.call \in slots
       /\ slots' = slots \ {m.call}
       /\ runs' = [runs EXCEPT ![m.call] = @ + 1]
       /\ stack' = IF m.type = "return" THEN stack ELSE Append(stack, Frame("badReturn", {}))
       /\ UNCHANGED <<connectionState, writeBuffer>>
    \/ /\ m.type \in {"return", "badReturn"}
       /\ m.call \notin slots
       /\ disconnect(stack, slots)
       /\ UNCHANGED <<slots, runs>>

\* stream.read() stored n units at the read position.
Stored(n) == [i \in 0 .. Size - 1 |->
                IF i \in readPos .. readPos + n - 1 THEN inbound[i - readPos + 1]
                ELSE readBuffer[i]]

readingPreamble(n) ==
    /\ readState = "preamble"
    /\ readPos' = 0
    /\ readNeeds' = Header
    /\ readState' = "header"
    /\ IF \A i \in 1 .. Preamble : Stored(n)[i - 1] = Unit(PreambleMsg, i)
       THEN UNCHANGED <<connectionState, writeBuffer, stack, fault>>
       ELSE fault' = "preamble" /\ disconnect(stack, slots)
    /\ UNCHANGED <<slots, runs>>

\* The header is part of the message.
readingHeader(n) ==
    /\ readState = "header"
    /\ readPos' = readPos + n
    /\ readNeeds' = Size
    /\ readState' = "body"
    /\ UNCHANGED <<connectionState, slots, runs, writeBuffer, stack, fault>>

\* Mutant: the position is not reset for the next header.
readingBodyMutant(n) ==
    /\ readState = "body"
    /\ readPos' = readPos + n
    /\ readNeeds' = Header
    /\ readState' = "header"
    /\ gotMessage(Stored(n)[0].msg)
    /\ UNCHANGED fault

readingBody(n) ==
    /\ readState = "body"
    /\ readPos' = 0
    /\ readNeeds' = Header
    /\ readState' = "header"
    /\ gotMessage(Stored(n)[0].msg)
    /\ UNCHANGED fault

HasBytesAvailable ==
    /\ Idle
    /\ connectionState = "connected"
    /\ inbound # <<>>
    /\ \/ /\ readPos < 0 \/ readPos > readNeeds
          /\ fault' = "bounds"
          /\ UNCHANGED <<connectionState, slots, runs, writeBuffer, inbound, reading, stack>>
       \/ /\ readPos \in 0 .. readNeeds
          /\ \E n \in 0 .. readNeeds - readPos :
               /\ n <= Len(inbound)
               /\ n = 0 => readPos = readNeeds
               /\ inbound' = SubSeq(inbound, n + 1, Len(inbound))
               /\ readBuffer' = Stored(n)
               /\ \/ /\ readPos + n < readNeeds
                     /\ readPos' = readPos + n
                     /\ UNCHANGED <<connectionState, slots, runs, writeBuffer, readState,
                                    readNeeds, stack, fault>>
                  \/ /\ readPos + n = readNeeds
                     /\ readingPreamble(n) \/ readingHeader(n) \/ readingBody(n)
    /\ UNCHANGED <<connects, placed, delivered, heard, notes>>

\* The peer: the preamble, then replies to what it was sent, and calls.
PeerSends(m) ==
    /\ Idle
    /\ connectionState = "connected"
    /\ m \notin heard
    /\ m # PreambleMsg => PreambleMsg \in heard
    /\ m.type \in {"return", "badReturn"} =>
          m.call \in delivered /\ \A h \in heard : h.type = "call" \/ h.call # m.call
    /\ heard' = heard \cup {m}
    /\ inbound' = inbound \o Units(m)
    /\ UNCHANGED <<connectionState, connects, slots, runs, placed, writeBuffer, delivered,
                   reading, stack, notes, fault>>

-----------------------------------------------------------------------------
Next ==
    \/ connect \/ Disconnect
    \/ \E c \in Calls : Call(c) \/ CallBack(c)
    \/ DisconnectReturns \/ MethodReturns \/ BadReturnEnds
    \/ OpenCompleted \/ HasSpaceAvailable \/ HasBytesAvailable \/ StreamEnds
    \/ \E m \in {PreambleMsg} \cup Incoming : PeerSends(m)

Spec == Init /\ [][Next]_vars

-----------------------------------------------------------------------------
\* No callback is run twice, by a reply, by disconnect() or by both.  The exception:
\* a callback that disconnect() runs reconnects, and the new connection ends before
\* disconnect() is through with the old one, whose slots it has not dropped yet.
CallbackOnce == ~reconnected => \A c \in Calls : runs[c] <= 1

\* No call is forgotten: when the run loop is idle, every call that was placed has
\* been called back or still has its slot on a connection that has not ended.  The
\* exception: calls placed in a callback that disconnect() ran, once that has
\* reconnected; the slot is dropped with those of the old connection.
NobodyForgotten ==
    stack = <<>> =>
        \A c \in placed \ late :
            runs[c] > 0 \/ (c \in slots /\ connectionState # "disconnected")

\* With a peer that keeps to the protocol a connection is never ended for its
\* preamble, and never reads outside the buffer, if it began with an empty buffer.
\* It does not when the connection before it was lost in the middle of a message.
CleanReads == fault \in {"preamble", "bounds"} => startPos # 0

=============================================================================
