------------------------------- MODULE RPCPair -------------------------------
(***************************************************************************)
(* Two RPCConnections joined by one network connection.  Each end places   *)
(* calls and serves those of the other.  Module Connection looks at one    *)
(* end, step by step, with a peer that may send anything; here both ends   *)
(* run the code, and the stream between them is what it is: bounded, and   *)
(* filled by Write a piece at a time.                                      *)
(*                                                                         *)
(* A goroutine that sends waits for writeLock (queued), then for room in   *)
(* the stream (writing).  The read loop never waits for a method, but it   *)
(* writes the refusal of a call for an unknown protocol itself, and does   *)
(* not read while it does.                                                 *)
(*                                                                         *)
(* end() is what it is in the code, four steps without a lock: whoever has *)
(* read that an end is connected stores a reason, clears connected and     *)
(* closes the socket, and others run in between.                           *)
(***************************************************************************)
EXTENDS Naturals, Sequences, FiniteSets

CONSTANTS
    Calls,       \* the calls of both ends
    Caller,      \* the end that places each
    Served,      \* the calls for a protocol that the other end serves
    Impatient,   \* the calls whose context may end
    Pieces,      \* the pieces a message is written in
    Capacity,    \* the pieces that one direction of the stream holds
    MayClose,    \* the ends whose user calls Close
    MayBreak,    \* may the network fail?
    MaxPlaced,   \* bound of the model: calls that are placed
    MaxTroubles  \* bound of the model: calls of Close and failures of the network

Ends == {1, 2}
Peer(s) == 3 - s

ASSUME PairAssumption ==
    /\ Caller \in [Calls -> Ends]
    /\ Served \subseteq Calls /\ Impatient \subseteq Calls
    /\ Pieces \in Nat \ {0} /\ Capacity \in Nat \ {0}
    /\ MayClose \subseteq Ends
    /\ MayBreak \in BOOLEAN
    /\ MaxPlaced \in Nat /\ MaxTroubles \in Nat

VARIABLES
    phase,       \* where each call is
    answer,      \* what its decoder was given
    slots,       \* waitingCalls of both ends
    method,      \* the goroutine that runs it at the other end
    queued,      \* messages whose sender waits for writeLock
    writing,     \* the next piece of each message that is being written
    stream,      \* stream[s]: the pieces that s wrote and its peer has not read
    got,         \* the pieces of an unfinished message in each read buffer
    loop,        \* the read loop of each end
    ending,      \* where each goroutine is in end()
    endReason,   \* is there one?
    connected,
    socket,      \* conn.conn of each end: a broken one takes no more writes
    network,     \* does it work?
    troubles     \* how often a user has closed, or the network has failed

messages == <<queued, writing, stream, got>>
ends == <<endReason, connected, socket, network>>
vars == <<phase, answer, slots, method, messages, loop, ending, ends, troubles>>

Message(t, c) == [type |-> t, call |-> c]
Messages == [type : {"call", "result", "refusal"}, call : Calls]
Writer(m) == IF m.type = "call" THEN Caller[m.call] ELSE Peer(Caller[m.call])
Piece(m, n) == [msg |-> m, part |-> n]

\* The goroutines that call end(): those of calls and of methods, the read loops, and
\* the user of each end.
Goroutines ==
    [role : {"caller", "method"}, of : Calls] \cup [role : {"reader", "user"}, of : Ends]
The(role, x) == [role |-> role, of |-> x]
EndOf(g) ==
    CASE g.role = "caller" -> Caller[g.of]
      [] g.role = "method" -> Peer(Caller[g.of])
      [] g.role \in {"reader", "user"} -> g.of
Sender(m) ==
    CASE m.type = "call" -> The("caller", m.call)
      [] m.type = "result" -> The("method", m.call)
      [] m.type = "refusal" -> The("reader", Writer(m))

\* Neither socket is closed, and the network works.
link == network /\ \A s \in Ends : socket[s] # "closed"

TypeOK ==
    /\ phase \in [Calls -> {"idle", "refused", "placed", "sending", "unsent", "waiting",
                            "succeeded", "failed", "panicked"}]
    /\ answer \in [Calls -> {"none", "result", "refusal"}]
    /\ slots \subseteq Calls
    /\ method \in [Calls -> {"none", "running", "done"}]
    /\ queued \subseteq Messages
    /\ writing \subseteq [msg : Messages, part : 1 .. Pieces]
    /\ stream \in [Ends -> Seq([msg : Messages, part : 1 .. Pieces])]
    /\ got \in [Ends -> 0 .. Pieces - 1]
    /\ loop \in [Ends -> {"reading", "refusing", "ending", "leaving", "gone"}]
    /\ ending \in [Goroutines -> {"not", "test", "store", "flag", "close"}]
    /\ endReason \in [Ends -> BOOLEAN]
    /\ connected \in [Ends -> BOOLEAN]
    /\ socket \in [Ends -> {"open", "broken", "closed"}]
    /\ network \in BOOLEAN
    /\ troubles \in Nat

Init ==
    /\ phase = [c \in Calls |-> "idle"]
    /\ answer = [c \in Calls |-> "none"]
    /\ slots = {}
    /\ method = [c \in Calls |-> "none"]
    /\ queued = {}
    /\ writing = {}
    /\ stream = [s \in Ends |-> <<>>]
    /\ got = [s \in Ends |-> 0]
    /\ loop = [s \in Ends |-> "reading"]
    /\ ending = [g \in Goroutines |-> "not"]
    /\ endReason = [s \in Ends |-> FALSE]
    /\ connected = [s \in Ends |-> TRUE]
    /\ socket = [s \in Ends |-> "open"]
    /\ network = TRUE
    /\ troubles = 0

-----------------------------------------------------------------------------
(* end() *)

CallEnd(g) == ending' = [ending EXCEPT ![g] = "test"]

\* After end(), call() releases its slot, a read loop leaves, and a method's goroutine
\* and the user's have no more to do: their second end() finds connected cleared.
EndOver(g) ==
    /\ ending' = [ending EXCEPT ![g] = "not"]
    /\ phase' = IF g.role = "caller" THEN [phase EXCEPT ![g.of] = "unsent"] ELSE phase
    /\ loop' = IF g.role = "reader" THEN [loop EXCEPT ![g.of] = "leaving"] ELSE loop

EndTest(g) ==
    /\ ending[g] = "test"
    /\ \/ /\ connected[EndOf(g)]
          /\ ending' = [ending EXCEPT ![g] = "store"]
          /\ UNCHANGED <<phase, loop>>
       \/ /\ ~connected[EndOf(g)]
          /\ EndOver(g)
    /\ UNCHANGED <<answer, slots, method, messages, ends, troubles>>

EndStore(g) ==
    /\ ending[g] = "store"
    /\ ending' = [ending EXCEPT ![g] = "flag"]
    /\ endReason' = [endReason EXCEPT ![EndOf(g)] = TRUE]
    /\ UNCHANGED <<phase, answer, slots, method, messages, loop>>
    /\ UNCHANGED <<connected, socket, network, troubles>>

EndFlag(g) ==
    /\ ending[g] = "flag"
    /\ ending' = [ending EXCEPT ![g] = "close"]
    /\ connected' = [connected EXCEPT ![EndOf(g)] = FALSE]
    /\ UNCHANGED <<phase, answer, slots, method, messages, loop>>
    /\ UNCHANGED <<endReason, socket, network, troubles>>

\* Mutant: the socket is left open.
EndCloseMutant(g) ==
    /\ ending[g] = "close"
    /\ EndOver(g)
    /\ UNCHANGED <<answer, slots, method, messages, ends, troubles>>

EndClose(g) ==
    /\ ending[g] = "close"
    /\ EndOver(g)
    /\ socket' = [socket EXCEPT ![EndOf(g)] = "closed"]
    /\ UNCHANGED <<answer, slots, method, messages, endReason, connected, network, troubles>>

EndStep(g) == EndTest(g) \/ EndStore(g) \/ EndFlag(g) \/ EndClose(g)

-----------------------------------------------------------------------------
(* Callers *)

\* call() finds its connection connected, or returns why it ended.
Place(c) ==
    /\ phase[c] = "idle"
    /\ Cardinality({d \in Calls : phase[d] # "idle"}) < MaxPlaced
    /\ phase' = [phase EXCEPT ![c] = IF connected[Caller[c]] THEN "placed" ELSE "refused"]
    /\ UNCHANGED <<answer, slots, method, messages, loop, ending, ends, troubles>>

\* The slot is taken however long ago that was.
Acquire(c) ==
    /\ phase[c] = "placed"
    /\ phase' = [phase EXCEPT ![c] = "sending"]
    /\ slots' = slots \cup {c}
    /\ queued' = queued \cup {Message("call", c)}
    /\ UNCHANGED <<answer, method, writing, stream, got, loop, ending, ends, troubles>>

\* Mutant: whoever has been released has its reply.
ReturnMutant(c) ==
    /\ phase[c] = "waiting"
    /\ c \notin slots
    /\ phase' = [phase EXCEPT ![c] = IF answer[c] # "refusal" THEN "succeeded" ELSE "failed"]
    /\ UNCHANGED <<answer, slots, method, messages, loop, ending, ends, troubles>>

\* The waiter is closed.  The reason for the end of the connection comes before
\* whatever the decoder has stored.
Return(c) ==
    /\ phase[c] = "waiting"
    /\ c \notin slots
    /\ phase' = [phase EXCEPT ![c] =
                    IF ~endReason[Caller[c]] /\ answer[c] # "refusal"
                    THEN "succeeded" ELSE "failed"]
    /\ UNCHANGED <<answer, slots, method, messages, loop, ending, ends, troubles>>

\* Mutant: call() returns the error of send() and keeps its slot.
ReleaseMutant(c) ==
    /\ phase[c] = "unsent"
    /\ phase' = [phase EXCEPT ![c] = "failed"]
    /\ UNCHANGED <<answer, slots, method, messages, loop, ending, ends, troubles>>

\* send() has failed and ended the connection: call() releases its slot, and panics if
\* the read loop has released it already.  That the panic ends the process is left out:
\* the rest goes on as if only this goroutine had ended.
Release(c) ==
    /\ phase[c] = "unsent"
    /\ phase' = [phase EXCEPT ![c] = IF c \in slots THEN "failed" ELSE "panicked"]
    /\ slots' = slots \ {c}
    /\ UNCHANGED <<answer, method, messages, loop, ending, ends, troubles>>

\* The slot stays taken: only its reply or the end of the connection frees it.
GiveUp(c) ==
    /\ c \in Impatient
    /\ phase[c] = "waiting"
    /\ phase' = [phase EXCEPT ![c] = "failed"]
    /\ UNCHANGED <<answer, slots, method, messages, loop, ending, ends, troubles>>

-----------------------------------------------------------------------------
(* send *)

\* Mutant: without writeLock.
LockMutant(m) ==
    /\ m \in queued
    /\ queued' = queued \ {m}
    /\ writing' = writing \cup {Piece(m, 1)}
    /\ UNCHANGED <<phase, answer, slots, method, stream, got, loop, ending, ends, troubles>>

Lock(m) ==
    /\ m \in queued
    /\ \A p \in writing : Writer(p.msg) # Writer(m)
    /\ queued' = queued \ {m}
    /\ writing' = writing \cup {Piece(m, 1)}
    /\ UNCHANGED <<phase, answer, slots, method, stream, got, loop, ending, ends, troubles>>

\* What a sender does once send() has returned no error: call() waits, the read
\* loop ends the connection for the unknown protocol, a method's goroutine exits.
Sent(m) ==
    /\ phase' = IF m.type = "call" THEN [phase EXCEPT ![m.call] = "waiting"] ELSE phase
    /\ IF m.type = "refusal"
       THEN /\ loop' = [loop EXCEPT ![Writer(m)] = "ending"]
            /\ CallEnd(Sender(m))
       ELSE UNCHANGED <<loop, ending>>

\* Write waits for room.  Nothing tells it that the peer does not read any more.
WritePiece(p) ==
    LET s == Writer(p.msg) IN
    /\ p \in writing
    /\ socket[s] = "open"
    /\ Len(stream[s]) < Capacity
    /\ stream' = [stream EXCEPT ![s] = Append(@, p)]
    /\ \/ /\ p.part < Pieces
          /\ writing' = (writing \ {p}) \cup {Piece(p.msg, p.part + 1)}
          /\ UNCHANGED <<phase, loop, ending>>
       \/ /\ p.part = Pieces
          /\ writing' = writing \ {p}
          /\ Sent(p.msg)
    /\ UNCHANGED <<answer, slots, method, queued, got, ends, troubles>>

\* Write returns an error, and so will every later one.  send() unlocks and ends the
\* connection; the read loop is in end() only once, for its own error comes second.
WriteFails(p) ==
    LET s == Writer(p.msg) IN
    /\ p \in writing
    /\ ~link
    /\ writing' = writing \ {p}
    /\ socket' = [socket EXCEPT ![s] = IF @ = "open" THEN "broken" ELSE @]
    /\ CallEnd(Sender(p.msg))
    /\ loop' = IF p.msg.type = "refusal" THEN [loop EXCEPT ![s] = "ending"] ELSE loop
    /\ UNCHANGED <<phase, answer, slots, method, queued, stream, got>>
    /\ UNCHANGED <<endReason, connected, network, troubles>>

-----------------------------------------------------------------------------
(* Read loops and the goroutines of methods *)

\* A call of a served protocol is handed to a goroutine of its own.
GotCall(s, c) ==
    /\ \/ /\ c \in Served
          /\ method' = [method EXCEPT ![c] = "running"]
          /\ UNCHANGED <<queued, loop>>
       \/ /\ c \notin Served
          /\ loop' = [loop EXCEPT ![s] = "refusing"]
          /\ queued' = queued \cup {Message("refusal", c)}
          /\ UNCHANGED method
    /\ UNCHANGED <<answer, slots, ending>>

\* A reply without a call panics, which ends the connection.  Replies decode, as both ends
\* know the types; one that does not is in module Connection.
GotReturn(s, m) ==
    /\ IF m.call \in slots
       THEN /\ slots' = slots \ {m.call}
            /\ answer' = [answer EXCEPT ![m.call] = m.type]
            /\ UNCHANGED <<loop, ending>>
       ELSE /\ loop' = [loop EXCEPT ![s] = "ending"]
            /\ CallEnd(The("reader", s))
            /\ UNCHANGED <<slots, answer>>
    /\ UNCHANGED <<method, queued>>

\* Read returns a piece, and the last one of a message completes it.
Read(s) ==
    LET p == Head(stream[Peer(s)]) IN
    /\ loop[s] = "reading"
    /\ socket[s] # "closed"
    /\ stream[Peer(s)] # <<>>
    /\ stream' = [stream EXCEPT ![Peer(s)] = Tail(@)]
    /\ \/ /\ got[s] + 1 < Pieces
          /\ got' = [got EXCEPT ![s] = @ + 1]
          /\ UNCHANGED <<answer, slots, method, queued, loop, ending>>
       \/ /\ got[s] + 1 = Pieces
          /\ got' = [got EXCEPT ![s] = 0]
          /\ IF p.msg.type = "call" THEN GotCall(s, p.msg.call) ELSE GotReturn(s, p.msg)
    /\ UNCHANGED <<phase, writing, ends, troubles>>

\* What was sent before the end may be lost or not.
ReadFails(s) ==
    /\ loop[s] = "reading"
    /\ ~link
    /\ loop' = [loop EXCEPT ![s] = "ending"]
    /\ CallEnd(The("reader", s))
    /\ UNCHANGED <<phase, answer, slots, method, messages, ends, troubles>>

\* Mutant: the calls that still wait are forgotten.
LeaveMutant(s) ==
    /\ loop[s] = "leaving"
    /\ loop' = [loop EXCEPT ![s] = "gone"]
    /\ UNCHANGED <<phase, answer, slots, method, messages, ending, ends, troubles>>

\* The deferred cleanup: every call of this end is released.
Leave(s) ==
    /\ loop[s] = "leaving"
    /\ loop' = [loop EXCEPT ![s] = "gone"]
    /\ slots' = {c \in slots : Caller[c] # s}
    /\ UNCHANGED <<phase, answer, method, messages, ending, ends, troubles>>

MethodReturns(c) ==
    /\ method[c] = "running"
    /\ method' = [method EXCEPT ![c] = "done"]
    /\ queued' = queued \cup {Message("result", c)}
    /\ UNCHANGED <<phase, answer, slots, writing, stream, got, loop, ending, ends, troubles>>

-----------------------------------------------------------------------------
(* The user and the network *)

Trouble == troubles < MaxTroubles /\ troubles' = troubles + 1

\* Once: on an end that is no longer connected it would change nothing.
Close(s) ==
    /\ s \in MayClose
    /\ ending[The("user", s)] = "not"
    /\ connected[s]
    /\ CallEnd(The("user", s))
    /\ Trouble
    /\ UNCHANGED <<phase, answer, slots, method, messages, loop, ends>>

Break ==
    /\ MayBreak
    /\ network
    /\ network' = FALSE
    /\ Trouble
    /\ UNCHANGED <<phase, answer, slots, method, messages, loop, ending>>
    /\ UNCHANGED <<endReason, connected, socket>>

-----------------------------------------------------------------------------
\* What a goroutine does that nothing but another goroutine can hold up.
CallerStep(c) == Acquire(c) \/ Return(c) \/ Release(c)
SendStep(m) ==
    \/ Lock(m)
    \/ \E n \in 1 .. Pieces : WritePiece(Piece(m, n)) \/ WriteFails(Piece(m, n))
LoopStep(s) == Read(s) \/ ReadFails(s) \/ Leave(s)

Next ==
    \/ \E c \in Calls : \/ Place(c) \/ GiveUp(c) \/ CallerStep(c) \/ MethodReturns(c)
    \/ \E m \in Messages : SendStep(m)
    \/ \E s \in Ends : \/ LoopStep(s) \/ Close(s)
    \/ \E g \in Goroutines : EndStep(g)
    \/ Break

Spec == Init /\ [][Next]_vars

\* Goroutines run, and methods return.  Nobody has to place a call, to give one
\* up or to close, and the network does not have to fail.
Fairness ==
    /\ \A c \in Calls : WF_vars(CallerStep(c)) /\ WF_vars(MethodReturns(c))
    /\ \A m \in Messages : WF_vars(SendStep(m))
    /\ \A s \in Ends : WF_vars(LoopStep(s))
    /\ \A g \in Goroutines : WF_vars(EndStep(g))

FairSpec == Spec /\ Fairness

=============================================================================
