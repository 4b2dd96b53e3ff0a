----------------------------- MODULE Connection -----------------------------
(***************************************************************************)
(* The life of one `connection` object of the Go runtime                   *)
(* (schema.generated.pb.go) from when connect() has sent the preamble      *)
(* and started readLoop: the goroutines placing calls, the read loop, the  *)
(* goroutines serving incoming calls, the connect hook and Close(), all    *)
(* sharing `connected`, `endReason`, the socket and the table of waiting   *)
(* calls.  Redialling, and what happens to the object afterwards, belong   *)
(* to another module.                                                      *)
(*                                                                         *)
(* A step is one access to shared state made without a lock, or one        *)
(* critical section.  `connected`, `endReason` and a stub's decoderErr are *)
(* read and written by several goroutines with no lock: every such access  *)
(* is a step of its own, seen in program order (one word at a time, as on  *)
(* amd64), and a read of a two-word interface concurrent with its first    *)
(* store may see the type word without the data word (TornRead).           *)
(***************************************************************************)
EXTENDS Naturals, Sequences

CONSTANTS
    Calls,        \* the calls placed by this endpoint, each with its goroutine
    HookCalls,    \* those the connect hook places, with the "always ready" context
    Impatient,    \* those whose context may end: CallTimeout or cancellation
    Incoming,     \* the calls the peer places on this endpoint
    IdSpace,      \* width of the call ID counter (2^64 in the code)
    ReplyKinds,   \* how the peer may answer: "resp", "rpcErr", "bad"
    MaxStrays,    \* bound: unsolicited or malformed things the peer may send
    HasHook,      \* is there a ConnectHook?
    WillClose,    \* does the application call Close()?
    MayStall,     \* may the peer stop reading without closing?
    NoCall,       \* "no call": a free slot, a reply to nothing we sent
    Reader, Closer, Hook   \* the goroutines that are not a call's or a handler's

ASSUME CallsAssumption == HookCalls \subseteq Calls /\ Impatient \subseteq Calls
ASSUME KindsAssumption == ReplyKinds \subseteq {"resp", "rpcErr", "bad"}
ASSUME IdAssumption == IdSpace \in Nat \ {0} /\ MaxStrays \in Nat
ASSUME FlagsAssumption == {HasHook, WillClose, MayStall} \subseteq BOOLEAN
ASSUME NamesAssumption ==
    /\ Calls \cap Incoming = {}
    /\ {NoCall, Reader, Closer, Hook} \cap (Calls \cup Incoming) = {}
    /\ Reader # Closer /\ Reader # Hook /\ Closer # Hook

VARIABLES
    connected,     \* connection.connected
    endReason,     \* connection.endReason, "none" for nil
    sock,          \* connection.conn: "open" or "closed"
    ready,         \* is connection.ready closed?
    done,          \* is RPCConnection.done closed?
    waitingCalls,  \* connection.waitingCalls: call ID -> call, NoCall where free
    nextID,        \* connection.nextID
    callID,        \* the ID each call was given
    waiter,        \* is each call's slot.waiter closed?
    decoded,       \* what each stub's decoder has produced: "none" or a reply kind
    replyOf,       \* the call the decoded reply was made for
    result,        \* what each call returns
    decoding,      \* the call whose decoder readLoop is about to run
    pc,            \* where each goroutine is
    err,           \* the error each goroutine passes to end()
    buf,           \* messages readLoop has read and not yet handled
    wire,          \* messages on their way to us
    outbox,        \* our requests at the peer, not answered yet
    peerUp,        \* does the peer still hold its end?
    stalled,       \* has it stopped reading, with every buffer in between full?
    strays         \* how many stray things the peer has sent

vars == <<connected, endReason, sock, ready, done, waitingCalls, nextID, callID,
          waiter, decoded, replyOf, result, decoding, pc, err, buf, wire,
          outbox, peerUp, stalled, strays>>

object    == <<connected, endReason, sock>>
table     == <<waitingCalls, nextID, callID>>
answers   == <<waiter, decoded, replyOf, decoding>>
incoming  == <<buf, wire>>
peer      == <<outbox, peerUp, stalled, strays>>

Ids     == 0 .. IdSpace - 1
Procs   == Calls \cup Incoming \cup {Reader, Closer, Hook}
Reasons == {"GenericError", "ProtocolError", "ApplicationError",
            "ConnectionError", "Shutdown"}
EndPCs  == {"endTest", "endStore", "endFlag", "endClose"}

Init ==
    /\ connected = TRUE
    /\ endReason = "none"
    /\ sock = "open"
    /\ ready = FALSE
    \* Close() may have run already, and have ended an older connection.
    /\ done \in {FALSE, WillClose}
    /\ waitingCalls = [i \in Ids |-> NoCall]
    /\ nextID = 0
    /\ callID = [c \in Calls |-> 0]
    /\ waiter = [c \in Calls |-> FALSE]
    /\ decoded = [c \in Calls |-> "none"]
    /\ replyOf = [c \in Calls |-> NoCall]
    /\ result = [c \in Calls |-> "none"]
    /\ decoding = NoCall
    /\ pc = [[p \in Procs |-> "idle"] EXCEPT
               ![Reader] = "start",
               ![Hook]   = IF HasHook THEN "running" ELSE "markReady",
               ![Closer] = IF done THEN "closed" ELSE "idle"]
    /\ err = [p \in Procs |-> "none"]
    /\ buf = <<>>
    /\ wire = <<>>
    /\ outbox = {}
    /\ peerUp = TRUE
    /\ stalled = FALSE
    /\ strays = 0

Goto(p, l) == pc' = [pc EXCEPT ![p] = l]

\* Goroutine p calls end(conn, e).
CallEnd(p, e) ==
    /\ err' = [err EXCEPT ![p] = e]
    /\ Goto(p, "endTest")

-----------------------------------------------------------------------------
(* end(conn, err): an unsynchronised test, store, flag, close.             *)

\* Where the caller of end() goes on.  readLoop passes Shutdown only from its
\* early exit, before the deferred cleanup is registered.  A handler, a refused
\* call and a failing readLoop may call end() a second time on the way out:
\* `connected` is false by then, so the second call does nothing.
AfterEnd(p) ==
    CASE p \in Calls    -> "release"
      [] p \in Incoming -> "gone"
      [] p = Reader     -> IF err[p] = "Shutdown" THEN "abandoned" ELSE "cleanup"
      [] p = Hook       -> "markReady"
      [] p = Closer     -> "closed"

EndTest(p) ==
    /\ pc[p] = "endTest"
    /\ Goto(p, IF connected THEN "endStore" ELSE AfterEnd(p))
    /\ UNCHANGED <<object, ready, done, table, answers, result, err, incoming, peer>>

EndStore(p) ==
    /\ pc[p] = "endStore"
    /\ endReason' = err[p]
    /\ Goto(p, "endFlag")
    /\ UNCHANGED <<connected, sock, ready, done, table, answers, result, err, incoming, peer>>

EndFlag(p) ==
    /\ pc[p] = "endFlag"
    /\ connected' = FALSE
    /\ Goto(p, "endClose")
    /\ UNCHANGED <<endReason, sock, ready, done, table, answers, result, err, incoming, peer>>

\* Mutant: the socket is left open.
EndCloseMutant(p) ==
    /\ pc[p] = "endClose"
    /\ Goto(p, AfterEnd(p))
    /\ UNCHANGED <<object, ready, done, table, answers, result, err, incoming, peer>>

EndClose(p) ==
    /\ pc[p] = "endClose"
    /\ sock' = "closed"
    /\ Goto(p, AfterEnd(p))
    /\ UNCHANGED <<connected, endReason, ready, done, table, answers, result, err, incoming, peer>>

EndStep(p) == EndTest(p) \/ EndStore(p) \/ EndFlag(p) \/ EndClose(p)

-----------------------------------------------------------------------------
(* call(), and the generated client stub around it.                        *)

StartCall(c) ==
    /\ pc[c] = "idle"
    /\ c \in HookCalls => pc[Hook] = "running"
    /\ Goto(c, "waitReady")
    /\ UNCHANGED <<object, ready, done, table, answers, result, err, incoming, peer>>

\* Mutant: no wait for readiness.
SeeReadyMutant(c) ==
    /\ pc[c] = "waitReady"
    /\ Goto(c, "check")
    /\ UNCHANGED <<object, ready, done, table, answers, result, err, incoming, peer>>

SeeReady(c) ==
    /\ pc[c] = "waitReady"
    /\ ready \/ c \in HookCalls
    /\ Goto(c, "check")
    /\ UNCHANGED <<object, ready, done, table, answers, result, err, incoming, peer>>

CheckConnected(c) ==
    /\ pc[c] = "check"
    /\ \/ connected /\ Goto(c, "acquire") /\ UNCHANGED result
       \/ ~connected /\ Goto(c, "return") /\ result' = [result EXCEPT ![c] = "ended"]
    /\ UNCHANGED <<object, ready, done, table, answers, err, incoming, peer>>

\* The first free ID at or after nextID, wrapping around.
FirstFree(i) ==
    \E k \in 0 .. IdSpace - 1 :
        /\ i = (nextID + k) % IdSpace
        /\ waitingCalls[i] = NoCall
        /\ \A j \in 0 .. k - 1 : waitingCalls[(nextID + j) % IdSpace] # NoCall

\* acquireCallSlot: with every ID taken the loop spins forever ("large enough
\* to allow us to assume that there are always slots available").
Acquire(c) ==
    /\ pc[c] = "acquire"
    /\ \E i \in Ids :
         /\ FirstFree(i)
         /\ waitingCalls' = [waitingCalls EXCEPT ![i] = c]
         /\ callID' = [callID EXCEPT ![c] = i]
         /\ nextID' = (i + 1) % IdSpace
    /\ Goto(c, "write")
    /\ UNCHANGED <<object, ready, done, answers, result, err, incoming, peer>>

\* What net.Conn.Write can do.  Nothing tells a writer that the peer has just
\* gone: the bytes may vanish into the kernel's buffer.  While the peer does
\* not read, Write blocks: send() sets no deadline, and whoever else wants to
\* write waits for writeLock.
WriteSucceeds == sock = "open" /\ ~stalled
WriteFails    == sock = "closed" \/ ~peerUp

SendRequest(c) ==
    /\ pc[c] = "write"
    /\ \/ /\ WriteSucceeds
          /\ outbox' = IF peerUp THEN outbox \cup {[of |-> c, id |-> callID[c]]}
                                 ELSE outbox
          /\ Goto(c, "wait")
          /\ UNCHANGED err
       \/ /\ WriteFails
          /\ CallEnd(c, "ConnectionError")
          /\ UNCHANGED outbox
    /\ UNCHANGED <<object, ready, done, table, answers, result, incoming, peerUp, stalled, strays>>

\* Mutant: a failed send keeps its slot.
ReleaseUnsentMutant(c) ==
    /\ pc[c] = "release"
    /\ result' = [result EXCEPT ![c] = "sendErr"]
    /\ Goto(c, "return")
    /\ UNCHANGED <<object, ready, done, table, answers, err, incoming, peer>>

\* After a failed send: findAndReleaseCallSlot, which panics on a free slot.
ReleaseUnsent(c) ==
    /\ pc[c] = "release"
    /\ \/ /\ waitingCalls[callID[c]] = NoCall
          /\ Goto(c, "panicked")
          /\ UNCHANGED <<waitingCalls, result>>
       \/ /\ waitingCalls[callID[c]] # NoCall
          /\ waitingCalls' = [waitingCalls EXCEPT ![callID[c]] = NoCall]
          /\ result' = [result EXCEPT ![c] = "sendErr"]
          /\ Goto(c, "return")
    /\ UNCHANGED <<object, ready, done, nextID, callID, answers, err, incoming, peer>>

\* A reader of endReason can meet the half-written interface.
TornRead == endReason = "none" /\ \E p \in Procs : pc[p] = "endStore"

\* Mutant: a closed waiter is taken for a reply.
SeeWaiterMutant(c) ==
    /\ pc[c] = "wait"
    /\ waiter[c]
    /\ result' = [result EXCEPT ![c] = "ok"]
    /\ Goto(c, "return")
    /\ UNCHANGED <<object, ready, done, table, answers, err, incoming, peer>>

SeeWaiter(c) ==
    /\ pc[c] = "wait"
    /\ waiter[c]
    /\ \E r \in {IF endReason = "none" THEN "ok" ELSE "ended"}
                  \cup (IF TornRead THEN {"torn"} ELSE {}) :
         result' = [result EXCEPT ![c] = r]
    /\ Goto(c, "return")
    /\ UNCHANGED <<object, ready, done, table, answers, err, incoming, peer>>

\* Mutant: the call gives its slot back when its context ends.
ContextEndsMutant(c) ==
    /\ c \in Impatient
    /\ pc[c] \in {"waitReady", "wait"}
    /\ result' = [result EXCEPT ![c] = "ctx"]
    /\ waitingCalls' = [i \in Ids |-> IF waitingCalls[i] = c THEN NoCall ELSE waitingCalls[i]]
    /\ Goto(c, "return")
    /\ UNCHANGED <<object, ready, done, nextID, callID, answers, err, incoming, peer>>

\* Mutant: the wait for the reply does not look at the context.
ContextEndsMutant2(c) ==
    /\ c \in Impatient
    /\ pc[c] = "waitReady"
    /\ result' = [result EXCEPT ![c] = "ctx"]
    /\ Goto(c, "return")
    /\ UNCHANGED <<object, ready, done, table, answers, err, incoming, peer>>

\* The context ends while waiting for readiness or for the reply; the slot
\* stays registered in the second case.
ContextEnds(c) ==
    /\ c \in Impatient
    /\ pc[c] \in {"waitReady", "wait"}
    /\ result' = [result EXCEPT ![c] = "ctx"]
    /\ Goto(c, "return")
    /\ UNCHANGED <<object, ready, done, table, answers, err, incoming, peer>>

\* The stub: decoderErr, set by the decoder, takes precedence over call()'s
\* error.  After a timeout the read loop may be storing it at this moment.
ReturnToCaller(c) ==
    /\ pc[c] = "return"
    /\ \E r \in {CASE decoded[c] = "rpcErr" -> "remote"
                   [] decoded[c] = "bad"    -> "decodeErr"
                   [] OTHER                 -> result[c]}
                  \cup (IF decoding = c /\ Head(buf).kind # "resp" THEN {"torn"} ELSE {}) :
         result' = [result EXCEPT ![c] = r]
    /\ Goto(c, "done")
    /\ UNCHANGED <<object, ready, done, table, answers, err, incoming, peer>>

CallStep(c) ==
    \/ SeeReady(c) \/ CheckConnected(c) \/ Acquire(c) \/ SendRequest(c)
    \/ ReleaseUnsent(c) \/ SeeWaiter(c) \/ ContextEnds(c) \/ ReturnToCaller(c)

-----------------------------------------------------------------------------
(* readLoop() and gotMessage().                                            *)

ReaderStarts ==
    /\ pc[Reader] = "start"
    /\ \/ done /\ CallEnd(Reader, "Shutdown")
       \/ ~done /\ Goto(Reader, "preamble") /\ UNCHANGED err
    /\ UNCHANGED <<object, ready, done, table, answers, result, incoming, peer>>

\* The preamble can be short (socket closed, peer gone) or wrong.
ReadPreamble ==
    /\ pc[Reader] = "preamble"
    /\ \/ /\ sock = "open"
          /\ Goto(Reader, "read")
          /\ UNCHANGED <<err, strays>>
       \/ /\ sock = "closed" \/ ~peerUp
          /\ CallEnd(Reader, "ProtocolError")
          /\ UNCHANGED strays
       \/ /\ strays < MaxStrays
          /\ strays' = strays + 1
          /\ CallEnd(Reader, "ProtocolError")
    /\ UNCHANGED <<object, ready, done, table, answers, result, incoming, outbox, peerUp, stalled>>

\* Read returns when every complete message in the buffer has been handled.
ReadSome ==
    /\ pc[Reader] = "read"
    /\ buf = <<>>
    /\ sock = "open"
    /\ \E k \in 1 .. Len(wire) :
         /\ buf' = SubSeq(wire, 1, k)
         /\ wire' = SubSeq(wire, k + 1, Len(wire))
    /\ UNCHANGED <<object, ready, done, table, answers, result, pc, err, peer>>

ReadFails ==
    /\ pc[Reader] = "read"
    /\ buf = <<>>
    /\ sock = "closed" \/ (~peerUp /\ wire = <<>>)
    /\ CallEnd(Reader, "ConnectionError")
    /\ UNCHANGED <<object, ready, done, table, answers, result, incoming, peer>>

Handling(type) ==
    /\ pc[Reader] = "read"
    /\ buf # <<>>
    /\ Head(buf).type = type

\* Mutant: the slot is found but not deleted.
TakeReturnMutant ==
    /\ Handling("return")
    /\ LET i == Head(buf).id IN
       \/ /\ waitingCalls[i] # NoCall
          /\ decoding' = waitingCalls[i]
          /\ Goto(Reader, "decode")
          /\ UNCHANGED err
       \/ /\ waitingCalls[i] = NoCall
          /\ CallEnd(Reader, "GenericError")
          /\ UNCHANGED decoding
    /\ UNCHANGED <<object, ready, done, table, waiter, decoded, replyOf,
                   result, incoming, peer>>

\* findAndReleaseCallSlot for a method return.  On a free slot it panics, and
\* the deferred function of readLoop turns the panic into a GenericError.
TakeReturn ==
    /\ Handling("return")
    /\ LET i == Head(buf).id IN
       \/ /\ waitingCalls[i] # NoCall
          /\ waitingCalls' = [waitingCalls EXCEPT ![i] = NoCall]
          /\ decoding' = waitingCalls[i]
          /\ Goto(Reader, "decode")
          /\ UNCHANGED err
       \/ /\ waitingCalls[i] = NoCall
          /\ CallEnd(Reader, "GenericError")
          /\ UNCHANGED <<waitingCalls, decoding>>
    /\ UNCHANGED <<object, ready, done, nextID, callID, waiter, decoded, replyOf,
                   result, incoming, peer>>

\* The decoder runs in the read loop.  When it fails, the waiter stays open.
Decode ==
    /\ pc[Reader] = "decode"
    /\ decoded' = [decoded EXCEPT ![decoding] = Head(buf).kind]
    /\ replyOf' = [replyOf EXCEPT ![decoding] = Head(buf).of]
    /\ \/ /\ Head(buf).kind # "bad"
          /\ waiter' = [waiter EXCEPT ![decoding] = TRUE]
          /\ Goto(Reader, "read")
          /\ UNCHANGED err
       \/ /\ Head(buf).kind = "bad"
          /\ CallEnd(Reader, "ProtocolError")
          /\ UNCHANGED waiter
    /\ decoding' = NoCall
    /\ buf' = Tail(buf)
    /\ UNCHANGED <<object, ready, done, table, result, wire, peer>>

\* A method call for a protocol served here: a goroutine takes it over.
TakeCall ==
    /\ Handling("call")
    /\ Head(buf).kind = "known"
    /\ Goto(Head(buf).of, "running")
    /\ buf' = Tail(buf)
    /\ UNCHANGED <<object, ready, done, table, answers, result, err, wire, peer>>

\* A method call for an unknown protocol: the read loop itself writes the
\* error reply, then terminates the connection.
RefuseCall ==
    /\ Handling("call")
    /\ Head(buf).kind = "unknown"
    /\ \/ WriteSucceeds /\ CallEnd(Reader, "ProtocolError")
       \/ WriteFails /\ CallEnd(Reader, "ConnectionError")
    /\ buf' = Tail(buf)
    /\ UNCHANGED <<object, ready, done, table, answers, result, wire, peer>>

\* A frame that cannot be parsed ends the connection; one of an unknown
\* message type is ignored.
TakeGarbled ==
    /\ Handling("garbled")
    /\ CallEnd(Reader, "ProtocolError")
    /\ UNCHANGED <<object, ready, done, table, answers, result, incoming, peer>>

SkipUnknownType ==
    /\ Handling("other")
    /\ buf' = Tail(buf)
    /\ UNCHANGED <<object, ready, done, table, answers, result, pc, err, wire, peer>>

\* Mutant: the slots are dropped without waking their callers.
ReleaseAllMutant ==
    /\ pc[Reader] = "cleanup"
    /\ waitingCalls' = [i \in Ids |-> NoCall]
    /\ Goto(Reader, "exited")
    /\ UNCHANGED <<object, ready, done, nextID, callID, answers, result, err, incoming, peer>>

\* The deferred function: releaseAllCallSlots.
ReleaseAll ==
    /\ pc[Reader] = "cleanup"
    /\ waiter' = [c \in Calls |-> waiter[c] \/ \E i \in Ids : waitingCalls[i] = c]
    /\ waitingCalls' = [i \in Ids |-> NoCall]
    /\ Goto(Reader, "exited")
    /\ UNCHANGED <<object, ready, done, nextID, callID, decoded, replyOf, decoding,
                   result, err, incoming, peer>>

ReaderStep ==
    \/ ReaderStarts \/ ReadPreamble \/ ReadSome \/ ReadFails \/ TakeReturn
    \/ Decode \/ TakeCall \/ RefuseCall \/ TakeGarbled \/ SkipUnknownType
    \/ ReleaseAll

-----------------------------------------------------------------------------
(* Handlers of incoming calls, the connect hook, Close().                  *)

\* Whatever the method did (result, error, panic), a reply is written.
HandlerReplies(m) ==
    /\ pc[m] = "running"
    /\ \/ WriteSucceeds /\ Goto(m, "replied") /\ UNCHANGED err
       \/ WriteFails /\ CallEnd(m, "ConnectionError")
    /\ UNCHANGED <<object, ready, done, table, answers, result, incoming, peer>>

HookReturns ==
    /\ pc[Hook] = "running"
    /\ \A c \in HookCalls : pc[c] \in {"idle", "done"}
    /\ \/ Goto(Hook, "markReady") /\ UNCHANGED err
       \/ CallEnd(Hook, "ApplicationError")
    /\ UNCHANGED <<object, ready, done, table, answers, result, incoming, peer>>

MarkReady ==
    /\ pc[Hook] = "markReady"
    /\ ready' = TRUE
    /\ Goto(Hook, "done")
    /\ UNCHANGED <<object, done, table, answers, result, err, incoming, peer>>

Close ==
    /\ WillClose
    /\ pc[Closer] = "idle"
    /\ done' = TRUE
    /\ CallEnd(Closer, "Shutdown")
    /\ UNCHANGED <<object, ready, table, answers, result, incoming, peer>>

-----------------------------------------------------------------------------
(* The peer and the network.                                               *)

Arrives(m) == peerUp /\ wire' = Append(wire, m)

PeerReplies ==
    /\ \E r \in outbox, k \in ReplyKinds :
         /\ Arrives([type |-> "return", id |-> r.id, of |-> r.of, kind |-> k])
         /\ outbox' = outbox \ {r}
    /\ UNCHANGED <<object, ready, done, table, answers, result, pc, err, buf, peerUp, stalled, strays>>

PeerCalls ==
    /\ \E m \in Incoming :
         /\ pc[m] = "idle"
         /\ Goto(m, "sent")
         /\ Arrives([type |-> "call", id |-> 0, of |-> m, kind |-> "known"])
    /\ UNCHANGED <<object, ready, done, table, answers, result, err, buf, peer>>

\* Nothing this side can serve or match: a return nobody waits for here (or a
\* second one), a call to an unknown protocol, a frame that does not parse, a
\* message of an unknown type.
PeerStrays ==
    /\ strays < MaxStrays
    /\ strays' = strays + 1
    /\ \/ \E i \in Ids, k \in ReplyKinds :
            Arrives([type |-> "return", id |-> i, of |-> NoCall, kind |-> k])
       \/ \E t \in {"call", "garbled", "other"} :
            Arrives([type |-> t, id |-> 0, of |-> NoCall, kind |-> "unknown"])
    /\ UNCHANGED <<object, ready, done, table, answers, result, pc, err, buf, outbox, peerUp, stalled>>

\* The peer closes or is lost; what had not arrived yet may be lost with it.
PeerLeaves ==
    /\ peerUp
    /\ peerUp' = FALSE
    /\ stalled' = FALSE
    /\ outbox' = {}
    /\ \E k \in 0 .. Len(wire) : wire' = SubSeq(wire, 1, k)
    /\ UNCHANGED <<object, ready, done, table, answers, result, pc, err, buf, strays>>

\* The peer stops reading for good.  (A pause is no more than a slow step.)
PeerStalls ==
    /\ MayStall /\ peerUp
    /\ stalled' = TRUE
    /\ UNCHANGED <<object, ready, done, table, answers, result, pc, err, incoming,
                   outbox, peerUp, strays>>

PeerStep == PeerReplies \/ PeerCalls \/ PeerStrays \/ PeerLeaves \/ PeerStalls

-----------------------------------------------------------------------------
Next ==
    \/ \E p \in Procs : EndStep(p)
    \/ \E c \in Calls : StartCall(c) \/ CallStep(c)
    \/ ReaderStep
    \/ \E m \in Incoming : HandlerReplies(m)
    \/ HookReturns \/ MarkReady
    \/ Close
    \/ PeerStep

Spec == Init /\ [][Next]_vars

\* A goroutine that can go on does.  Nobody promises that the application
\* places a call, closes the connection or returns from a hook or a method,
\* nor that the peer answers or leaves.
Fairness ==
    /\ \A p \in Procs : WF_vars(EndStep(p))
    /\ \A c \in Calls : WF_vars(CallStep(c))
    /\ WF_vars(ReaderStep)
    /\ WF_vars(MarkReady)

FairSpec == Spec /\ Fairness

-----------------------------------------------------------------------------
(* Properties.                                                             *)

PCs ==
    EndPCs \cup
    {"idle", "waitReady", "check", "acquire", "write", "wait", "release", "return",
     "done", "panicked", "start", "preamble", "read", "decode", "cleanup", "exited",
     "abandoned", "running", "markReady", "closed", "sent", "replied", "gone"}
Results ==
    {"none", "ok", "ended", "torn", "ctx", "sendErr", "remote", "decodeErr"}
Messages ==
    [type : {"return"}, id : Ids, of : Calls \cup {NoCall}, kind : ReplyKinds]
    \cup [type : {"call"}, id : {0}, of : Incoming, kind : {"known"}]
    \cup [type : {"call", "garbled", "other"}, id : {0}, of : {NoCall}, kind : {"unknown"}]

\* Every variable has its type.
TypeOK ==
    /\ connected \in BOOLEAN
    /\ endReason \in Reasons \cup {"none"}
    /\ sock \in {"open", "closed"}
    /\ ready \in BOOLEAN
    /\ done \in BOOLEAN
    /\ waitingCalls \in [Ids -> Calls \cup {NoCall}]
    /\ nextID \in Ids
    /\ callID \in [Calls -> Ids]
    /\ waiter \in [Calls -> BOOLEAN]
    /\ decoded \in [Calls -> ReplyKinds \cup {"none"}]
    /\ replyOf \in [Calls -> Calls \cup {NoCall}]
    /\ result \in [Calls -> Results]
    /\ decoding \in Calls \cup {NoCall}
    /\ err \in [Procs -> Reasons \cup {"none"}]
    /\ pc \in [Procs -> PCs]
    /\ buf \in Seq(Messages)
    /\ wire \in Seq(Messages)
    /\ outbox \in SUBSET [of : Calls, id : Ids]
    /\ peerUp \in BOOLEAN
    /\ stalled \in BOOLEAN
    /\ strays \in 0 .. MaxStrays

\* A call that returns without an error has decoded a result message: neither
\* the end of the connection, nor a timeout, nor an error reply is ever taken
\* for success (call() returns endReason, nil or not, when its waiter closes).
NoFalseSuccess ==
    \A c \in Calls : pc[c] = "done" /\ result[c] = "ok" => decoded[c] = "resp"

\* As long as the peer answers each request once, a call only ever decodes the
\* reply made for it, even when call IDs are reused: a call that timed out
\* keeps its ID registered until its late reply has come.
RepliesMatch ==
    strays = 0 => \A c \in Calls : replyOf[c] \in {NoCall, c}

\* A slot's channel is open while the slot can still be found, so neither the
\* read loop nor releaseAllCallSlots ever closes it twice (a panic in Go).
WaiterClosedOnce ==
    \A c \in Calls :
        (decoding = c \/ \E i \in Ids : waitingCalls[i] = c) => ~waiter[c]

\* A returned call has left a slot behind only if its context ended: every
\* other way out of call() has freed it.
LeakOnlyOnTimeout ==
    \A i \in Ids, c \in Calls :
        waitingCalls[i] = c /\ pc[c] = "done" => result[c] = "ctx"

\* The connection ends for a reason outside this endpoint's traffic: Close(),
\* a failing hook, a lost peer, or a peer that breaks the protocol.  No
\* interleaving of calls, timeouts, late replies and handlers brings it down.
NoSpuriousEnd ==
    ~connected => \/ done
                  \/ ~peerUp
                  \/ strays > 0
                  \/ err[Hook] = "ApplicationError"
                  \/ \E c \in Calls : decoded[c] = "bad"

\* "All RPC calls wait until the connect hook has finished before being allowed
\* to run": until then only the hook's own calls reach the peer.
HookGoesFirst ==
    HasHook /\ pc[Hook] \in {"running", "markReady"} \cup EndPCs
        => \A r \in outbox : r.of \in HookCalls

\* A connection that has ended winds down: its socket is closed and its read loop,
\* which is the one to call the disconnect hook and to dial again, is let go,
\* wherever it was and even if the peer holds on to its end.
ReadLoopExits == ~connected ~> sock = "closed" /\ pc[Reader] \in {"exited", "abandoned"}

\* After releaseAllCallSlots, another call whose send failed has released the slot
\* that c had taken under the same ID.
Robbed(c) ==
    \E d \in Calls \ {c} :
        callID[d] = callID[c] /\ err[d] # "none" /\ pc[d] \in {"return", "done"}

\* The four ways in which an ended connection leaves a call waiting for good
\* (unless its context ends): its reply could not be decoded; readLoop found
\* `done` closed and returned before registering its cleanup; the call took
\* its slot after releaseAllCallSlots, and still has it, or was robbed of it.
Stranded(c) ==
    /\ pc[c] = "wait"
    /\ \/ decoded[c] = "bad"
       \/ pc[Reader] = "abandoned"
       \/ pc[Reader] = "exited" /\ (waitingCalls[callID[c]] = c \/ Robbed(c))

\* When a connection ends, every call waiting on it returns or is stranded in
\* one of those four ways; there is no fifth.
PendingCallsReleased ==
    \A c \in Calls :
        ~connected /\ pc[c] = "wait" ~> pc[c] = "done" \/ Stranded(c)

\* What the end of a connection owes to those who wait, as a matter of safety: once
\* the read loop is gone every waiting call has been woken, or is stranded in one of
\* those ways.  (That who is woken returns is left to PendingCallsReleased.)
WakesWhoWaits ==
    pc[Reader] \in {"exited", "abandoned"} =>
        \A c \in Calls : pc[c] = "wait" => waiter[c] \/ Stranded(c)

\* A call whose context may end returns (or panics), whatever the connection
\* does and even if the peer never answers, provided the peer keeps reading.
ImpatientCallsReturn ==
    <>[](~stalled) =>
        \A c \in Impatient : pc[c] = "waitReady" ~> pc[c] \in {"done", "panicked"}

\* findAndReleaseCallSlot asserts that the slot it is asked to release exists;
\* call() never trips over the assertion.
ReleaseNeverPanics == \A c \in Calls : pc[c] # "panicked"

=============================================================================
