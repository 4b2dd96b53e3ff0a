----------------------------- MODULE Lifecycle ------------------------------
(***************************************************************************)
(* The life of an RPCConnection of the Go runtime (schema.generated.pb.go):*)
(* dialling, installing a net.Conn in a `connection` object, the chain of  *)
(* read loops that each dial again when they end, the connect and          *)
(* disconnect hooks, Close().  What happens on one object between install  *)
(* and end is the subject of module Connection; here a read loop only      *)
(* starts, reads and fails.                                                *)
(*                                                                         *)
(* Goroutine <<"loop", 0>> is the one that first dials (or connects        *)
(* options.Conn); <<"loop", s>> is the read loop started on socket s, which*)
(* dials again once it has ended; <<"hook", s>> runs the connect hook for  *)
(* socket s.  A Go panic (closing a closed channel or a nil net.Conn) ends *)
(* the process.                                                            *)
(***************************************************************************)
EXTENDS Naturals

CONSTANTS
    MaxDials,    \* bound: successful dials, options.Conn included
    Options,     \* the RPCOptions an application may pass
    MayGiveUp,   \* may the dialer return ErrGiveUp?
    WillClose    \* does the application call Close()?

\* Which of the options that matter here are set.
RPCOptions ==
    {o \in [conn : BOOLEAN, dialer : BOOLEAN,
             onConnect : BOOLEAN, onDisconnect : BOOLEAN] : o.conn \/ o.dialer}

ASSUME BoundAssumption == MaxDials \in Nat \ {0}
ASSUME OptionsAssumption == Options \subseteq RPCOptions
ASSUME FlagsAssumption == {MayGiveUp, WillClose} \subseteq BOOLEAN

Sockets == 1 .. MaxDials
Nil     == 0                       \* a nil net.Conn
Objects == 1 .. MaxDials + 1
Loop(g) == <<"loop", g>>
Hook(s) == <<"hook", s>>
Closer  == <<"close", 0>>
Loops   == {Loop(g) : g \in 0 .. MaxDials}
Hooks   == {Hook(s) : s \in Sockets}
Procs   == Loops \cup Hooks \cup {Closer}

VARIABLES
    options,    \* the options this RPCConnection was made with
    done,       \* is RPCConnection.done closed?
    cur,        \* RPCConnection.conn: the current object
    allocated,  \* objects 1 .. allocated have been made by newConnection
    ready,      \* is each object's `ready` closed?
    connected,  \* each object's `connected`
    connOf,     \* each object's net.Conn, or Nil
    sock,       \* each socket: "unused", "open", "lost" (by the peer), "closed" (by us)
    pc,         \* where each goroutine is
    obj,        \* the object each goroutine works on (0: none yet)
    dialed,     \* the socket each dialling goroutine is connecting (0: none)
    goesTo,     \* where each goroutine goes on after end()
    notified,   \* sockets whose read loop has called the disconnect hook
    bornDead,   \* history: sockets installed in an object that had ended already
    displaced,  \* history: sockets whose object was given another one
    crash       \* "none", or the panic that ended the process

vars == <<options, done, cur, allocated, ready, connected, connOf, sock, pc, obj, dialed,
          goesTo, notified, bornDead, displaced, crash>>

objects == <<cur, allocated, ready, connected, connOf>>

\* What the runtime itself never reads, and the options, which never change.
notes == <<options, notified, bornDead, displaced>>

Init ==
    /\ options \in Options
    /\ done = FALSE
    /\ cur = 1
    /\ allocated = 1
    /\ ready = [o \in Objects |-> FALSE]
    /\ connected = [o \in Objects |-> TRUE]
    /\ connOf = [o \in Objects |-> Nil]
    /\ sock = [s \in Sockets |-> IF options.conn /\ s = 1 THEN "open" ELSE "unused"]
    /\ pc = [[p \in Procs |-> "none"] EXCEPT
               ![Loop(0)] = IF options.conn THEN "refresh" ELSE "dial",
               ![Closer]  = "idle"]
    /\ obj = [p \in Procs |-> 0]
    /\ dialed = [[p \in Loops |-> 0] EXCEPT ![Loop(0)] = IF options.conn THEN 1 ELSE 0]
    /\ goesTo = [p \in Procs |-> "none"]
    /\ notified = {}
    /\ bornDead = {}
    /\ displaced = {}
    /\ crash = "none"

At(p, l)   == crash = "none" /\ pc[p] = l
Goto(p, l) == pc' = [pc EXCEPT ![p] = l]

\* p calls end(o, ...) and goes on at l.
CallEnd(p, o, l) ==
    /\ Goto(p, "endTest")
    /\ obj' = [obj EXCEPT ![p] = o]
    /\ goesTo' = [goesTo EXCEPT ![p] = l]

\* close(o.ready), which panics when it is closed already.
CloseReady(o) ==
    IF ready[o] THEN crash' = "ready closed twice" /\ UNCHANGED ready
                ELSE ready' = [ready EXCEPT ![o] = TRUE] /\ UNCHANGED crash

-----------------------------------------------------------------------------
(* end(): an unsynchronised test, the flag, whether there is a net.Conn,   *)
(* Close() of the one that there is then.                                  *)

EndTest(p) ==
    /\ At(p, "endTest")
    /\ Goto(p, IF connected[obj[p]] THEN "endFlag" ELSE goesTo[p])
    /\ UNCHANGED <<done, objects, sock, obj, dialed, goesTo, notes, crash>>

EndFlag(p) ==
    /\ At(p, "endFlag")
    /\ connected' = [connected EXCEPT ![obj[p]] = FALSE]
    /\ Goto(p, "endCheck")
    /\ UNCHANGED <<done, cur, allocated, ready, connOf, sock, obj, dialed, goesTo,
                   notes, crash>>

EndCheck(p) ==
    /\ At(p, "endCheck")
    /\ Goto(p, IF connOf[obj[p]] = Nil THEN goesTo[p] ELSE "endClose")
    /\ UNCHANGED <<done, objects, sock, obj, dialed, goesTo, notes, crash>>

\* conn.conn.Close(): connect() may have set conn.conn to nil after the check.
EndClose(p) ==
    /\ At(p, "endClose")
    /\ sock' = [s \in Sockets |-> IF s = connOf[obj[p]] THEN "closed" ELSE sock[s]]
    /\ crash' = IF connOf[obj[p]] = Nil THEN "nil closed" ELSE crash
    /\ Goto(p, goesTo[p])
    /\ UNCHANGED <<done, objects, obj, dialed, goesTo, notes>>

EndStep(p) == EndTest(p) \/ EndFlag(p) \/ EndCheck(p) \/ EndClose(p)

-----------------------------------------------------------------------------
(* dial() and connect().                                                   *)

DialStart(g) ==
    /\ At(Loop(g), "dial")
    /\ Goto(Loop(g), IF done THEN "gone" ELSE "dialing")
    /\ UNCHANGED <<done, objects, sock, obj, dialed, goesTo, notes, crash>>

DialFails(g) ==
    /\ At(Loop(g), "dialing")
    /\ Goto(Loop(g), "backoff")
    /\ UNCHANGED <<done, objects, sock, obj, dialed, goesTo, notes, crash>>

\* ErrGiveUp: close(c.done), which panics after Close().
DialGivesUp(g) ==
    /\ MayGiveUp
    /\ At(Loop(g), "dialing")
    /\ done' = TRUE
    /\ crash' = IF done THEN "done closed twice" ELSE crash
    /\ Goto(Loop(g), "gone")
    /\ UNCHANGED <<objects, sock, obj, dialed, goesTo, notes>>

DialSucceeds(g) ==
    /\ At(Loop(g), "dialing")
    /\ \E s \in Sockets :
         /\ sock[s] = "unused"
         /\ \A r \in 1 .. s - 1 : sock[r] # "unused"
         /\ sock' = [sock EXCEPT ![s] = "open"]
         /\ dialed' = [dialed EXCEPT ![Loop(g)] = s]
    /\ Goto(Loop(g), "refresh")
    /\ UNCHANGED <<done, objects, obj, goesTo, notes, crash>>

\* Mutant: the fresh object is not made the current one.
RefreshMutant(g) ==
    /\ At(Loop(g), "refresh")
    /\ \/ /\ ready[cur]
          /\ allocated' = allocated + 1
       \/ /\ ~ready[cur]
          /\ UNCHANGED allocated
    /\ obj' = [obj EXCEPT ![Loop(g)] = allocated']
    /\ Goto(Loop(g), "install")
    /\ UNCHANGED <<done, cur, ready, connected, connOf, sock, dialed, goesTo, notes, crash>>

\* refreshInnerConn: a new object if the current one has been marked ready.
Refresh(g) ==
    /\ At(Loop(g), "refresh")
    /\ \/ /\ ready[cur]
          /\ allocated' = allocated + 1
          /\ cur' = allocated'
       \/ /\ ~ready[cur]
          /\ UNCHANGED <<allocated, cur>>
    /\ obj' = [obj EXCEPT ![Loop(g)] = cur']
    /\ Goto(Loop(g), "install")
    /\ UNCHANGED <<done, ready, connected, connOf, sock, dialed, goesTo, notes, crash>>

\* cc.conn = conn
Install(g) ==
    LET o == obj[Loop(g)]  s == dialed[Loop(g)] IN
    /\ At(Loop(g), "install")
    /\ connOf' = [connOf EXCEPT ![o] = s]
    /\ bornDead' = IF connected[o] THEN bornDead ELSE bornDead \cup {s}
    /\ displaced' = displaced \cup ({connOf[o]} \ {Nil})
    /\ Goto(Loop(g), "preamble")
    /\ UNCHANGED <<options, done, cur, allocated, ready, connected, sock, obj, dialed,
                   goesTo, notified, crash>>

PreambleSent(g) ==
    LET s == dialed[Loop(g)] IN
    /\ At(Loop(g), "preamble")
    /\ sock[s] \in {"open", "lost"}
    /\ pc' = [pc EXCEPT ![Loop(g)] = "spawned", ![Loop(s)] = "start"]
    /\ UNCHANGED <<done, objects, sock, obj, dialed, goesTo, notes, crash>>

\* A failure returns to the dial loop.  NewRPCConnection ignores it.
PreambleFails(g) ==
    LET s == dialed[Loop(g)] IN
    /\ At(Loop(g), "preamble")
    /\ sock[s] \in {"lost", "closed"}
    /\ sock' = [sock EXCEPT ![s] = "closed"]
    /\ connOf' = [connOf EXCEPT ![obj[Loop(g)]] = Nil]
    /\ Goto(Loop(g), IF options.conn /\ g = 0 THEN "gone" ELSE "backoff")
    /\ UNCHANGED <<done, cur, allocated, ready, connected, obj, dialed, goesTo, notes, crash>>

\* Mutant: connect() reports failure although the read loop has been started.
ConnectReturnsMutant(g) ==
    LET o == obj[Loop(g)]  s == dialed[Loop(g)] IN
    /\ At(Loop(g), "spawned")
    /\ pc' = [pc EXCEPT ![Loop(g)] = "backoff",
                      ![Hook(s)] = IF options.onConnect THEN "running" ELSE "none"]
    /\ obj' = [obj EXCEPT ![Hook(s)] = o]
    /\ IF options.onConnect THEN UNCHANGED <<ready, crash>> ELSE CloseReady(o)
    /\ UNCHANGED <<done, cur, allocated, connected, connOf, sock, dialed, goesTo, notes>>

\* The rest of connect(), after `go c.readLoop()`.
ConnectReturns(g) ==
    LET o == obj[Loop(g)]  s == dialed[Loop(g)] IN
    /\ At(Loop(g), "spawned")
    /\ \/ /\ options.onConnect
          /\ pc' = [pc EXCEPT ![Loop(g)] = "gone", ![Hook(s)] = "running"]
          /\ obj' = [obj EXCEPT ![Hook(s)] = o]
          /\ UNCHANGED <<ready, crash>>
       \/ /\ ~options.onConnect
          /\ CloseReady(o)
          /\ Goto(Loop(g), "gone")
          /\ UNCHANGED obj
    /\ UNCHANGED <<done, cur, allocated, connected, connOf, sock, dialed, goesTo, notes>>

\* select on done and the timer: with both ready, either may be taken.
BackoffEnds(g) ==
    /\ At(Loop(g), "backoff")
    /\ Goto(Loop(g), "dialing") \/ (done /\ Goto(Loop(g), "gone"))
    /\ UNCHANGED <<done, objects, sock, obj, dialed, goesTo, notes, crash>>

-----------------------------------------------------------------------------
(* readLoop(), as far as it matters here.                                  *)

\* Mutant: no check of done.
LoopStartsMutant(s) ==
    /\ At(Loop(s), "start")
    /\ obj' = [obj EXCEPT ![Loop(s)] = cur]
    /\ Goto(Loop(s), "reading")
    /\ UNCHANGED <<done, objects, sock, dialed, goesTo, notes, crash>>

\* conn := c.conn, then the check of done.  The early return skips the cleanup.
LoopStarts(s) ==
    /\ At(Loop(s), "start")
    /\ \/ /\ done
          /\ CallEnd(Loop(s), cur, "gone")
       \/ /\ ~done
          /\ obj' = [obj EXCEPT ![Loop(s)] = cur]
          /\ Goto(Loop(s), "reading")
          /\ UNCHANGED goesTo
    /\ UNCHANGED <<done, objects, sock, dialed, notes, crash>>

\* Reading conn.conn fails.
LoopFails(s) ==
    /\ At(Loop(s), "reading")
    /\ \E r \in Sockets : r = connOf[obj[Loop(s)]] /\ sock[r] # "open"
    /\ CallEnd(Loop(s), obj[Loop(s)], "cleanup")
    /\ UNCHANGED <<done, objects, sock, dialed, notes, crash>>

\* The deferred function: the slots are released, the disconnect hook called.
LoopCleansUp(s) ==
    /\ At(Loop(s), "cleanup")
    /\ notified' = IF options.onDisconnect THEN notified \cup {s} ELSE notified
    /\ Goto(Loop(s), "disconnecting")
    /\ UNCHANGED <<options, done, objects, sock, obj, dialed, goesTo, bornDead, displaced,
                   crash>>

\* The disconnect hook has returned: dial again.
LoopRedials(s) ==
    /\ At(Loop(s), "disconnecting")
    /\ Goto(Loop(s), IF options.dialer THEN "dial" ELSE "gone")
    /\ UNCHANGED <<done, objects, sock, obj, dialed, goesTo, notes, crash>>

-----------------------------------------------------------------------------
(* The connect hook and Close().                                           *)

\* Mutant: a hook that fails does not mark the connection as ready.
HookReturnsMutant(s) ==
    /\ At(Hook(s), "running")
    /\ \/ Goto(Hook(s), "markReady") /\ UNCHANGED <<obj, goesTo>>
       \/ CallEnd(Hook(s), obj[Hook(s)], "gone")
    /\ UNCHANGED <<done, objects, sock, dialed, notes, crash>>

HookReturns(s) ==
    /\ At(Hook(s), "running")
    /\ \/ Goto(Hook(s), "markReady") /\ UNCHANGED <<obj, goesTo>>
       \/ CallEnd(Hook(s), obj[Hook(s)], "markReady")
    /\ UNCHANGED <<done, objects, sock, dialed, notes, crash>>

\* Mutant: the hook's goroutine does not stop after it marked the object ready.
HookMarksReadyMutant(s) ==
    /\ At(Hook(s), "markReady")
    /\ CloseReady(obj[Hook(s)])
    /\ UNCHANGED <<done, cur, allocated, connected, connOf, sock, pc, obj, dialed, goesTo,
                   notes>>

\* "Even if we fail, we have to mark the connection as ready."
HookMarksReady(s) ==
    /\ At(Hook(s), "markReady")
    /\ CloseReady(obj[Hook(s)])
    /\ Goto(Hook(s), "gone")
    /\ UNCHANGED <<done, cur, allocated, connected, connOf, sock, obj, dialed, goesTo, notes>>

\* The application has the RPCConnection: NewRPCConnection connects options.Conn
\* before it returns, but a disconnect hook may be called earlier.
Returned == options.conn => pc[Loop(0)] = "gone" \/ notified # {}

\* close(c.done): panics if the dialer has given up already.
CloseDone ==
    /\ WillClose /\ Returned
    /\ At(Closer, "idle")
    /\ done' = TRUE
    /\ crash' = IF done THEN "done closed twice" ELSE crash
    /\ Goto(Closer, "closing")
    /\ UNCHANGED <<objects, sock, obj, dialed, goesTo, notes>>

CloseEnds ==
    /\ At(Closer, "closing")
    /\ CallEnd(Closer, cur, "gone")
    /\ UNCHANGED <<done, objects, sock, dialed, notes, crash>>

\* The peer closes, resets or breaks the protocol.
PeerLost(s) ==
    /\ crash = "none"
    /\ sock[s] = "open"
    /\ sock' = [sock EXCEPT ![s] = "lost"]
    /\ UNCHANGED <<done, objects, pc, obj, dialed, goesTo, notes, crash>>

-----------------------------------------------------------------------------
DialStep(g) ==
    \/ DialStart(g) \/ DialFails(g) \/ DialGivesUp(g) \/ DialSucceeds(g)
    \/ Refresh(g) \/ Install(g) \/ PreambleSent(g) \/ PreambleFails(g)
    \/ ConnectReturns(g) \/ BackoffEnds(g)

LoopStep(s) == LoopStarts(s) \/ LoopFails(s) \/ LoopCleansUp(s) \/ LoopRedials(s)
HookStep(s) == HookReturns(s) \/ HookMarksReady(s)

Next ==
    \/ \E p \in Procs : EndStep(p)
    \/ \E g \in 0 .. MaxDials : DialStep(g)
    \/ \E s \in Sockets : LoopStep(s) \/ HookStep(s) \/ PeerLost(s)
    \/ CloseDone \/ CloseEnds

Spec == Init /\ [][Next]_vars

\* Goroutines that can go on do; the dialer and the application's hooks return.
\* Nobody promises that a dial succeeds or that Close() is called.
Fairness ==
    /\ \A p \in Procs : WF_vars(EndStep(p))
    /\ \A g \in 0 .. MaxDials : WF_vars(DialStep(g))
    /\ \A s \in Sockets : WF_vars(LoopStep(s)) /\ WF_vars(HookStep(s))
    /\ WF_vars(CloseEnds)

FairSpec == Spec /\ Fairness

-----------------------------------------------------------------------------
(* Properties.                                                             *)

DialPCs == {"dial", "dialing", "refresh", "install", "preamble", "backoff"}
ReadPCs == {"start", "reading", "cleanup", "disconnecting"}
EndPCs  == {"endTest", "endFlag", "endCheck", "endClose"}
PCs     == DialPCs \cup ReadPCs \cup EndPCs
           \cup {"none", "spawned", "running", "markReady", "idle", "closing", "gone"}

\* Every variable has its type.
TypeOK ==
    /\ options \in Options
    /\ done \in BOOLEAN
    /\ cur \in Objects
    /\ allocated \in Objects
    /\ ready \in [Objects -> BOOLEAN]
    /\ connected \in [Objects -> BOOLEAN]
    /\ connOf \in [Objects -> Sockets \cup {Nil}]
    /\ sock \in [Sockets -> {"unused", "open", "lost", "closed"}]
    /\ pc \in [Procs -> PCs]
    /\ obj \in [Procs -> Objects \cup {0}]
    /\ dialed \in [Loops -> Sockets \cup {0}]
    /\ goesTo \in [Procs -> {"none", "gone", "cleanup", "markReady"}]
    /\ notified \in SUBSET Sockets
    /\ bornDead \in SUBSET Sockets
    /\ displaced \in SUBSET Sockets
    /\ crash \in {"none", "ready closed twice", "done closed twice", "nil closed"}

\* The goroutines that dial, or serve a connection and will dial again.
InCharge ==
    {p \in Loops : \/ pc[p] \in DialPCs \cup ReadPCs
                   \/ pc[p] \in EndPCs /\ goesTo[p] = "cleanup"}

\* The chain of dialling and read loops never forks, so no two goroutines dial
\* or read at once; and with a dialer, it never dies out before Close() or
\* ErrGiveUp.
OneInCharge ==
    /\ \A p, q \in InCharge : p = q
    /\ options.dialer /\ ~options.conn /\ ~done => InCharge # {}

\* "This is to ensure that we only terminate the *current* connection": a read
\* loop works on the object that holds the socket it was started on, even if
\* objects have been recycled meanwhile.
LoopOwnsSocket ==
    \A s \in Sockets :
        pc[Loop(s)] = "reading" => obj[Loop(s)] = cur /\ connOf[cur] = s

\* "Reconnect will not be attempted before the disconnect hook has returned":
\* while a goroutine dials, every read loop is through with its disconnect hook.
HookBeforeRedial ==
    (\E p \in Loops : pc[p] \in DialPCs) =>
        \A s \in Sockets : pc[Loop(s)] \notin ReadPCs

\* "Even if we fail, we have to mark the connection as ready": once a read loop
\* has been started for an object, whoever waits for it to be ready, in Ready()
\* or in call(), is let go.
ReadyFires ==
    \A s \in Sockets, o \in Objects :
        connOf[o] = s /\ pc[Loop(s)] # "none" ~> ready[o] \/ crash # "none"

\* After Close() every socket is closed, with two exceptions, which only a
\* recycled object can bring about: a socket installed in an object that had been
\* ended before, and one whose object was given the next net.Conn meanwhile.
CloseReaps ==
    \A s \in Sockets :
        done /\ sock[s] \in {"open", "lost"}
          ~> sock[s] = "closed" \/ s \in bornDead \cup displaced \/ crash # "none"

\* The safety half of CloseReaps: once done is closed and nobody has anything left to
\* do but to read, no socket has been left open, with the same two exceptions.
NothingLeftOpen ==
    done /\ crash = "none" /\ (\A p \in Procs : pc[p] \in {"none", "idle", "reading", "gone"}) =>
        \A s \in Sockets : sock[s] \in {"open", "lost"} => s \in bornDead \cup displaced

\* "Close terminates the RPCConnection": the same without the exception.
CloseTerminates ==
    \A s \in Sockets :
        done /\ sock[s] \in {"open", "lost"} ~> sock[s] = "closed" \/ crash # "none"

\* The process panics for three reasons only: Close() and ErrGiveUp both closed
\* done; an object was given a second net.Conn and marked ready for each; or
\* connect() dropped a net.Conn whose preamble failed in the moment in which end()
\* was about to close it, on behalf of Close() or of the hook of an earlier
\* net.Conn of that object.
PanicCauses ==
    /\ crash = "done closed twice" => MayGiveUp /\ pc[Closer] # "idle"
    /\ crash = "ready closed twice" => displaced # {}
    /\ crash = "nil closed" => pc[Closer] # "idle" \/ displaced # {}

=============================================================================
