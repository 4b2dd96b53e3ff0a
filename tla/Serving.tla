------------------------------- MODULE Serving -------------------------------
(***************************************************************************)
(* The calls that an RPCConnection serves, across the sockets of its life. *)
(* The peer of each socket is a fresh RPCConnection that numbers its calls *)
(* from 0.  The goroutine that runs a method keeps the `connection` object *)
(* on which the call came in, and writes the reply to whatever socket that *)
(* object has by then.  Lifecycle says which one that is: its actions are  *)
(* steps of this module, and this module's leave its goroutines alone.     *)
(***************************************************************************)
EXTENDS LifecycleInv

CONSTANT MaxCalls            \* bound: calls that the peer of each socket places

ASSUME MaxCallsAssumption == MaxCalls \in Nat \ {0}

IDs == 0 .. MaxCalls - 1

VARIABLES
    asked,       \* the IDs of the calls that each socket's peer has placed
    received,    \* those that the read loop has taken off the socket
    methods,     \* the goroutines that run methods: [call, object]
    reply,       \* reply[s][n]: the call [socket, id] whose reply call n of s got
    nilWrite     \* a method's goroutine wrote to a nil net.Conn, which ends the process

svars == <<asked, received, methods, reply, nilWrite>>
allvars == <<vars, svars>>

Calls == [socket : Sockets, id : IDs]
Unanswered == [socket |-> Nil, id |-> 0]

SInit ==
    /\ Init
    /\ asked = [s \in Sockets |-> {}]
    /\ received = [s \in Sockets |-> {}]
    /\ methods = {}
    /\ reply = [s \in Sockets |-> [n \in IDs |-> Unanswered]]
    /\ nilWrite = FALSE

Running == crash = "none" /\ ~nilWrite

\* The peer places a call once it may take the connection for ready.
Ask(s) ==
    /\ Running
    /\ sock[s] = "open"
    /\ pc[Loop(s)] # "none"
    /\ \E n \in IDs \ asked[s] :
        /\ \A m \in IDs : m < n => m \in asked[s]
        /\ asked' = [asked EXCEPT ![s] = @ \cup {n}]
    /\ UNCHANGED <<vars, received, methods, reply, nilWrite>>

\* gotMessage() on a call: a goroutine of its own runs the method.
Receive(s) ==
    /\ Running
    /\ pc[Loop(s)] = "reading"
    /\ connOf[obj[Loop(s)]] = s
    /\ sock[s] # "closed"
    /\ \E n \in asked[s] \ received[s] :
        /\ \A m \in asked[s] \ received[s] : n <= m
        /\ received' = [received EXCEPT ![s] = @ \cup {n}]
        /\ methods' = methods \cup
                {[call |-> [socket |-> s, id |-> n], object |-> obj[Loop(s)]]}
    /\ UNCHANGED <<vars, asked, reply, nilWrite>>

\* The peer of socket r finds the call by its ID alone, or ends the connection.
Deliver(r, call) ==
    IF call.id \in asked[r] /\ reply[r][call.id] = Unanswered
    THEN /\ reply' = [reply EXCEPT ![r][call.id] = call]
         /\ UNCHANGED sock
    ELSE /\ sock' = [sock EXCEPT ![r] = IF @ = "open" THEN "lost" ELSE @]
         /\ UNCHANGED reply

\* Mutant: send() uses the current object.
AnswerMutant(m) ==
    LET r == connOf[cur] IN
    /\ Running
    /\ m \in methods
    /\ methods' = methods \ {m}
    /\ \/ /\ r # Nil
          /\ sock[r] = "open"
          /\ Deliver(r, m.call)
          /\ UNCHANGED <<connected, nilWrite>>
       \/ /\ r # Nil
          /\ sock[r] # "open"
          /\ connected' = [connected EXCEPT ![cur] = FALSE]
          /\ sock' = IF connected[cur] THEN [sock EXCEPT ![r] = "closed"] ELSE sock
          /\ UNCHANGED <<reply, nilWrite>>
       \/ /\ r = Nil
          /\ nilWrite' = TRUE
          /\ UNCHANGED <<sock, connected, reply>>
    /\ UNCHANGED <<options, done, cur, allocated, ready, connOf, pc, obj, dialed, goesTo,
                   notified, bornDead, displaced, crash, asked, received>>

\* The method has returned: send(conn, reply), and end(conn) if that fails.
Answer(m) ==
    LET r == connOf[m.object] IN
    /\ Running
    /\ m \in methods
    /\ methods' = methods \ {m}
    /\ \/ /\ r # Nil
          /\ sock[r] = "open"
          /\ Deliver(r, m.call)
          /\ UNCHANGED <<connected, nilWrite>>
       \/ /\ r # Nil
          /\ sock[r] # "open"
          /\ connected' = [connected EXCEPT ![m.object] = FALSE]
          /\ sock' = IF connected[m.object] THEN [sock EXCEPT ![r] = "closed"] ELSE sock
          /\ UNCHANGED <<reply, nilWrite>>
       \/ /\ r = Nil
          /\ nilWrite' = TRUE
          /\ UNCHANGED <<sock, connected, reply>>
    /\ UNCHANGED <<options, done, cur, allocated, ready, connOf, pc, obj, dialed, goesTo,
                   notified, bornDead, displaced, crash, asked, received>>

SNext ==
    \/ ~nilWrite /\ Next /\ UNCHANGED svars
    \/ \E s \in Sockets : Ask(s) \/ Receive(s)
    \/ \E m \in methods : Answer(m)

SSpec == SInit /\ [][SNext]_allvars

\* Besides what Lifecycle assumes: the read loop gets what was sent, and methods return.
SFairness ==
    /\ \A p \in Procs : WF_allvars(~nilWrite /\ EndStep(p) /\ UNCHANGED svars)
    /\ \A g \in 0 .. MaxDials : WF_allvars(~nilWrite /\ DialStep(g) /\ UNCHANGED svars)
    /\ \A s \in Sockets :
        /\ WF_allvars(~nilWrite /\ LoopStep(s) /\ UNCHANGED svars)
        /\ WF_allvars(~nilWrite /\ HookStep(s) /\ UNCHANGED svars)
        /\ WF_allvars(Receive(s))
    /\ \A m \in [call : Calls, object : Objects] : WF_allvars(Answer(m))

SFairSpec == SSpec /\ SFairness

-----------------------------------------------------------------------------
STypeOK ==
    /\ TypeOK
    /\ asked \in [Sockets -> SUBSET IDs]
    /\ received \in [Sockets -> SUBSET IDs]
    /\ methods \subseteq [call : Calls, object : Objects]
    /\ reply \in [Sockets -> [IDs -> Calls \cup {Unanswered}]]
    /\ nilWrite \in BOOLEAN

\* A peer's call gets its own reply and nobody else's, though every peer numbers its
\* calls from 0 and a method may return long after its connection has been replaced;
\* and no method writes to a net.Conn that is gone.  The exception to both: a
\* connection lost before its connect hook has returned.  Its object is dialled anew,
\* so that the reply goes to the next socket, or to the nil that connect() leaves when
\* it cannot send the preamble.
RepliesComeHome ==
    /\ \A s \in Sockets, n \in IDs :
        reply[s][n] \notin {Unanswered, [socket |-> s, id |-> n]}
            => reply[s][n].socket \in displaced
    /\ nilWrite => displaced # {}

\* Every call that a peer places is answered, or its socket is lost, whatever the
\* connections before and after it are doing.
PeersAreAnswered ==
    \A s \in Sockets, n \in IDs :
        n \in asked[s] ~> \/ reply[s][n] # Unanswered
                          \/ sock[s] # "open"
                          \/ done /\ s \in bornDead
                          \/ ~Running

=============================================================================
