---------------------------- MODULE LifecycleInv -----------------------------
(***************************************************************************)
(* The inductive invariant behind the theorems of LifecycleProofs.         *)
(***************************************************************************)
EXTENDS Lifecycle

\* Which control points each kind of goroutine has, and where end() returns to.
ControlOK ==
    /\ \A p \in Loops :
         /\ pc[p] \in DialPCs \cup ReadPCs \cup EndPCs \cup {"none", "spawned", "gone"}
         /\ pc[p] \in EndPCs => goesTo[p] \in {"gone", "cleanup"}
    /\ \A p \in Hooks :
         /\ pc[p] \in EndPCs \cup {"none", "running", "markReady", "gone"}
         /\ pc[p] \in EndPCs => goesTo[p] = "markReady"
    /\ pc[Closer] \in EndPCs \cup {"idle", "closing", "gone"}
    /\ pc[Closer] \in EndPCs => goesTo[Closer] = "gone"

\* Sockets are used in order, one for each dial, and at most one object is made
\* for each: there is always an object left to make.
Connecting == {"refresh", "install", "preamble"}
SocketsOK ==
    /\ \A s \in Sockets : sock[s] = "unused" =>
         /\ \A r \in Sockets : r > s => sock[r] = "unused"
         /\ pc[Loop(s)] = "none"
         /\ allocated <= s
    /\ \A p \in Loops : pc[p] = "spawned" => dialed[p] \in Sockets
    /\ \A p \in Loops : pc[p] \in Connecting =>
         /\ dialed[p] \in Sockets
         /\ sock[dialed[p]] # "unused"
         /\ pc[Loop(dialed[p])] = "none"
         /\ pc[p] = "refresh" => allocated <= dialed[p]
    /\ \A o \in Objects : connOf[o] # Nil => sock[connOf[o]] # "unused"

\* Objects that have not been made have not been touched, and whoever uses one has
\* one.
Using == EndPCs \cup {"install", "preamble", "spawned", "reading", "running", "markReady"}
ObjectsOK ==
    /\ cur <= allocated
    /\ \A p \in Procs : obj[p] <= allocated
    /\ \A p \in Procs : pc[p] \in Using => obj[p] # 0
    /\ \A o \in Objects : o > allocated => connOf[o] = Nil /\ ~ready[o]

\* Whoever connects or serves a socket does so with the current object.
OwnerOK ==
    /\ \A p \in Loops :
         /\ pc[p] \in {"install", "preamble"} => obj[p] = cur
         /\ pc[p] = "preamble" => connOf[cur] = dialed[p]
    /\ \A s \in Sockets :
         /\ pc[Loop(s)] \in {"start", "reading"} => connOf[cur] = s
         /\ pc[Loop(s)] = "reading" => obj[Loop(s)] = cur

\* When the dialer has given up, nobody is in charge any more, so it cannot give
\* up twice.
ChargeOK ==
    /\ OneInCharge
    /\ done /\ pc[Closer] = "idle" => MayGiveUp /\ InCharge = {}

\* The goroutines that will close the `ready` of their object: connect() once it
\* has started the read loop, then the hook.
Markers ==
    {p \in Loops : pc[p] = "spawned"} \cup {p \in Hooks : pc[p] \notin {"none", "gone"}}

\* No object o has been marked as ready, or will be.
Unmarked(o) == ~ready[o] /\ \A p \in Markers : obj[p] # o

\* As long as no object was given a second net.Conn, each has one marker at most,
\* and none before it has a net.Conn and the preamble has been sent.
MarkersOK ==
    displaced = {} =>
        /\ \A p, q \in Markers : obj[p] = obj[q] => p = q
        /\ \A p \in Markers : ~ready[obj[p]]
        /\ \A o \in Objects : connOf[o] = Nil => Unmarked(o)
        /\ \A p \in Loops : pc[p] = "preamble" => Unmarked(obj[p])

\* A read loop that ends its object without cleaning up has seen done closed.
LeaversOK == \A p \in Loops : pc[p] \in EndPCs /\ goesTo[p] = "gone" => done

\* As long as nobody called Close() and no object was given a second net.Conn, who
\* is about to close a net.Conn has one.
ClosersOK ==
    displaced = {} /\ pc[Closer] = "idle" =>
        \A p \in Procs : pc[p] = "endClose" => connOf[obj[p]] # Nil

\* The inductive invariant.
LInv ==
    /\ TypeOK /\ ControlOK /\ SocketsOK /\ ObjectsOK /\ OwnerOK /\ ChargeOK
    /\ MarkersOK /\ LeaversOK /\ ClosersOK /\ PanicCauses

-----------------------------------------------------------------------------
(* Who owes what: a second invariant, of who will close a socket and who   *)
(* will mark an object as ready.                                           *)

\* Each dial has a socket of its own, and a hook that has not been started.
HooksOK ==
    /\ \A s \in Sockets : sock[s] = "unused" => pc[Hook(s)] = "none"
    /\ \A p \in Loops : pc[p] \in Connecting \cup {"spawned"} =>
         /\ sock[dialed[p]] # "unused"
         /\ pc[Hook(dialed[p])] = "none"
         /\ \A q \in Loops :
              pc[q] \in Connecting \cup {"spawned"} /\ dialed[q] = dialed[p] => q = p

\* A socket that was not displaced is on its way into an object or in just one.
Arriving == {"refresh", "install"}
Live == {"open", "lost"}
InstalledOK ==
    /\ \A o, u \in Objects : connOf[o] # Nil /\ connOf[o] = connOf[u] => o = u
    /\ \A p \in Loops : pc[p] \in Arriving => \A o \in Objects : connOf[o] # dialed[p]
    /\ \A s \in Sockets : sock[s] \in Live /\ s \notin displaced =>
         \/ \E p \in Loops : pc[p] \in Arriving /\ dialed[p] = s
         \/ \E o \in Objects : connOf[o] = s

\* Whoever clears the flag of an object goes on to close its socket.
Closing == {"endCheck", "endClose"}
EndingOK ==
    \A o \in Objects, s \in Sockets :
        connOf[o] = s /\ sock[s] \in Live /\ s \notin bornDead /\ ~connected[o] =>
            \E p \in Procs : pc[p] \in Closing /\ obj[p] = o

\* An object that has not ended has a read loop that will end it, or one is coming.
WatchedOK ==
    \A o \in Objects, s \in Sockets :
        connOf[o] = s /\ connected[o] =>
            \/ pc[Loop(s)] \in {"start", "reading"}
            \/ pc[Loop(s)] \in {"endTest", "endFlag"} /\ obj[Loop(s)] = o
            \/ \E p \in Loops : pc[p] = "preamble" /\ dialed[p] = s

\* A read loop that goes on after done was closed is ended by Close().
ShutOK ==
    \A s \in Sockets : done /\ pc[Loop(s)] = "reading" =>
        \/ ~connected[cur]
        \/ pc[Closer] = "closing"
        \/ pc[Closer] \in {"endTest", "endFlag"} /\ obj[Closer] = cur

\* An object for which a read loop was started is ready, or one of the goroutines
\* that mark objects has it in hand: the safety half of ReadyFires.
ReadyIsOwed ==
    crash = "none" =>
        \A o \in Objects, s \in Sockets :
            connOf[o] = s /\ pc[Loop(s)] # "none" =>
                ready[o] \/ \E p \in Markers : obj[p] = o

DInv == HooksOK /\ InstalledOK /\ EndingOK /\ WatchedOK /\ ShutOK /\ ReadyIsOwed

=============================================================================
