----------------------------- MODULE RPCPairInv ------------------------------
(* What two connected RPCConnections promise together.                     *)
EXTENDS RPCPair

\* Messages do not run into each other: in what was written and not read yet, each
\* piece continues the message before it or starts another when that is complete,
\* and the first one continues what the reader has got.  Nothing but writeLock in
\* send() keeps two Writes apart.
WholeMessages ==
    \A s \in Ends :
        /\ stream[s] # <<>> => Head(stream[s]).part = got[Peer(s)] + 1
        /\ \A i \in 1 .. Len(stream[s]) - 1 :
            LET p == stream[s][i]
                q == stream[s][i + 1] IN
            IF p.part < Pieces THEN q = Piece(p.msg, p.part + 1) ELSE q.part = 1

\* Both read loops are writing a refusal, or wait for the lock to, and neither
\* stream has room: nobody reads, and nothing will change.
NobodyReads ==
    /\ link
    /\ \A s \in Ends :
        /\ loop[s] = "refusing"
        /\ Len(stream[s]) = Capacity

\* A call took its slot after the read loop had released all of them, and its message
\* went where nobody answers: only its context can end it.
Stranded(c) == phase[c] = "waiting" /\ c \in slots /\ loop[Caller[c]] = "gone"

\* Some goroutine has cleared connected and has not closed the socket yet.
InTheWindow(s) == \E g \in Goroutines : EndOf(g) = s /\ ending[g] = "close"

\* There is one way to strand a call: between the two last steps of an end(), while the
\* read loop has gone on the strength of the first.  Whoever is late at any other time
\* fails to send.
OnlyTheWindowStrands ==
    [][\A c \in Calls : Stranded(c)' => Stranded(c) \/ InTheWindow(Caller[c])]_vars

\* Nobody is on the way to a result or waits for one, but for those that were stranded.
AllReturned ==
    \A c \in Calls : \/ phase[c] \notin {"placed", "sending", "unsent", "waiting"}
                     \/ Stranded(c)

\* Every call returns, if the methods do, however full the streams get and whatever
\* ends the connection.  Both exceptions are real: read loops that refuse calls write,
\* and two that wait for each other to read wait for ever; and stranded calls.
CallsReturn == (\E c \in Calls : phase[c] = "placed") ~> AllReturned \/ NobodyReads

\* Once one end has ended, or the network has failed, nothing is left of the
\* connection at either end: no read loop, no open socket, no goroutine in send() or
\* end(), and no call that waits or has a slot, but for those that were stranded.
Quiet ==
    /\ queued = {} /\ writing = {}
    /\ \A s \in Ends : loop[s] = "gone" /\ ~connected[s] /\ socket[s] = "closed"
    /\ \A g \in Goroutines : ending[g] = "not"
    /\ AllReturned
    /\ \A c \in slots : Stranded(c) \/ (c \in Impatient /\ phase[c] = "failed")

EndsTogether == ~link ~> []Quiet

-----------------------------------------------------------------------------
(* The pair implements RemoteCall. *)

stageOf ==
    [c \in Calls |-> CASE phase[c] \in {"placed", "sending", "unsent", "waiting"} -> "placed"
                       [] phase[c] = "panicked" -> "failed"
                       [] OTHER -> phase[c]]

\* A connection ends for its calls when the reason is stored.
upOf == network /\ \A s \in Ends : ~endReason[s]

Remote == INSTANCE RemoteCall WITH stage <- stageOf, up <- upOf

\* The method of a call is run once at most, and only at an end that serves it; a
\* call that succeeds had it run; one that fails has its context, the protocol or
\* the connection to blame.
ImplementsRemoteCall == Remote!RSpec

-----------------------------------------------------------------------------
(* The inductive invariant behind the theorems of RPCPairProofs. *)

\* writeLock
OneWriter == \A p, q \in writing : Writer(p.msg) = Writer(q.msg) => p = q

\* The part that has to come next after those that s wrote.
Due(s) ==
    LET n == Len(stream[s]) IN
    IF n = 0 THEN got[Peer(s)] + 1
    ELSE IF stream[s][n].part < Pieces THEN stream[s][n].part + 1 ELSE 1

\* While a socket takes writes, whoever has its lock goes on with the message that is
\* unfinished, and nobody gets the lock before it is finished.
WritersGoOn ==
    \A s \in Ends : socket[s] = "open" =>
        LET n == Len(stream[s]) IN
        /\ \A p \in writing : Writer(p.msg) = s => p.part = Due(s)
        /\ n = 0 /\ got[Peer(s)] > 0 => \E p \in writing : Writer(p.msg) = s
        /\ n > 0 /\ stream[s][n].part < Pieces
              => Piece(stream[s][n].msg, stream[s][n].part + 1) \in writing

OwnStream == \A s \in Ends : \A i \in 1 .. Len(stream[s]) : Writer(stream[s][i].msg) = s

BeingWritten(m) == \E p \in writing : p.msg = m
InStream(m) == \E i \in 1 .. Len(stream[Writer(m)]) : stream[Writer(m)][i].msg = m
UnderWay(m) == m \in queued \/ BeingWritten(m) \/ InStream(m)

\* A call is sent once: no part of it is in two places.
SentOnce ==
    \A c \in Calls :
        LET m == Message("call", c)
            S == stream[Caller[c]] IN
        /\ m \in queued => ~BeingWritten(m) /\ ~InStream(m)
        /\ \A p \in writing : p.msg = m =>
              \A i \in 1 .. Len(S) : S[i].msg = m => S[i].part < p.part
        /\ \A i, j \in 1 .. Len(S) : i < j /\ S[i].msg = m /\ S[j].msg = m => S[i].part < S[j].part

\* What is under way says how far its call has come.
StagesOK ==
    \A c \in Calls :
        /\ UnderWay(Message("call", c)) =>
              method[c] = "none" /\ phase[c] \notin {"idle", "refused", "placed"}
        /\ Message("call", c) \in queued \/ BeingWritten(Message("call", c)) => phase[c] = "sending"
        /\ UnderWay(Message("result", c)) => method[c] = "done"
        /\ UnderWay(Message("refusal", c)) => c \notin Served
        /\ answer[c] = "result" => method[c] = "done"
        /\ answer[c] = "refusal" => c \notin Served
        /\ phase[c] \in {"idle", "refused", "placed"} => method[c] = "none"
        /\ phase[c] = "succeeded" => method[c] = "done"
        /\ phase[c] \in {"sending", "waiting"} /\ c \notin slots /\ ~endReason[Caller[c]]
              => answer[c] # "none"

\* A sender has one message in hand, in the queue or being written, and is not in
\* end() while it has.
InHand(m) == m \in queued \/ BeingWritten(m)

SendersOK ==
    /\ \A m \in Messages : InHand(m) => ending[Sender(m)] = "not"
    /\ \A m, k \in Messages : InHand(m) /\ InHand(k) /\ Sender(m) = Sender(k) => m = k
    /\ \A m \in Messages : m \in queued => ~BeingWritten(m)
    /\ \A c \in Calls : InHand(Message("refusal", c)) => loop[Peer(Caller[c])] = "refusing"

\* Who may be in end().
EndersOK ==
    /\ \A c \in Calls : ending[The("caller", c)] # "not" => phase[c] = "sending"
    /\ \A c \in Calls : ending[The("method", c)] # "not" => method[c] = "done"
    /\ \A s \in Ends : ending[The("reader", s)] # "not" <=> loop[s] = "ending"

\* How far an end has come: the reason is there before connected is cleared, the socket
\* is closed last, and who has cleared connected has it left to close.
EndsOK ==
    /\ \A s \in Ends :
        /\ ~connected[s] => endReason[s] /\ (socket[s] = "closed" \/ InTheWindow(s))
        /\ socket[s] = "closed" => ~connected[s]
        /\ loop[s] \in {"leaving", "gone"} => ~connected[s]
    /\ \A g \in Goroutines :
        /\ ending[g] = "flag" => endReason[EndOf(g)]
        /\ ending[g] = "close" => ~connected[EndOf(g)]
    /\ \A c \in Calls : phase[c] = "unsent" => ~connected[Caller[c]]

\* What is in the streams and on the way to them, and who may be where.
Delivery ==
    /\ TypeOK /\ OneWriter /\ WritersGoOn /\ WholeMessages
    /\ OwnStream /\ SentOnce /\ StagesOK

PairInv == Delivery /\ SendersOK /\ EndersOK /\ EndsOK

\* Whoever is not at rest has something in hand that will take it further: a call that
\* is sending, its message or its end(); a read loop that refuses, a refusal; an end that
\* is no longer connected, somebody who closes its socket.  And a slot that is taken is
\* its caller's to release, or a read loop's that has not gone, or was left behind by a
\* call that is stranded or has been given up.
StillOwed ==
    /\ \A c \in Calls : phase[c] = "sending" =>
          InHand(Message("call", c)) \/ ending[The("caller", c)] # "not"
    /\ \A s \in Ends : loop[s] = "refusing" =>
          \E c \in Calls : Caller[c] # s /\ InHand(Message("refusal", c))
    /\ \A s \in Ends : ~connected[s] => socket[s] = "closed" \/ InTheWindow(s)
    /\ \A c \in slots :
        \/ phase[c] \in {"sending", "unsent"}
        \/ phase[c] = "waiting" /\ loop[Caller[c]] # "gone"
        \/ Stranded(c)
        \/ c \in Impatient /\ phase[c] = "failed"

=============================================================================
