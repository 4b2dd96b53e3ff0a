--------------------------- MODULE ConnectionInv ----------------------------
(***************************************************************************)
(* The inductive invariant behind the theorems of ConnectionProofs: what   *)
(* holds between the steps of Connection, part by part.                    *)
(***************************************************************************)
EXTENDS Connection

\* Before acquireCallSlot, a call has left no trace in the table.
NotYetPlaced == {"idle", "waitReady", "check", "acquire"}

\* While the read loop is decoding, the method return is the first message of
\* its buffer; at any other time no call is being decoded.
DecodingOK ==
    IF pc[Reader] = "decode"
    THEN decoding \in Calls /\ buf # <<>> /\ Head(buf).type = "return"
    ELSE decoding = NoCall

\* end() stores its reason before it clears `connected`, nobody resets it, and
\* the read loop only reaches its cleanup through end().
ReasonOK ==
    /\ ~connected => endReason # "none"
    /\ \A p \in Procs : pc[p] \in EndPCs => err[p] # "none"
    /\ \A p \in Procs : pc[p] \in {"endFlag", "endClose"} => endReason # "none"
    /\ pc[Reader] \in {"cleanup", "exited"} => endReason # "none"

\* A call is in one slot at most, or being decoded, or neither; while it is in
\* either its channel is open.
SlotsOK ==
    /\ \A i \in Ids, c \in Calls :
         waitingCalls[i] = c => /\ callID[c] = i
                                /\ decoding # c
                                /\ ~waiter[c]
                                /\ pc[c] \notin NotYetPlaced
    /\ \A c \in Calls : decoding = c => ~waiter[c] /\ pc[c] \notin NotYetPlaced
    /\ \A c \in Calls : waiter[c] => pc[c] \notin NotYetPlaced

\* A closed channel means a decoded reply or an ended connection, and success
\* is only concluded from the first.
OutcomeOK ==
    \A c \in Calls :
        /\ waiter[c] => decoded[c] \in {"resp", "rpcErr"} \/ endReason # "none"
        /\ result[c] = "ok" => waiter[c] /\ decoded[c] \in {"resp", "rpcErr"}
        /\ result[c] = "ok" /\ pc[c] = "done" => decoded[c] = "resp"

\* Until its slot has been found, a call has no answer; and if it returned
\* without freeing its slot, its context had ended.
AnswersOK ==
    /\ \A i \in Ids, c \in Calls :
         waitingCalls[i] = c =>
            /\ decoded[c] = "none"
            /\ pc[c] \in {"return", "done"} => result[c] = "ctx"
    /\ \A c \in Calls :
         decoding = c \/ pc[c] \in NotYetPlaced => decoded[c] = "none"

\* Until the connect hook has marked the connection as ready, the calls that are
\* not its own have not gone beyond the wait for that.
BeforeReady == {"running", "markReady"} \cup EndPCs
NotPassed   == {"idle", "waitReady", "return", "done"}
HookOK ==
    HasHook /\ pc[Hook] \in BeforeReady =>
        /\ ~ready
        /\ \A c \in Calls \ HookCalls : pc[c] \in NotPassed
        /\ \A r \in outbox : r.of \in HookCalls

\* The messages from the peer, oldest first, and those among them whose slot, if
\* they are replies, has not been looked up.
inbound   == buf \o wire
Unhandled == {j \in 1 .. Len(inbound) : pc[Reader] = "decode" => j > 1}
IsReturn(j) == inbound[j].type = "return"

\* c's request has been sent under ID i, and c is registered there.
Sent == {"wait", "return", "done"}
Awaited(i, c) == waitingCalls[i] = c /\ pc[c] \in Sent

\* A call that has its slot and has not got its request out.
Unsent == {"write", "release"} \cup EndPCs

\* Between the requests at the peer, the replies coming in and the table there
\* is one entry for each call, under the same ID: nobody else can be registered
\* there before the reply has been handled.
TableMatches ==
    /\ \A c \in Calls : pc[c] \in Unsent => waitingCalls[callID[c]] = c
    /\ \A r \in outbox : Awaited(r.id, r.of)
    /\ \A j \in Unhandled : IsReturn(j) =>
         /\ Awaited(inbound[j].id, inbound[j].of)
         /\ \A r \in outbox : r.id # inbound[j].id
    /\ \A j, k \in Unhandled :
         IsReturn(j) /\ IsReturn(k) /\ inbound[j].id = inbound[k].id => j = k

\* As long as the peer sends nothing unasked for, all that holds until the read
\* loop has emptied the table, and so the reply being decoded is the right one.
MatchOK ==
    strays = 0 =>
        /\ \A c \in Calls : replyOf[c] \in {NoCall, c}
        /\ pc[Reader] = "decode" => Head(buf).of = decoding
        /\ \A j \in 1 .. Len(inbound) : inbound[j].of # NoCall
        /\ pc[Reader] # "exited" => TableMatches

\* What may bring the connection down.
Cause ==
    \/ done
    \/ ~peerUp
    \/ strays > 0
    \/ err[Hook] = "ApplicationError"
    \/ \E c \in Calls : decoded[c] = "bad"

\* Nobody is in end(), or has been, without one of these.
CauseOK ==
    (~connected \/ sock = "closed" \/ \E p \in Procs : pc[p] \in EndPCs) => Cause

\* The inductive invariant.  DecodingOK makes TypeOK inductive; SlotsOK and
\* ReasonOK carry the order in which end(), the read loop and the callers touch
\* the object; MatchOK and CauseOK need the traffic in both directions as well.
IInv ==
    /\ TypeOK /\ DecodingOK /\ ReasonOK /\ SlotsOK /\ OutcomeOK
    /\ AnswersOK /\ HookOK /\ MatchOK /\ CauseOK

\* A call that has taken a slot and has not given up waiting has been woken, or is in
\* the table or with the decoder, which will wake it - or its reply could not be
\* decoded, or another call with a failed send has released its slot.
Holding == Unsent \cup {"wait"}
WakeupOK ==
    \A c \in Calls :
        /\ pc[c] = "release" => err[c] # "none"
        /\ pc[c] \in Holding /\ ~waiter[c] =>
              \/ waitingCalls[callID[c]] = c
              \/ decoding = c
              \/ decoded[c] = "bad"
              \/ Robbed(c)

=============================================================================
