----------------------------- MODULE RemoteCall ------------------------------
(***************************************************************************)
(* What a remote call promises across the two ends of a connection, with   *)
(* no messages, streams, locks or read loops: a method is run at most      *)
(* once, only for a call that was placed and only if the peer serves its   *)
(* protocol; a call that succeeds was run to its end; and a call fails for *)
(* a reason: its own time-out, a protocol that the peer does not serve, or *)
(* the end of the connection.  A call that failed may have been run, and   *)
(* may yet be.  RPCPair implements this.                                   *)
(***************************************************************************)
CONSTANTS
    Calls,       \* the calls of both ends
    Served,      \* those for a protocol that the peer serves
    Impatient    \* those whose context may end

VARIABLES
    stage,       \* "idle", "refused", "placed", "succeeded", "failed"
    method,      \* "none", "running", "done"
    up           \* neither end has ended and the network has not failed

rvars == <<stage, method, up>>

RInit ==
    /\ stage = [c \in Calls |-> "idle"]
    /\ method = [c \in Calls |-> "none"]
    /\ up = TRUE

RPlace(c) ==
    /\ stage[c] = "idle"
    /\ stage' = [stage EXCEPT ![c] = "placed"]
    /\ UNCHANGED <<method, up>>

\* A call that found its connection ended is not sent.
RRefuse(c) ==
    /\ stage[c] = "idle"
    /\ ~up
    /\ stage' = [stage EXCEPT ![c] = "refused"]
    /\ UNCHANGED <<method, up>>

RStart(c) ==
    /\ c \in Served
    /\ stage[c] \in {"placed", "failed"}
    /\ method[c] = "none"
    /\ method' = [method EXCEPT ![c] = "running"]
    /\ UNCHANGED <<stage, up>>

RFinish(c) ==
    /\ method[c] = "running"
    /\ method' = [method EXCEPT ![c] = "done"]
    /\ UNCHANGED <<stage, up>>

RSucceed(c) ==
    /\ stage[c] = "placed"
    /\ method[c] = "done"
    /\ stage' = [stage EXCEPT ![c] = "succeeded"]
    /\ UNCHANGED <<method, up>>

RFail(c) ==
    /\ stage[c] = "placed"
    /\ ~up \/ c \in Impatient \/ c \notin Served
    /\ stage' = [stage EXCEPT ![c] = "failed"]
    /\ UNCHANGED <<method, up>>

REnds ==
    /\ up' = FALSE
    /\ UNCHANGED <<stage, method>>

RNext ==
    \/ \E c \in Calls : \/ RPlace(c) \/ RRefuse(c)
                        \/ RStart(c) \/ RFinish(c)
                        \/ RSucceed(c) \/ RFail(c)
    \/ REnds

RSpec == RInit /\ [][RNext]_rvars

=============================================================================
