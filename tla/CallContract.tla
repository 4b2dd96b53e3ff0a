---------------------------- MODULE CallContract -----------------------------
(***************************************************************************)
(* What the caller of a generated client method may rely on, with nothing  *)
(* of how the Go runtime keeps it: no call IDs, no table of slots, no      *)
(* goroutines, no buffers.  Module ConnectionContract shows that           *)
(* Connection implements it.                                               *)
(*                                                                         *)
(* A call is placed, may be answered once, and returns once.  It returns   *)
(* what it was answered, except that a result is lost when the connection  *)
(* has ended or the call's own context has; an error answered is not.      *)
(***************************************************************************)
CONSTANTS
    Calls,       \* the calls of one connection
    Impatient,   \* the calls whose context may end
    Answers      \* some of "resp" (a result), "rpcErr" (an error), "bad" (undecodable)

VARIABLES
    phase,       \* "unplaced", "pending", "returned", "panicked"
    answer,      \* what each call was answered, or "none"
    outcome,     \* what each call returned, or "none"
    up           \* has nothing asked for the end of the connection yet?

cvars == <<phase, answer, outcome, up>>

CInit ==
    /\ phase = [c \in Calls |-> "unplaced"]
    /\ answer = [c \in Calls |-> "none"]
    /\ outcome = [c \in Calls |-> "none"]
    /\ up = TRUE

Place(c) ==
    /\ phase[c] = "unplaced"
    /\ phase' = [phase EXCEPT ![c] = "pending"]
    /\ UNCHANGED <<answer, outcome, up>>

\* An answer may come after the call has stopped waiting, or the connection ended.
\* One that cannot be decoded ends the connection.
Answer(c, k) ==
    /\ phase[c] # "unplaced"
    /\ answer[c] = "none"
    /\ answer' = [answer EXCEPT ![c] = k]
    /\ up' = (up /\ k # "bad")
    /\ UNCHANGED <<phase, outcome>>

ConnectionEnds ==
    /\ up
    /\ up' = FALSE
    /\ UNCHANGED <<phase, answer, outcome>>

\* What a call may return besides an answer, and when: the reason why the
\* connection ended, the error of a failed send, the error of its context, or a
\* torn read of an error that is being written.
Failures(c) ==
    (IF up THEN {} ELSE {"ended", "sendErr", "torn"})
    \cup (IF c \in Impatient THEN {"ctx", "torn"} ELSE {})

Outcomes(c) ==
    CASE answer[c] = "rpcErr" -> {"remote"}
      [] answer[c] = "bad"    -> {"decodeErr"}
      [] answer[c] = "resp"   -> {"ok"} \cup Failures(c)
      [] answer[c] = "none"   -> Failures(c)

Return(c) ==
    /\ phase[c] = "pending"
    /\ \E o \in Outcomes(c) : outcome' = [outcome EXCEPT ![c] = o]
    /\ phase' = [phase EXCEPT ![c] = "returned"]
    /\ UNCHANGED <<answer, up>>

\* A failed send may end in a panic.
Panic(c) ==
    /\ ~up
    /\ phase[c] = "pending"
    /\ phase' = [phase EXCEPT ![c] = "panicked"]
    /\ UNCHANGED <<answer, outcome, up>>

CNext ==
    \/ \E c \in Calls : \/ Place(c) \/ Return(c) \/ Panic(c)
                        \/ \E k \in Answers : Answer(c, k)
    \/ ConnectionEnds

CSpec == CInit /\ [][CNext]_cvars

=============================================================================
