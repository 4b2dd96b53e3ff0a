-------------------------- MODULE ConnectionContract -------------------------
(***************************************************************************)
(* Connection implements CallContract: the refinement mapping, and what    *)
(* the mapping needs to know of a call that is about to return.            *)
(***************************************************************************)
EXTENDS ConnectionInv

\* A stub is unplaced until it is called and has returned when it is done.
phaseOf ==
    [c \in Calls |-> CASE pc[c] = "idle"     -> "unplaced"
                       [] pc[c] = "done"     -> "returned"
                       [] pc[c] = "panicked" -> "panicked"
                       [] OTHER              -> "pending"]

outcomeOf == [c \in Calls |-> IF pc[c] = "done" THEN result[c] ELSE "none"]

\* The connection is up until the first call of end().
notEnded == \A p \in Procs : err[p] = "none"

Contract == INSTANCE CallContract
              WITH Answers <- ReplyKinds, phase <- phaseOf, answer <- decoded,
                   outcome <- outcomeOf, up <- notEnded

\* A caller of a generated method gets what the contract promises: one answer at
\* most, one return, with that answer or for one of the reasons listed there.
ImplementsContract == Contract!CSpec

\* What call() is about to return is justified already, and so is what the stub
\* could read half-written once it returns.
PendingResults ==
    /\ endReason # "none" => ~notEnded
    /\ \A c \in Calls :
        /\ pc[c] = "return" => result[c] # "none"
        /\ pc[c] # "done" => result[c] \notin {"remote", "decodeErr"}
        /\ pc[c] = "release" => ~notEnded
        /\ pc[c] # "done" /\ result[c] \in {"ended", "sendErr", "torn"} => ~notEnded
        /\ result[c] = "ctx" => c \in Impatient
        /\ decoding = c /\ pc[c] \in {"return", "done"} => c \in Impatient \/ ~notEnded

=============================================================================
