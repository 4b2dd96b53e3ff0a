------------------------------- MODULE Backoff -------------------------------
(***************************************************************************)
(* The delays between the attempts of dial() to connect.  They are kept in *)
(* the `connection` objects that Lifecycle follows: each of its steps is a *)
(* step here, and four of them also move a delay.  The jitter, a random    *)
(* part of at most a quarter that is added to each wait, is left out.      *)
(***************************************************************************)
EXTENDS LifecycleInv

\* InitialRetryDelay and MaxRetryDelay, in ns: [start, max]
CONSTANT Delays

\* Under 4 ns rand.Int63n(delay / 4), the jitter, panics.
ASSUME DelaysAssumption == Delays \subseteq [start : Nat \ (0 .. 3), max : Nat \ (0 .. 3)]

VARIABLES
    delays,        \* the options this RPCConnection was made with
    curDelay,
    connectTime,   \* "zero", "recent", or "past": RetryResetDelay ago or longer
    cc,            \* the object that each dial() has in hand (0: none)
    grown,         \* history: the delay that the last wait or reset led to
    strayed        \* history: a delay grew in an object that had been replaced

bvars == <<delays, curDelay, connectTime, cc, grown, strayed>>

BInit ==
    /\ Init
    /\ delays \in Delays
    /\ curDelay = [o \in Objects |-> 0]
    /\ connectTime = [o \in Objects |-> "zero"]
    /\ cc = [g \in 0 .. MaxDials |-> 0]
    /\ grown = 0
    /\ strayed = FALSE

\* dial(): the delay starts anew unless the object was installed recently.
StartDelay(g) ==
    /\ DialStart(g)
    /\ cc' = [cc EXCEPT ![g] = cur]
    /\ \/ /\ done
          /\ UNCHANGED <<curDelay, connectTime, grown>>
       \/ /\ ~done
          /\ connectTime[cur] # "recent" \/ curDelay[cur] = 0
          /\ curDelay' = [curDelay EXCEPT ![cur] = delays.start]
          /\ grown' = delays.start
          /\ UNCHANGED connectTime
       \/ /\ ~done
          /\ connectTime[cur] = "recent"
          /\ connectTime' = [connectTime EXCEPT ![cur] = "past"]
          /\ curDelay' = [curDelay EXCEPT ![cur] = delays.start]
          /\ grown' = delays.start
       \/ /\ ~done
          /\ connectTime[cur] = "recent" /\ curDelay[cur] # 0
          /\ UNCHANGED <<curDelay, connectTime, grown>>
    /\ UNCHANGED <<delays, strayed>>

\* Mutant: a fresh object starts from nothing.
KeepDelayMutant(g) ==
    /\ Refresh(g)
    /\ connectTime' = IF cur' = cur THEN connectTime
                      ELSE [connectTime EXCEPT ![cur'] = "recent"]
    /\ curDelay' = IF cur' = cur THEN curDelay
                   ELSE [curDelay EXCEPT ![cur'] = delays.start]
    /\ UNCHANGED <<delays, cc, grown, strayed>>

\* refreshInnerConn() hands the delay on to a fresh object.
KeepDelay(g) ==
    /\ Refresh(g)
    /\ \/ cur' = cur /\ UNCHANGED <<curDelay, connectTime>>
       \/ /\ cur' # cur
          /\ curDelay' = [curDelay EXCEPT ![cur'] = curDelay[cur]]
          /\ connectTime' = [connectTime EXCEPT ![cur'] = "recent"]
    /\ UNCHANGED <<delays, cc, grown, strayed>>

\* Mutant: the delay is compared with its limit before it is doubled.
GrownMutant(d) == IF d > delays.max THEN delays.max ELSE 2 * d

Grown(d) == IF 2 * d > delays.max THEN delays.max ELSE 2 * d

\* The timer has fired, or done is closed: the latter leaves the delay alone.
GrowDelay(g) ==
    /\ BackoffEnds(g)
    /\ \/ /\ pc'[Loop(g)] = "dialing"
          /\ curDelay' = [curDelay EXCEPT ![cc[g]] = Grown(@)]
          /\ grown' = curDelay'[cc[g]]
          /\ strayed' = (strayed \/ cc[g] # cur)
       \/ /\ pc'[Loop(g)] = "gone"
          /\ UNCHANGED <<curDelay, grown, strayed>>
    /\ UNCHANGED <<delays, connectTime, cc>>

OtherDialStep(g) ==
    /\ \/ DialFails(g) \/ DialGivesUp(g) \/ DialSucceeds(g) \/ Install(g)
       \/ PreambleSent(g) \/ PreambleFails(g) \/ ConnectReturns(g)
    /\ UNCHANGED bvars

BDialStep(g) == StartDelay(g) \/ KeepDelay(g) \/ GrowDelay(g) \/ OtherDialStep(g)

BNext ==
    \/ \E g \in 0 .. MaxDials : BDialStep(g)
    \/ /\ \/ \E p \in Procs : EndStep(p)
          \/ \E s \in Sockets : LoopStep(s) \/ HookStep(s) \/ PeerLost(s)
          \/ CloseDone \/ CloseEnds
       /\ UNCHANGED bvars

\* Lifecycle's fairness, and with it that a wait comes to its end.
BFairSpec == BInit /\ [][BNext]_<<vars, bvars>> /\ Fairness

-----------------------------------------------------------------------------
\* Every wait takes a time between the two delays of the options, wherever the delay
\* was kept and handed on: it is never 0, for which the jitter would panic, and it
\* exceeds MaxRetryDelay only if InitialRetryDelay does.
WaitsInRange ==
    \A g \in 0 .. MaxDials :
        pc[Loop(g)] = "backoff" =>
            \/ curDelay[cc[g]] \in delays.start .. delays.max
            \/ curDelay[cc[g]] \in delays.max .. delays.start

\* The back-off goes on where it stopped: when a dialer is called, the current object,
\* which the next dial() will have in hand, holds the delay that the last wait led to.
\* The exception: an attempt whose preamble failed had already replaced the object, and
\* the delay grew in the one this dial() had in hand.
GrowthKept ==
    (\E p \in Loops : pc[p] = "dialing") => curDelay[cur] = grown \/ strayed

=============================================================================
