--------------------------- MODULE MessageStream -----------------------------
(***************************************************************************)
(* What readLoop promises of the messages that a peer writes, with nothing *)
(* of bytes, buffers or reads: they are delivered whole, once and in the   *)
(* order in which they were written, until one of them is refused or the   *)
(* stream ends.  When the reader notices the end of the stream, some of    *)
(* the messages that were written are complete; it gives up only when it   *)
(* has delivered those, and delivers nothing after.  Framing implements    *)
(* this.                                                                   *)
(***************************************************************************)
EXTENDS Naturals, Sequences

VARIABLES
    sent,        \* the messages that were written
    got,         \* those that were delivered
    open,        \* is the stream still open?
    reader,      \* "reading", "draining" (the end was noticed), "lost", "refused"
    complete     \* which messages had arrived when the end was noticed

mvars == <<sent, got, open, reader, complete>>

MInit ==
    /\ sent = <<>>
    /\ got = <<>>
    /\ open = TRUE
    /\ reader = "reading"
    /\ complete = {}

\* any message
MSend ==
    /\ open
    /\ Len(sent') = Len(sent) + 1
    /\ \A k \in 1 .. Len(sent) : sent'[k] = sent[k]
    /\ UNCHANGED <<got, open, reader, complete>>

\* The receiver of a message may refuse it, and everything after it.
MDeliver ==
    LET next == Len(got) + 1 IN
    /\ next <= Len(sent)
    /\ reader = "reading" \/ (reader = "draining" /\ next \in complete)
    /\ got' = Append(got, sent[next])
    /\ reader' \in {reader, "refused"}
    /\ UNCHANGED <<sent, open, complete>>

MClose ==
    /\ open
    /\ open' = FALSE
    /\ UNCHANGED <<sent, got, reader, complete>>

\* What was still on its way may be lost.
MNotice ==
    /\ reader = "reading" /\ ~open
    /\ reader' = "draining"
    /\ complete' \in SUBSET (1 .. Len(sent))
    /\ UNCHANGED <<sent, got, open>>

MLost ==
    /\ reader = "draining"
    /\ \A k \in complete : k <= Len(got)
    /\ reader' = "lost"
    /\ UNCHANGED <<sent, got, open, complete>>

MNext == MSend \/ MDeliver \/ MClose \/ MNotice \/ MLost

MSpec == MInit /\ [][MNext]_mvars

=============================================================================
