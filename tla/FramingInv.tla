----------------------------- MODULE FramingInv ------------------------------
(***************************************************************************)
(* Framing implements MessageStream: the refinement mapping, and the       *)
(* inductive invariant behind the theorems of FramingProofs.               *)
(***************************************************************************)
EXTENDS Framing

\* Frames lie one behind the other in the stream, from its first byte to the last.
FramesOK ==
    /\ \A j, k \in 1 .. Len(frames) :
         j < k => frames[j].from + Occupies(frames[j].length) <= frames[k].from
    /\ \A k \in 1 .. Len(frames) :
         /\ frames[k].from + Occupies(frames[k].length) <= written + 1
         /\ k < Len(frames) => frames[k + 1].from = frames[k].from + Occupies(frames[k].length)
         /\ k = Len(frames) => written + 1 = frames[k].from + Occupies(frames[k].length)
    /\ frames # <<>> => frames[1].from = 1
    /\ frames = <<>> => written = 0
    /\ received <= arriving /\ arriving <= written

\* What has not been processed is the end of what has been received.
ContentsOK == \A i \in off + 1 .. len : buf[i] + len = received + i

\* The next frame to be processed starts at off.
NextOK ==
    /\ len <= received
    /\ Len(delivered) <= Len(frames)
    /\ pc # "refused" =>
         IF Len(delivered) < Len(frames)
         THEN frames[Len(delivered) + 1].from + len = received + off + 1
         ELSE received + off = written + len

\* When readLoop goes on to read, what is left over is less than a message.
LeftoverOK ==
    pc \in {"room", "lost"} =>
        \/ len - off <= Header
        \/ /\ Len(delivered) < Len(frames)
           /\ len - off < frames[Len(delivered) + 1].length

\* The inductive invariant.
FInv ==
    /\ TypeOK /\ FramesOK /\ ContentsOK /\ NextOK /\ LeftoverOK
    /\ MessagesIntact /\ RoomToRead /\ BufferBounded

-----------------------------------------------------------------------------
(* The refinement of MessageStream.                                        *)

\* A message is the bytes of its frame.
sentOf == [k \in 1 .. Len(frames) |-> [i \in 1 .. frames[k].length |-> frames[k].from + i - 1]]

\* The end of the stream is noticed when Read returns an error.
readerOf ==
    IF pc \in {"lost", "refused"} THEN pc ELSE IF err THEN "draining" ELSE "reading"

completeOf == IF err THEN {k \in 1 .. Len(frames) : Arrived(k)} ELSE {}

Messages == INSTANCE MessageStream
              WITH sent <- sentOf, got <- delivered, open <- up, reader <- readerOf,
                   complete <- completeOf

\* The loop that reads into, compacts and enlarges its buffer is, for gotMessage, a stream
\* of messages: whole, once and in order, those that came with the error of the last Read
\* included, none behind a refused one, and given up only because the stream ended.
ImplementsStream == Messages!MSpec

\* An error of Read says that the stream ended, and nothing is read after it.
ErrorsOK == (err => ~up) /\ (pc = "read" => ~err)

=============================================================================
