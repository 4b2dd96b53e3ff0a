------------------------------- MODULE Framing -------------------------------
(***************************************************************************)
(* How readLoop cuts the byte stream of a connection into messages: the    *)
(* buffer it reads into, compacts and enlarges (schema.generated.pb.go).   *)
(* Module Connection takes its result for granted: whole messages, in      *)
(* order.                                                                  *)
(*                                                                         *)
(* A byte is its position in the stream the peer wrote, counted from 1     *)
(* after the preamble, so that the contents of the buffer say where they   *)
(* came from.  Bytes that have never been written are 0.                   *)
(***************************************************************************)
EXTENDS Naturals, Sequences

CONSTANTS
    Capacity,    \* capacity of the first buffer (512)
    MinRead,     \* room to be made before each Read (256)
    MaxLength,   \* longest length a frame can declare (2^32 - 1)
    Lengths,     \* the lengths the peer's frames may declare
    MaxBytes     \* bound: bytes the peer writes

Header == 4      \* a frame starts with its length, the header included

ASSUME SizesAssumption ==
    /\ {Capacity, MaxBytes} \subseteq Nat
    /\ MinRead \in Nat \ {0}
    /\ MaxLength \in Nat /\ MaxLength > Header
    /\ Lengths \subseteq 0 .. MaxLength

VARIABLES
    frames,      \* the frames the peer has written: [from, length]
    written,     \* how many bytes it has written
    arriving,    \* how many of them have arrived or will
    up,          \* is the stream still open?
    received,    \* how many bytes Read has returned
    buf,         \* the array behind the slice buf, indexed from 1
    cap, len,    \* cap(buf) and len(buf)
    off,         \* bytes of buf that have been processed
    err,         \* did the last Read return an error?
    pc,          \* where readLoop is
    delivered    \* the messages given to gotMessage, each with its bytes

vars == <<frames, written, arriving, up, received, buf, cap, len, off, err, pc, delivered>>

stream == <<frames, written, arriving, up>>
slice  == <<buf, cap, len>>

Init ==
    /\ frames = <<>>
    /\ written = 0
    /\ arriving = 0
    /\ up = TRUE
    /\ received = 0
    /\ buf = [i \in 1 .. Capacity |-> 0]
    /\ cap = Capacity
    /\ len = 0
    /\ off = 0
    /\ err = FALSE
    /\ pc = "room"
    /\ delivered = <<>>

-----------------------------------------------------------------------------
(* The peer and the network.                                               *)

\* What a frame takes up: a declared length below that of a header is a lie.
Occupies(n) == IF n < Header THEN Header ELSE n

WriteFrame(n) ==
    /\ up
    /\ written + Occupies(n) <= MaxBytes
    /\ frames' = Append(frames, [from |-> written + 1, length |-> n])
    /\ written' = written + Occupies(n)
    /\ arriving' = written'
    /\ UNCHANGED <<up, received, slice, off, err, pc, delivered>>

\* The connection is closed by either side: any part of what was on its way is lost.
StreamEnds ==
    /\ up
    /\ up' = FALSE
    /\ arriving' \in received .. arriving
    /\ UNCHANGED <<frames, written, received, slice, off, err, pc, delivered>>

-----------------------------------------------------------------------------
(* readLoop.                                                               *)

\* An error of the last Read is only looked at here, after what came with it.
Fail ==
    /\ pc = "room" /\ err
    /\ pc' = "lost"
    /\ UNCHANGED <<stream, received, slice, off, err, delivered>>

\* Mutant: copy(newBuf, buf), from the start of the buffer.
RelocateMutant(n) ==
    [i \in 1 .. n |-> IF i <= len THEN buf[i] ELSE 0]

\* copy(newBuf, buf[off:]), into the same array or a zeroed one of size n.
Relocate(n) ==
    [i \in 1 .. n |-> IF i <= len - off THEN buf[off + i]
                      ELSE IF n = cap THEN buf[i] ELSE 0]

\* Mutant: the buffer grows where moving the rest to the front would do.
NewCapMutant2(left) == 2 * cap + MinRead

\* The processed bytes and the free ones may be enough.
NewCap(left) == IF cap - left < MinRead THEN 2 * cap + MinRead ELSE cap

\* Make room for MinRead bytes: start over if everything has been processed, and if
\* that is not enough move what is left to the front, of a bigger buffer if need be.
MakeRoom ==
    LET left == len - off IN
    /\ pc = "room" /\ ~err
    /\ \/ /\ (IF left = 0 THEN cap ELSE cap - len) >= MinRead
          /\ len' = IF left = 0 THEN 0 ELSE len
          /\ off' = IF left = 0 THEN 0 ELSE off
          /\ UNCHANGED <<buf, cap>>
       \/ /\ (IF left = 0 THEN cap ELSE cap - len) < MinRead
          /\ cap' = NewCap(left)
          /\ buf' = Relocate(cap')
          /\ len' = left
          /\ off' = 0
    /\ pc' = "read"
    /\ UNCHANGED <<stream, received, err, delivered>>

\* Mutant: an error of Read is looked at before the data that came with it.
ReadMutant ==
    /\ pc = "read"
    /\ \E n \in 0 .. cap - len, e \in BOOLEAN :
         /\ received + n <= arriving
         /\ e => ~up
         /\ n = 0 => e
         /\ buf' = [i \in 1 .. cap |-> IF i \in len + 1 .. len + n THEN received + i - len
                                                                  ELSE buf[i]]
         /\ len' = len + n
         /\ received' = received + n
         /\ err' = e
    /\ pc' = IF err' THEN "lost" ELSE "frames"
    /\ UNCHANGED <<stream, cap, off, delivered>>

\* Read returns some of what has arrived, an error if the stream has ended, or both.
Read ==
    /\ pc = "read"
    /\ \E n \in 0 .. cap - len, e \in BOOLEAN :
         /\ received + n <= arriving
         /\ e => ~up
         /\ n = 0 => e
         /\ buf' = [i \in 1 .. cap |-> IF i \in len + 1 .. len + n THEN received + i - len
                                                                  ELSE buf[i]]
         /\ len' = len + n
         /\ received' = received + n
         /\ err' = e
    /\ pc' = "frames"
    /\ UNCHANGED <<stream, cap, off, delivered>>

\* The length declared by the first four bytes.  Bytes that are not a header would
\* declare something, say 5.
HeaderOf(k) == \A i \in 1 .. Header : buf[off + i] = frames[k].from + i - 1
Declared ==
    IF \E k \in 1 .. Len(frames) : HeaderOf(k)
    THEN frames[CHOOSE k \in 1 .. Len(frames) : HeaderOf(k)].length
    ELSE 5

\* Mutant: a message is only seen once another byte is there.
CompleteMutant == len - off > Header /\ len - off > Declared

\* messageFromBytes: is there a complete message at off?
Complete == len - off > Header /\ len - off >= Declared

\* gotMessage runs to its end before the next byte is read.  It refuses a message
\* without a type, and may refuse any other.
Handle ==
    /\ pc = "frames"
    /\ Complete
    /\ delivered' = Append(delivered, [i \in 1 .. Declared |-> buf[off + i]])
    /\ off' = off + Declared
    /\ pc' \in IF Declared <= Header THEN {"refused"} ELSE {"frames", "refused"}
    /\ UNCHANGED <<stream, received, slice, err>>

\* Mutant: a message of which the end is missing is taken for a broken one.
NoMessageMutant ==
    /\ pc = "frames"
    /\ ~Complete
    /\ pc' = IF len - off > Header THEN "lost" ELSE "room"
    /\ UNCHANGED <<stream, received, slice, off, err, delivered>>

NoMessage ==
    /\ pc = "frames"
    /\ ~Complete
    /\ pc' = "room"
    /\ UNCHANGED <<stream, received, slice, off, err, delivered>>

ReaderStep == Fail \/ MakeRoom \/ Read \/ Handle \/ NoMessage

Next ==
    \/ \E n \in Lengths : WriteFrame(n)
    \/ StreamEnds
    \/ ReaderStep

Spec == Init /\ [][Next]_vars

\* readLoop goes on when it can; nobody promises that the peer writes or leaves.
FairSpec == Spec /\ WF_vars(ReaderStep)

-----------------------------------------------------------------------------
(* Properties.                                                             *)

\* Every variable has its type, and the offsets stay within the buffer.
TypeOK ==
    /\ frames \in Seq([from : Nat, length : 0 .. MaxLength])
    /\ written \in Nat
    /\ arriving \in Nat
    /\ up \in BOOLEAN
    /\ received \in Nat
    /\ cap \in Nat
    /\ buf \in [1 .. cap -> Nat]
    /\ len \in 0 .. cap
    /\ off \in 0 .. len
    /\ err \in BOOLEAN
    /\ pc \in {"room", "read", "frames", "lost", "refused"}
    /\ delivered \in Seq(Seq(Nat))

\* What gotMessage is given is, message by message and byte by byte, what the peer
\* wrote: nothing is lost, repeated, shifted or mixed by compacting and enlarging
\* the buffer, in however many pieces the stream arrives.
MessagesIntact ==
    /\ Len(delivered) <= Len(frames)
    /\ \A k \in 1 .. Len(delivered) :
         delivered[k] = [i \in 1 .. frames[k].length |-> frames[k].from + i - 1]

\* Before each Read there is room for MinRead bytes.  (A Read into an empty slice
\* returns nothing and no error, and readLoop would spin.)
RoomToRead == pc = "read" => cap - len >= MinRead

\* The buffer does not grow without bound on a long-lived connection: its size is
\* bounded by the longest frame, whatever the number of frames.
BufferBounded == cap <= Capacity \/ cap <= 2 * MaxLength + 3 * MinRead

\* Frame k has been received, with the byte that readLoop waits for after a header.
Arrived(k) == received >= frames[k].from - 1 + (IF frames[k].length > Header
                                               THEN frames[k].length ELSE Header + 1)

\* "Error processing is deferred until next iteration to process any received data":
\* when the connection is lost, each message that had been received was delivered.
NothingLeftBehind ==
    pc = "lost" => \A k \in 1 .. Len(frames) : Arrived(k) => k <= Len(delivered)

\* Every message gets through, with no need for another byte behind it, unless the
\* stream ends or gotMessage refuses one before it.
MessagesGetThrough ==
    \A k \in 1 .. MaxBytes :
        k <= Len(frames) /\ frames[k].length > Header
            ~> k <= Len(delivered) \/ pc \in {"lost", "refused"}

=============================================================================
