---------------------------- MODULE FramingProofs ----------------------------
(***************************************************************************)
(* Theorems about Framing, for any sizes of the buffer and of the frames   *)
(* and any way of cutting the stream into reads.                           *)
(***************************************************************************)
EXTENDS FramingInv, SequenceTheorems, TLAPS

FrameSet == [from : Nat, length : 0 .. MaxLength]

\* The frames and the parts of one.
LEMMA FrameType ==
  ASSUME TypeOK
  PROVE  /\ Len(frames) \in Nat /\ Len(delivered) \in Nat
         /\ frames \in Seq(FrameSet)
         /\ \A k \in 1 .. Len(frames) :
              /\ frames[k] \in FrameSet
              /\ frames[k].from \in Nat
              /\ frames[k].length \in Nat
              /\ frames[k].length <= MaxLength
              /\ Occupies(frames[k].length) \in Nat
              /\ Occupies(frames[k].length) >= 4
<1>1. Len(frames) \in Nat /\ Len(delivered) \in Nat /\ frames \in Seq(FrameSet)
  BY LenProperties DEF TypeOK, FrameSet
<1>2. \A k \in 1 .. Len(frames) : frames[k] \in FrameSet
  BY <1>1, ElementOfSeq
<1> QED
  BY <1>1, <1>2, SizesAssumption DEF FrameSet, Occupies, Header

\* The next frame to be delivered, if it has been written.
LEMMA NextFrame ==
  ASSUME TypeOK, Len(delivered) < Len(frames)
  PROVE  /\ Len(delivered) + 1 \in 1 .. Len(frames)
         /\ frames[Len(delivered) + 1].from \in Nat
<1>1. Len(delivered) + 1 \in 1 .. Len(frames)
  BY FrameType
<1> QED
  BY <1>1, FrameType

\* The initial state satisfies the invariant.
LEMMA InitInv == Init => FInv
<1> SUFFICES ASSUME Init PROVE FInv
  OBVIOUS
<1>1. TypeOK
  <2>1. Capacity \in Nat
    BY SizesAssumption
  <2>2. buf \in [1 .. cap -> Nat]
    BY DEF Init
  <2>3. cap \in Nat /\ len \in 0 .. cap /\ off \in 0 .. len
    BY <2>1 DEF Init
  <2>4. frames \in Seq([from : Nat, length : 0 .. MaxLength]) /\ delivered \in Seq(Seq(Nat))
    BY DEF Init
  <2> QED
    BY <2>2, <2>3, <2>4 DEF Init, TypeOK
<1>2. FramesOK /\ ContentsOK
  BY DEF Init, FramesOK, ContentsOK
<1>3. NextOK /\ LeftoverOK /\ MessagesIntact /\ RoomToRead /\ BufferBounded
  BY SizesAssumption
  DEF Init, NextOK, LeftoverOK, MessagesIntact, RoomToRead, BufferBounded, Header
<1> QED
  BY <1>1, <1>2, <1>3 DEF FInv

\* A new frame comes to lie behind those there are.
LEMMA WriteInv ==
  ASSUME FInv, NEW n \in Lengths, WriteFrame(n)
  PROVE  FInv'
<1> DEFINE f == [from |-> written + 1, length |-> n]
<1> USE DEF FInv, Header
<1>1. /\ frames \in Seq(FrameSet) /\ written \in Nat /\ n \in 0 .. MaxLength
      /\ Len(frames) \in Nat
      /\ f \in FrameSet /\ Occupies(n) \in Nat /\ Occupies(n) >= Header
  BY SizesAssumption, LenProperties DEF TypeOK, FrameSet, Occupies
<1>2. /\ frames' = Append(frames, f) /\ written' = written + Occupies(n)
      /\ arriving' = written'
      /\ UNCHANGED <<received, buf, cap, len, off, err, pc, delivered, up>>
  BY DEF WriteFrame, slice
<1>3. /\ frames' \in Seq(FrameSet) /\ Len(frames') = Len(frames) + 1
      /\ frames'[Len(frames) + 1] = f
      /\ \A k \in 1 .. Len(frames) : frames'[k] = frames[k]
  BY <1>1, <1>2, AppendProperties
<1>4. TypeOK'
  BY <1>1, <1>2, <1>3 DEF TypeOK, FrameSet
<1>5. FramesOK'
  <2>1. \A k \in 1 .. Len(frames) :
          /\ Occupies(frames[k].length) \in Nat /\ frames[k].from \in Nat
          /\ frames[k].from + Occupies(frames[k].length) <= written + 1
    BY FrameType DEF FramesOK
  <2>2. Occupies(f.length) = Occupies(n) /\ f.from = written + 1
    OBVIOUS
  <2>3. \A j, k \in 1 .. Len(frames') :
          j < k => frames'[j].from + Occupies(frames'[j].length) <= frames'[k].from
    <3> SUFFICES ASSUME NEW j \in 1 .. Len(frames) + 1, NEW k \in 1 .. Len(frames) + 1, j < k
                 PROVE  frames'[j].from + Occupies(frames'[j].length) <= frames'[k].from
      BY <1>3
    <3>1. j \in 1 .. Len(frames) /\ (k \in 1 .. Len(frames) \/ k = Len(frames) + 1)
      BY <1>1
    <3>2. frames'[j] = frames[j]
      BY <1>3, <3>1
    <3> QED
      BY <1>3, <2>1, <2>2, <3>1, <3>2 DEF FramesOK
  <2>4. \A k \in 1 .. Len(frames') :
          /\ frames'[k].from + Occupies(frames'[k].length) <= written' + 1
          /\ k < Len(frames') =>
               frames'[k + 1].from = frames'[k].from + Occupies(frames'[k].length)
          /\ k = Len(frames') =>
               written' + 1 = frames'[k].from + Occupies(frames'[k].length)
    <3> SUFFICES ASSUME NEW k \in 1 .. Len(frames) + 1
                 PROVE  /\ frames'[k].from + Occupies(frames'[k].length) <= written' + 1
                        /\ k < Len(frames) + 1 =>
                             frames'[k + 1].from = frames'[k].from + Occupies(frames'[k].length)
                        /\ k = Len(frames) + 1 =>
                             written' + 1 = frames'[k].from + Occupies(frames'[k].length)
      BY <1>3
    <3>1. CASE k = Len(frames) + 1
      <4>1. frames'[k] = f
        BY <1>3, <3>1
      <4> QED
        BY <1>1, <1>2, <2>2, <3>1, <4>1
    <3>2. CASE k = Len(frames)
      BY <1>1, <1>2, <1>3, <2>1, <2>2, <3>2 DEF FramesOK
    <3>3. CASE k < Len(frames)
      <4>1. k \in 1 .. Len(frames) /\ k + 1 \in 1 .. Len(frames)
        BY <1>1, <3>3
      <4>2. frames'[k] = frames[k] /\ frames'[k + 1] = frames[k + 1]
        BY <1>3, <4>1
      <4>3. frames[k].from + Occupies(frames[k].length) <= written' + 1
        <5>1. /\ written \in Nat /\ Occupies(n) \in Nat /\ written' = written + Occupies(n)
              /\ frames[k].from \in Nat /\ Occupies(frames[k].length) \in Nat
              /\ frames[k].from + Occupies(frames[k].length) <= written + 1
          BY <1>1, <1>2, <2>1, <4>1
        <5> QED
          BY <5>1
      <4> QED
        BY <3>3, <4>1, <4>2, <4>3 DEF FramesOK
    <3> QED
      BY <1>1, <3>1, <3>2, <3>3
  <2>5. frames'[1].from = 1
    <3>1. CASE frames = <<>>
      BY <3>1, <1>3, <2>2 DEF FramesOK
    <3>2. CASE frames # <<>>
      <4>1. 1 \in 1 .. Len(frames)
        BY <3>2, <1>1, EmptySeq
      <4> QED
        BY <3>2, <4>1, <1>3 DEF FramesOK
    <3> QED
      BY <3>1, <3>2
  <2>6. received' <= arriving' /\ arriving' <= written' /\ frames' # <<>>
    BY <1>1, <1>2, <1>3 DEF FramesOK, TypeOK
  <2> QED
    BY <2>3, <2>4, <2>5, <2>6 DEF FramesOK
<1>6. ContentsOK'
  BY <1>2 DEF ContentsOK
<1>7. NextOK' /\ LeftoverOK'
  <2>1. Len(delivered) \in Nat /\ Len(delivered) <= Len(frames)
    BY DEF TypeOK, NextOK
  <2>2. CASE Len(delivered) < Len(frames)
    <3>1. Len(delivered) + 1 \in 1 .. Len(frames) /\ Len(delivered) < Len(frames')
      BY <1>1, <1>3, <2>1, <2>2
    <3>2. frames'[Len(delivered) + 1] = frames[Len(delivered) + 1]
      BY <1>3, <3>1
    <3> QED
      BY <1>2, <2>2, <3>1, <3>2 DEF NextOK, LeftoverOK
  <2>3. CASE Len(delivered) = Len(frames)
    <3>1. Len(delivered) < Len(frames') /\ frames'[Len(delivered) + 1].from = written + 1
      BY <1>1, <1>3, <2>3
    <3>2. len \in Nat /\ off \in Nat /\ received \in Nat /\ len <= received
      BY DEF TypeOK, NextOK
    <3>3. pc \in {"room", "lost"} => len - off <= Header
      BY <2>1, <2>3, <3>2 DEF LeftoverOK
    <3>4. pc # "refused" => written + 1 + len = received + off + 1
      BY <1>1, <2>1, <2>3, <3>2 DEF NextOK
    <3> QED
      BY <1>2, <3>1, <3>2, <3>3, <3>4 DEF NextOK, LeftoverOK
  <2> QED
    BY <1>1, <2>1, <2>2, <2>3
<1>8. MessagesIntact' /\ RoomToRead' /\ BufferBounded'
  BY <1>1, <1>2, <1>3 DEF MessagesIntact, RoomToRead, BufferBounded, TypeOK
<1> QED
  BY <1>4, <1>5, <1>6, <1>7, <1>8

\* What was on its way may be lost, not what has been received.
LEMMA EndInv ==
  ASSUME FInv, StreamEnds
  PROVE  FInv'
<1> USE DEF FInv, StreamEnds, slice
<1>0. arriving' \in Nat /\ received <= arriving' /\ arriving' <= written
  BY DEF TypeOK, FramesOK
<1>1. TypeOK' /\ FramesOK'
  BY <1>0 DEF TypeOK, FramesOK
<1>2. ContentsOK' /\ NextOK' /\ LeftoverOK' /\ MessagesIntact' /\ RoomToRead' /\ BufferBounded'
  BY DEF ContentsOK, NextOK, LeftoverOK, MessagesIntact, RoomToRead, BufferBounded
<1> QED
  BY <1>1, <1>2

\* A frame that has not been processed when readLoop reads on is not complete, so what
\* is left over is shorter than the longest frame.
LEMMA Leftover ==
  ASSUME FInv, pc = "room"
  PROVE  len - off \in Nat /\ len - off < MaxLength
<1>1. len \in Nat /\ off \in 0 .. len /\ Len(frames) \in Nat /\ Len(delivered) \in Nat
  BY LenProperties DEF FInv, TypeOK
<1>2. CASE len - off <= Header
  BY <1>1, <1>2, SizesAssumption DEF Header
<1>3. CASE /\ Len(delivered) < Len(frames)
           /\ len - off < frames[Len(delivered) + 1].length
  <2>1. Len(delivered) + 1 \in 1 .. Len(frames)
    BY <1>1, <1>3
  <2> QED
    BY <1>1, <1>3, <2>1, FrameType, SizesAssumption DEF FInv
<1> QED
  BY <1>2, <1>3 DEF FInv, LeftoverOK

\* Moving what is left over keeps it, and there is room for the next Read.
LEMMA MakeRoomInv ==
  ASSUME FInv, MakeRoom
  PROVE  FInv'
<1> DEFINE left == len - off
<1> USE DEF FInv
<1>0. /\ pc = "room" /\ pc' = "read"
      /\ UNCHANGED <<frames, written, arriving, up, received, err, delivered>>
  BY DEF MakeRoom, stream
<1>1. /\ cap \in Nat /\ len \in Nat /\ len <= cap /\ off \in Nat /\ off <= len
      /\ len - off \in Nat /\ received \in Nat
      /\ len - off < MaxLength /\ MinRead \in Nat \ {0} /\ MaxLength \in Nat
      /\ buf \in [1 .. cap -> Nat]
  BY <1>0, Leftover, SizesAssumption DEF TypeOK
<1>2. /\ cap' \in Nat /\ len' \in Nat /\ len' <= cap' /\ off' \in Nat /\ off' <= len'
      /\ len' - off' = len - off
      /\ len' <= len
      /\ cap' - len' >= MinRead
      /\ cap' <= Capacity \/ cap' <= 2 * MaxLength + 3 * MinRead
  <2>1. CASE /\ (IF left = 0 THEN cap ELSE cap - len) >= MinRead
             /\ len' = IF left = 0 THEN 0 ELSE len
             /\ off' = IF left = 0 THEN 0 ELSE off
             /\ UNCHANGED <<buf, cap>>
    BY <1>1, <2>1 DEF BufferBounded
  <2>2. CASE /\ cap' = NewCap(left)
             /\ len' = left
             /\ off' = 0
    BY <1>1, <2>2, SizesAssumption DEF NewCap, BufferBounded
  <2> QED
    BY <2>1, <2>2 DEF MakeRoom
<1>3. /\ buf' \in [1 .. cap' -> Nat]
      /\ \A i \in 1 .. left : buf'[off' + i] = buf[off + i]
  <2>1. CASE /\ len' = IF left = 0 THEN 0 ELSE len
             /\ off' = IF left = 0 THEN 0 ELSE off
             /\ UNCHANGED <<buf, cap>>
    BY <1>1, <2>1
  <2>2. CASE buf' = Relocate(cap') /\ len' = left /\ off' = 0
    <3>1. \A i \in 1 .. cap' : (i <= left => off + i \in 1 .. cap) /\ (cap' = cap => i \in 1 .. cap)
      BY <1>1, <1>2
    <3>2. left <= cap'
      BY <1>1, <1>2, <2>2
    <3> QED
      BY <1>1, <1>2, <2>2, <3>1, <3>2 DEF Relocate
  <2> QED
    BY <2>1, <2>2 DEF MakeRoom
<1>4. TypeOK'
  BY <1>0, <1>2, <1>3 DEF TypeOK
<1>p. PICK o \in Nat, l \in Nat : off' = o /\ len' = l /\ o <= l /\ l - o = len - off /\ l <= len
  BY <1>2
<1>n. len \in Nat /\ off \in Nat /\ off <= len /\ len <= cap /\ cap \in Nat /\ received \in Nat
  BY <1>1
<1>5. ContentsOK'
  <2> SUFFICES ASSUME NEW i \in o + 1 .. l
               PROVE  buf'[i] + l = received + i
    BY <1>0, <1>p DEF ContentsOK
  <2>1. PICK j \in Nat : i = o + j
    OBVIOUS
  <2>2. j \in 1 .. left /\ off + j \in off + 1 .. len /\ off + j \in 1 .. cap
    BY <1>n, <1>p, <2>1
  <2>3. PICK b \in Nat : b = buf[off + j]
    BY <1>1, <2>2
  <2>4. b + len = received + (off + j)
    BY <2>2, <2>3 DEF ContentsOK
  <2>5. buf'[i] = b
    BY <1>3, <1>p, <2>1, <2>2, <2>3
  <2>6. b + l = received + i
    BY <1>n, <1>p, <2>1, <2>4
  <2> QED
    BY <2>5, <2>6
<1>6. NextOK'
  <2>1. l <= received /\ Len(delivered) <= Len(frames) /\ written \in Nat
    BY <1>n, <1>p DEF NextOK, TypeOK
  <2>2. CASE Len(delivered) < Len(frames)
    <3>1. PICK a \in Nat : a = frames[Len(delivered) + 1].from
      BY <2>2, NextFrame
    <3>2. a + len = received + off + 1
      BY <1>0, <2>2, <3>1 DEF NextOK
    <3>3. a + l = received + o + 1
      BY <1>n, <1>p, <3>2
    <3> QED
      BY <1>0, <1>p, <2>1, <2>2, <3>1, <3>3 DEF NextOK
  <2>3. CASE ~(Len(delivered) < Len(frames))
    <3>1. received + off = written + len
      BY <1>0, <2>3 DEF NextOK
    <3>2. received + o = written + l
      BY <1>n, <1>p, <2>1, <3>1
    <3> QED
      BY <1>0, <1>p, <2>1, <2>3, <3>2 DEF NextOK
  <2> QED
    BY <2>2, <2>3
<1>7. FramesOK' /\ LeftoverOK' /\ MessagesIntact' /\ RoomToRead' /\ BufferBounded'
  BY <1>0, <1>2 DEF FramesOK, LeftoverOK, MessagesIntact, RoomToRead, BufferBounded
<1> QED
  BY <1>4, <1>5, <1>6, <1>7

\* What is read continues what is there.
LEMMA ReadInv ==
  ASSUME FInv, Read
  PROVE  FInv'
<1> USE DEF FInv
<1>0. /\ pc = "read" /\ pc' = "frames"
      /\ UNCHANGED <<frames, written, arriving, up, cap, off, delivered>>
  BY DEF Read, stream
<1>1. PICK n \in 0 .. cap - len, e \in BOOLEAN :
        /\ received + n <= arriving
        /\ buf' = [i \in 1 .. cap |-> IF i \in len + 1 .. len + n THEN received + i - len
                                                                 ELSE buf[i]]
        /\ len' = len + n
        /\ received' = received + n
        /\ err' = e
  BY DEF Read
<1>2. /\ cap \in Nat /\ len \in 0 .. cap /\ off \in 0 .. len /\ received \in Nat
      /\ buf \in [1 .. cap -> Nat] /\ n \in Nat
  BY <1>1 DEF TypeOK
<1>n. /\ cap \in Nat /\ len \in Nat /\ off \in Nat /\ off <= len /\ received \in Nat
      /\ n \in Nat /\ written \in Nat
  BY <1>2 DEF TypeOK
<1>3. len' \in 0 .. cap /\ off \in 0 .. len' /\ received' \in Nat
  BY <1>1, <1>2
<1>4. \A i \in 1 .. cap : buf'[i] = IF i \in len + 1 .. len + n THEN received + i - len ELSE buf[i]
  BY <1>1
<1>5. buf' \in [1 .. cap -> Nat]
  <2>1. \A i \in 1 .. cap : buf'[i] \in Nat
    BY <1>2, <1>4
  <2> QED
    BY <1>1, <2>1
<1>6. TypeOK'
  BY <1>0, <1>1, <1>3, <1>5 DEF TypeOK
<1>7. ContentsOK'
  <2> SUFFICES ASSUME NEW i \in off + 1 .. len + n
               PROVE  buf'[i] + (len + n) = received + n + i
    BY <1>0, <1>1 DEF ContentsOK
  <2>1. i \in 1 .. cap
    BY <1>1, <1>2
  <2>2. CASE i \in off + 1 .. len
    <3>1. PICK b \in Nat : b = buf[i]
      BY <1>2, <2>1
    <3>2. b + len = received + i /\ buf'[i] = b
      BY <1>2, <1>4, <2>1, <2>2, <3>1 DEF ContentsOK
    <3> QED
      BY <1>n, <2>1, <3>2
  <2>3. CASE i \in len + 1 .. len + n
    <3>1. buf'[i] = received + i - len
      BY <1>4, <2>1, <2>3
    <3> QED
      BY <1>2, <2>1, <3>1
  <2> QED
    BY <1>2, <2>2, <2>3
<1>8. FramesOK'
  BY <1>0, <1>1 DEF FramesOK
<1>9. NextOK'
  <2>1. len + n <= received + n /\ Len(delivered) <= Len(frames)
    BY <1>n DEF NextOK
  <2>2. CASE Len(delivered) < Len(frames)
    <3>1. PICK a \in Nat : a = frames[Len(delivered) + 1].from
      BY <2>2, NextFrame
    <3>2. a + len = received + off + 1
      BY <1>0, <2>2, <3>1 DEF NextOK
    <3>3. a + (len + n) = (received + n) + off + 1
      BY <1>n, <3>2
    <3> QED
      BY <1>0, <1>1, <2>1, <2>2, <3>1, <3>3 DEF NextOK
  <2>3. CASE ~(Len(delivered) < Len(frames))
    <3>1. received + off = written + len
      BY <1>0, <2>3 DEF NextOK
    <3>2. (received + n) + off = written + (len + n)
      BY <1>n, <3>1
    <3> QED
      BY <1>0, <1>1, <2>1, <2>3, <3>2 DEF NextOK
  <2> QED
    BY <2>2, <2>3
<1>10. LeftoverOK' /\ MessagesIntact' /\ RoomToRead' /\ BufferBounded'
  BY <1>0 DEF LeftoverOK, MessagesIntact, RoomToRead, BufferBounded
<1> QED
  BY <1>6, <1>7, <1>8, <1>9, <1>10

\* When more than a header has not been processed, a frame begins at off, and its
\* length is what messageFromBytes finds.
LEMMA FrameAtOff ==
  ASSUME FInv, pc = "frames", len - off > Header
  PROVE  LET m == Len(delivered) + 1 IN
         /\ m \in 1 .. Len(frames)
         /\ Declared = frames[m].length
         /\ \A i \in 1 .. len - off : buf[off + i] = frames[m].from + i - 1
<1> DEFINE m == Len(delivered) + 1
<1> USE DEF FInv, Header
<1>1. /\ cap \in Nat /\ len \in 0 .. cap /\ off \in 0 .. len /\ received \in Nat
      /\ written \in Nat /\ arriving \in Nat
      /\ Len(delivered) \in Nat /\ Len(frames) \in Nat /\ Len(delivered) <= Len(frames)
      /\ buf \in [1 .. cap -> Nat]
  BY LenProperties DEF TypeOK, NextOK
<1>2. \A k \in 1 .. Len(frames) : frames[k].from \in Nat /\ Occupies(frames[k].length) >= Header
                                  /\ Occupies(frames[k].length) \in Nat
  BY FrameType
<1>3. m \in 1 .. Len(frames)
  <2>1. received + off # written + len
    BY <1>1 DEF FramesOK
  <2> QED
    BY <1>1, <2>1 DEF NextOK
<1>n. len \in Nat /\ off \in Nat /\ off <= len /\ received \in Nat
  BY <1>1
<1>3a. PICK a \in Nat : a = frames[m].from
  BY <1>2, <1>3
<1>3b. Len(delivered) < Len(frames)
  BY <1>1, <1>3
<1>4. a = frames[m].from /\ a + len = received + off + 1
  BY <1>3a, <1>3b DEF NextOK
<1>5. \A i \in 1 .. len - off : buf[off + i] = frames[m].from + i - 1
  <2> SUFFICES ASSUME NEW i \in 1 .. len - off
               PROVE  buf[off + i] = frames[m].from + i - 1
    OBVIOUS
  <2>1. off + i \in off + 1 .. len /\ off + i \in 1 .. cap
    BY <1>1
  <2>2. PICK b \in Nat : b = buf[off + i]
    BY <1>1, <2>1
  <2>3. b + len = received + (off + i)
    BY <2>1, <2>2 DEF ContentsOK
  <2>4. i \in Nat
    BY <1>1
  <2>5. b + 1 = a + i
    BY <1>n, <1>4, <2>3, <2>4
  <2>6. b = a + i - 1
    BY <2>4, <2>5
  <2> QED
    BY <1>4, <2>2, <2>6
<1>6. HeaderOf(m)
  BY <1>1, <1>5 DEF HeaderOf
<1>7. \A k \in 1 .. Len(frames) : HeaderOf(k) => k = m
  <2> SUFFICES ASSUME NEW k \in 1 .. Len(frames), HeaderOf(k), k # m
               PROVE  FALSE
    OBVIOUS
  <2>1. frames[k].from = frames[m].from
    <3>1. 1 \in 1 .. Header
      OBVIOUS
    <3>2. buf[off + 1] = frames[k].from + 1 - 1 /\ buf[off + 1] = frames[m].from + 1 - 1
      BY <1>6, <3>1 DEF HeaderOf
    <3> QED
      BY <1>2, <1>3, <3>2
  <2>2. k < m \/ m < k
    BY <1>1
  <2> QED
    BY <1>2, <1>3, <2>1, <2>2 DEF FramesOK
<1>8. (CHOOSE k \in 1 .. Len(frames) : HeaderOf(k)) = m
  BY <1>3, <1>6, <1>7
<1> QED
  BY <1>3, <1>5, <1>6, <1>8 DEF Declared

\* The message handed to gotMessage is the next frame.
LEMMA HandleInv ==
  ASSUME FInv, Handle
  PROVE  FInv'
<1> DEFINE m == Len(delivered) + 1
           L == frames[m].length
           msg == [i \in 1 .. L |-> buf[off + i]]
<1> USE DEF FInv, Header
<1>0. /\ UNCHANGED <<frames, written, arriving, up, received, buf, cap, len, err>>
      /\ pc = "frames" /\ len - off > Header
  BY DEF Handle, Complete, stream, slice
<1>1. /\ m \in 1 .. Len(frames) /\ Declared = L
      /\ \A i \in 1 .. len - off : buf[off + i] = frames[m].from + i - 1
  BY <1>0, FrameAtOff
<1>2. /\ delivered' = Append(delivered, msg) /\ off' = off + L /\ L <= len - off
      /\ pc' \in {"frames", "refused"} /\ (pc' # "refused" => L > Header)
  <2>1. /\ delivered' = Append(delivered, [i \in 1 .. Declared |-> buf[off + i]])
        /\ off' = off + Declared /\ len - off >= Declared
        /\ pc' \in IF Declared <= Header THEN {"refused"} ELSE {"frames", "refused"}
    BY DEF Handle, Complete
  <2>2. L \in Nat /\ len \in Nat /\ off \in Nat /\ off <= len
    BY <1>1, FrameType DEF TypeOK
  <2>3. len - off >= L /\ off' = off + L
    BY <1>1, <2>1
  <2>4. L <= len - off
    BY <2>2, <2>3
  <2>5. delivered' = Append(delivered, msg)
    BY <1>1, <2>1
  <2>6. pc' \in IF L <= Header THEN {"refused"} ELSE {"frames", "refused"}
    BY <1>1, <2>1
  <2>7. pc' \in {"frames", "refused"} /\ (pc' # "refused" => L > Header)
    BY <2>2, <2>6
  <2> QED
    BY <2>3, <2>4, <2>5, <2>7
<1>3. /\ cap \in Nat /\ len \in 0 .. cap /\ off \in 0 .. len /\ received \in Nat
      /\ Len(delivered) \in Nat /\ Len(frames) \in Nat /\ written \in Nat
      /\ buf \in [1 .. cap -> Nat] /\ delivered \in Seq(Seq(Nat))
  BY LenProperties DEF TypeOK
<1>4. L \in Nat /\ frames[m].from \in Nat
  BY <1>1, FrameType
<1>5. \A i \in 1 .. L : i \in 1 .. len - off /\ off + i \in 1 .. cap
  BY <1>2, <1>3, <1>4
<1>6. msg = [i \in 1 .. L |-> frames[m].from + i - 1]
  BY <1>1, <1>5
<1>7. msg \in Seq(Nat)
  <2>1. msg \in [1 .. L -> Nat]
    BY <1>3, <1>5
  <2> QED
    BY <1>4, <2>1, SeqDef
<1>8. /\ delivered' \in Seq(Seq(Nat)) /\ Len(delivered') = m /\ delivered'[m] = msg
      /\ \A k \in 1 .. Len(delivered) : delivered'[k] = delivered[k]
  BY <1>2, <1>3, <1>7, AppendProperties
<1>n. len \in Nat /\ off \in Nat /\ received \in Nat /\ written \in Nat /\ L <= len - off
  BY <1>2, <1>3
<1>9. TypeOK'
  <2>1. off + L \in 0 .. len
    BY <1>n, <1>4
  <2> QED
    BY <1>0, <1>2, <1>8, <2>1 DEF TypeOK
<1>10. ContentsOK'
  <2>1. \A i \in off + L + 1 .. len : i \in off + 1 .. len
    BY <1>n, <1>4
  <2> QED
    BY <1>0, <1>2, <2>1 DEF ContentsOK
<1>11. MessagesIntact'
  <2>1. Len(delivered') <= Len(frames')
    BY <1>0, <1>1, <1>3, <1>8
  <2>2. ASSUME NEW k \in 1 .. m
        PROVE  delivered'[k] = [i \in 1 .. frames[k].length |-> frames[k].from + i - 1]
    <3>1. CASE k = m
      BY <1>6, <1>8, <3>1
    <3>2. CASE k \in 1 .. Len(delivered)
      BY <1>8, <3>2 DEF MessagesIntact
    <3> QED
      BY <1>3, <3>1, <3>2
  <2> QED
    BY <1>0, <1>8, <2>1, <2>2 DEF MessagesIntact
<1>12. NextOK'
  <2>1. len' <= received' /\ Len(delivered') <= Len(frames')
    BY <1>0, <1>1, <1>3, <1>8 DEF NextOK
  <2>2. ASSUME pc' # "refused"
        PROVE  IF Len(delivered') < Len(frames')
               THEN frames'[Len(delivered') + 1].from + len' = received' + off' + 1
               ELSE received' + off' = written' + len'
    <3>1. Occupies(L) = L /\ frames[m].from + len = received + off + 1
      BY <1>0, <1>1, <1>2, <1>3, <1>4, <2>2 DEF Occupies, NextOK
    <3>2. CASE m < Len(frames)
      <4>1. frames[m + 1].from = frames[m].from + L
        BY <1>1, <3>1, <3>2 DEF FramesOK
      <4>2. PICK a \in Nat, x \in Nat : a = frames[m].from /\ x = L
        BY <1>4
      <4>2a. a + len = received + off + 1
        BY <3>1, <4>2
      <4>2b. (a + x) + len = received + (off + x) + 1
        BY <1>n, <4>2a
      <4>3. (a + L) + len = received + (off + L) + 1
        BY <4>2, <4>2b
      <4> QED
        BY <1>0, <1>2, <1>8, <3>2, <4>1, <4>2, <4>3
    <3>3. CASE m = Len(frames)
      <4>1. written + 1 = frames[m].from + L
        BY <1>1, <3>1, <3>3 DEF FramesOK
      <4>2. PICK a \in Nat, x \in Nat : a = frames[m].from /\ x = L
        BY <1>4
      <4>2a. a + len = received + off + 1 /\ written + 1 = a + x
        BY <3>1, <4>1, <4>2
      <4>2b. received + (off + x) = written + len
        BY <1>n, <4>2a
      <4>3. received + (off + L) = written + len
        BY <4>2, <4>2b
      <4>4. ~(m < Len(frames))
        BY <1>3, <3>3
      <4> QED
        BY <1>0, <1>2, <1>8, <4>3, <4>4
    <3> QED
      BY <1>1, <1>3, <3>2, <3>3
  <2> QED
    BY <2>1, <2>2 DEF NextOK
<1>13. FramesOK' /\ LeftoverOK' /\ RoomToRead' /\ BufferBounded'
  BY <1>0, <1>2 DEF FramesOK, LeftoverOK, RoomToRead, BufferBounded
<1> QED
  BY <1>9, <1>10, <1>11, <1>12, <1>13

\* Without a complete message readLoop reads on.
LEMMA NoMessageInv ==
  ASSUME FInv, NoMessage
  PROVE  FInv'
<1> USE DEF FInv
<1>0. /\ UNCHANGED <<frames, written, arriving, up, received, buf, cap, len, off, err, delivered>>
      /\ pc = "frames" /\ pc' = "room" /\ ~Complete
  BY DEF NoMessage, stream, slice
<1>1. LeftoverOK'
  <2>1. CASE len - off <= Header
    BY <1>0, <2>1 DEF LeftoverOK
  <2>2. CASE len - off > Header
    <3>1. /\ Len(delivered) + 1 \in 1 .. Len(frames)
          /\ Declared = frames[Len(delivered) + 1].length
      BY <1>0, <2>2, FrameAtOff
    <3>2. Len(delivered) \in Nat /\ Len(frames) \in Nat /\ len - off \in Nat
      BY LenProperties DEF TypeOK
    <3>3. frames[Len(delivered) + 1].length \in Nat
      BY <3>1, FrameType
    <3> QED
      BY <1>0, <2>2, <3>1, <3>2, <3>3 DEF LeftoverOK, Complete
  <2> QED
    BY <2>1, <2>2, SizesAssumption DEF TypeOK, Header
<1>2. TypeOK' /\ FramesOK' /\ ContentsOK' /\ NextOK'
  BY <1>0 DEF TypeOK, FramesOK, ContentsOK, NextOK
<1>3. MessagesIntact' /\ RoomToRead' /\ BufferBounded'
  BY <1>0 DEF MessagesIntact, RoomToRead, BufferBounded
<1> QED
  BY <1>1, <1>2, <1>3

\* Every step keeps the invariant.
LEMMA NextInv == FInv /\ [Next]_vars => FInv'
<1> SUFFICES ASSUME FInv, [Next]_vars PROVE FInv'
  OBVIOUS
<1>1. CASE Fail
  BY <1>1
  DEF Fail, FInv, TypeOK, FramesOK, ContentsOK, NextOK, LeftoverOK, MessagesIntact, RoomToRead,
      BufferBounded, stream, slice
<1>2. CASE UNCHANGED vars
  BY <1>2
  DEF vars, FInv, TypeOK, FramesOK, ContentsOK, NextOK, LeftoverOK, MessagesIntact, RoomToRead,
      BufferBounded
<1> QED
  BY <1>1, <1>2, WriteInv, EndInv, MakeRoomInv, ReadInv, HandleInv, NoMessageInv
  DEF Next, ReaderStep

\* The inductive invariant holds of every execution.
THEOREM Invariance == Spec => []FInv
  BY InitInv, NextInv, PTL DEF Spec

\* Every message is handed to gotMessage as it was written, in order, once, for any
\* buffer size and however the stream is cut.
THEOREM MessagesAlwaysIntact == Spec => []MessagesIntact
<1>1. FInv => MessagesIntact
  BY DEF FInv
<1> QED
  BY <1>1, Invariance, PTL

\* Read is never given less room than it asks for.
THEOREM AlwaysRoom == Spec => []RoomToRead
<1>1. FInv => RoomToRead
  BY DEF FInv
<1> QED
  BY <1>1, Invariance, PTL

\* The buffer stays below twice the longest frame and three times MinRead.
THEOREM BufferAlwaysBounded == Spec => []BufferBounded
<1>1. FInv => BufferBounded
  BY DEF FInv
<1> QED
  BY <1>1, Invariance, PTL

\* What is left over when readLoop gives up is less than a message.
LEMMA LostIsDrained == FInv => NothingLeftBehind
<1> SUFFICES ASSUME FInv, pc = "lost",
                    NEW k \in 1 .. Len(frames), Arrived(k), ~(k <= Len(delivered))
             PROVE  FALSE
  BY DEF NothingLeftBehind
<1> DEFINE m == Len(delivered) + 1
<1> USE DEF FInv, Header
<1>1. /\ len \in Nat /\ off \in 0 .. len /\ received \in Nat
      /\ Len(delivered) \in Nat /\ Len(frames) \in Nat /\ m \in 1 .. Len(frames) /\ m <= k
  BY LenProperties DEF TypeOK
<1>2. \A j \in 1 .. Len(frames) : frames[j].from \in Nat /\ frames[j].length \in Nat
  BY FrameType
<1>3. frames[m].from + len = received + off + 1
  BY <1>1 DEF NextOK
<1>4. Arrived(m)
  <2>1. CASE m < k
    <3>1. frames[m].from + Occupies(frames[m].length) <= frames[k].from
      BY <1>1, <2>1 DEF FramesOK
    <3>2. PICK a \in Nat, b \in Nat, L \in Nat, M \in Nat :
            a = frames[m].from /\ b = frames[k].from /\ L = frames[m].length /\ M = frames[k].length
      BY <1>1, <1>2
    <3>3. a + (IF L < 4 THEN 4 ELSE L) <= b /\ received >= b - 1 + (IF M > 4 THEN M ELSE 5)
      BY <3>1, <3>2 DEF Arrived, Occupies
    <3>4. received >= a - 1 + (IF L > 4 THEN L ELSE 5)
      BY <1>1, <3>3
    <3> QED
      BY <3>2, <3>4 DEF Arrived
  <2> QED
    BY <1>1, <2>1
<1>5. len - off <= Header \/ len - off < frames[m].length
  BY <1>1 DEF LeftoverOK
<1>6. PICK a \in Nat, L \in Nat : a = frames[m].from /\ L = frames[m].length
  BY <1>1, <1>2
<1>7. received >= a - 1 + (IF L > 4 THEN L ELSE 5)
  BY <1>4, <1>6 DEF Arrived
<1>8. (len - off <= 4 \/ len - off < L) /\ a + len = received + off + 1
  BY <1>3, <1>5, <1>6
<1>9. len \in Nat /\ off \in Nat /\ received \in Nat
  BY <1>1
<1> QED
  BY <1>7, <1>8, <1>9

\* When the stream breaks, all messages that were received have been delivered.
THEOREM NothingEverLeftBehind == Spec => []NothingLeftBehind
  BY LostIsDrained, Invariance, PTL

-----------------------------------------------------------------------------
(* Framing implements MessageStream.                                       *)

\* The invariant that the refinement needs.
RInv == FInv /\ ErrorsOK

LEMMA ErrorsInv == RInv /\ [Next]_vars => RInv'
<1> SUFFICES ASSUME RInv, [Next]_vars PROVE ErrorsOK'
  BY NextInv DEF RInv
<1>1. CASE Read
  BY <1>1 DEF RInv, ErrorsOK, Read, stream
<1>2. CASE MakeRoom
  BY <1>2 DEF RInv, ErrorsOK, MakeRoom, stream
<1>3. CASE Fail \/ NoMessage \/ Handle
  BY <1>3 DEF RInv, ErrorsOK, Fail, NoMessage, Handle, stream
<1>4. CASE StreamEnds
  BY <1>4 DEF RInv, ErrorsOK, StreamEnds
<1>5. ASSUME NEW n \in Lengths, WriteFrame(n) PROVE ErrorsOK'
  <2>1. UNCHANGED <<up, err, pc>>
    BY <1>5 DEF WriteFrame
  <2> QED
    BY <2>1 DEF RInv, ErrorsOK
<1>6. CASE UNCHANGED vars
  BY <1>6 DEF RInv, ErrorsOK, vars
<1> QED
  BY <1>1, <1>2, <1>3, <1>4, <1>5, <1>6 DEF Next, ReaderStep

\* An error of Read says that the stream ended, and nothing is read after it.
THEOREM ErrorsInvariance == Spec => []RInv
<1>1. Init => RInv
  BY InitInv DEF Init, RInv, ErrorsOK
<1> QED
  BY <1>1, ErrorsInv, PTL DEF Spec

LEMMA SentFacts ==
    ASSUME TypeOK
    PROVE  /\ Len(frames) \in Nat /\ Len(sentOf) = Len(frames)
           /\ \A k \in 1 .. Len(frames) :
                 sentOf[k] = [i \in 1 .. frames[k].length |-> frames[k].from + i - 1]
<1>1. Len(frames) \in Nat
  BY FrameType
<1> QED
  BY <1>1 DEF sentOf

\* A message that is handed over when the end of the stream was noticed had arrived.
LEMMA HandedOverHadArrived ==
    ASSUME FInv, Handle
    PROVE  Len(delivered) + 1 \in 1 .. Len(frames) /\ Arrived(Len(delivered) + 1)
<1> DEFINE m == Len(delivered) + 1
<1>1. pc = "frames" /\ len - off > Header /\ len - off >= Declared
  BY DEF Handle, Complete
<1>2. m \in 1 .. Len(frames) /\ Declared = frames[m].length
  BY <1>1, FrameAtOff
<1>3. /\ TypeOK /\ len \in Nat /\ off \in Nat /\ received \in Nat
      /\ Len(delivered) \in Nat /\ Len(frames) \in Nat
  BY FrameType DEF FInv, TypeOK
<1>4. frames[m].from \in Nat /\ frames[m].length \in Nat
  BY <1>2, <1>3, FrameType
<1>5. frames[m].from + len = received + off + 1
  BY <1>1, <1>2, <1>3 DEF FInv, NextOK
<1>6. Arrived(m)
  <2>1. PICK a \in Nat, L \in Nat : a = frames[m].from /\ L = frames[m].length
    BY <1>4
  <2>2. len - off > 4 /\ len - off >= L /\ a + len = received + off + 1
    BY <2>1, <1>1, <1>2, <1>5 DEF Header
  <2>3. received >= a - 1 + (IF L > 4 THEN L ELSE 4 + 1)
    BY <2>2, <1>3
  <2> QED
    BY <2>1, <2>3 DEF Arrived, Header
<1> QED
  BY <1>2, <1>6

LEMMA InitImplements == Init => Messages!MInit
<1> SUFFICES ASSUME Init PROVE Messages!MInit
  OBVIOUS
<1>1. sentOf = <<>>
  BY DEF Init, sentOf
<1> QED
  BY <1>1 DEF Init, Messages!MInit, readerOf, completeOf

\* Every step of Framing is a step of MessageStream or leaves its state alone.
LEMMA StepImplements == RInv /\ [Next]_vars => [Messages!MNext]_(Messages!mvars)
<1> SUFFICES ASSUME RInv, [Next]_vars
             PROVE  Messages!MNext \/ UNCHANGED Messages!mvars
  OBVIOUS
<1>0. FInv /\ FInv' /\ TypeOK /\ TypeOK' /\ ErrorsOK
  BY NextInv DEF RInv, FInv
<1>1. ASSUME NEW n \in Lengths, WriteFrame(n) PROVE Messages!MSend
  <2>1. /\ Len(frames) \in Nat /\ Len(frames') = Len(frames) + 1
        /\ \A k \in 1 .. Len(frames) : frames'[k] = frames[k]
    <3>1. frames' = Append(frames, [from |-> written + 1, length |-> n])
      BY <1>1 DEF WriteFrame
    <3>2. frames \in Seq(FrameSet) /\ Len(frames) \in Nat /\ frames' \in Seq(FrameSet)
      BY <1>0, FrameType DEF TypeOK, FrameSet
    <3> QED
      BY <3>1, <3>2, AppendProperties DEF TypeOK
  <2>2. /\ Len(sentOf) = Len(frames)
        /\ \A k \in 1 .. Len(frames) :
              sentOf[k] = [i \in 1 .. frames[k].length |-> frames[k].from + i - 1]
    BY <1>0, SentFacts
  <2>3. /\ Len(sentOf') = Len(frames')
        /\ \A k \in 1 .. Len(frames') :
              sentOf'[k] = [i \in 1 .. frames'[k].length |-> frames'[k].from + i - 1]
    BY <2>1 DEF sentOf
  <2>4. Len(sentOf') = Len(sentOf) + 1 /\ \A k \in 1 .. Len(sentOf) : sentOf'[k] = sentOf[k]
    BY <2>1, <2>2, <2>3
  <2>5. up /\ ~err /\ UNCHANGED <<up, received, err, pc, delivered>>
    BY <1>0, <1>1 DEF WriteFrame, ErrorsOK
  <2>6. readerOf' = readerOf /\ completeOf' = completeOf
    BY <2>5 DEF readerOf, completeOf
  <2> QED
    BY <2>4, <2>5, <2>6 DEF Messages!MSend
<1>2. ASSUME Handle PROVE Messages!MDeliver
  <2> DEFINE m == Len(delivered) + 1
  <2>1. m \in 1 .. Len(frames) /\ Arrived(m) /\ Len(delivered) \in Nat
    BY <1>0, <1>2, HandedOverHadArrived, FrameType
  <2>2. /\ UNCHANGED <<frames, up, received, err>> /\ pc = "frames"
        /\ pc' \in {"frames", "refused"}
    BY <1>2 DEF Handle, stream
  <2>3. delivered' = Append(delivered, sentOf[m])
    <3>1. PICK x : delivered' = Append(delivered, x)
      BY <1>2 DEF Handle
    <3>2. delivered \in Seq(Seq(Nat)) /\ delivered' \in Seq(Seq(Nat))
      BY <1>0 DEF TypeOK
    <3>3. Len(delivered') = m /\ delivered'[m] = x
      BY <3>1, <3>2
    <3>4. delivered'[m] = [i \in 1 .. frames'[m].length |-> frames'[m].from + i - 1]
      BY <1>0, <2>1, <3>3 DEF FInv, MessagesIntact
    <3>5. delivered'[m] = sentOf[m]
      BY <3>4, <2>1, <2>2, <1>0, SentFacts
    <3> QED
      BY <3>1, <3>3, <3>5
  <2>4. sentOf' = sentOf /\ completeOf' = completeOf
    BY <2>2 DEF sentOf, completeOf, Arrived
  <2>5. /\ readerOf = "reading" \/ (readerOf = "draining" /\ m \in completeOf)
        /\ readerOf' \in {readerOf, "refused"}
    BY <2>1, <2>2 DEF readerOf, completeOf
  <2>6. m <= Len(sentOf)
    BY <2>1, <1>0, SentFacts
  <2> QED
    BY <2>2, <2>3, <2>4, <2>5, <2>6 DEF Messages!MDeliver
<1>3. ASSUME StreamEnds PROVE Messages!MClose
  <2>1. up /\ up' = FALSE /\ UNCHANGED <<frames, received, err, pc, delivered>>
    BY <1>3 DEF StreamEnds
  <2>2. sentOf' = sentOf /\ completeOf' = completeOf /\ readerOf' = readerOf
    BY <2>1 DEF sentOf, completeOf, Arrived, readerOf
  <2> QED
    BY <2>1, <2>2 DEF Messages!MClose
<1>4. ASSUME Read PROVE Messages!MNotice \/ UNCHANGED Messages!mvars
  <2>1. /\ pc = "read" /\ pc' = "frames" /\ ~err
        /\ err' => ~up
        /\ UNCHANGED <<frames, up, delivered>>
    BY <1>0, <1>4 DEF Read, stream, ErrorsOK
  <2>2. sentOf' = sentOf /\ Len(sentOf) = Len(frames)
    BY <2>1, <1>0, SentFacts DEF sentOf
  <2>3. readerOf = "reading" /\ completeOf = {}
    BY <2>1 DEF readerOf, completeOf
  <2>4. CASE err'
    <3>1. readerOf' = "draining"
      BY <2>1, <2>4 DEF readerOf
    <3>2. completeOf' \in SUBSET (1 .. Len(sentOf))
      BY <2>1, <2>2 DEF completeOf
    <3> QED
      BY <2>1, <2>2, <2>3, <2>4, <3>1, <3>2 DEF Messages!MNotice
  <2>5. CASE ~err'
    <3>1. readerOf' = "reading" /\ completeOf' = {}
      BY <2>1, <2>5 DEF readerOf, completeOf
    <3> QED
      BY <2>1, <2>2, <2>3, <3>1 DEF Messages!mvars
  <2> QED
    BY <2>4, <2>5
<1>5. ASSUME Fail PROVE Messages!MLost
  <2>1. /\ pc = "room" /\ err /\ pc' = "lost"
        /\ UNCHANGED <<frames, up, received, err, delivered>>
    BY <1>5 DEF Fail, stream
  <2>2. sentOf' = sentOf /\ completeOf' = completeOf
    BY <2>1 DEF sentOf, completeOf, Arrived
  <2>3. readerOf = "draining" /\ readerOf' = "lost"
    BY <2>1 DEF readerOf
  <2>4. \A k \in completeOf : k <= Len(delivered)
    <3>1. FInv' => NothingLeftBehind'
      BY LostIsDrained, PTL
    <3> QED
      BY <1>0, <2>1, <3>1 DEF NothingLeftBehind, completeOf, Arrived
  <2> QED
    BY <2>1, <2>2, <2>3, <2>4 DEF Messages!MLost
<1>6. ASSUME MakeRoom \/ NoMessage PROVE UNCHANGED Messages!mvars
  <2>1. /\ UNCHANGED <<frames, up, received, err, delivered>>
        /\ pc \notin {"lost", "refused"} /\ pc' \notin {"lost", "refused"}
    BY <1>6 DEF MakeRoom, NoMessage, stream
  <2>2. sentOf' = sentOf /\ completeOf' = completeOf /\ readerOf' = readerOf
    BY <2>1 DEF sentOf, completeOf, Arrived, readerOf
  <2> QED
    BY <2>1, <2>2 DEF Messages!mvars
<1>7. CASE UNCHANGED vars
  <2>1. sentOf' = sentOf /\ completeOf' = completeOf /\ readerOf' = readerOf
    BY <1>7 DEF vars, sentOf, completeOf, Arrived, readerOf
  <2> QED
    BY <2>1, <1>7 DEF vars, Messages!mvars
<1> QED
  BY <1>1, <1>2, <1>3, <1>4, <1>5, <1>6, <1>7 DEF Next, ReaderStep, Messages!MNext

\* readLoop implements a stream of whole messages, in the order in which they were written,
\* for any buffer size and any lengths of frames: nothing is delivered behind a refused
\* message, and the stream is given up only when it has ended and everything that came
\* with the last Read has been delivered.
THEOREM Implements == Spec => ImplementsStream
<1>1. Spec => Messages!MSpec
  BY InitImplements, StepImplements, ErrorsInvariance, PTL DEF Spec, Messages!MSpec
<1> QED
  BY <1>1 DEF ImplementsStream

=============================================================================
