-------------------------------- MODULE Wire --------------------------------
(***************************************************************************)
(* The message of the Go runtime: a buffer that is written from the front  *)
(* and grows, or is read from the front, and the primitives that write and *)
(* read varints, fixed-width numbers and byte strings.                     *)
(*                                                                         *)
(* A byte is a number below 2 * Base, a continuation bit above a group of  *)
(* bits (Base is 2^7 in the code), and a word is a number below Words      *)
(* (2^64 in the code).  Full groups fit a word completely (9 in the code)  *)
(* and the next one must be below Rest (2) to fit it at all.  Numbers of a *)
(* fixed width take Width32 and Width64 bytes (4 and 8).                   *)
(*                                                                         *)
(* Writing and reading never fail half-way in a way the model would have   *)
(* to see, but for the run-time panics of an index or a slice out of       *)
(* range: those are part of the result.                                    *)
(***************************************************************************)
EXTENDS Integers, Sequences, FiniteSetsExt

CONSTANTS Base,       \* values of one group of a varint
          Full,       \* groups that fit a word completely
          Rest,       \* values of what is left of a word above them
          Width32, Width64

ASSUME WireAssumption ==
    /\ Base \in Nat /\ Base > 1
    /\ Full \in Nat \ {0}
    /\ Rest \in Nat /\ Rest \in 2 .. Base
    /\ Width32 \in Nat \ {0} /\ Width64 \in Nat \ {0}

\* b^n, as a recursive function so that it can be reasoned about
Power(b, n) ==
    LET power[k \in 0 .. n] == IF k = 0 THEN 1 ELSE b * power[k - 1] IN power[n]

\* the i-th digit of v to the base b, and the number that has the digits d, the lowest
\* one first
Digit(b, v, i) == (v \div Power(b, i - 1)) % b
Number(b, d) ==
    LET upTo[k \in 0 .. Len(d)] ==
            IF k = 0 THEN 0 ELSE upTo[k - 1] + d[k] * Power(b, k - 1)
    IN  upTo[Len(d)]

Words == Rest * Power(Base, Full)
Byte == 0 .. 2 * Base - 1

-----------------------------------------------------------------------------
(* Writing.  out is m.buf[:m.len], size is len(m.buf), which is its capacity *)
(* too: makeSlice allocates exactly what it returns.                         *)

newMessage(prefix, capacity) ==
    [out |-> [i \in 1 .. prefix |-> 0], size |-> 4 + capacity, panic |-> FALSE]

Room(m) == m.size - Len(m.out)

\* Mutant: forgets that what is written stays in the buffer.
growMutant(m, needed) ==
    IF needed > Room(m) THEN [m EXCEPT !.size = 2 * needed] ELSE m

grow(m, needed) ==
    IF needed > Room(m) THEN [m EXCEPT !.size = 2 * @ + needed] ELSE m

\* b is written byte by byte behind what is there: an index out of range
\* panics
Put(m, b) ==
    IF Len(b) > Room(m) THEN [m EXCEPT !.panic = TRUE]
                        ELSE [m EXCEPT !.out = @ \o b]

\* the groups of v that a varint has: at least one, and no leading zero
GroupsOf(v) ==
    CHOOSE n \in 1 .. Full + 1 :
        v < Power(Base, n) /\ (n = 1 \/ v >= Power(Base, n - 1))

Varint(v) ==
    [i \in 1 .. GroupsOf(v) |->
        Digit(Base, v, i) + (IF i < GroupsOf(v) THEN Base ELSE 0)]

\* for w bytes, the code's grow(w) and PutUint32 or PutUint64: the lowest
\* byte first
Fixed(v, w) == [i \in 1 .. w |-> Digit(2 * Base, v, i)]

WriteVarint(m, v) == Put(grow(m, Full), Varint(v))
WriteFixed(m, v, w) == Put(grow(m, w), Fixed(v, w))
WriteBytes(m, b) ==
    LET n == WriteVarint(m, Len(b)) IN Put(grow(n, Len(b)), b)

-----------------------------------------------------------------------------
(* Reading.  buf is m.buf[:m.len], and pos bytes of it have been read.  A     *)
(* reader returns what is left to read (msg), a value (val) and an error.     *)

None == "none"
EOF == "EOF"
Overflow == "overflow"
Panic == "panic"            \* not an error of the code but a slice out of range

FromBytes(b, pos) == [buf |-> b, pos |-> pos]

Got(m, pos, val, err) == [msg |-> [m EXCEPT !.pos = pos], val |-> val, err |-> err]

\* Read errors carry the zero value
Failed(m, pos, zero, err) == Got(m, pos, zero, err)

Unread(m) == m.pos + 1 .. Len(m.buf)

\* where the varint ends: the first byte without the continuation bit
Ends(m) == {p \in Unread(m) : m.buf[p] < Base}

ValueAt(m, last) ==
    Number(Base, [i \in 1 .. last - m.pos |-> m.buf[m.pos + i] % Base])

\* the varint that ends at last: none of its first Full groups overflows, nor
\* a small enough one behind them
VarintTo(m, last) ==
    IF LET i == last - m.pos - 1 IN i > Full \/ (i = Full /\ m.buf[last] >= Rest)
    THEN Failed(m, last, 0, Overflow)
    ELSE Got(m, last, ValueAt(m, last), None)

ReadVarint(m) ==
    IF Ends(m) = {} THEN Failed(m, Len(m.buf), 0, EOF) ELSE VarintTo(m, Min(Ends(m)))

ReadFixed(m, w) ==
    IF m.pos + w > Len(m.buf)
    THEN Failed(m, m.pos, 0, EOF)
    ELSE Got(m, m.pos + w, Number(2 * Base, [i \in 1 .. w |-> m.buf[m.pos + i]]), None)

\* int(v) of a length: the upper half of the words is negative, and so is a
\* sum that leaves the lower half; neither is larger than m.len, and the slice
\* expression that follows panics
Beyond(m, v) == v + m.pos >= Words \div 2

\* the value is a slice of the buffer: where it starts and where it ends
SliceBehind(r) ==
    LET from == r.msg.pos
    IN  IF r.err # None THEN [r EXCEPT !.val = <<0, 0>>]
        ELSE IF Beyond(r.msg, r.val) THEN Failed(r.msg, from, <<0, 0>>, Panic)
        ELSE IF from + r.val > Len(r.msg.buf) THEN Failed(r.msg, from, <<0, 0>>, EOF)
        ELSE Got(r.msg, from + r.val, <<from, from + r.val>>, None)

ReadBytesNoCopy(m) == SliceBehind(ReadVarint(m))

SliceOf(buf, s) == SubSeq(buf, s[1] + 1, s[2])

\* ReadString converts the slice, which copies it
ReadString(m) == [ReadBytesNoCopy(m) EXCEPT !.val = SliceOf(m.buf, @)]

\* the tag of a field
PBTag(id, wireType) == id * 8 + wireType

WireVarint == 0
Wire64Bit == 1
WireLengthDelimited == 2
Wire32Bit == 5

\* Mutant: fields of 32 bits are not known, and refused.
ReadPBSkipMutant(m, tag) ==
    CASE tag % 8 = WireVarint -> ReadVarint(m)
      [] tag % 8 = Wire64Bit -> ReadFixed(m, Width64)
      [] tag % 8 = WireLengthDelimited -> ReadBytesNoCopy(m)
      [] OTHER -> Failed(m, m.pos, 0, Overflow)

ReadPBSkip(m, tag) ==
    CASE tag % 8 = WireVarint -> ReadVarint(m)
      [] tag % 8 = Wire64Bit -> ReadFixed(m, Width64)
      [] tag % 8 = WireLengthDelimited -> ReadBytesNoCopy(m)
      [] tag % 8 = Wire32Bit -> ReadFixed(m, Width32)
      [] OTHER -> Got(m, m.pos, 0, None)
=============================================================================
