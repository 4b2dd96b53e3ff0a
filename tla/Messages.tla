------------------------------ MODULE Messages ------------------------------
(***************************************************************************)
(* Messages with fields: what every RPCEncode writes and every RPCDecode   *)
(* reads.  The generator repeats one pattern for each type, with the       *)
(* fields of the type filled in; here the pattern is an operator and a     *)
(* type is the table of its fields.                                        *)
(***************************************************************************)
EXTENDS Fields, SequencesExt

CONSTANT MessageCapacity     \* messageCapacity

ASSUME MessagesAssumption == MessageCapacity \in Nat

-----------------------------------------------------------------------------
(* Fields *)

RECURSIVE WireTypeOf(_)
WireTypeOf(t) ==
    IF t.kind = "array" THEN WireTypeOf(t.of) ELSE WireTypeOfOne(t)

\* a field is decoded under the tag `expects`: that of its own type in a
\* request, a response or a struct, but that of the map itself in the entry of
\* a map
Field(id, t) == [id |-> id, type |-> t, expects |-> WireTypeOf(t)]
EntryField(id, t) == [id |-> id, type |-> t, expects |-> WireLengthDelimited]

-----------------------------------------------------------------------------
(* RPCEncode *)

newEmbeddedMessage == newMessage(0, MessageCapacity)

\* an embedded message, once written, is written like bytes; if writing it
\* panicked, all of it did
WriteEmbedded(m, em) ==
    LET n == WriteBytes(m, em.out) IN [n EXCEPT !.panic = @ \/ em.panic]

RECURSIVE RPCEncode(_, _, _), WriteField(_, _, _, _)

RPCEncode(m, fields, v) == EncodeFields(WriteField, m, fields, v)

\* a struct, or an entry of a map
WriteMessage(m, id, fields, v) ==
    WriteEmbedded(WriteVarint(m, PBTag(id, WireLengthDelimited)),
                  RPCEncode(newEmbeddedMessage, fields, v))

WriteField(m, id, t, v) ==
    CASE t.kind = "array" ->
            FoldLeft(LAMBDA n, e : WriteField(n, id, t.of, e), m, v)
      [] t.kind = "map" ->
            IF v = <<>> THEN m
            ELSE FoldLeft(LAMBDA n, kv : WriteMessage(n, id, t.fields, kv), m, v[1])
      [] t.kind = "struct" ->
            IF v = <<>> THEN m ELSE WriteMessage(m, id, t.fields, v[1])
      [] OTHER -> WriteScalarField(m, id, t, v)

-----------------------------------------------------------------------------
(* RPCDecode *)

\* outer[k] = v
SetKey(entries, kv) ==
    IF \E i \in DOMAIN entries : entries[i][1] = kv[1]
    THEN [i \in DOMAIN entries |-> IF entries[i][1] = kv[1] THEN kv ELSE entries[i]]
    ELSE Append(entries, kv)

RECURSIVE RPCDecode(_, _), DecodeOn(_, _), ReadField(_, _, _)

\* an embedded message and what RPCDecode makes of it
ReadEmbedded(m, fields) ==
    LET r == ReadBytesNoCopy(m)
        d == RPCDecode(fields, FromBytes(SliceOf(m.buf, r.val), 0))
    IN  IF r.err # None THEN r ELSE [msg |-> r.msg, val |-> d.val, err |-> d.err]

ReadField(m, t, old) ==
    CASE t.kind = "struct" ->
            LET r == ReadEmbedded(m, t.fields)
            IN  [r EXCEPT !.val = IF r.err = None THEN <<r.val>> ELSE old]
      [] t.kind = "map" ->
            LET r == ReadEmbedded(m, t.fields)
                entries == IF old = <<>> THEN <<>> ELSE old[1]
            IN  [r EXCEPT !.val = <<IF r.err = None THEN SetKey(entries, r.val) ELSE entries>>]
      [] t.kind = "array" ->
            LET r == ReadField(m, t.of, Zero(t.of))
            IN  [r EXCEPT !.val =
                    IF t.of.kind = "struct" /\ r.err # None THEN old ELSE Append(old, r.val)]
      [] OTHER -> ReadScalar(m, t, old)

DecodeOn(fields, r) ==
    CASE r.err = None ->
            DecodeOn(fields, DecodeField(ReadField, fields, ReadVarint(r.msg), r.val))
      [] r.err = EOF -> [val |-> r.val, err |-> None]
      [] OTHER -> [val |-> r.val, err |-> r.err]

\* a type without fields reads nothing at all
RPCDecode(fields, m) ==
    IF fields = <<>> THEN [val |-> <<>>, err |-> None]
                     ELSE DecodeOn(fields, Got(m, m.pos, ZeroOf(fields), None))

\* What somebody who holds v sees in it while the buffer it was decoded from
\* holds buf
RECURSIVE Seen(_, _, _)
Seen(t, v, buf) ==
    CASE t.kind = "bytes" ->
            IF v.held = "slice" THEN Copied(SliceOf(buf, v.slice)) ELSE v
      [] t.kind = "array" -> [i \in DOMAIN v |-> Seen(t.of, v[i], buf)]
      [] OTHER -> v

SeenIn(fields, v, buf) == [i \in 1 .. Len(fields) |-> Seen(fields[i].type, v[i], buf)]
=============================================================================
