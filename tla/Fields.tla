------------------------------- MODULE Fields --------------------------------
(***************************************************************************)
(* The fields of a message.  First those whose value is no other message:  *)
(* the wire type of each type, which values are left out, and how the      *)
(* generated code writes and reads a value with the primitives of Wire.    *)
(* Then tables of fields: what every RPCEncode and a turn of the loop of   *)
(* every RPCDecode do, for whatever writes and reads one field.  Messages  *)
(* adds arrays, maps and structs.                                          *)
(***************************************************************************)
EXTENDS Wire, Types

ScalarKinds == {"int", "bool", "int64", "double", "float", "string", "bytes", "time", "uuid"}

\* the wire type of a field that is no array; maps and structs are embedded messages
WireTypeOfOne(t) ==
    CASE t.kind \in {"int", "bool"} -> WireVarint
      [] t.kind \in {"int64", "double"} -> Wire64Bit
      [] t.kind = "float" -> Wire32Bit
      [] OTHER -> WireLengthDelimited

-----------------------------------------------------------------------------
(* Writing *)

SignBit(width) == Base * Power(2 * Base, width - 1)

\* WritePBString ... WritePBMessage leave out the zero value; the text of a
\* time or a UUID is never empty, and -0.0 # 0 is false
Omitted(t, v) ==
    CASE t.kind = "float" -> v \in {0, SignBit(Width32)}
      [] t.kind = "double" -> v \in {0, SignBit(Width64)}
      [] t.kind \in {"time", "uuid"} -> FALSE
      [] OTHER -> v = Zero(t)

marshalDateTime(v) == <<v.instant>>

WriteScalar(m, t, v) ==
    CASE t.kind = "int" -> WriteVarint(m, v)
      [] t.kind = "bool" -> WriteVarint(m, 1)
      [] t.kind \in {"int64", "double"} -> WriteFixed(m, v, Width64)
      [] t.kind = "float" -> WriteFixed(m, v, Width32)
      [] t.kind = "bytes" -> WriteBytes(m, v.bytes)
      [] t.kind = "time" -> WriteBytes(m, marshalDateTime(v))
      [] OTHER -> WriteBytes(m, v)

WriteScalarField(m, id, t, v) ==
    IF Omitted(t, v) THEN m
    ELSE WriteScalar(WriteVarint(m, PBTag(id, WireTypeOfOne(t))), t, v)

-----------------------------------------------------------------------------
(* Reading *)

Malformed == "malformed"     \* the error of time.Parse and of uuid.FromBytes

unmarshalDateTime(s) ==
    IF Len(s) = 1 THEN [val |-> [instant |-> s[1], extra |-> FALSE], err |-> None]
                  ELSE [val |-> Zero(Type("time")), err |-> Malformed]

unmarshalUUID(s) ==
    IF Len(s) = UUIDLen THEN [val |-> s, err |-> None]
                        ELSE [val |-> Zero(Type("uuid")), err |-> Malformed]

\* Mutant: hands out a part of the buffer.
ReadBytesMutant(m) ==
    LET r == ReadBytesNoCopy(m)
    IN  [r EXCEPT !.val = IF r.err = None THEN Slice(r.val) ELSE NilBytes]

ReadBytes(m) ==
    LET r == ReadBytesNoCopy(m)
    IN  [r EXCEPT !.val = IF r.err = None THEN Copied(SliceOf(m.buf, r.val)) ELSE NilBytes]

ReadBool(m) ==
    LET r == ReadVarint(m) IN [r EXCEPT !.val = (r.err = None /\ r.val = 1)]

\* the string is read first, and only if it could be is the field assigned
ReadParsed(m, t, old) ==
    LET r == ReadString(m)
        p == IF t.kind = "time" THEN unmarshalDateTime(r.val) ELSE unmarshalUUID(r.val)
    IN  IF r.err = None THEN [msg |-> r.msg, val |-> p.val, err |-> p.err]
                        ELSE [r EXCEPT !.val = old]

ReadScalar(m, t, old) ==
    CASE t.kind = "string" -> ReadString(m)
      [] t.kind = "bytes" -> ReadBytes(m)
      [] t.kind = "bool" -> ReadBool(m)
      [] t.kind = "int" -> ReadVarint(m)
      [] t.kind \in {"int64", "double"} -> ReadFixed(m, Width64)
      [] t.kind = "float" -> ReadFixed(m, Width32)
      [] t.kind \in {"time", "uuid"} -> ReadParsed(m, t, old)

-----------------------------------------------------------------------------
(* Tables.  A field has an id, a type, and the tag it is decoded under,    *)
(* made of the wire type `expects`.                                        *)

\* RPCEncode, where Write writes a field
EncodeFields(Write(_, _, _, _), m, fields, v) ==
    LET upTo[k \in 0 .. Len(fields)] ==
            IF k = 0 THEN m ELSE Write(upTo[k - 1], fields[k].id, fields[k].type, v[k])
    IN  upTo[Len(fields)]

\* one turn of the loop of RPCDecode, with v decoded so far and Read for a field: what was
\* read is assigned, whether reading it failed or not
DecodeField(Read(_, _, _), fields, tag, v) ==
    LET match == {i \in 1 .. Len(fields) : PBTag(fields[i].id, fields[i].expects) = tag.val}
        i == CHOOSE i \in match : TRUE
        Assign(r) == [r EXCEPT !.val = [v EXCEPT ![i] = r.val]]
        Keep(r) == [r EXCEPT !.val = v]
    IN  IF match # {} THEN Assign(Read(tag.msg, fields[i].type, v[i]))
        ELSE IF tag.err # EOF THEN Keep(ReadPBSkip(tag.msg, tag.val))
        ELSE Keep(tag)

\* RPCEncode and RPCDecode of a type all of whose fields are scalars. A turn that ends
\* without an error has read a byte at least, so there are no more turns than these; a
\* type without fields reads nothing at all.
EncodeScalars(m, fields, v) == EncodeFields(WriteScalarField, m, fields, v)

DecodeScalars(fields, m) ==
    LET turn[k \in 0 .. Len(m.buf) + 1] ==
            IF k = 0 THEN Got(m, m.pos, ZeroOf(fields), None)
            ELSE LET r == turn[k - 1]
                 IN  IF r.err # None THEN r
                     ELSE DecodeField(ReadScalar, fields, ReadVarint(r.msg), r.val)
        last == turn[Len(m.buf) + 1]
    IN  IF fields = <<>> THEN [val |-> <<>>, err |-> None]
        ELSE [val |-> last.val, err |-> IF last.err = EOF THEN None ELSE last.err]
=============================================================================
