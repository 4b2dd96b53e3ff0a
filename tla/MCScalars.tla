------------------------------ MODULE MCScalars ------------------------------
(***************************************************************************)
(* What the proofs say of messages of scalars, EncodeScalars and           *)
(* DecodeScalars, they say of RPCEncode and RPCDecode: on tables of two     *)
(* fields of each pair of types, what is written is the same, and so is    *)
(* what is read of it, of its parts, under the table of another, and of    *)
(* other bytes.                                                            *)
(***************************************************************************)
EXTENDS MCValues

Tables ==
    {<<>>} \cup {<<Field(1, Type(k)), Field(2, Type(l))>> : k, l \in ScalarKinds}
Others(fields) ==
    {fields, <<>>} \cup (IF fields = <<>> THEN {} ELSE {<<Field(2, fields[1].type)>>})

Buffers == {newMessage(0, capacity) : capacity \in {0, 2, MessageCapacity}}
OtherBytes == UNION {[1 .. n -> {0, 1, 8, 10, 21, 128, 255}] : n \in 1 .. 3}

WrittenAlike(fields, v) ==
    \A m \in Buffers : EncodeScalars(m, fields, v) = RPCEncode(m, fields, v)
ReadAlike(fields, b) ==
    LET m == FromBytes(b, 0) IN DecodeScalars(fields, m) = RPCDecode(fields, m)

ASSUME ScalarsAreMessages ==
    \A fields \in Tables :
        /\ \A v \in Tuples(fields) :
              /\ WrittenAlike(fields, v)
              /\ LET n == EncodeScalars(newMessage(0, MessageCapacity), fields, v)
                 IN  \A b \in Prefixes(n.out) : \A theirs \in Others(fields) : ReadAlike(theirs, b)
        /\ \A b \in OtherBytes : ReadAlike(fields, b)
=============================================================================
