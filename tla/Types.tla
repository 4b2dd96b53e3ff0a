-------------------------------- MODULE Types -------------------------------
(***************************************************************************)
(* The types that a schema may use, and their values.                      *)
(*                                                                         *)
(* The value of a message is the sequence of the values of its fields, in  *)
(* the order of the table:                                                 *)
(*   string, uuid    bytes                                                 *)
(*   bytes           NilBytes, Copied(b), or Slice(s), a part of the       *)
(*                   buffer that has not been copied                       *)
(*   int             a word, negative numbers being the upper half         *)
(*   int64, double   a number of Width64 bytes, float one of Width32       *)
(*   time            [instant, extra]: extra is what a time.Time has and   *)
(*                   its RFC 3339 text has not (location, monotonic clock) *)
(*   array           a sequence; nil and empty are the same                *)
(*   map             <<>> for nil or <<entries>>, the entries in the order *)
(*                   in which `range` happens to visit them                *)
(*   struct          <<>> for a nil pointer or <<value>>                   *)
(***************************************************************************)
EXTENDS Integers, Sequences

CONSTANT UUIDLen            \* bytes of a UUID (16)

ASSUME TypesAssumption == UUIDLen \in Nat \ {0}

Type(kind) == [kind |-> kind]
Array(of) == [kind |-> "array", of |-> of]
Map(entry) == [kind |-> "map", fields |-> entry]
Struct(fields) == [kind |-> "struct", fields |-> fields]

NilBytes == [held |-> "nil"]
Copied(b) == [held |-> "copy", bytes |-> b]
Slice(s) == [held |-> "slice", slice |-> s]

Zero(t) ==
    CASE t.kind = "bool" -> FALSE
      [] t.kind \in {"int", "int64", "double", "float"} -> 0
      [] t.kind = "bytes" -> NilBytes
      [] t.kind = "time" -> [instant |-> 0, extra |-> FALSE]
      [] t.kind = "uuid" -> [i \in 1 .. UUIDLen |-> 0]
      [] OTHER -> <<>>

ZeroOf(fields) == [i \in 1 .. Len(fields) |-> Zero(fields[i].type)]
=============================================================================
