------------------------------ MODULE JSONText ------------------------------
(***************************************************************************)
(* encoding/json: which values have a JSON text, and what the text of a    *)
(* value says.  Http leaves both to its constants CanMarshal and TextOf;   *)
(* the run of Http takes them from here.                                   *)
(***************************************************************************)
EXTENDS Messages

CONSTANT NotFinite           \* numbers that are infinite or not a number

\* the keys that encoding/json makes a text of: it takes no map with others, a nil one
\* neither
KeyKinds == {"string", "int", "int64", "time", "uuid"}

RECURSIVE Marshals(_, _), MarshalsAll(_, _)
MarshalsAll(fields, v) == \A i \in 1 .. Len(fields) : Marshals(fields[i].type, v[i])
Marshals(t, v) ==
    CASE t.kind \in {"float", "double"} -> v \notin NotFinite
      [] t.kind = "array" -> \A i \in DOMAIN v : Marshals(t.of, v[i])
      [] t.kind = "map" ->
            /\ t.fields[1].type.kind \in KeyKinds
            /\ v # <<>> => \A i \in DOMAIN v[1] : MarshalsAll(t.fields, v[1][i])
      [] t.kind = "struct" -> v # <<>> => MarshalsAll(t.fields, v[1])
      [] OTHER -> TRUE

\* what the text of v says: of a time what RFC 3339 has, and of entries of a
\* map whose keys have the same text the last one
RECURSIVE Text(_, _), Texts(_, _)
Texts(fields, v) == [i \in 1 .. Len(fields) |-> Text(fields[i].type, v[i])]
Text(t, v) ==
    CASE t.kind = "time" -> [v EXCEPT !.extra = FALSE]
      [] t.kind = "array" -> [i \in DOMAIN v |-> Text(t.of, v[i])]
      [] t.kind = "map" /\ v # <<>> ->
            <<FoldLeft(SetKey, <<>>, [i \in DOMAIN v[1] |-> Texts(t.fields, v[1][i])])>>
      [] t.kind = "struct" /\ v # <<>> -> <<Texts(t.fields, v[1])>>
      [] OTHER -> v
=============================================================================
