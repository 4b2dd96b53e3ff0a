-------------------------------- MODULE Schema -------------------------------
(***************************************************************************)
(* The definition of a schema: which methods and structs AddMethod and     *)
(* AddStruct accept (protocol.go), and the tables the generator makes of   *)
(* them.  A definition that is not accepted panics, so nothing is          *)
(* generated from it.                                                      *)
(*                                                                         *)
(* A name is [word, cased]: what strings.ToLower makes of it, and a        *)
(* spelling.  A protocol is [name, id, methods, structs].                  *)
(***************************************************************************)
EXTENDS SampleSchema

NoOptions == "none"
StructFieldOptions == "struct"
MethodInputOptions == "input"
MethodOutputOptions == "output"

Property(id, name, t, options) == [id |-> id, name |-> name, type |-> t, options |-> options]

NewProtocol(name, id) == [name |-> name, id |-> id, methods |-> <<>>, structs |-> <<>>]

\* "ID must be a positive integer larger than zero": 0 is let through
verifyID(id) == id >= 0

\* what the options of the properties of each list may be
OptionsFor(isStruct, isInput) ==
    IF isStruct THEN StructFieldOptions
    ELSE IF isInput THEN MethodInputOptions ELSE MethodOutputOptions

verifyProperties(properties, isStruct, isInput) ==
    \A i \in DOMAIN properties :
        /\ verifyID(properties[i].id)
        /\ \A j \in 1 .. i - 1 :
              properties[i].name # properties[j].name /\ properties[i].id # properties[j].id
        /\ properties[i].options \in {NoOptions, OptionsFor(isStruct, isInput)}

verifyMethod(p, method) ==
    /\ verifyID(method.id)
    /\ method.name.word # ""
    /\ method.described
    /\ verifyProperties(method.input, FALSE, TRUE)
    /\ verifyProperties(method.output, FALSE, FALSE)
    /\ \A m \in Range(p.methods) :
          m.id # method.id /\ m.name.word # method.name.word

verifyStruct(p, s) ==
    /\ s.name.word # ""
    /\ s.described
    /\ verifyProperties(s.fields, TRUE, FALSE)
    /\ \A t \in Range(p.structs) : t.name.word # s.name.word

\* What becomes of the protocols ps when one of the methods ms, or of the structs
\* ss, is added to one of them and that does not panic.
AddMethod(ps, ms) ==
    {[pm[1] EXCEPT !.methods = Append(@, pm[2])] :
        pm \in {pm \in ps \X ms : verifyMethod(pm[1], pm[2])}}

AddStruct(ps, ss) ==
    {[pq[1] EXCEPT !.structs = Append(@, pq[2])] :
        pq \in {pq \in ps \X ss : verifyStruct(pq[1], pq[2])}}

-----------------------------------------------------------------------------
(* What the templates make of an accepted protocol: an ID of 0 counts as given *)

FieldsOf(properties) ==
    [i \in DOMAIN properties |-> Field(properties[i].id, properties[i].type)]

Generate(p) ==
    {Method(p.id, m.id, FieldsOf(m.input), FieldsOf(m.output)) : m \in Range(p.methods)}
=============================================================================
