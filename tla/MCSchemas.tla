------------------------------ MODULE MCSchemas ------------------------------
(***************************************************************************)
(* Small schemas, good ones and bad ones: IDs below, at and above zero or  *)
(* given twice, names that are equal or differ in case only, options of    *)
(* the wrong kind, missing descriptions.                                   *)
(***************************************************************************)
EXTENDS Schema

Name(word, cased) == [word |-> word, cased |-> cased]

Pairs ==
    {<<Property(i, Name("a", FALSE), t, o), Property(j, Name(w, FALSE), u, NoOptions)>> :
        i \in -1 .. 1, j \in -1 .. 1, w \in {"a", "b"}, o \in {NoOptions, "input", "struct"},
        t \in {Int_, Bool, Array(Bool)}, u \in {Int_, String}}

MCStructs ==
    {[name |-> Name(n, TRUE), described |-> d, fields |-> ps] :
        n \in {"", "s"}, d \in BOOLEAN, ps \in {qs \in Pairs : qs[1].type # Bool}}

\* a struct may be used before it is defined, or without
Uses(p) ==
    Pairs \cup {<<Property(1, Name("a", FALSE), Struct(FieldsOf(s.fields)), NoOptions)>> :
                    s \in Range(p.structs)}

MethodsOf(p) ==
    {[name |-> Name(n, c), id |-> i, described |-> TRUE, input |-> ps,
      output |-> <<Property(i, Name("a", TRUE), Bool, NoOptions)>>] :
        n \in {"m", "n"}, c \in BOOLEAN, i \in -1 .. 1, ps \in Uses(p)}

New == NewProtocol("p", 1)
One == UNION {AddMethod({p}, MethodsOf(p)) : p \in {New} \cup AddStruct({New}, MCStructs)}

\* one accepted method next to each one that may be added to it
Few == {CHOOSE p \in One : p.methods[1].id = i : i \in 0 .. 1}
Two == UNION {AddMethod({p}, {m \in MethodsOf(p) : m.input = p.methods[1].input}) : p \in Few}

Generated == {Generate(p) : p \in One \cup Two}
SchemaPeerings == {[client |-> g, server |-> g] : g \in Generated}
=============================================================================
