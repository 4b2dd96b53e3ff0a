------------------------------ MODULE MCValues ------------------------------
(***************************************************************************)
(* Values, versions and peers for the runs that call the generated methods *)
(* of the examples.                                                        *)
(***************************************************************************)
EXTENDS SampleSchema

\* a newer version of a method: more fields, of every wire type, before and
\* after the old ones
Newer(fields) ==
    <<Field(9, Type("string")), Field(10, Type("float")), Field(11, Type("int"))>> \o fields \o
    <<Field(12, Type("double")), Field(13, Struct(ssss))>>
NewVersion(m) == [m EXCEPT !.input = Newer(@), !.output = Newer(@)]

OldMethods == {Authenticate, PingWithReply}
NewMethods == {NewVersion(m) : m \in OldMethods}
Sample == PingpongServer \cup EchoServer

MCPeerings ==
    {[client |-> Sample, server |-> Sample],
     [client |-> SimpleServer, server |-> SimpleServer],
     [client |-> NewMethods, server |-> OldMethods],
     [client |-> OldMethods, server |-> NewMethods],
     [client |-> {Authenticate, Ping}, server |-> {PingWithReply}]}

A == <<65>>
MCTexts == {<<>>, A}
Long == [i \in 1 .. Base |-> 65]     \* its length takes two groups
MinusOne == Words - 1

Times == {[instant |-> 1, extra |-> TRUE], [instant |-> 2, extra |-> FALSE]}
Same == <<[instant |-> 1, extra |-> TRUE], [instant |-> 1, extra |-> FALSE]>>

Ints == {<<>>, <<<<>>>>, <<<<<<A, 5>>, <<<<>>, MinusOne>>>>>>}     \* map[string]int64
Maps == {<<>>, <<<<<<A, <<>>>>, <<Long, <<<<<<A, 5>>>>>>>>>>>>}    \* map[string]map[string]int64
TimeMaps == {<<>>, <<<<<<Same[1], Same[2]>>, <<Same[2], Same[1]>>>>>>}

RECURSIVE Tuples(_)

\* a few values of each type: zero values and negative numbers among them
Values(t) ==
    CASE t.kind = "string" -> {<<>>, A}
      [] t.kind = "bytes" -> {NilBytes, Copied(<<>>), Copied(<<1, 2>>)}
      [] t.kind = "bool" -> BOOLEAN
      [] t.kind = "int" -> {0, MinusOne, 300}
      [] t.kind = "int64" -> {0, 9}
      [] t.kind = "double" -> {SignBit(Width64), 9}
      [] t.kind = "float" -> {SignBit(Width32), 10}
      [] t.kind = "time" -> Times
      [] t.kind = "uuid" -> {<<7, 8>>}
      [] t.kind = "map" -> IF t.fields = rpcMap0 THEN Ints
                           ELSE IF t.fields = rpcMap1 THEN TimeMaps ELSE Maps
      [] t.kind = "struct" ->
            {<<>>} \cup
            IF t.fields # echoThing THEN {<<v>> : v \in Tuples(t.fields)}
            ELSE
                 {<<<<A, <<>>, i, CHOOSE x \in Times : TRUE, m, <<0, 0>>>>>> :
                     i \in Ints, m \in TimeMaps}
      [] t.kind = "array" ->
            CASE t.of.kind = "bool" -> {<<>>, <<FALSE, TRUE>>}
              [] t.of.kind = "bytes" -> {<<>>, <<NilBytes, Copied(<<>>), Copied(<<1, 2>>)>>}
              [] t.of.kind = "int" -> {<<5, 0, MinusOne>>}
              [] t.of.kind = "string" -> {<<>>, <<A, <<>>, A>>}
              [] t.of.kind = "struct" -> {<<>>, <<<<>>, <<<<A>>>>>>}
              [] OTHER -> {<<>>, <<0, 3>>}

Tuples(fields) ==
    IF fields = <<>> THEN {<<>>}
    ELSE {<<x>> \o y : x \in Values(Head(fields).type), y \in Tuples(Tail(fields))}

MCInputs(m) ==
    IF m = PingWithReply THEN {<<<<>>>>, <<Long>>} ELSE Tuples(m.input)

\* the example servers give back what they are given where they can
MCOutputs(m, given) ==
    IF Len(m.output) < 3 THEN Tuples(m.output)
    ELSE IF m.input = m.output THEN {given}
    ELSE {CHOOSE v \in Tuples(m.output) : TRUE}
=============================================================================
