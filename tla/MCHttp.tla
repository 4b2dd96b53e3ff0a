------------------------------- MODULE MCHttp -------------------------------
(***************************************************************************)
(* The generated methods of the examples for the run of Http, and a method *)
(* in nine versions that differ in the forms of its bodies.                *)
(***************************************************************************)
EXTENDS Http, JSONText, MCValues

\* no fields, a single []byte, and the same with one more field
Forms == {<<>>, <<Field(1, Bytes)>>, <<Field(1, Bytes), Field(2, String)>>}
Reformed == {Method(2, 2, input, output) : input \in Forms, output \in Forms}

\* methods with a map that has no JSON text
ByBool == <<Field(1, Map(<<Field(1, Bool), Field(2, String)>>))>>
Unspeakable == {Method(2, 4, ByBool, <<>>), Method(2, 5, <<>>, ByBool)}

HttpPeerings ==
    MCPeerings \cup {[client |-> Reformed, server |-> {m}] : m \in Reformed}
    \cup {[client |-> Unspeakable, server |-> Unspeakable]}

\* bytes that are JSON, as it happens: {}
Braces == <<123, 125>>
AlsoBraces(fields) == IF IsRaw(fields) THEN {<<Copied(Braces)>>} ELSE {}

HttpInputs(m) ==
    IF m \in Unspeakable THEN {ZeroOf(m.input)} ELSE MCInputs(m) \cup AlsoBraces(m.input)
HttpOutputs(m, given_) ==
    IF m \in Unspeakable THEN {ZeroOf(m.output)}
    ELSE MCOutputs(m, given_) \cup AlsoBraces(m.output)
HttpReadAs(fields, b) ==
    IF b = Braces THEN [ok |-> TRUE, val |-> ZeroOf(fields)] ELSE [ok |-> FALSE]

MCFailures ==
    {Failure(0, "object", A), Failure(0, "string", A), Failure(0, "none", <<>>),
     Failure(0, "null", <<>>), Failure(404, "string", A), Failure(302, "string", A),
     Failure(204, "string", A), Failure(299, "object", A)}
=============================================================================
