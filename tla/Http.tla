-------------------------------- MODULE Http --------------------------------
(***************************************************************************)
(* One call of a generated HTTP client: the client method makes a request, *)
(* net/http carries it, the handler that RegisterToMux installs decodes    *)
(* it, runs the method and writes a response, and the client method makes  *)
(* a result of that.                                                       *)
(*                                                                         *)
(* Nothing of this code keeps any state; what is hard is what happens when *)
(* the method fails, when the connection breaks and when the two sides do  *)
(* not agree, for then the result depends on what the pieces make of each  *)
(* other's output: encoding/json of errors and empty bodies, net/http of   *)
(* status codes, and its Transport, which repeats requests.                *)
(*                                                                         *)
(* Types and values are those of Types.  The id of a field stands for its  *)
(* JSON name, and JSON text for the value it was made from.                *)
(***************************************************************************)
EXTENDS Types

CONSTANTS Peerings,          \* pairs [client, server] of the sets of methods that
                             \* the two were generated with
          Inputs(_),         \* arguments a caller passes to a method
          Outputs(_, _),     \* what a method may answer to what it was given
          Failures,          \* errors a method may return, see Failure
          CanMarshal(_, _),  \* whether json.Marshal takes a value of these fields
          TextOf(_, _),      \* what the JSON text of a value of this type says of it
          ReadAs(_, _),      \* what json.Unmarshal makes of bytes that somebody passed,
                             \* as Unmarshal below
          MaxRuns            \* bound of the model: runs of one method

VARIABLES peers, stage, call,
          request,           \* [verb, body]
          given,             \* what the method was last given
          runs,              \* how often it was started
          outcome,           \* what it last did
          response,          \* [status, body]
          result             \* what the client method returns

vars == <<peers, stage, call, request, given, runs, outcome, response, result>>

Nothing == [is |-> "nothing"]

-----------------------------------------------------------------------------
(* Bodies *)

Empty == [is |-> "empty"]
Raw(b) == IF b = <<>> THEN Empty ELSE [is |-> "raw", bytes |-> b]
Object(fields, v) == [is |-> "object", fields |-> fields, val |-> v]
ErrorObject(form, text) == [is |-> "error", form |-> form, text |-> text]

\* text whose bytes no property looks at: of net/http, or JSON taken for bytes
SomeText == <<123>>
BytesOf(body) ==
    CASE body.is = "empty" -> <<>>
      [] body.is = "raw" -> body.bytes
      [] OTHER -> SomeText

\* a single []byte is a body of its own
IsRaw(fields) == Len(fields) = 1 /\ fields[1].type.kind = "bytes"

\* two versions of a list of fields: those they share have the same types
Versions(ours, theirs) ==
    \A i \in 1 .. Len(ours), j \in 1 .. Len(theirs) :
        ours[i].id = theirs[j].id => ours[i].type = theirs[j].type
NoTwins(fields) ==
    \A i, j \in 1 .. Len(fields) : fields[i].id = fields[j].id => i = j

\* WriteHeader takes no other status; the informational ones are left out
ASSUME HttpAssumption ==
    /\ \A f \in Failures : f.status = 0 \/ f.status \in 200 .. 999
    /\ \A p \in Peerings : \A m, n \in p.client \cup p.server :
          /\ NoTwins(m.input) /\ NoTwins(m.output)
          /\ m.protocol = n.protocol /\ m.id = n.id =>
                Versions(m.input, n.input) /\ Versions(m.output, n.output)
    /\ MaxRuns \in Nat \ {0}

-----------------------------------------------------------------------------
(* encoding/json *)

\* json.Unmarshal into a struct with these fields: unknown names are skipped,
\* missing ones left zero, and a value of another type is an error
Unmarshal(fields, body) ==
    LET same(i) == {j \in 1 .. Len(body.fields) : body.fields[j].id = fields[i].id}
        fits == \A i \in 1 .. Len(fields) : \A j \in same(i) :
                    body.fields[j].type = fields[i].type
        val == [i \in 1 .. Len(fields) |->
                  IF same(i) = {} THEN Zero(fields[i].type)
                  ELSE TextOf(fields[i].type, body.val[CHOOSE j \in same(i) : TRUE])]
    IN  CASE body.is = "object" -> IF fits THEN [ok |-> TRUE, val |-> val] ELSE [ok |-> FALSE]
          [] body.is = "error" -> [ok |-> TRUE, val |-> ZeroOf(fields)]
          [] body.is = "raw" -> ReadAs(fields, body.bytes)
          [] OTHER -> [ok |-> FALSE]

\* json.Unmarshal into the struct { Error string } of a client, which null leaves
\* as it is
IsText(form) == form \in {"string", "null"}
TextIn(e) == IF e.form = "string" THEN e.text ELSE <<>>
UnmarshalError(body) ==
    IF body.is = "error" /\ IsText(body.form)
    THEN [ok |-> TRUE, text |-> TextIn(body)] ELSE [ok |-> FALSE]

-----------------------------------------------------------------------------
(* The client method *)

Error(cause, text) == [is |-> "error", cause |-> cause, text |-> text]
Success(v) == [is |-> "success", val |-> v]

Init ==
    /\ peers \in Peerings
    /\ stage = "idle"
    /\ call = Nothing /\ request = Nothing /\ given = Nothing
    /\ runs = 0
    /\ outcome = Nothing /\ response = Nothing /\ result = Nothing

\* Mutant: the request says that it may be repeated.
newRequestMutant(verb, body) == [verb |-> verb, body |-> body, replayable |-> TRUE]

\* a GET may be repeated by the Transport, a POST may not
newRequest(verb, body) == [verb |-> verb, body |-> body, replayable |-> verb = "GET"]

EmptyRequest == newRequest("GET", Empty)
Contents(b) == IF b.held = "nil" THEN <<>> ELSE b.bytes
RawBody(b) == Raw(Contents(b))
RawRequest(b) == newRequest("POST", RawBody(b))

\* Mutant: makes no difference for methods without arguments.
RequestOfMutant(m, args) ==
    IF IsRaw(m.input) THEN RawRequest(args[1]) ELSE newRequest("POST", Object(m.input, args))

RequestOf(m, args) ==
    CASE m.input = <<>> -> EmptyRequest
      [] IsRaw(m.input) -> RawRequest(args[1])
      [] OTHER -> newRequest("POST", Object(m.input, args))

Call(m, args) ==
    /\ stage = "idle"
    /\ call' = [method |-> m, args |-> args]
    /\ IF IsRaw(m.input) \/ CanMarshal(m.input, args)
       THEN /\ request' = RequestOf(m, args) /\ stage' = "sent"
            /\ UNCHANGED result
       ELSE /\ result' = Error("marshal", <<>>) /\ stage' = "done"
            /\ UNCHANGED request
    /\ UNCHANGED <<peers, given, runs, outcome, response>>

\* Mutant: only the errors of the server are errors.
InterpretMutant(m, status, body) ==
    LET r == Unmarshal(m.output, body)
    IN  IF status >= 500 THEN Error("unmarshal", <<>>)
        ELSE CASE m.output = <<>> -> Success(<<>>)
               [] IsRaw(m.output) -> Success(<<Copied(BytesOf(body))>>)
               [] OTHER -> IF r.ok THEN Success(r.val) ELSE Error("unmarshal", <<>>)

\* what the client method makes of a response
Interpret(m, status, body) ==
    LET e == UnmarshalError(body)
        r == Unmarshal(m.output, body)
    IN  IF status \notin 200 .. 299
        THEN IF e.ok THEN Error("method", e.text) ELSE Error("unmarshal", <<>>)
        ELSE CASE m.output = <<>> -> Success(<<>>)
               [] IsRaw(m.output) -> Success(<<Copied(BytesOf(body))>>)
               [] OTHER -> IF r.ok THEN Success(r.val) ELSE Error("unmarshal", <<>>)

GotResponse ==
    /\ stage = "answered"
    /\ result' = Interpret(call.method, response.status, response.body)
    /\ stage' = "done"
    /\ UNCHANGED <<peers, call, request, given, runs, outcome, response>>

-----------------------------------------------------------------------------
(* The handler *)

Respond(status, body) ==
    /\ response' = [status |-> status, body |-> body]
    /\ stage' = "answered"

\* a status to refuse the request with, or 200 and what the method is given
Refused(status) == [status |-> status]
Accepted(v) == [status |-> 200, val |-> v]

DecodedEmpty == IF request.body = Empty THEN Accepted(<<>>) ELSE Refused(400)
DecodedRaw == Accepted(<<Copied(BytesOf(request.body))>>)
DecodedObject(fields) ==
    LET r == Unmarshal(fields, request.body) IN IF r.ok THEN Accepted(r.val) ELSE Refused(400)

Decoded(m) ==
    CASE m.input = <<>> -> DecodedEmpty
      [] m.input # <<>> /\ request.verb # "POST" -> Refused(405)
      [] IsRaw(m.input) /\ request.verb = "POST" -> DecodedRaw
      [] OTHER -> DecodedObject(m.input)

Known == {m \in peers.server : m.protocol = call.method.protocol /\ m.id = call.method.id}
ServerMethod == CHOOSE m \in Known : TRUE

Receive ==
    /\ stage = "sent"
    /\ IF Known = {}
       THEN Respond(404, Raw(SomeText)) /\ UNCHANGED <<given, runs>>     \* http.NotFound
       ELSE LET d == Decoded(ServerMethod)
            IN  IF d.status # 200
                THEN Respond(d.status, Empty) /\ UNCHANGED <<given, runs>>
                ELSE /\ runs < MaxRuns
                     /\ given' = d.val /\ runs' = runs + 1 /\ stage' = "running"
                     /\ UNCHANGED response
    /\ UNCHANGED <<peers, call, request, outcome, result>>

MethodReturns(v) ==
    /\ stage = "running"
    /\ outcome' = Success(v)
    /\ LET out == ServerMethod.output
       IN  CASE IsRaw(out) -> Respond(200, RawBody(v[1]))
             [] out = <<>> -> Respond(200, Empty)
             [] OTHER -> IF CanMarshal(out, v) THEN Respond(200, Object(out, v))
                                                ELSE Respond(500, Empty)
    /\ UNCHANGED <<peers, call, request, given, runs, result>>

\* an error: the status of its StatusCode(), or 0 if it has none; what its JSON
\* is - an object, as for errors.New, a string, or null, as for a nil pointer -
\* or that it has none
Failure(status, form, text) == [status |-> status, form |-> form, text |-> text]

MethodFails(f) ==
    /\ stage = "running"
    /\ outcome' = [is |-> "error", failure |-> f]
    /\ LET status == IF f.status = 0 THEN 500 ELSE f.status
           body == IF f.form = "none" \/ status \in {204, 304}      \* net/http drops it
                   THEN Empty ELSE ErrorObject(f.form, f.text)
       IN  Respond(status, body)
    /\ UNCHANGED <<peers, call, request, given, runs, result>>

-----------------------------------------------------------------------------
(* net/http *)

\* The connection breaks, or the method panics, or its error has a status that
\* WriteHeader does not take, and net/http drops the connection: on one that
\* has served before, the Transport repeats what it may repeat.  A redirect that
\* has no Location may end the call in the same way.
Breaks ==
    /\ stage \in {"sent", "running", "answered"}
    /\ \/ /\ request.replayable
          /\ stage' = "sent"
          /\ UNCHANGED result
       \/ /\ stage' = "done"
          /\ result' = Error("transport", <<>>)
    /\ response' = Nothing
    /\ UNCHANGED <<peers, call, request, given, runs, outcome>>

\* The context of the call ends; the server does not notice in time and may yet
\* run the method
ContextEnds ==
    /\ stage = "sent"
    /\ result' = Error("transport", <<>>)
    /\ stage' = "done"
    /\ runs < MaxRuns
    /\ runs' = IF Known = {} \/ Decoded(ServerMethod).status # 200 THEN runs ELSE runs + 1
    /\ UNCHANGED <<peers, call, request, given, outcome, response>>

Next ==
    \/ \E m \in peers.client : \E args \in Inputs(m) : Call(m, args)
    \/ Receive \/ GotResponse \/ Breaks \/ ContextEnds
    \/ stage = "running" /\ \E v \in Outputs(ServerMethod, given) : MethodReturns(v)
    \/ \E f \in Failures : MethodFails(f)

Spec == Init /\ [][Next]_vars
-----------------------------------------------------------------------------
(* Properties *)

TypeOK ==
    /\ stage \in {"idle", "sent", "running", "answered", "done"}
    /\ stage # "idle" => call.method \in peers.client
    /\ runs \in 0 .. MaxRuns
    /\ outcome.is \in {"nothing", "success", "error"}
    /\ stage = "answered" => response.status \in 200 .. 999
    /\ stage = "done" <=> result.is \in {"success", "error"}

\* Two versions of a list of fields of which a body of the one is read as one
\* of the other: neither is the only one that has no fields, or that is a single
\* []byte.
SameForm(ours, theirs) ==
    /\ ours = <<>> <=> theirs = <<>>
    /\ IsRaw(ours) <=> IsRaw(theirs)

\* got is what becomes of v when it is sent as theirs and read as ours
Arrived(ours, theirs, v, got) ==
    /\ ours = <<>> => got = <<>>
    /\ IsRaw(ours) => got = <<Copied(Contents(v[1]))>>
    /\ ours # <<>> /\ ~ IsRaw(ours) => \A i \in 1 .. Len(ours) :
          LET same == {j \in 1 .. Len(theirs) : theirs[j].id = ours[i].id}
          IN  /\ same = {} => got[i] = Zero(ours[i].type)
              /\ \A j \in same : got[i] = TextOf(ours[i].type, v[j])

GenuineResult(r) ==
    /\ r.is = "success" =>
          \/ /\ outcome.is = "success"
             /\ SameForm(call.method.output, ServerMethod.output) =>
                   Arrived(call.method.output, ServerMethod.output, outcome.val, r.val)
          \/ outcome.is = "error" /\ outcome.failure.status \in 200 .. 299
    /\ r.is = "error" /\ r.cause = "method" =>
          /\ outcome.is = "error" /\ IsText(outcome.failure.form)
          /\ r.text = TextIn(outcome.failure)
    /\ r.is = "error" /\ r.cause = "unmarshal" =>
          \/ outcome.is = "error" \/ Known = {}
          \/ /\ outcome.is = "success"
             /\ SameForm(call.method.output, ServerMethod.output) =>
                   ~ CanMarshal(ServerMethod.output, outcome.val)
          \/ /\ outcome.is = "nothing"
             /\ ~ SameForm(call.method.input, ServerMethod.input)

\* A call ends with what its method did.  A success is the method's own result,
\* the fields of which both versions share; and a method's error ends the call
\* with an error, with the method's text if the JSON of the error is a string -
\* save for an error whose StatusCode() says success, of which the caller never
\* hears.  An error of Unmarshal means that the method failed, or that there is
\* no such method, or that its result has no JSON; or that the versions differ in
\* the form of a body, in which case a success says nothing of the result, and
\* the method may not have been run.
ResultIsGenuine == stage = "done" => GenuineResult(result)

\* A method with arguments is run once at most for each call, whatever happens
\* to the connection.  A method without any may be run again: its request is a
\* GET, which the Transport repeats.
RunsOnce == stage # "idle" /\ call.method.input # <<>> => runs <= 1

\* A method that both sides know is run on the caller's arguments, whatever
\* fields the other version has more or less, as long as both give the body the
\* same form; and it is not refused then.  What would run it on no arguments at
\* all, or let a request that the Transport repeats run a method with arguments,
\* is refused: a GET by a method that has arguments by now, and arguments by one
\* that has none any more.
RunsAsCalled ==
    stage # "idle" /\ Known # {} =>
        LET mine == call.method.input
            its == ServerMethod.input
        IN  /\ SameForm(mine, its) =>
                  /\ stage = "running" => Arrived(its, mine, call.args, given)
                  /\ stage = "answered" => outcome.is # "nothing"
            /\ mine = <<>> /\ its # <<>> => runs = 0
            /\ mine # <<>> /\ ~ IsRaw(mine) /\ its = <<>> => runs = 0
=============================================================================
