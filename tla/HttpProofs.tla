------------------------------ MODULE HttpProofs ------------------------------
(****************************************************************************)
(* Theorems about Http, for any methods in any versions of one schema - the *)
(* forms of their bodies may differ, see SameForm - any arguments, results  *)
(* and errors, whatever encoding/json makes of a value or of bytes, and any *)
(* number of repeated requests.                                             *)
(****************************************************************************)
EXTENDS Http, TLAPS

-----------------------------------------------------------------------------
(* The inductive invariant.                                                *)

Underway == {"sent", "running", "answered"}

\* The response to a method that returned v, and to one that failed.
ReturnResponse(out, v) ==
    CASE IsRaw(out) -> [status |-> 200, body |-> RawBody(v[1])]
      [] out = <<>> -> [status |-> 200, body |-> Empty]
      [] OTHER -> IF CanMarshal(out, v) THEN [status |-> 200, body |-> Object(out, v)]
                                        ELSE [status |-> 500, body |-> Empty]
StatusOf(f) == IF f.status = 0 THEN 500 ELSE f.status
FailResponse(f) ==
    [status |-> StatusOf(f),
     body |-> IF f.form = "none" \/ StatusOf(f) \in {204, 304}
              THEN Empty ELSE ErrorObject(f.form, f.text)]

\* What the client has: before the call nothing, then the request of its arguments.
ClientOK ==
    /\ peers \in Peerings
    /\ stage \in {"idle", "done"} \cup Underway
    /\ stage = "idle" => runs = 0 /\ outcome = Nothing
    /\ stage # "idle" => call.method \in peers.client
    /\ stage \in Underway \/ runs > 0 => request = RequestOf(call.method, call.args)
    /\ IF stage = "done" THEN result.is \in {"success", "error"} ELSE result = Nothing

\* A request that cannot be repeated has not been received before.
RunsOK ==
    /\ runs \in 0 .. MaxRuns
    /\ stage # "idle" /\ call.method.input # <<>> =>
          runs <= 1 /\ (stage = "sent" => runs = 0)

\* Only a method that accepts the request was ever run, on what its handler decoded.
ServedOK ==
    /\ stage = "running" \/ runs > 0 \/ outcome.is # "nothing" =>
          Known # {} /\ Decoded(ServerMethod).status = 200
    /\ stage = "running" => given = Decoded(ServerMethod).val

\* What the server did, and that the response says so.
ServerOK ==
    /\ outcome.is \in {"nothing", "success", "error"}
    /\ outcome.is = "error" => outcome.failure \in Failures
    /\ stage = "answered" =>
          \/ Known = {} /\ response = [status |-> 404, body |-> Raw(SomeText)]
          \/ /\ Known # {} /\ outcome.is = "nothing" /\ Decoded(ServerMethod).status # 200
             /\ \E status \in {400, 405} : response = [status |-> status, body |-> Empty]
          \/ /\ Known # {} /\ outcome.is = "success"
             /\ response = ReturnResponse(ServerMethod.output, outcome.val)
          \/ /\ Known # {} /\ outcome.is = "error"
             /\ response = FailResponse(outcome.failure)

HttpInv == ClientOK /\ RunsOK /\ ServedOK /\ ServerOK /\ ResultIsGenuine

-----------------------------------------------------------------------------
(* Requests and responses.                                                 *)

LEMMA NotRaw == ~IsRaw(<<>>)
  BY DEF IsRaw

LEMMA RequestFacts ==
  ASSUME NEW m, NEW args
  PROVE  LET r == RequestOf(m, args) IN
         /\ r.replayable => m.input = <<>>
         /\ m.input = <<>> => r.verb = "GET" /\ r.body = Empty
         /\ m.input # <<>> => r.verb = "POST"
         /\ IsRaw(m.input) => r.body = RawBody(args[1])
         /\ m.input # <<>> /\ ~IsRaw(m.input) => r.body = Object(m.input, args)
<1>0. ASSUME NEW verb, NEW body
      PROVE  LET r == newRequest(verb, body) IN
             r.verb = verb /\ r.body = body /\ (r.replayable <=> verb = "GET")
  BY Zenon DEF newRequest
<1>1. CASE m.input = <<>>
  <2>1. RequestOf(m, args) = newRequest("GET", Empty)
    BY <1>1, NotRaw, Zenon DEF RequestOf, EmptyRequest
  <2> QED
    BY <1>0, <1>1, <2>1, NotRaw
<1>2. CASE m.input # <<>> /\ IsRaw(m.input)
  <2>1. RequestOf(m, args) = newRequest("POST", RawBody(args[1])) /\ "POST" # "GET"
    BY <1>2, Zenon DEF RequestOf, RawRequest
  <2> QED
    BY <1>0, <1>2, <2>1
<1>3. CASE m.input # <<>> /\ ~IsRaw(m.input)
  <2>1. RequestOf(m, args) = newRequest("POST", Object(m.input, args)) /\ "POST" # "GET"
    BY <1>3, Zenon DEF RequestOf
  <2> QED
    BY <1>0, <1>3, <2>1
<1> QED
  BY <1>1, <1>2, <1>3

\* An object with fields of another version fits, and is read as what it says.
LEMMA Fits ==
  ASSUME NEW ours, NEW theirs, NEW v, ours # <<>>, ~IsRaw(ours),
         Versions(ours, theirs), NoTwins(theirs)
  PROVE  LET r == Unmarshal(ours, Object(theirs, v)) IN
         r.ok /\ Arrived(ours, theirs, v, r.val)
<1> DEFINE body == Object(theirs, v)
           same(i) == {j \in 1 .. Len(body.fields) : body.fields[j].id = ours[i].id}
           fits == \A i \in 1 .. Len(ours) : \A j \in same(i) : body.fields[j].type = ours[i].type
           val == [i \in 1 .. Len(ours) |->
                     IF same(i) = {} THEN Zero(ours[i].type)
                     ELSE TextOf(ours[i].type, body.val[CHOOSE j \in same(i) : TRUE])]
           theirOwn(i) == {j \in 1 .. Len(theirs) : theirs[j].id = ours[i].id}
<1>1. body.is = "object" /\ body.fields = theirs /\ body.val = v
  BY DEF Object
<1>2. fits
  BY <1>1 DEF Versions
<1>3. Unmarshal(ours, body) = [ok |-> TRUE, val |-> val]
  <2>1. Unmarshal(ours, body) = IF fits THEN [ok |-> TRUE, val |-> val] ELSE [ok |-> FALSE]
    BY <1>1, Zenon DEF Unmarshal
  <2> QED
    BY <1>2, <2>1, Zenon
<1>4. ASSUME NEW i \in 1 .. Len(ours)
      PROVE  /\ theirOwn(i) = {} => val[i] = Zero(ours[i].type)
             /\ \A j \in theirOwn(i) : val[i] = TextOf(ours[i].type, v[j])
  <2>1. same(i) = theirOwn(i)
    BY <1>1
  <2>2. val[i] = IF same(i) = {} THEN Zero(ours[i].type)
                 ELSE TextOf(ours[i].type, body.val[CHOOSE x \in same(i) : TRUE])
    BY Zenon
  <2>3. ASSUME NEW j \in same(i)
        PROVE  val[i] = TextOf(ours[i].type, v[j])
    <3>1. \A k \in same(i) : k = j
      BY <1>1 DEF NoTwins
    <3> DEFINE k == CHOOSE k \in same(i) : TRUE
    <3>2. k = j /\ same(i) # {}
      <4>1. \E x : x \in same(i)
        BY <2>3
      <4>2. k \in same(i)
        BY <4>1, Zenon
      <4> HIDE DEF k
      <4> QED
        BY <3>1, <4>1, <4>2
    <3> QED
      BY <1>1, <2>2, <3>2, Zenon
  <2> HIDE DEF same, val
  <2> QED
    BY <2>1, <2>2, <2>3, Zenon
<1> HIDE DEF val
<1> HIDE DEF same, fits
<1>5. Arrived(ours, theirs, v, val)
  BY <1>4, Zenon DEF Arrived
<1> DEFINE r == Unmarshal(ours, body)
<1>6. r.ok /\ r.val = val
  BY <1>3
<1> HIDE DEF r
<1>7. r.ok /\ Arrived(ours, theirs, v, r.val)
  BY <1>5, <1>6, Zenon
<1> QED
  BY <1>7 DEF r

LEMMA ResultFacts ==
  /\ \A v : Success(v).is = "success" /\ Success(v).val = v
  /\ \A cause, text : LET e == Error(cause, text) IN
        e.is = "error" /\ e.cause = cause /\ e.text = text
  BY DEF Success, Error

\* The branches of what a client makes of a response.
LEMMA InterpretFacts ==
  ASSUME NEW m, NEW status, NEW body
  PROVE  LET x == Interpret(m, status, body)
             r == Unmarshal(m.output, body)
             isText == body.is = "error" /\ IsText(body.form)
         IN  /\ status \notin 200 .. 299 /\ isText => x = Error("method", TextIn(body))
             /\ status \notin 200 .. 299 /\ ~isText => x = Error("unmarshal", <<>>)
             /\ status \in 200 .. 299 /\ m.output = <<>> => x = Success(<<>>)
             /\ status \in 200 .. 299 /\ IsRaw(m.output) => x = Success(<<Copied(BytesOf(body))>>)
             /\ status \in 200 .. 299 /\ m.output # <<>> /\ ~IsRaw(m.output) =>
                   x = IF r.ok THEN Success(r.val) ELSE Error("unmarshal", <<>>)
<1> DEFINE x == Interpret(m, status, body)
           r == Unmarshal(m.output, body)
           e == UnmarshalError(body)
<1>1. ASSUME body.is = "error", IsText(body.form) PROVE e.ok /\ e.text = TextIn(body)
  BY <1>1 DEF UnmarshalError
<1>2. ASSUME ~(body.is = "error" /\ IsText(body.form)) PROVE ~e.ok
  BY <1>2 DEF UnmarshalError
<1>3. ASSUME status \notin 200 .. 299
      PROVE  x = IF e.ok THEN Error("method", e.text) ELSE Error("unmarshal", <<>>)
  BY <1>3, Zenon DEF Interpret
<1>4. ASSUME status \in 200 .. 299
      PROVE  /\ m.output = <<>> => x = Success(<<>>)
             /\ IsRaw(m.output) => x = Success(<<Copied(BytesOf(body))>>)
             /\ m.output # <<>> /\ ~IsRaw(m.output) =>
                   x = IF r.ok THEN Success(r.val) ELSE Error("unmarshal", <<>>)
  <2>1. x = CASE m.output = <<>> -> Success(<<>>)
              [] IsRaw(m.output) -> Success(<<Copied(BytesOf(body))>>)
              [] OTHER -> IF r.ok THEN Success(r.val) ELSE Error("unmarshal", <<>>)
    BY <1>4, Zenon DEF Interpret
  <2> HIDE DEF x, r
  <2>2. CASE m.output = <<>>
    BY <2>1, <2>2, NotRaw, Zenon
  <2>3. CASE m.output # <<>> /\ IsRaw(m.output)
    BY <2>1, <2>3, Zenon
  <2>4. CASE m.output # <<>> /\ ~IsRaw(m.output)
    BY <2>1, <2>4, Zenon
  <2> QED
    BY <2>2, <2>3, <2>4
<1> HIDE DEF x, r, e
<1>5. /\ status \notin 200 .. 299 /\ body.is = "error" /\ IsText(body.form) =>
            x = Error("method", TextIn(body))
      /\ status \notin 200 .. 299 /\ ~(body.is = "error" /\ IsText(body.form)) =>
            x = Error("unmarshal", <<>>)
  BY <1>1, <1>2, <1>3
<1> QED
  BY <1>4, <1>5 DEF x, r

LEMMA RawFacts ==
  ASSUME NEW b
  PROVE  BytesOf(RawBody(b)) = Contents(b)
<1> DEFINE t == Contents(b)
<1>1. RawBody(b) = IF t = <<>> THEN Empty ELSE [is |-> "raw", bytes |-> t]
  BY DEF RawBody, Raw
<1> HIDE DEF t
<1>2. CASE t = <<>>
  <2>1. RawBody(b).is = "empty"
    BY <1>1, <1>2 DEF Empty
  <2> QED
    BY <1>2, <2>1, Zenon DEF BytesOf, t
<1>3. CASE t # <<>>
  <2>1. RawBody(b).is = "raw" /\ RawBody(b).bytes = t
    BY <1>1, <1>3
  <2>2. BytesOf(RawBody(b)) = RawBody(b).bytes
    BY <2>1, Zenon DEF BytesOf
  <2> QED
    BY <2>1, <2>2 DEF t
<1> QED
  BY <1>2, <1>3

\* The method of the server is one of the same schema as that of the client.
LEMMA SameSchema ==
  ASSUME ClientOK, stage # "idle", Known # {}
  PROVE  /\ ServerMethod \in Known
         /\ Versions(ServerMethod.input, call.method.input) /\ NoTwins(call.method.input)
         /\ Versions(call.method.output, ServerMethod.output) /\ NoTwins(ServerMethod.output)
<1>1. ServerMethod \in Known
  BY Zenon DEF ServerMethod
<1>2. /\ ServerMethod \in peers.client \cup peers.server
      /\ ServerMethod.protocol = call.method.protocol /\ ServerMethod.id = call.method.id
  BY <1>1 DEF Known
<1>3. call.method \in peers.client \cup peers.server /\ peers \in Peerings
  BY DEF ClientOK
<1>4. \A m, n \in peers.client \cup peers.server :
          /\ NoTwins(m.input) /\ NoTwins(m.output)
          /\ m.protocol = n.protocol /\ m.id = n.id =>
                Versions(m.input, n.input) /\ Versions(m.output, n.output)
  BY <1>3, HttpAssumption
<1> HIDE DEF ServerMethod
<1> QED
  BY <1>1, <1>2, <1>3, <1>4

\* The branches of what a handler makes of the request.
LEMMA DecodedFacts ==
  ASSUME NEW s
  PROVE  LET d == Decoded(s) IN
         /\ d.status \in {200, 400, 405}
         /\ s.input = <<>> /\ request.body = Empty => d = Accepted(<<>>)
         /\ s.input = <<>> /\ request.body # Empty => d = Refused(400)
         /\ s.input # <<>> /\ request.verb # "POST" => d = Refused(405)
         /\ IsRaw(s.input) /\ request.verb = "POST" => d = DecodedRaw
         /\ s.input # <<>> /\ ~IsRaw(s.input) /\ request.verb = "POST" => d = DecodedObject(s.input)
<1>a. /\ \A v : Accepted(v).status = 200
      /\ \A status : Refused(status).status = status
  BY DEF Accepted, Refused
<1>1. CASE s.input = <<>>
  <2>1. Decoded(s) = IF request.body = Empty THEN Accepted(<<>>) ELSE Refused(400)
    BY <1>1, NotRaw, Zenon DEF Decoded, DecodedEmpty
  <2> QED
    BY <1>a, <1>1, <2>1, NotRaw
<1>2. CASE s.input # <<>> /\ request.verb # "POST"
  <2>1. Decoded(s) = Refused(405)
    BY <1>2, Zenon DEF Decoded
  <2> QED
    BY <1>a, <1>2, <2>1
<1>3. CASE IsRaw(s.input) /\ request.verb = "POST"
  <2>1. Decoded(s) = DecodedRaw /\ s.input # <<>>
    BY <1>3, NotRaw, Zenon DEF Decoded
  <2>2. Decoded(s).status = 200
    BY <1>a, <2>1 DEF DecodedRaw
  <2> QED
    BY <1>3, <2>1, <2>2
<1>4. CASE s.input # <<>> /\ ~IsRaw(s.input) /\ request.verb = "POST"
  <2>1. Decoded(s) = DecodedObject(s.input)
    BY <1>4, Zenon DEF Decoded
  <2> DEFINE r == Unmarshal(s.input, request.body)
  <2>2. DecodedObject(s.input) = IF r.ok THEN Accepted(r.val) ELSE Refused(400)
    BY Zenon DEF DecodedObject
  <2> HIDE DEF r
  <2>3. Decoded(s).status \in {200, 400}
    BY <1>a, <2>1, <2>2
  <2> QED
    BY <1>4, <2>1, <2>3
<1> QED
  BY <1>1, <1>2, <1>3, <1>4

\* A handler accepts the request of a method it has if both versions give the body the
\* same form, and decodes the arguments.
LEMMA Accepts ==
  ASSUME ClientOK, stage \in Underway, Known # {},
         SameForm(call.method.input, ServerMethod.input)
  PROVE  LET d == Decoded(ServerMethod) IN
         d.status = 200 /\ Arrived(ServerMethod.input, call.method.input, call.args, d.val)
<1> DEFINE m == call.method
           s == ServerMethod
           args == call.args
           d == Decoded(s)
<1>1. Versions(s.input, m.input) /\ NoTwins(m.input)
  BY SameSchema DEF Underway
<1>2. request = RequestOf(m, call.args)
  BY DEF ClientOK
<1>3. /\ m.input = <<>> => request.body = Empty
      /\ m.input # <<>> => request.verb = "POST"
      /\ IsRaw(m.input) => request.body = RawBody(args[1])
      /\ m.input # <<>> /\ ~IsRaw(m.input) => request.body = Object(m.input, args)
  BY <1>2, RequestFacts
<1>4. (m.input = <<>> <=> s.input = <<>>) /\ (IsRaw(m.input) <=> IsRaw(s.input))
  BY DEF SameForm
<1>a. ASSUME NEW v PROVE Accepted(v).status = 200 /\ Accepted(v).val = v
  BY DEF Accepted
<1>5. CASE s.input = <<>>
  <2>1. d = Accepted(<<>>)
    BY <1>3, <1>4, <1>5, DecodedFacts
  <2>2. d.status = 200 /\ d.val = <<>>
    BY <1>a, <2>1
  <2> QED
    BY <1>5, <2>2, NotRaw, Zenon DEF Arrived
<1>6. CASE IsRaw(s.input)
  <2>1. s.input # <<>> /\ m.input # <<>>
    BY <1>4, <1>6, NotRaw
  <2>2. d = DecodedRaw
    BY <1>3, <1>6, <2>1, DecodedFacts
  <2>3. DecodedRaw = Accepted(<<Copied(Contents(args[1]))>>)
    BY <1>3, <1>4, <1>6, RawFacts DEF DecodedRaw
  <2>4. d.status = 200 /\ d.val = <<Copied(Contents(args[1]))>>
    BY <1>a, <2>2, <2>3
  <2> QED
    BY <1>6, <2>1, <2>4, Zenon DEF Arrived
<1>7. CASE s.input # <<>> /\ ~IsRaw(s.input)
  <2>1. request.verb = "POST" /\ request.body = Object(m.input, args)
    BY <1>3, <1>4, <1>7
  <2>2. d = DecodedObject(s.input)
    BY <1>7, <2>1, DecodedFacts
  <2> HIDE DEF s, m, args, d
  <2> DEFINE r == Unmarshal(s.input, request.body)
  <2>3. r.ok /\ Arrived(s.input, m.input, args, r.val)
    BY <1>1, <1>7, <2>1, Fits
  <2>4. DecodedObject(s.input) = Accepted(r.val)
    BY <2>3, Zenon DEF DecodedObject
  <2> HIDE DEF r
  <2>5. d.status = 200 /\ d.val = r.val
    BY <1>a, <2>2, <2>4
  <2>6. d.status = 200 /\ Arrived(s.input, m.input, args, d.val)
    BY <2>3, <2>5, Zenon
  <2> QED
    BY <2>6 DEF s, m, args, d
<1> QED
  BY <1>5, <1>6, <1>7

\* And it refuses a GET if the method has arguments, and arguments if it has none.
LEMMA Refuses ==
  ASSUME request = RequestOf(call.method, call.args), NEW s,
         \/ call.method.input = <<>> /\ s.input # <<>>
         \/ call.method.input # <<>> /\ ~IsRaw(call.method.input) /\ s.input = <<>>
  PROVE  Decoded(s).status # 200
<1>1. \A status : Refused(status).status = status
  BY DEF Refused
<1>2. CASE call.method.input = <<>> /\ s.input # <<>>
  <2>1. request.verb # "POST"
    BY <1>2, RequestFacts
  <2> QED
    BY <1>1, <1>2, <2>1, DecodedFacts
<1>3. CASE call.method.input # <<>> /\ ~IsRaw(call.method.input) /\ s.input = <<>>
  <2>1. request.body = Object(call.method.input, call.args)
    BY <1>3, RequestFacts
  <2>2. request.body # Empty
    BY <2>1 DEF Object, Empty
  <2> QED
    BY <1>1, <1>3, <2>2, DecodedFacts
<1> QED
  BY <1>2, <1>3

\* What a handler makes of the request does not change while the request does not.
LEMMA DecodedStays ==
  ASSUME UNCHANGED <<peers, call, request>>
  PROVE  /\ Known' = Known /\ ServerMethod' = ServerMethod
         /\ Decoded(ServerMethod)' = Decoded(ServerMethod)
<1>1. Known' = Known /\ ServerMethod' = ServerMethod
  BY DEF Known, ServerMethod
<1> QED
  BY <1>1 DEF Decoded, DecodedEmpty, DecodedRaw, DecodedObject

-----------------------------------------------------------------------------
(* What the client makes of what the server did.                           *)

LEMMA ReturnFacts ==
  ASSUME NEW out, NEW v
  PROVE  LET r == ReturnResponse(out, v) IN
         /\ r.status \in {200, 500}
         /\ IsRaw(out) => r.status = 200 /\ r.body = RawBody(v[1])
         /\ out = <<>> => r.status = 200 /\ r.body = Empty
         /\ out # <<>> /\ ~IsRaw(out) =>
               IF CanMarshal(out, v) THEN r.status = 200 /\ r.body = Object(out, v)
                                     ELSE r.status = 500 /\ r.body = Empty
<1> DEFINE r == ReturnResponse(out, v)
<1>1. CASE IsRaw(out)
  <2>1. r = [status |-> 200, body |-> RawBody(v[1])] /\ out # <<>>
    BY <1>1, NotRaw, Zenon DEF ReturnResponse
  <2> QED
    BY <1>1, <2>1
<1>2. CASE out = <<>>
  <2>1. r = [status |-> 200, body |-> Empty] /\ ~IsRaw(out)
    BY <1>2, NotRaw, Zenon DEF ReturnResponse
  <2> QED
    BY <1>2, <2>1
<1>3. CASE out # <<>> /\ ~IsRaw(out)
  <2>1. r = IF CanMarshal(out, v) THEN [status |-> 200, body |-> Object(out, v)]
                                  ELSE [status |-> 500, body |-> Empty]
    BY <1>3, Zenon DEF ReturnResponse
  <2> QED
    BY <1>3, <2>1
<1> QED
  BY <1>1, <1>2, <1>3

LEMMA FailFacts ==
  ASSUME NEW f \in Failures
  PROVE  LET r == FailResponse(f) IN
         /\ r.status \in 200 .. 999 \ {400, 405} \/ r.status = f.status
         /\ r.status \in 200 .. 999
         /\ r.status \in 200 .. 299 => f.status \in 200 .. 299
         /\ r.body.is = "error" => r.body.form = f.form /\ r.body.text = f.text
<1>1. f.status = 0 \/ f.status \in 200 .. 999
  BY HttpAssumption
<1>2. FailResponse(f).status = IF f.status = 0 THEN 500 ELSE f.status
  BY DEF FailResponse, StatusOf
<1>3. FailResponse(f).body \in {Empty, ErrorObject(f.form, f.text)}
  BY DEF FailResponse
<1>4. FailResponse(f).body.is = "error" =>
         FailResponse(f).body.form = f.form /\ FailResponse(f).body.text = f.text
  BY <1>3 DEF Empty, ErrorObject
<1> QED
  BY <1>1, <1>2, <1>4

\* The result of a call that the server answered says what the method did.
LEMMA Genuine ==
  ASSUME HttpInv, stage = "answered",
         NEW x, x = Interpret(call.method, response.status, response.body)
  PROVE  x.is \in {"success", "error"} /\ GenuineResult(x)
<1> DEFINE m == call.method
           out == ServerMethod.output
           status == response.status
           body == response.body
           r == Unmarshal(m.output, body)
           isText == body.is = "error" /\ IsText(body.form)
<1>1. /\ status \notin 200 .. 299 /\ isText => x = Error("method", TextIn(body))
      /\ status \notin 200 .. 299 /\ ~isText => x = Error("unmarshal", <<>>)
      /\ status \in 200 .. 299 /\ m.output = <<>> => x = Success(<<>>)
      /\ status \in 200 .. 299 /\ IsRaw(m.output) => x = Success(<<Copied(BytesOf(body))>>)
      /\ status \in 200 .. 299 /\ m.output # <<>> /\ ~IsRaw(m.output) =>
            x = IF r.ok THEN Success(r.val) ELSE Error("unmarshal", <<>>)
  BY InterpretFacts
<1>2. \/ \E v : x = Success(v)
      \/ \E t : x = Error("method", t)
      \/ x = Error("unmarshal", <<>>)
  BY <1>1
<1>u. ASSUME x = Error("unmarshal", <<>>)
      PROVE  x.is = "error" /\ x.cause = "unmarshal"
  BY <1>u, ResultFacts
<1>s. ASSUME status \notin 200 .. 299 PROVE x.is = "error"
  <2>1. \E cause, t : x = Error(cause, t)
    BY <1>1, <1>s, Zenon
  <2> QED
    BY <2>1, ResultFacts
<1>3. CASE Known = {} /\ response = [status |-> 404, body |-> Raw(SomeText)]
  <2>1. status = 404 /\ body.is # "error"
    BY <1>3 DEF Raw, SomeText, Empty
  <2>2. x = Error("unmarshal", <<>>)
    BY <1>1, <2>1
  <2> QED
    BY <1>3, <1>u, <2>2 DEF GenuineResult
<1>4. CASE /\ Known # {} /\ outcome.is = "nothing" /\ Decoded(ServerMethod).status # 200
           /\ \E n \in {400, 405} : response = [status |-> n, body |-> Empty]
  <2>1. (status = 400 \/ status = 405) /\ body = Empty
    BY <1>4
  <2>2. body.is # "error"
    BY <2>1 DEF Empty
  <2>3. x = Error("unmarshal", <<>>)
    <3> HIDE DEF m, r, status, body
    <3>1. status \notin 200 .. 299
      BY <2>1
    <3> QED
      BY <1>1, <2>2, <3>1, Zenon
  <2>4. ~SameForm(m.input, ServerMethod.input)
    BY <1>4, Accepts DEF HttpInv, Underway
  <2> QED
    BY <1>4, <1>u, <2>3, <2>4 DEF GenuineResult
<1>5. CASE Known # {} /\ outcome.is = "success" /\ response = ReturnResponse(out, outcome.val)
  <2> DEFINE w == outcome.val
             genuine == x.is = "success" /\ Arrived(m.output, out, w, x.val)
             lost == x.is = "error" /\ x.cause = "unmarshal" /\ ~CanMarshal(out, w)
  <2>1. Versions(m.output, out) /\ NoTwins(out)
    BY <1>5, SameSchema DEF HttpInv
  <2>2. /\ IsRaw(out) => status = 200 /\ body = RawBody(w[1])
        /\ out = <<>> => status = 200 /\ body = Empty
        /\ out # <<>> /\ ~IsRaw(out) =>
              IF CanMarshal(out, w) THEN status = 200 /\ body = Object(out, w)
                                    ELSE status = 500 /\ body = Empty
    BY <1>5, ReturnFacts
  <2>3. ASSUME SameForm(m.output, out) PROVE genuine \/ lost
    <3>0. (m.output = <<>> <=> out = <<>>) /\ (IsRaw(m.output) <=> IsRaw(out))
      BY <2>3 DEF SameForm
    <3>1. CASE m.output = <<>>
      <4>1. x = Success(<<>>)
        BY <1>1, <2>2, <3>0, <3>1
      <4>2. x.is = "success" /\ x.val = <<>>
        BY <4>1, ResultFacts
      <4> QED
        BY <3>1, <4>2, NotRaw, Zenon DEF Arrived
    <3>2. CASE IsRaw(m.output)
      <4>1. x = Success(<<Copied(BytesOf(RawBody(w[1])))>>)
        BY <1>1, <2>2, <3>0, <3>2
      <4>2. x.is = "success" /\ x.val = <<Copied(Contents(w[1]))>>
        BY <4>1, ResultFacts, RawFacts
      <4>3. m.output # <<>>
        BY <3>2, NotRaw
      <4> QED
        BY <3>2, <4>2, <4>3, Zenon DEF Arrived
    <3>3. CASE m.output # <<>> /\ ~IsRaw(m.output) /\ CanMarshal(out, w)
      <4>1. r.ok /\ Arrived(m.output, out, w, r.val)
        <5>1. body = Object(out, w)
          BY <2>2, <3>0, <3>3
        <5> HIDE DEF m, out, w
        <5> QED
          BY <2>1, <3>3, <5>1, Fits
      <4>2. x = Success(r.val)
        BY <1>1, <2>2, <3>0, <3>3, <4>1
      <4>3. x.is = "success" /\ x.val = r.val
        BY <4>2, ResultFacts
      <4> QED
        BY <4>1, <4>3, Zenon
    <3>4. CASE m.output # <<>> /\ ~IsRaw(m.output) /\ ~CanMarshal(out, w)
      <4>1. status = 500 /\ body.is # "error"
        BY <2>2, <3>0, <3>4 DEF Empty
      <4>2. x = Error("unmarshal", <<>>)
        BY <1>1, <4>1
      <4> QED
        BY <1>u, <3>4, <4>2
    <3> QED
      BY <3>1, <3>2, <3>3, <3>4
  <2>4. ~(\E t : x = Error("method", t))
    <3>1. body.is # "error"
      <4>1. CASE IsRaw(out)
        BY <2>2, <4>1 DEF RawBody, Raw, Empty
      <4>2. CASE ~IsRaw(out)
        BY <2>2, <4>2 DEF Object, Empty
      <4> QED
        BY <4>1, <4>2
    <3>2. x = Error("unmarshal", <<>>) \/ \E v : x = Success(v)
      BY <1>1, <3>1
    <3> QED
      BY <3>2, ResultFacts
  <2>5. x.is \in {"success", "error"} /\ (x.is = "error" => x.cause = "unmarshal")
    BY <1>2, <2>4, ResultFacts
  <2> HIDE DEF r, isText, w, m, out
  <2>6. /\ x.is = "success" => (SameForm(m.output, out) => Arrived(m.output, out, w, x.val))
        /\ x.is = "error" => (SameForm(m.output, out) => ~CanMarshal(out, w))
    BY <2>3
  <2>7. GenuineResult(x)
    BY <1>5, <2>5, <2>6 DEF GenuineResult, w, m, out
  <2> QED
    BY <2>5, <2>7
<1>6. CASE Known # {} /\ outcome.is = "error" /\ response = FailResponse(outcome.failure)
  <2>1. /\ outcome.failure \in Failures
        /\ status \in 200 .. 299 => outcome.failure.status \in 200 .. 299
        /\ body.is = "error" => body.form = outcome.failure.form /\ body.text = outcome.failure.text
    <3>1. outcome.failure \in Failures
      BY <1>6 DEF HttpInv, ServerOK
    <3> QED
      BY <1>6, <3>1, FailFacts
  <2>2. CASE \E v : x = Success(v)
    <3>1. x.is = "success"
      BY <2>2, ResultFacts
    <3>2. status \in 200 .. 299
      BY <1>s, <3>1
    <3> QED
      BY <1>6, <2>1, <3>1, <3>2 DEF GenuineResult
  <2>3. CASE \E t : x = Error("method", t)
    <3>1. x.is = "error" /\ x.cause = "method"
      BY <2>3, ResultFacts
    <3>2. isText /\ x = Error("method", TextIn(body))
      <4>1. \A v : x # Success(v)
        BY <3>1, ResultFacts
      <4>2. x # Error("unmarshal", <<>>)
        BY <3>1, ResultFacts
      <4> HIDE DEF m, r
      <4> QED
        BY <1>1, <4>1, <4>2
    <3>3. x.text = TextIn(body)
      BY <3>2, ResultFacts
    <3>4. body.form = outcome.failure.form /\ body.text = outcome.failure.text
      BY <2>1, <3>2
    <3>5. x.text = TextIn(outcome.failure) /\ IsText(outcome.failure.form)
      <4>1. IsText(body.form)
        BY <3>2
      <4> HIDE DEF body
      <4> QED
        BY <3>3, <3>4, <4>1, Zenon DEF TextIn
    <3> QED
      BY <1>6, <3>1, <3>5 DEF GenuineResult
  <2>4. CASE x = Error("unmarshal", <<>>)
    BY <1>6, <1>u, <2>4 DEF GenuineResult
  <2> QED
    BY <1>2, <2>2, <2>3, <2>4
<1> QED
  BY <1>3, <1>4, <1>5, <1>6 DEF HttpInv, ServerOK

-----------------------------------------------------------------------------
(* The invariant is inductive.                                             *)

LEMMA InitInv == Init => HttpInv
<1> SUFFICES ASSUME Init PROVE HttpInv
  OBVIOUS
<1>1. peers \in Peerings /\ stage = "idle" /\ runs = 0 /\ outcome = Nothing /\ result = Nothing
  BY DEF Init
<1>2. ClientOK
  BY <1>1 DEF ClientOK, Underway
<1>3. RunsOK
  BY <1>1, HttpAssumption DEF RunsOK
<1>4. ServerOK /\ ServedOK
  BY <1>1 DEF ServerOK, ServedOK, Nothing
<1>5. ResultIsGenuine
  BY <1>1 DEF ResultIsGenuine
<1> QED
  BY <1>2, <1>3, <1>4, <1>5 DEF HttpInv

\* The end of a call that is not an answer of the server.
LEMMA EndsWith ==
  ASSUME HttpInv, NEW cause, cause \notin {"method", "unmarshal"},
         result' = Error(cause, <<>>), stage' = "done"
  PROVE  ResultIsGenuine' /\ result'.is \in {"success", "error"}
<1>1. result'.is = "error" /\ result'.cause = cause
  BY ResultFacts
<1> QED
  BY <1>1 DEF ResultIsGenuine, GenuineResult

LEMMA CallStep ==
  ASSUME HttpInv, NEW m \in peers.client, NEW args, Call(m, args)
  PROVE  HttpInv'
<1>1. /\ stage = "idle" /\ runs = 0 /\ outcome = Nothing /\ peers \in Peerings
      /\ UNCHANGED <<peers, given, runs, outcome, response>>
      /\ call' = [method |-> m, args |-> args]
  BY DEF Call, HttpInv, ClientOK
<1>2. call'.method = m /\ call'.args = args
  BY <1>1
<1>3. \/ /\ stage' = "sent" /\ request' = RequestOf(m, args)
         /\ result' = Nothing
      \/ /\ stage' = "done" /\ result' = Error("marshal", <<>>)
  BY DEF Call, HttpInv, ClientOK
<1>4. ResultIsGenuine' /\ (stage' = "done" => result'.is \in {"success", "error"})
  <2>1. CASE stage' = "sent"
    BY <2>1 DEF ResultIsGenuine
  <2>2. CASE stage' = "done" /\ result' = Error("marshal", <<>>)
    BY <2>2, EndsWith
  <2> QED
    BY <1>3, <2>1, <2>2
<1>5. ClientOK'
  BY <1>1, <1>2, <1>3, <1>4 DEF ClientOK, Underway
<1>6. RunsOK'
  BY <1>1, HttpAssumption DEF RunsOK
<1>7. ServerOK' /\ ServedOK'
  BY <1>1, <1>3 DEF ServerOK, ServedOK, Nothing
<1> QED
  BY <1>4, <1>5, <1>6, <1>7 DEF HttpInv

LEMMA ReceiveStep ==
  ASSUME HttpInv, Receive
  PROVE  HttpInv'
<1>1. /\ stage = "sent" /\ UNCHANGED <<peers, call, request, outcome, result>>
      /\ ClientOK /\ RunsOK /\ ServedOK /\ ServerOK
  BY DEF Receive, HttpInv
<1>2. /\ Known' = Known /\ ServerMethod' = ServerMethod
      /\ Decoded(ServerMethod)' = Decoded(ServerMethod)
  BY <1>1, DecodedStays
<1> DEFINE d == Decoded(ServerMethod)
<1>3. CASE Known = {}
  <2>1. response' = [status |-> 404, body |-> Raw(SomeText)] /\ stage' = "answered" /\ runs' = runs
    BY <1>3 DEF Receive, Respond
  <2>2. ClientOK' /\ RunsOK' /\ ResultIsGenuine'
    BY <1>1, <2>1 DEF ClientOK, Underway, RunsOK, ResultIsGenuine
  <2>3. ServerOK'
    BY <1>1, <1>2, <1>3, <2>1 DEF ServerOK
  <2>4. ServedOK'
    BY <1>1, <1>2, <1>3, <2>1 DEF ServedOK
  <2> QED
    BY <2>2, <2>3, <2>4 DEF HttpInv
<1>4. CASE Known # {} /\ d.status # 200
  <2>1. /\ response' = [status |-> d.status, body |-> Empty]
        /\ stage' = "answered" /\ UNCHANGED <<given, runs>>
    BY <1>4 DEF Receive, Respond
  <2>2. ClientOK' /\ RunsOK' /\ ResultIsGenuine'
    BY <1>1, <2>1 DEF ClientOK, Underway, RunsOK, ResultIsGenuine
  <2>3. d.status \in {400, 405}
    BY <1>4, DecodedFacts
  <2>4. outcome.is = "nothing"
    BY <1>1, <1>4 DEF ServedOK
  <2> HIDE DEF d
  <2>5. ServerOK'
    BY <1>1, <1>2, <1>4, <2>1, <2>3, <2>4 DEF ServerOK, d
  <2>6. ServedOK'
    BY <1>1, <1>2, <2>1 DEF ServedOK
  <2> QED
    BY <2>2, <2>5, <2>6 DEF HttpInv
<1>5. CASE Known # {} /\ d.status = 200
  <2>1. runs < MaxRuns /\ runs' = runs + 1 /\ stage' = "running" /\ given' = d.val
    BY <1>5 DEF Receive
  <2>2. ClientOK' /\ ResultIsGenuine'
    BY <1>1, <2>1 DEF ClientOK, Underway, ResultIsGenuine
  <2>3. RunsOK'
    BY <1>1, <2>1, HttpAssumption DEF RunsOK
  <2>4. ServerOK'
    BY <1>1, <2>1 DEF ServerOK
  <2>5. ServedOK'
    BY <1>2, <1>5, <2>1 DEF ServedOK
  <2> QED
    BY <2>2, <2>3, <2>4, <2>5 DEF HttpInv
<1> QED
  BY <1>3, <1>4, <1>5

LEMMA ReturnStep ==
  ASSUME HttpInv, NEW v, MethodReturns(v)
  PROVE  HttpInv'
<1> DEFINE out == ServerMethod.output
<1>1. /\ stage = "running" /\ outcome' = Success(v)
      /\ UNCHANGED <<peers, call, request, given, runs, result>>
      /\ ClientOK /\ RunsOK /\ ServedOK /\ ServerOK
  BY DEF MethodReturns, HttpInv
<1>2. Known' = Known /\ ServerMethod' = ServerMethod
  BY <1>1, DecodedStays
<1>3. response' = ReturnResponse(out, v) /\ stage' = "answered"
  <2>1. CASE IsRaw(out)
    <3>1. Respond(200, RawBody(v[1]))
      BY <2>1, NotRaw, Zenon DEF MethodReturns
    <3>2. ReturnResponse(out, v) = [status |-> 200, body |-> RawBody(v[1])]
      BY <2>1, NotRaw, Zenon DEF ReturnResponse
    <3> QED
      BY <3>1, <3>2, Zenon DEF Respond
  <2>2. CASE out = <<>>
    <3>1. Respond(200, Empty)
      BY <2>2, NotRaw, Zenon DEF MethodReturns
    <3>2. ReturnResponse(out, v) = [status |-> 200, body |-> Empty]
      BY <2>2, NotRaw, Zenon DEF ReturnResponse
    <3> QED
      BY <3>1, <3>2, Zenon DEF Respond
  <2>3. CASE out # <<>> /\ ~IsRaw(out)
    <3>1. IF CanMarshal(out, v) THEN Respond(200, Object(out, v)) ELSE Respond(500, Empty)
      BY <2>3, Zenon DEF MethodReturns
    <3>2. ReturnResponse(out, v) =
             IF CanMarshal(out, v) THEN [status |-> 200, body |-> Object(out, v)]
                                   ELSE [status |-> 500, body |-> Empty]
      BY <2>3, Zenon DEF ReturnResponse
    <3>3. CASE CanMarshal(out, v)
      BY <3>1, <3>2, <3>3, Zenon DEF Respond
    <3>4. CASE ~CanMarshal(out, v)
      BY <3>1, <3>2, <3>4, Zenon DEF Respond
    <3> QED
      BY <3>3, <3>4
  <2> QED
    BY <2>1, <2>2, <2>3
<1>4. ClientOK' /\ RunsOK' /\ ResultIsGenuine'
  BY <1>1, <1>3 DEF ClientOK, Underway, RunsOK, ResultIsGenuine
<1>5. ServerOK'
  <2>1. outcome'.is = "success" /\ outcome'.val = v /\ Known # {}
    BY <1>1, ResultFacts DEF ServedOK
  <2>2. response' = ReturnResponse(ServerMethod'.output, outcome'.val)
    BY <1>2, <1>3, <2>1
  <2> QED
    BY <1>2, <1>3, <2>1, <2>2 DEF ServerOK
<1>6. ServedOK'
  BY <1>1, <1>3, DecodedStays DEF ServedOK
<1> QED
  BY <1>4, <1>5, <1>6 DEF HttpInv

LEMMA FailStep ==
  ASSUME HttpInv, NEW f \in Failures, MethodFails(f)
  PROVE  HttpInv'
<1>1. /\ stage = "running" /\ outcome' = [is |-> "error", failure |-> f]
      /\ UNCHANGED <<peers, call, request, given, runs, result>>
      /\ response' = FailResponse(f) /\ stage' = "answered"
      /\ ClientOK /\ RunsOK /\ ServedOK /\ ServerOK
  BY DEF MethodFails, Respond, FailResponse, StatusOf, HttpInv
<1>2. Known' = Known
  BY <1>1, DecodedStays
<1>3. ClientOK' /\ RunsOK' /\ ResultIsGenuine'
  BY <1>1 DEF ClientOK, Underway, RunsOK, ResultIsGenuine
<1>4. ServerOK'
  <2>1. outcome'.is = "error" /\ outcome'.failure = f /\ Known # {}
    BY <1>1 DEF ServedOK
  <2> QED
    BY <1>1, <1>2, <2>1 DEF ServerOK
<1>5. ServedOK'
  BY <1>1, DecodedStays DEF ServedOK
<1> QED
  BY <1>3, <1>4, <1>5 DEF HttpInv

LEMMA AnswerStep ==
  ASSUME HttpInv, GotResponse
  PROVE  HttpInv'
<1>1. /\ stage = "answered" /\ stage' = "done"
      /\ result' = Interpret(call.method, response.status, response.body)
      /\ UNCHANGED <<peers, call, request, given, runs, outcome, response>>
      /\ ClientOK /\ RunsOK /\ ServedOK /\ ServerOK
  BY DEF GotResponse, HttpInv
<1>2. Known' = Known /\ ServerMethod' = ServerMethod
  BY <1>1, DecodedStays
<1>3. result'.is \in {"success", "error"} /\ GenuineResult(result')
  BY <1>1, Genuine
<1>4. ResultIsGenuine'
  BY <1>1, <1>2, <1>3 DEF ResultIsGenuine, GenuineResult
<1>5. ClientOK' /\ RunsOK'
  BY <1>1, <1>3 DEF ClientOK, Underway, RunsOK
<1>6. ServerOK' /\ ServedOK'
  BY <1>1, DecodedStays DEF ServerOK, ServedOK
<1> QED
  BY <1>4, <1>5, <1>6 DEF HttpInv

LEMMA BreakStep ==
  ASSUME HttpInv, Breaks \/ ContextEnds
  PROVE  HttpInv'
<1>0. ClientOK /\ RunsOK /\ ServedOK /\ ServerOK
  BY DEF HttpInv
<1>1. /\ stage \in Underway /\ UNCHANGED <<peers, call, request, outcome>>
      /\ \/ request.replayable /\ stage' = "sent" /\ UNCHANGED <<result, runs>>
         \/ /\ stage' = "done" /\ result' = Error("transport", <<>>)
            /\ \/ runs' = runs
               \/ /\ stage = "sent" /\ runs < MaxRuns /\ runs' = runs + 1
                  /\ Known # {} /\ Decoded(ServerMethod).status = 200
  BY DEF Breaks, ContextEnds, Underway
<1>2. ServerOK' /\ ServedOK'
  <2>1. stage' \in {"sent", "done"}
    BY <1>1
  <2>2. ServerOK'
    BY <1>0, <1>1, <2>1 DEF ServerOK
  <2>3. ServedOK'
    <3>1. ASSUME runs' > 0 \/ outcome.is # "nothing"
          PROVE  Known # {} /\ Decoded(ServerMethod).status = 200
      BY <1>0, <1>1, <3>1 DEF ServedOK
    <3> QED
      BY <1>1, <2>1, <3>1, DecodedStays DEF ServedOK
  <2> QED
    BY <2>2, <2>3
<1>3. CASE request.replayable /\ stage' = "sent" /\ UNCHANGED <<result, runs>>
  <2>1. call.method.input = <<>>
    <3>1. request = RequestOf(call.method, call.args)
      BY <1>0, <1>1 DEF ClientOK
    <3> QED
      BY <1>3, <3>1, RequestFacts
  <2>2. ClientOK'
    BY <1>0, <1>1, <1>3 DEF ClientOK, Underway
  <2>3. RunsOK'
    BY <1>0, <1>1, <1>3, <2>1 DEF RunsOK
  <2>4. ResultIsGenuine'
    BY <1>3 DEF ResultIsGenuine
  <2> QED
    BY <1>2, <2>2, <2>3, <2>4 DEF HttpInv
<1>4. CASE /\ stage' = "done" /\ result' = Error("transport", <<>>)
           /\ \/ runs' = runs
              \/ stage = "sent" /\ runs < MaxRuns /\ runs' = runs + 1
  <2>1. ResultIsGenuine' /\ result'.is \in {"success", "error"}
    BY <1>4, EndsWith
  <2>2. ClientOK'
    BY <1>0, <1>1, <1>4, <2>1 DEF ClientOK, Underway
  <2>3. RunsOK'
    BY <1>0, <1>1, <1>4, HttpAssumption DEF RunsOK, Underway
  <2> QED
    BY <1>2, <2>1, <2>2, <2>3 DEF HttpInv
<1> QED
  BY <1>1, <1>3, <1>4

LEMMA NextInv ==
  ASSUME HttpInv, [Next]_vars
  PROVE  HttpInv'
<1>1. CASE UNCHANGED vars
  <2>1. UNCHANGED <<peers, stage, call, request, given, runs, outcome, response, result>>
    BY <1>1 DEF vars
  <2> QED
    <3>1. ClientOK' /\ RunsOK' /\ ResultIsGenuine'
      BY <2>1, DecodedStays DEF HttpInv, ClientOK, RunsOK, ResultIsGenuine, GenuineResult
    <3>2. ServedOK' /\ ServerOK'
      BY <2>1, DecodedStays DEF HttpInv, ServedOK, ServerOK
    <3> QED
      BY <3>1, <3>2 DEF HttpInv
<1>2. CASE Next
  BY <1>2, CallStep, ReceiveStep, ReturnStep, FailStep, AnswerStep, BreakStep DEF Next
<1> QED
  BY <1>1, <1>2

-----------------------------------------------------------------------------
(* The theorems.                                                           *)

\* The inductive invariant: the request is that of the call's arguments, a request that
\* cannot be repeated has not been received yet, no method ran that refuses the request,
\* and the response says what the method did last.
THEOREM Invariance == Spec => []HttpInv
<1>1. Init => HttpInv
  BY InitInv
<1>2. HttpInv /\ [Next]_vars => HttpInv'
  BY NextInv
<1> QED
  BY <1>1, <1>2, PTL DEF Spec

\* The stages of a call, and what there is of it in each: above all, a call is through
\* exactly if it has a result.
THEOREM TypeCorrect == Spec => []TypeOK
<1>1. HttpInv => TypeOK
  <2> SUFFICES ASSUME HttpInv PROVE TypeOK
    OBVIOUS
  <2>0. ClientOK /\ RunsOK /\ ServedOK /\ ServerOK
    BY DEF HttpInv
  <2>1. stage = "done" <=> result.is \in {"success", "error"}
    BY <2>0 DEF ClientOK, Nothing
  <2>2. ASSUME stage = "answered" PROVE response.status \in 200 .. 999
    <3>1. CASE response = [status |-> 404, body |-> Raw(SomeText)]
      BY <3>1
    <3>2. CASE response = ReturnResponse(ServerMethod.output, outcome.val)
      <4>1. response.status \in {200, 500}
        BY <3>2, ReturnFacts
      <4> QED
        BY <4>1
    <3>3. CASE outcome.is = "error" /\ response = FailResponse(outcome.failure)
      BY <2>0, <3>3, FailFacts DEF ServerOK
    <3> QED
      BY <2>0, <2>2, <3>1, <3>2, <3>3 DEF ServerOK
  <2> QED
    BY <2>0, <2>1, <2>2 DEF TypeOK, ClientOK, RunsOK, ServerOK, Underway
<1> QED
  BY <1>1, Invariance, PTL

\* A method with arguments is run once at most for each call, however often connections
\* break and the Transport repeats requests.
THEOREM MethodsRunOnce == Spec => []RunsOnce
<1>1. HttpInv => RunsOnce
  BY DEF HttpInv, RunsOK, RunsOnce
<1> QED
  BY <1>1, Invariance, PTL

\* Whatever the versions of the two sides, a method runs on the caller's arguments, and is
\* not refused, where both give the body the same form; a GET never runs a method that
\* has arguments, nor do arguments run one that has none.
THEOREM MethodsRunAsCalled == Spec => []RunsAsCalled
<1>1. HttpInv => RunsAsCalled
  <2> SUFFICES ASSUME HttpInv, stage # "idle", Known # {}
               PROVE  RunsAsCalled
    BY DEF RunsAsCalled
  <2> DEFINE mine == call.method.input
             its == ServerMethod.input
             d == Decoded(ServerMethod)
  <2>0. ClientOK /\ RunsOK /\ ServedOK /\ ServerOK
    BY DEF HttpInv
  <2>1. ASSUME SameForm(mine, its), stage \in Underway
        PROVE  d.status = 200 /\ Arrived(its, mine, call.args, d.val)
    BY <2>0, <2>1, Accepts
  <2>2. ASSUME SameForm(mine, its), stage = "running"
        PROVE  Arrived(its, mine, call.args, given)
    <3>1. given = d.val
      BY <2>0, <2>2 DEF ServedOK
    <3>2. Arrived(its, mine, call.args, d.val)
      BY <2>1, <2>2 DEF Underway
    <3> QED
      BY <3>1, <3>2, Zenon
  <2>3. ASSUME SameForm(mine, its), stage = "answered"
        PROVE  outcome.is # "nothing"
    <3>1. d.status = 200
      BY <2>1, <2>3 DEF Underway
    <3> QED
      BY <2>0, <2>3, <3>1 DEF ServerOK
  <2>4. ASSUME \/ mine = <<>> /\ its # <<>>
               \/ mine # <<>> /\ ~IsRaw(mine) /\ its = <<>>
        PROVE  runs = 0
    <3> SUFFICES ASSUME runs > 0 PROVE FALSE
      BY <2>0 DEF RunsOK
    <3>1. request = RequestOf(call.method, call.args) /\ d.status = 200
      BY <2>0 DEF ClientOK, ServedOK
    <3>2. d.status # 200
      BY <2>4, <3>1, Refuses
    <3> QED
      BY <3>1, <3>2
  <2> QED
    BY <2>2, <2>3, <2>4, Zenon DEF RunsAsCalled
<1> QED
  BY <1>1, Invariance, PTL

\* Every call ends with what its method did: its own result, as far as the two versions
\* share it and give it the same form, or an error that has a reason.
THEOREM ResultsAreGenuine == Spec => []ResultIsGenuine
<1>1. HttpInv => ResultIsGenuine
  BY DEF HttpInv
<1> QED
  BY <1>1, Invariance, PTL
===============================================================================
