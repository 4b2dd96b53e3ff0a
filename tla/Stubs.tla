-------------------------------- MODULE Stubs -------------------------------
(***************************************************************************)
(* One remote call from the caller's arguments to the caller's result, as  *)
(* the bytes see it: the client method and call() write the request,       *)
(* gotMessage reads it and has the server's handle() decode it, the method *)
(* runs in a goroutine of its own and writes the reply, gotMessage of the  *)
(* client hands that to the decoder of the client method.                  *)
(*                                                                         *)
(* Both read loops go on meanwhile and put other bytes where the message   *)
(* was.  Who waits for whom, and how the reply finds its call, is the      *)
(* subject of Connection; how a message is cut out of the stream that of   *)
(* Framing.                                                                *)
(*                                                                         *)
(* The two sides are built from versions of one schema that need not be    *)
(* the same.                                                               *)
(***************************************************************************)
EXTENDS Messages

CONSTANTS Peerings,          \* pairs [client, server] of the sets of methods that
                             \* the two were generated with
          CallIDs,           \* the IDs the call may be given
          Inputs(_),         \* arguments a caller passes to a method
          Outputs(_, _),     \* what a method may answer to what it was given
          Texts              \* texts of errors

\* the header of a reply fits the buffer as it is allocated
ASSUME StubsAssumption ==
    /\ \A p \in Peerings : \A m \in p.client \cup p.server :
          m.protocol \in 0 .. Words - 1 /\ m.id \in 0 .. Words - 2
    /\ CallIDs \subseteq 0 .. Words - 1
    /\ MessageCapacity >= 3 * (Full + 1)

VARIABLES peers,     \* the versions of the schema on the two sides
          stage,     \* how far the call is
          call,      \* [method, args, id]
          frame,     \* the message, in the buffer it is being read from
          served,    \* what handle() made of the request
          outcome,   \* what the method did
          result     \* what the client method returns

vars == <<peers, stage, call, frame, served, outcome, result>>

Stages == {"idle", "request", "serving", "reply", "returned", "panicked"}

MethodCall == 1
MethodReturn == 2
PrivateTypeRPCError == Words - 1

GenericError == 0
TimeoutError == 1
ProtocolError == 2
ApplicationError == 3

\* rpcError
rpcErrorFields == <<Field(1, Type("int")), Field(2, Type("string"))>>
Error(id, text) == [is |-> "error", id |-> id, text |-> text]
Success(v) == [is |-> "success", val |-> v]
Nothing == [is |-> "nothing"]

\* texts the runtime makes up, of which no property tells the wording
RuntimeText == <<0>>

Init ==
    /\ peers \in Peerings
    /\ stage = "idle"
    /\ call = Nothing
    /\ frame = <<>>
    /\ served = Nothing
    /\ outcome = Nothing
    /\ result = Nothing

newFrame(type, id) ==
    WriteVarint(WriteVarint(newMessage(4, MessageCapacity), type), id)

\* the message as it is sent or, if writing it panicked, the end of it all
Emit(m, next) ==
    IF m.panic THEN stage' = "panicked" /\ frame' = <<>>
               ELSE stage' = next /\ frame' = m.out

-----------------------------------------------------------------------------
(* The client *)

Call(m, args, id) ==
    /\ stage = "idle"
    /\ call' = [method |-> m, args |-> args, id |-> id]
    /\ LET header == WriteVarint(WriteVarint(newFrame(MethodCall, id), m.protocol), m.id)
       IN  Emit(RPCEncode(header, m.input, args), "request")
    /\ UNCHANGED <<peers, served, outcome, result>>

\* what the decoder of the client method makes of a message type and a body
DecodeResult(m, type, body) ==
    LET r == RPCDecode(m.output, body)
        e == RPCDecode(rpcErrorFields, body)
    IN  IF type.err # None THEN Error(GenericError, RuntimeText)
        ELSE IF type.val = m.id
             THEN IF r.err = None THEN Success(r.val) ELSE Error(GenericError, RuntimeText)
        ELSE IF type.val = PrivateTypeRPCError
             THEN IF e.err = None THEN Error(e.val[1], e.val[2])
                                  ELSE Error(GenericError, RuntimeText)
        ELSE Error(ProtocolError, RuntimeText)

\* Mutant: the call is not woken.
GotReturnMutant ==
    /\ stage = "reply"
    /\ LET type == ReadVarint(FromBytes(frame, 4))
           id == ReadVarint(type.msg)
           resultType == ReadVarint(id.msg)
       IN  result' = DecodeResult(call.method, resultType, resultType.msg)
    /\ UNCHANGED <<peers, stage, call, frame, served, outcome>>

GotReturn ==
    /\ stage = "reply"
    /\ LET type == ReadVarint(FromBytes(frame, 4))
           id == ReadVarint(type.msg)
           resultType == ReadVarint(id.msg)
       IN  /\ type.err = None /\ type.val = MethodReturn
           /\ id.err = None /\ id.val = call.id
           /\ result' = DecodeResult(call.method, resultType, resultType.msg)
    /\ stage' = "returned"
    /\ UNCHANGED <<peers, call, frame, served, outcome>>

-----------------------------------------------------------------------------
(* The server *)

Reply(r, type, fields, v) ==
    Emit(RPCEncode(WriteVarint(r, type), fields, v), "reply")

ReplyError(id, code, text) ==
    Reply(newFrame(MethodReturn, id), PrivateTypeRPCError, rpcErrorFields, <<code, text>>)

\* the switch of handle(), and the decoder of the method it finds
handle(protocol, methodID, body) ==
    LET known == {m \in peers.server : m.protocol = protocol /\ m.id = methodID}
        m == CHOOSE m \in known : TRUE
        args == RPCDecode(m.input, body)
    IN  IF known = {} \/ args.err # None
        THEN Error(ProtocolError, RuntimeText)
        ELSE [is |-> "callable", method |-> m, val |-> args.val]

\* the header of a request; reading it cannot fail, since the client wrote it
GotCall ==
    /\ stage = "request"
    /\ LET type == ReadVarint(FromBytes(frame, 4))
           id == ReadVarint(type.msg)
           protocol == ReadVarint(id.msg)
           method == ReadVarint(protocol.msg)
       IN  /\ type.err = None /\ type.val = MethodCall
           /\ IF protocol.val \notin {m.protocol : m \in peers.server}
              THEN /\ ReplyError(id.val, ProtocolError, RuntimeText)
                   /\ served' = Error(ProtocolError, RuntimeText)
              ELSE /\ served' = handle(protocol.val, method.val, method.msg)
                   /\ stage' = "serving"
                   /\ UNCHANGED frame
    /\ UNCHANGED <<peers, call, outcome, result>>

\* a request nobody could decode: the goroutine answers without a call
Refuse ==
    /\ stage = "serving" /\ served.is = "error"
    /\ ReplyError(call.id, served.id, served.text)
    /\ UNCHANGED <<peers, call, served, outcome, result>>

\* what the method is given, when it looks at it
Given == SeenIn(served.method.input, served.val, frame)

Serving == stage = "serving" /\ served.is = "callable"

MethodReturns(v) ==
    /\ Serving
    /\ outcome' = [is |-> "success", given |-> Given, val |-> v]
    /\ Reply(newFrame(MethodReturn, call.id), served.method.id, served.method.output, v)
    /\ UNCHANGED <<peers, call, served, result>>

\* an error that is itself an rpcMessage, such as one from another call, is
\* passed on; the text of any other, or what the panic handler makes of a
\* panic, is an ApplicationError
MethodFails(code, text) ==
    /\ Serving
    /\ outcome' = [is |-> "error", given |-> Given, id |-> code, text |-> text]
    /\ ReplyError(call.id, code, text)
    /\ UNCHANGED <<peers, call, served, result>>

-----------------------------------------------------------------------------
(* The read loop goes on and reuses its buffer *)
BufferReused ==
    /\ stage \in {"serving", "returned"}
    /\ frame' = [i \in DOMAIN frame |-> 0]
    /\ UNCHANGED <<peers, stage, call, served, outcome, result>>

Next ==
    \/ \E m \in peers.client, id \in CallIDs : \E args \in Inputs(m) : Call(m, args, id)
    \/ GotCall \/ Refuse \/ GotReturn \/ BufferReused
    \/ Serving /\ \E v \in Outputs(served.method, Given) : MethodReturns(v)
    \/ \E text \in Texts, code \in {GenericError, TimeoutError, ApplicationError} : MethodFails(code, text)

Spec == Init /\ [][Next]_vars

-----------------------------------------------------------------------------
(* Properties *)

\* Every variable holds what the stage of the call says.
TypeOK ==
    /\ stage \in Stages
    /\ frame \in Seq(Byte)
    /\ stage # "idle" => call.method \in peers.client /\ call.id \in CallIDs
    /\ served.is \in {"nothing", "error", "callable"}
    /\ outcome.is \in {"nothing", "success", "error"}
    /\ result.is \in (IF stage = "returned" THEN {"success", "error"} ELSE {"nothing"})

\* What is left of a value when it has been written and read: an array loses
\* its zero elements, an empty map is nil, a time has lost what its text does
\* not say, and in the entry of a map only strings, bytes, times, UUIDs, maps
\* and structs survive - numbers and booleans are written with a tag that the
\* decoder does not expect, and are skipped.  A field whose tag is 0 is assigned
\* once more, when the tag after the last one cannot be read
AtEnd(f, v) ==
    IF PBTag(f.id, f.expects) # 0 THEN v
    ELSE IF f.type.kind = "array" THEN Append(v, Zero(f.type.of)) ELSE Zero(f.type)

RECURSIVE Arrives(_, _)
ArriveIn(fields, v) ==
    [i \in 1 .. Len(fields) |->
        AtEnd(fields[i],
              IF fields[i].expects = WireTypeOf(fields[i].type)
              THEN Arrives(fields[i].type, v[i]) ELSE Zero(fields[i].type))]
Arrives(t, v) ==
    CASE t.kind = "array" ->
            LET kept == SelectSeq(v, LAMBDA e : ~ Omitted(t.of, e))
            IN  [i \in DOMAIN kept |-> Arrives(t.of, kept[i])]
      [] t.kind = "map" ->
            IF v = <<>> \/ v = <<<<>>>> THEN <<>>
            ELSE <<FoldLeft(SetKey, <<>>,
                            [i \in DOMAIN v[1] |-> ArriveIn(t.fields, v[1][i])])>>
      [] t.kind = "struct" -> IF v = <<>> THEN <<>> ELSE <<ArriveIn(t.fields, v[1])>>
      [] t.kind = "time" -> [v EXCEPT !.extra = FALSE]
      [] OTHER -> IF Omitted(t, v) THEN Zero(t) ELSE v

\* what a reader of a message with the fields `theirs` has of a value v of
\* `ours`: the fields both know, and the zero value of its other ones
Understood(theirs, ours, v) ==
    LET have(i) == {j \in 1 .. Len(ours) : ours[j].id = theirs[i].id}
    IN  [i \in 1 .. Len(theirs) |->
            IF have(i) = {} THEN AtEnd(theirs[i], Zero(theirs[i].type))
            ELSE ArriveIn(ours, v)[CHOOSE j \in have(i) : TRUE]]

\* A method is given the arguments its caller passed - those of the fields the
\* two versions share - whatever other fields, of whatever wire type, the
\* newer version has added before, between or after them (RPCEncode, RPCDecode,
\* ReadPBSkip), and whenever it looks at them (ReadBytes and ReadString copy).
\* A field numbered 0 is the exception that AtEnd states.
ArgumentsArrive ==
    outcome.is # "nothing" =>
        outcome.given = Understood(served.method.input, call.method.input, call.args)

\* A caller gets the method's result, or its error under the right ID and with
\* its text; what it holds stays the same when the buffer is reused.
ResultArrives ==
    stage = "returned" =>
        CASE outcome.is = "success" ->
                /\ result.is = "success"
                /\ SeenIn(call.method.output, result.val, frame) =
                       Understood(call.method.output, served.method.output, outcome.val)
          [] outcome.is = "error" -> result = Error(outcome.id, outcome.text)
          [] OTHER -> result.is = "error" /\ result.id = ProtocolError

\* A method the server does not have, of a protocol it has or has not, is
\* answered with an error; nothing but such a method is refused, so that a
\* newer client finds the methods an older server has.
OnlyUnknownRefused ==
    served.is = "error" =>
        ~ \E m \in peers.server : m.protocol = call.method.protocol /\ m.id = call.method.id

\* the int fields in a value
RECURSIVE IntsIn(_, _), IntsOf(_, _)
IntsIn(fields, v) == UNION {IntsOf(fields[i].type, v[i]) : i \in 1 .. Len(fields)}
IntsOf(t, v) ==
    CASE t.kind = "int" -> {v}
      [] t.kind = "array" -> UNION {IntsOf(t.of, e) : e \in Range(v)}
      [] t.kind = "map" /\ v # <<>> -> UNION {IntsIn(t.fields, kv) : kv \in Range(v[1])}
      [] t.kind = "struct" /\ v # <<>> -> IntsIn(t.fields, v[1])
      [] OTHER -> {}

\* Writing a message panics only for a number whose varint is longer than the
\* Full bytes that WriteVarint makes room for: no combination of capacity,
\* growth and sizes of the other fields runs past the end of the buffer.
OnlyLongVarintsPanic ==
    stage = "panicked" =>
        \E n \in IF outcome.is = "nothing"
                 THEN IntsIn(call.method.input, call.args)
                 ELSE IntsIn(served.method.output, outcome.val) :
            n >= Power(Base, Full)
=============================================================================
