---------------------------- MODULE SampleSchema ----------------------------
(***************************************************************************)
(* The message types and methods of the two generated examples: protocols  *)
(* pingpong and echo of examples/sample_pingpong, and pingpong of          *)
(* examples/simpletest, which is called simple here.                       *)
(*                                                                         *)
(* A table lists the fields that the type's RPCEncode writes and its       *)
(* RPCDecode knows, in the order of the struct.                            *)
(***************************************************************************)
EXTENDS Messages

String == Type("string")
Bytes == Type("bytes")
Bool == Type("bool")
Int_ == Type("int")
Int64 == Type("int64")
Float == Type("float")
Double == Type("double")
DateTime == Type("time")
UUID == Type("uuid")

-----------------------------------------------------------------------------
(* examples/sample_pingpong: entries of maps, structs *)

rpcMap0 == <<EntryField(1, String), EntryField(2, Int_)>>
rpcMap1 == <<EntryField(1, DateTime), EntryField(2, DateTime)>>
rpcMap2 == <<EntryField(1, String), EntryField(2, Map(rpcMap0))>>

echoThing == <<Field(1, String), Field(2, String), Field(3, Map(rpcMap0)),
               Field(4, DateTime), Field(5, Map(rpcMap1)), Field(6, UUID)>>

(* protocol pingpong *)

AuthenticateReq == <<Field(1, String), Field(2, String)>>
AuthenticateResp == <<Field(1, Bool)>>
PingWithReplyReq == <<Field(1, String)>>
PingWithReplyResp == <<Field(1, String)>>
TestMethodReq == <<Field(1, String), Field(2, Bool), Field(3, Int64), Field(4, Int_),
                   Field(5, Float), Field(6, Double), Field(7, DateTime)>>
TestMethodResp == <<Field(1, Bool)>>

(* protocol echo *)

EchoReq == <<Field(1, String), Field(2, Array(String)), Field(3, Map(rpcMap2)),
             Field(4, Map(rpcMap0)), Field(5, Struct(echoThing)),
             Field(6, DateTime), Field(7, UUID)>>
EchoResp == <<Field(1, String), Field(2, DateTime)>>
PingReq == <<>>
PingResp == <<Field(1, String)>>
ByteTestReq == <<Field(1, Bytes)>>
ByteTestResp == <<Field(1, Bytes)>>

-----------------------------------------------------------------------------
(* examples/simpletest *)

ssss == <<Field(1, String)>>

SimpleTestReq == <<Field(1, Int_), Field(2, Int64), Field(3, Float), Field(4, Double),
                   Field(5, Bool), Field(6, String), Field(7, Bytes), Field(8, Struct(ssss))>>
SimpleTestResp == SimpleTestReq

ArrayTestReq == [i \in 1 .. Len(SimpleTestReq) |-> Field(i, Array(SimpleTestReq[i].type))]
ArrayTestResp == ArrayTestReq

-----------------------------------------------------------------------------
(* Methods: the protocol and the method ID a call is sent with, which the    *)
(* result repeats as its type, and the two tables                            *)

Method(protocol, id, input, output) ==
    [protocol |-> protocol, id |-> id, input |-> input, output |-> output]

Authenticate == Method(1, 1, AuthenticateReq, AuthenticateResp)
PingWithReply == Method(1, 2, PingWithReplyReq, PingWithReplyResp)
TestMethod == Method(1, 3, TestMethodReq, TestMethodResp)
Echo == Method(2, 1, EchoReq, EchoResp)
Ping == Method(2, 2, PingReq, PingResp)
ByteTest == Method(2, 3, ByteTestReq, ByteTestResp)
SimpleTest == Method(1, 1, SimpleTestReq, SimpleTestResp)
ArrayTest == Method(1, 2, ArrayTestReq, ArrayTestResp)

\* what the handle and call functions of each generated server serve
PingpongServer == {Authenticate, PingWithReply, TestMethod}
EchoServer == {Echo, Ping, ByteTest}
SimpleServer == {SimpleTest, ArrayTest}
=============================================================================
