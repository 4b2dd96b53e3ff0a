------------------------------ MODULE MCRPCPair ------------------------------
(* Calls for the run of RPCPair: each end calls a protocol that the other  *)
(* does not serve, and one end also calls one that it does.                *)
EXTENDS RPCPairInv, TLC

CONSTANTS a1, a2, b1

MCCaller == a1 :> 1 @@ a2 :> 1 @@ b1 :> 2
=============================================================================
