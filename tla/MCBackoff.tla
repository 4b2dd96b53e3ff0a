------------------------------ MODULE MCBackoff ------------------------------
(* The TLC run of Lifecycle with its delays: all options, and delays of which *)
(* one pair grows to its limit and one begins above it.                       *)
EXTENDS Backoff

AllOptions ==
    {[conn |-> c, dialer |-> d, onConnect |-> h, onDisconnect |-> TRUE] :
        c \in BOOLEAN, d \in BOOLEAN, h \in BOOLEAN} \cap RPCOptions
MCDelays == {[start |-> 4, max |-> 10], [start |-> 9, max |-> 4]}
=============================================================================
