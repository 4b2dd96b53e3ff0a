------------------------------ MODULE MCServing ------------------------------
(* The TLC run of Serving: a dialer and a connect hook, which is where objects*)
(* are replaced and recycled.                                                *)
EXTENDS Serving

DialAndHook == {[conn |-> FALSE, dialer |-> TRUE, onConnect |-> TRUE, onDisconnect |-> FALSE]}
=============================================================================
