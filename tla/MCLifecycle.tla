---------------------------- MODULE MCLifecycle -----------------------------
(* The TLC run of Lifecycle alone: a dialer and a connect hook.              *)
EXTENDS LifecycleInv

DialOnly == {[conn |-> FALSE, dialer |-> TRUE, onConnect |-> TRUE, onDisconnect |-> TRUE]}

=============================================================================
