---------------------------- MODULE MCConnection ----------------------------
(* Model values for the TLC runs of Connection. *)
EXTENDS ConnectionContract

CONSTANTS c1, c2, c3, m1

Kinds       == {"resp", "rpcErr", "bad"}
OnlyResults == {"resp"}

=============================================================================
