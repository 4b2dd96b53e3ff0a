------------------------------- MODULE MCSwift -------------------------------
(* The TLC run of SwiftConnection.                                         *)
EXTENDS SwiftConnection

CONSTANTS c1, c2, m1
=============================================================================
