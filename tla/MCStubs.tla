------------------------------ MODULE MCStubs -------------------------------
(* The run of Stubs: the methods of the examples, and those of any small     *)
(* schema that is accepted.                                                  *)
EXTENDS Stubs, MCScalars, MCSchemas

AllPeerings == MCPeerings \cup SchemaPeerings
=============================================================================
