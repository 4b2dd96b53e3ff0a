------------------------------ MODULE MCFraming ------------------------------
(* The sizes of the TLC run of Framing. *)
EXTENDS FramingInv

Sizes == {3, 5, 6, 11}

=============================================================================
