----------------------------- MODULE MCPosition -----------------------------
(***************************************************************************)
(* Instances of Position for TLC.                                          *)
(***************************************************************************)
EXTENDS Position

MCFractions == {[num |-> 1, den |-> 2], Whole}
=============================================================================
