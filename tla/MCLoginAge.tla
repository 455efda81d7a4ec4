----------------------------- MODULE MCLoginAge -----------------------------
(***************************************************************************)
(* Instances of LoginAge for TLC.                                          *)
(***************************************************************************)
EXTENDS LoginAge
=============================================================================
