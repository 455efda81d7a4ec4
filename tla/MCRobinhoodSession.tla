------------------------- MODULE MCRobinhoodSession -------------------------
(***************************************************************************)
(* Instances of RobinhoodSession for TLC.                                  *)
(***************************************************************************)
EXTENDS RobinhoodSession

CONSTANT c1
MCCallers == {c1}
=============================================================================
