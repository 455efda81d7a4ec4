---------------------------- MODULE MCReviewQueue ---------------------------
(***************************************************************************)
(* Instances of ReviewQueue for TLC.                                       *)
(***************************************************************************)
EXTENDS ReviewQueue, TLC

\* A tweet about two tickers, taken up by two managers.
MCSubjects == {<<1, "A">>, <<1, "B">>}
MCArrivals == (1 :> <<1, "A">>) @@ (2 :> <<1, "A">>) @@ (3 :> <<1, "B">>) @@ (4 :> <<1, "B">>)
=============================================================================
