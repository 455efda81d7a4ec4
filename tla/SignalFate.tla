----------------------------- MODULE SignalFate -----------------------------
(***************************************************************************)
(* What the trading path promises about one signal for one manager (a      *)
(* "call"): it is taken up once, then either ordered or closed, and never  *)
(* reconsidered.  Losing a call (closing it without an order) is allowed;  *)
(* ordering it twice, or after it was closed, is not.                      *)
(***************************************************************************)
CONSTANT Calls
VARIABLE fate

Init == fate = [w \in Calls |-> "unseen"]

\* Tweets come in: their calls are pending, or closed because nobody acts on
\* them (ignored, or the manager is disabled).
TakeUp(W, V) ==
  /\ W \cap V = {}
  /\ \A w \in W \cup V : fate[w] = "unseen"
  /\ fate' = [w \in Calls |-> IF w \in W THEN "pending"
                              ELSE IF w \in V THEN "closed" ELSE fate[w]]

Order(w) ==
  /\ fate[w] = "pending"
  /\ fate' = [fate EXCEPT ![w] = "ordered"]

\* Rejected, skipped, or lost with the iteration.
Close(W) ==
  /\ \A w \in W : fate[w] = "pending"
  /\ fate' = [w \in Calls |-> IF w \in W THEN "closed" ELSE fate[w]]

Next ==
  \/ \E W, V \in SUBSET Calls : TakeUp(W, V)
  \/ \E w \in Calls : Order(w)
  \/ \E W \in SUBSET Calls : Close(W)

Spec == Init /\ [][Next]_fate
=============================================================================
