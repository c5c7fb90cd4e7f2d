--------------------------- MODULE MCTradingPlan ---------------------------
(* Instances of TradingPlan for TLC. *)
EXTENDS TradingPlan, TLC

\* Plans are alike: sound for the safety properties, not used for liveness.
SamePlans == Permutations(Plans)

Threes == [p \in Plans |-> 3]
Twos   == [p \in Plans |-> 2]
Ones   == [p \in Plans |-> 1]
=============================================================================
