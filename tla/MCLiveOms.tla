----------------------------- MODULE MCLiveOms -----------------------------
(* Instances of LiveOms for TLC. *)
EXTENDS LiveOms, TLC

CONSTANTS g1, g2, t1, t2

OneHome   == [t \in Tasks |-> g1]
TwoHomes  == (t1 :> g1) @@ (t2 :> g2)
SameTasks == Permutations(Tasks)
=============================================================================
