----------------------------- MODULE MCLearning -----------------------------
(* Finite instances of Learning.  Thresholds, cap and budget are chosen so  *)
(* that one failure leaves the active state, two gains meet the influence   *)
(* cap and the weights of two strong synapses exceed the budget.            *)
EXTENDS Learning, TLC

CONSTANTS p1, p2

PeerSymmetry == Permutations({p1, p2})
=============================================================================
