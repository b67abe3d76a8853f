---------------------------- MODULE MCActivation ----------------------------
(* Finite instances of Activation for TLC.  Weights grow, shrink or tie     *)
(* along the identifiers so that every tie-break of the code is exercised.  *)
EXTENDS Activation

MixedWeights == [s \in Signals |-> CASE s = 2 -> 2 [] s = 4 -> 3 [] OTHER -> 1]
=============================================================================
