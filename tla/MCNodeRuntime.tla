--------------------------- MODULE MCNodeRuntime ----------------------------
(* Finite instances of NodeRuntime: two peers, signals of both delivery     *)
(* classes and of different weights, two of them from the same origin.      *)
EXTENDS NodeRuntime

CONSTANTS p1, p2

MCWeight == [s \in Signals |-> IF s = 2 THEN 2 ELSE 1]

MCOrigin == [s \in Signals |-> IF s = 2 THEN p2 ELSE p1]
=============================================================================
