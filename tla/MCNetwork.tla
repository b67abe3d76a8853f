----------------------------- MODULE MCNetwork ------------------------------
(* Four nodes that all know each other and a leaf that knows only a.  One   *)
(* of four signals is emitted: a flood, a long-lived one that follows       *)
(* weights, a short-lived one for the leaf (both acknowledged) and one too  *)
(* faint to leave its emitter.                                              *)
EXTENDS Network

CONSTANTS a, b, c, d, leaf

MCSynapses == {{n, m} : <<n, m>> \in {l \in Nodes \X Nodes :
                  l[1] # l[2] /\ (l[1] = leaf => l[2] = a) /\ (l[2] = leaf => l[1] = a)}}
MCFragile == {{a, c}}
MCOrigin == [s \in Signals |-> IF s \in {"one", "all"} THEN b ELSE a]
MCScope == [s \in Signals |-> IF s = "all" THEN "flood"
                              ELSE IF s = "one" THEN "targeted" ELSE "weighted"]
MCDestination == [s \in Signals |-> leaf]
MCTtl == [s \in Signals |-> IF s = "all" THEN 3 ELSE IF s = "one" THEN 2 ELSE 7]
MCWeight == [s \in Signals |-> IF s = "all" THEN 8 ELSE IF s = "faint" THEN 1 ELSE 4]
=============================================================================
