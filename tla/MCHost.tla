------------------------------- MODULE MCHost -------------------------------
(* Two peers; channels of a size that two tasks fill. *)
EXTENDS Host

CONSTANTS p1, p2

MCPeers == {p1, p2}
MCBatch == [t \in MCPeers \cup {Maintenance} |-> IF t = p1 THEN 2 ELSE 1]

=============================================================================
