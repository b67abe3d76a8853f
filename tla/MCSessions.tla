----------------------------- MODULE MCSessions -----------------------------
(* Two nodes that dial each other, or one of which dials itself besides. *)
EXTENDS Sessions

CONSTANTS a, b, ab, ba, aa

MCDialer == [c \in Conns |-> IF c = ba THEN b ELSE a]
MCListener == [c \in Conns |-> IF c = ab THEN b ELSE a]
MCCarried == {{ab, ba}, {ab, aa}}
=============================================================================
