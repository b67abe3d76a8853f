------------------------------- MODULE Totals -------------------------------
(***************************************************************************)
(* Sums over a finite set, as influence_since() and normalize_outbound()   *)
(* take them of the rows they read.                                        *)
(***************************************************************************)
EXTENDS Integers, FiniteSetsExt

(* The sum of f[x] for the members x of S. *)
Total(f, S) == MapThenSumSet(LAMBDA x : f[x], S)

=============================================================================
