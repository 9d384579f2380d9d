---------------------------- MODULE MCJobCounters ----------------------------
(* A small instance of JobCounters for TLC. *)
EXTENDS JobCounters, TLC

CONSTANTS n1, n2

\* Two nodes, two children for the first and one for the second.
TwoNodes == {n1, n2}
RunsOfTwo == n1 :> 2 @@ n2 :> 1
=============================================================================
