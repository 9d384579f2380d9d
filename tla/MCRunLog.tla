------------------------------- MODULE MCRunLog -------------------------------
(* One run, controlled or direct, and one sibling that ends meanwhile. *)
EXTENDS RunLog
CONSTANTS r1, s1
=============================================================================
