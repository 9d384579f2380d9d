---------------------------- MODULE MCRunHistory ----------------------------
(* Two runs created by commands in a workspace whose first numbers are     *)
(* taken, one child of a controller, and one controller that searches.     *)
EXTENDS RunHistory, TLC

CONSTANTS r1, r2, r3, s1

Commands == Permutations({r1, r2})
=============================================================================
