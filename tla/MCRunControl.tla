---------------------------- MODULE MCRunControl -----------------------------
(* Small instances of RunControl for TLC. *)
EXTENDS RunControl

Quiet(timely) == [children |-> 3, concurrent |-> 2, cancels |-> 0,
                  requests |-> FALSE, faults |-> ~timely, timely |-> timely]
Disturbing == [children |-> 1, concurrent |-> 1, cancels |-> 1,
               requests |-> TRUE, faults |-> TRUE, timely |-> FALSE]
AllSettings == {Quiet(TRUE), Quiet(FALSE), Disturbing}
=============================================================================
