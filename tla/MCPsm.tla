------------------------------- MODULE MCPsm -------------------------------
(* Three entries: e1 of the box itself, e2 and e3 of remote clients, where *)
(* e2's client has another version of psm.py; e1 and e2 were made in the   *)
(* same tick.                                                              *)
EXTENDS Psm

CONSTANTS e1, e2, e3

MCTicks == [e \in Entries |-> IF e = e3 THEN 2 ELSE 1]
TwoVersions == [e \in Entries |-> IF e = e2 THEN 2 ELSE 1]
=============================================================================
