---------------------------- MODULE RunAllocation ----------------------------
(***************************************************************************)
(* What the allocation of child runs promises: a run is free, held by one  *)
(* node, or done.  Only its holder finishes a run, a holder may lose its   *)
(* run but nobody takes it away while it is held, and done is final.       *)
(***************************************************************************)
CONSTANTS
  Nodes, Runs,
  Free, Done     \* two values that are not nodes

VARIABLE holder

Init == holder = [r \in Runs |-> Free]

\* A node claims a free run.
Take(n, r) == holder[r] = Free /\ holder' = [holder EXCEPT ![r] = n]

\* A node that came back from a restart gives up a run it held before.
GiveUp(n, r) == holder[r] = n /\ holder' = [holder EXCEPT ![r] = Free]

\* The run's holder reports its end.
Finish(n, r) == holder[r] = n /\ holder' = [holder EXCEPT ![r] = Done]

Next == \E n \in Nodes, r \in Runs : Take(n, r) \/ GiveUp(n, r) \/ Finish(n, r)

Spec == Init /\ [][Next]_holder
=============================================================================
