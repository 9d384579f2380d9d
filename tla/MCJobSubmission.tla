--------------------------- MODULE MCJobSubmission ---------------------------
(* A job of every service; the schedules and the bounds change with them. *)
EXTENDS JobSubmission

J(service, schedule, stops, most) ==
  [service |-> service, schedule |-> schedule, stops |-> stops, cancels |-> most]
EveryService == {J("pool", "static", TRUE, 1), J("pool", "dynamic", TRUE, 0),
                 J("batch", "static", TRUE, 1), J("aml", "static", FALSE, 1)}
OnPool == {J("pool", "dynamic", FALSE, 0)}
=============================================================================
