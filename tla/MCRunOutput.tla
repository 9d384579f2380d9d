----------------------------- MODULE MCRunOutput -----------------------------
EXTENDS RunOutput

CONSTANTS r1, r2, c1, c2

MCRuns == {r1, r2}
MCClients == {c1, c2}

Load(runs, clients, lines, restarts, faults) ==
  [runs |-> runs, clients |-> clients, lines |-> lines, restarts |-> restarts,
   faults |-> faults]

\* A client at a run that prints more lines than are kept; two clients; a client
\* and a restart; two runs, one directory of which cannot be cleaned; two runs
\* and a restart.
MCWorkloads ==
  {Load({r1}, {c1}, 4, 0, 0), Load({r1}, {c1, c2}, 2, 0, 0), Load({r1}, {c1}, 1, 1, 0),
   Load({r1, r2}, {}, 2, 0, 1), Load({r1, r2}, {}, 0, 1, 0)}
=============================================================================
