--------------------------- MODULE MCWorkspaces ---------------------------
(* Two users of a store with one workspace and a name for another. *)
EXTENDS Workspaces, TLC

Users == Permutations(Clients)
BothProviders == {"azure", "file"}
OnAzure == {"azure"}
=============================================================================
