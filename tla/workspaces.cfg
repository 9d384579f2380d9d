CONSTANTS
  c1 = c1
  c2 = c2
  Clients = {c1, c2}
  Names = {"w", "v"}
  Source = "w"
  Providers <- BothProviders
  MaxCommands = 4
  MaxInterrupts = 1
CHECK_DEADLOCK FALSE
SYMMETRY Users
SPECIFICATION Spec
INVARIANTS WorkspacesInOrder NumbersAreFree DeletedIsGone
PROPERTIES ImportedIsExported
