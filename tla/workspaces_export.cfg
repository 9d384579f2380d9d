CONSTANTS
  c1 = c1
  Clients = {c1}
  Names = {"w", "v"}
  Source = "w"
  Providers <- OnAzure
  MaxCommands = 2
  MaxInterrupts = 0
CHECK_DEADLOCK FALSE
SPECIFICATION Spec
INVARIANTS ArchiveIsComplete
