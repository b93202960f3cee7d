\* One process at a time.
SPECIFICATION Spec
CONSTANTS
  Procs = {p1}
  Kinds = {"write", "backup", "restore"}
  MaxCommands = 4
  MaxCrashes = 2
  None = None
CHECK_DEADLOCK FALSE
INVARIANTS
  NeverHalfWritten
