\* Two processes at a time, four commands of any kind, two of them killed.
SPECIFICATION Spec
CONSTANTS
  Procs = {p1, p2}
  Kinds = {"write", "backup", "restore"}
  MaxCommands = 4
  MaxCrashes = 2
  None = None
SYMMETRY ProcSymmetry
\* When MaxCommands commands have run, all is quiet.
CHECK_DEADLOCK FALSE
INVARIANTS
  Durable
  BackupWhole
PROPERTIES
  BackupIsRecent
