\* Two processes at a time, four commands, two sessions, one fork.
SPECIFICATION Spec
CONSTANTS
  a = a
  b = b
  Sessions = {a, b}
  MaxLines = 2
  Script <- MCScript
  Procs = {p1, p2}
  ForkIds = {f1}
  MaxCommands = 4
  None = None
SYMMETRY ProcSymmetry
\* When MaxCommands commands have run, all is quiet.
CHECK_DEADLOCK FALSE
INVARIANTS
  TypeOK
  OrdinalsUnique
  SessionOrder
  CheckpointPinned
  ForkPrefix
  ExecutionsCover
  ClaimsGrounded
  PinnedViewExact
PROPERTIES
  HistoryKept
  NamedForkExact
  ImplementsWorkLog
