\* One process at a time, five commands, two forks.
SPECIFICATION Spec
CONSTANTS
  a = a
  b = b
  Sessions = {a, b}
  MaxLines = 2
  Script <- MCScript
  Procs = {p1}
  ForkIds = {f1, f2}
  MaxCommands = 5
  None = None
CHECK_DEADLOCK FALSE
INVARIANTS
  ClaimsCurrent
PROPERTIES
  ForkIsCheckpoint
  ReimportIdempotent
