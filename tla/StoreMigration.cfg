\* Two processes at a time, three commands, stores of every age.
SPECIFICATION Spec
CONSTANTS
  Works = {1, 2}
  Executions = {x, y}
  Procs = {p1, p2}
  MaxCommands = 3
  None = None
SYMMETRY ProcSymmetry
\* When MaxCommands commands have run, all is quiet.
CHECK_DEADLOCK FALSE
INVARIANTS
  TypeOK
  StampsHonest
  ReadyCurrent
  KeysHold
PROPERTIES
  RowsKept
