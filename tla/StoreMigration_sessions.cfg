\* One process looks, another migrates and forks, the first one migrates.
SPECIFICATION Spec
CONSTANTS
  Works = {1, 2}
  Executions = {x}
  Procs = {p1, p2}
  MaxCommands = 3
  None = None
SYMMETRY ProcSymmetry
CHECK_DEADLOCK FALSE
PROPERTIES
  SessionsKept
