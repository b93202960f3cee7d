\* Two processes: what one imports between another's load of the parent and its
\* commit of the fork.
SPECIFICATION Spec
CONSTANTS
  a = a
  b = b
  Sessions = {a, b}
  MaxLines = 2
  Script <- MCScript
  Procs = {p1, p2}
  ForkIds = {f1}
  MaxCommands = 3
  None = None
SYMMETRY ProcSymmetry
CHECK_DEADLOCK FALSE
PROPERTIES
  ForkHalvesAgree
