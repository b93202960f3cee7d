\* One session of each harness, as long as the repeated imports of it can differ.
SPECIFICATION Spec
CONSTANTS
  None = None
  Root = Root
  MaxCalls = 2
  MaxParts = 2
  MaxMessages = 2
  Harnesses = {"codex", "grok", "pi", "opencode"}
  Lines <- MCLines
  MaxLines <- MCMaxLines
  Names <- MCNames
INVARIANTS
  HoldsPrefix
  OneWork
  CyclesExact
PROPERTIES
  SnapshotHeld
  ReportsExact
  CaughtUp
