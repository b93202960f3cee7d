\* The real limits, over sections at, below and above them.
SPECIFICATION Spec
CONSTANTS
  Order <- MCOrder
  Priority <- MCPriority
  Protected = 2
  Findings = "findings"
  FindingsCap = 5
  ItemChars = 240
  SectionChars = 1200
  TotalChars = 6000
  Inputs <- MCInputs
\* A handoff that is done is done.
CHECK_DEADLOCK FALSE
INVARIANTS
  TotalExact
  NewestSurvive
  AllCounted
  UncertaintyKept
  AlwaysFits
  MarkersClosed
