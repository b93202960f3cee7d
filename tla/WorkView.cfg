\* Two sessions of up to three and two lines, imported in parts, in any order.
SPECIFICATION Spec
CONSTANTS
  Sessions <- MCSessions
  Lines <- MCLines
  MaxLines <- MCMaxLines
  MaxCheckpoints = 1
INVARIANTS
  TypeOK
  MissingExact
  LiveDiagnosticsCurrent
  VerifiedMeansTested
  OpenWorkIsNamed
PROPERTIES
  CheckpointViewStable
