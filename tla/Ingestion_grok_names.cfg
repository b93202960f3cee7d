\* A Grok session that is imported before and after it has a summary.
SPECIFICATION Spec
CONSTANTS
  None = None
  Root = Root
  MaxCalls = 2
  MaxParts = 2
  MaxMessages = 2
  Harnesses = {"grok"}
  Lines <- MCLines
  MaxLines <- MCMaxLines
  Names <- MCNames
PROPERTIES
  ReimportAddsNothing
