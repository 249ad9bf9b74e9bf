SPECIFICATION Spec
CONSTANTS
  Documents <- SomeDocuments
  MaxStarts = 2
  MaxEdits = 1
INVARIANTS
  TypeOK
  RunsConfigured
  QueuesAsConfigured
  LeftoversExplained
  LimitsUsable
