SPECIFICATION FairSpec
CONSTANTS
  Cases <- MCCases
  PrecedentId <- MCPrecedentId
  CodeOf <- MCCodeOf
  RoundingTolerance = 100
  MaxToolCalls = 2
  MaxRevisions = 2
  MaxInvocations = 2
INVARIANTS
  Budgets
  AcceptedIsVerified
  EscalationsNameTheirCause
PROPERTIES
  InvocationsEnd
CHECK_DEADLOCK FALSE
