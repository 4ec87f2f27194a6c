SPECIFICATION Spec
CONSTANTS
  Deliveries = {d1}
  PlanLength <- MCPlanLength
  ConditionalOn <- MCConditionalOn
  NotBefore <- MCNotBefore
  MaxEpoch = 3
  Overlap = TRUE
INVARIANTS
  SendAccounting
  ConsentedSuccessor
  OneOpenAttempt
  StagingMatchesAttempts
  ScanStaysCurrent
PROPERTY TableEdgesOnly
CHECK_DEADLOCK FALSE
