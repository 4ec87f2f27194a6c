SPECIFICATION FairSpec
CONSTANTS
  Deliveries = {d1, d2}
  PlanLength <- MCPlanLengthMixed
  ConditionalOn <- MCConditionalOn
  NotBefore <- MCNotBefore
  MaxEpoch = 2
  Overlap = TRUE
INVARIANTS
  RowsAdmitted
  ContinuationReady
  PendingIsClaimable
  FinalStatesAgree
  NoContactWhileUnknown
PROPERTY ProcessesEnd
CHECK_DEADLOCK FALSE
