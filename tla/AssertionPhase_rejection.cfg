CONSTANTS
  Plans <- MCFieldPlan
  Deliveries <- MCDeliveries
  MaxPolls = 2
  MaxEpoch = 3
SPECIFICATION Spec
INVARIANT FailureIsMismatch
