CONSTANTS
  Plans <- MCPlans
  Deliveries <- MCDeliveries
  MaxPolls = 2
  MaxEpoch = 3
SPECIFICATION Spec
INVARIANTS RefusalHasCause EvaluationsBacked ScenarioIsItsReduction RunEndsWithItsScenarios ReportsShowProblems
PROPERTY ProcessEnds
