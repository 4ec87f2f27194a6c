CONSTANTS
  Planners = {"p1", "p2"}
  Documents <- Contents
  Sessions <- JitterSessions
  TicksPerSecond = 2
  MaxBodyBytes = 8
  MaxLogicalTime = 4
SPECIFICATION Spec
INVARIANT AnsweredAttemptSettles
CHECK_DEADLOCK FALSE
