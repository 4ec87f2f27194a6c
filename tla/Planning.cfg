CONSTANTS
  Planners = {"p1", "p2"}
  Documents <- Contents
  Sessions <- AllSessions
  TicksPerSecond = 2
  MaxBodyBytes = 8
  MaxLogicalTime = 4
SPECIFICATION Spec
INVARIANTS
  AcceptedExecutes
  CyclesAreReported
  SignatureTellsFault
  LoadedIsOneCompilation
  ReducedReplays
CHECK_DEADLOCK FALSE
