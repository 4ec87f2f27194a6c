SPECIFICATION Spec
CONSTANTS
  p1 = p1
  p2 = p2
  p3 = p3
  p4 = p4
  Processes <- Four
  FirstOwner = p1
  Nobody = Nobody
INVARIANT DeadOwnerCanBeTakenOver
CHECK_DEADLOCK FALSE
