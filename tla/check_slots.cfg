SPECIFICATION FairSlots
CONSTANTS
  w = w s1 = s1 s2 = s2 q1 = q1 q2 = q2
  Workers <- MCWorkers
  Sharers <- MCSharers
  Requests <- MCRequests
  Slots = 3
  MaxChecks = 2
INVARIANTS AdmissionSlotLeft
PROPERTIES SharesGoRound ImplementsPool
CHECK_DEADLOCK FALSE
