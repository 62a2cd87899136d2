SPECIFICATION MCSpec
CONSTANTS
  a = a b = b c = c g = g h = h
  None = None
  Gateways = {g, h}
  EndpointsOf <- MCEndpointsOf
  Requests <- MCRequests
  MaxEntryCauses = 1
  Worlds <- MCWorlds
INVARIANTS AnswerIsRight NothingEnterpriseOnCE RightsHeld AdmittedPodsStart
CHECK_DEADLOCK FALSE
