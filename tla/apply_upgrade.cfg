SPECIFICATION Spec
CONSTANTS
  c1 = c1 c2 = c2 c3 = c3
  NoConfig = NoConfig LegacyName = LegacyName
  Inputs <- ThreeInputs
  Checksums <- ThreeConfigs
  Render <- ThreeRenders
  Accepted <- ThreeAccepted
  HistoryLimit = 3
  Upgraded = TRUE
  Events = {"input", "hold", "pods", "faults", "crash", "deploymentLag"}
  MaxChanges = 2
  MaxFaults = 1
  MaxMeddling = 0
INVARIANTS AppliedConfigRetrievable
CHECK_DEADLOCK FALSE
