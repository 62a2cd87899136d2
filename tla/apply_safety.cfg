SPECIFICATION Spec
CONSTANTS
  c1 = c1 c2 = c2 c3 = c3
  NoConfig = NoConfig LegacyName = LegacyName
  Inputs <- ThreeInputs
  Checksums <- ThreeConfigs
  Render <- MixedRenders
  Accepted <- MixedAccepted
  HistoryLimit = 1
  Upgraded = FALSE
  Events = {"input", "license", "spec", "hold", "pods", "faults", "crash"}
  MaxChanges = 3
  MaxFaults = 1
  MaxMeddling = 0
INVARIANTS TypeOK DeployedWasRecorded MountedConfigKept AppliedIsAccepted
PROPERTIES NoRollback ServedPairAccepted
CHECK_DEADLOCK FALSE
