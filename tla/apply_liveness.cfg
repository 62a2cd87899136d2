SPECIFICATION FairSpec
CONSTANTS
  c1 = c1 c2 = c2 c3 = c3
  NoConfig = NoConfig LegacyName = LegacyName
  Inputs <- TwoInputs
  Checksums <- TwoConfigs
  Render <- EditionRenders
  Accepted <- EditionAccepted
  HistoryLimit = 1
  Upgraded = FALSE
  Events = {"input", "license", "spec", "hold", "faults", "crash", "configMaps", "deployment", "deploymentLag"}
  MaxChanges = 1
  MaxFaults = 1
  MaxMeddling = 1
PROPERTIES NewestRenderSettles
CHECK_DEADLOCK FALSE
