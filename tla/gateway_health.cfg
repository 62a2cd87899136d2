SPECIFICATION MCSpec
CONSTANTS
  Warning = 8
  SafetyBuffer = 5
  RecheckInterval = 2
  Licenses = {9, 13}
  Horizon = 14
  MaxLicenseEdits = 2
  MaxLicenseFaults = 1
  Configs = {1, 2, 3}
  Rejected = {3}
  Images = {1, 2}
  MaxUpsets = 2
  MaxMeddles = 2
  MaxEarlyMeddles = 1
INVARIANTS  LicenseReportCurrent RolloutReported
PROPERTIES OutageRollsNothing ReadyTellsHealth OthersUntouched OwnershipSettles
CHECK_DEADLOCK FALSE
