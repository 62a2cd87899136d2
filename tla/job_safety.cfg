SPECIFICATION FairSpec
CONSTANTS
  r1 = r1 r2 = r2 k1 = k1 k2 = k2
  NoRevision = NoRevision NoConfig = NoConfig Unset = Unset
  Revisions <- TwoRevisions
  ConfigOf <- OwnConfig
  Knobs <- TwoKnobs
  DefaultKnob = k1
  Events = {"revision", "knob", "toggle", "unroll", "fail", "faults", "crash", "linger"}
  MaxEdits = 2
  MaxFaults = 1
  MaxRemovals = 1
  MaxLag = 1
INVARIANTS RecordedRan 
PROPERTIES  RevisionRuns
CHECK_DEADLOCK FALSE
