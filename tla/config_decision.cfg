SPECIFICATION FairSpec
CONSTANTS
  a = a b = b
  Absent = Absent Empty = Empty
  Endpoints = {a, b}
  Rank <- MCRank
  Foreign = {b}
  Specs = {"narrow", "wide", "mixed", "enterprise"}
  RoutesOf <- MCRoutesOf
  UsesPolicy = {"wide"}
  Policies = {"good", "bad", "clashing"}
  Roots = {"sound", "broken"}
  Validators = {"v1", "v2"}
  Judges <- MCJudges
  FirstInputs <- MCInputs
  Events = {"endpoint", "policy", "gateway", "restart", "unavailable"}
  MaxChanges = 2
INVARIANTS  DecisionSound
PROPERTIES DecisionReached
CHECK_DEADLOCK FALSE
