SPECIFICATION Spec
CONSTANTS
  a = a
  b = b
  c = c
  v1 = v1
  v2 = v2
  v3 = v3
  Absent = Absent
  NoDocument = NoDocument
  Rank <- MCRank
  Clash <- MCClash
  Names <- MCNames
  Versions <- MCVersions
  Routes <- MCRoutes
  RouteOf <- MCRouteOf
  Documents <- AllDocuments
  Unsound <- OneUnsound
  Enterprise <- OneEE
  Refused <- OneRefused
  Events = {"document", "annotate", "faults"}
  MaxChanges = 3
  MaxFaults = 1
  MaxMeddling = 0
  MaxLag = 0
  MaxCreated = 9
INVARIANTS NoClashAdded
PROPERTIES MakeBeforeBreak SyncedMeansStored
