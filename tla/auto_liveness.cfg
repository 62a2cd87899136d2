SPECIFICATION FairSpec
CONSTANTS
  a = a
  b = b
  c = c
  v1 = v1
  v2 = v2
  v3 = v3
  Absent = Absent
  NoDocument = NoDocument
  Rank <- MCRank
  Clash <- MCClash
  Names <- MCNames
  Versions <- FewVersions
  Routes <- MCRoutes
  RouteOf <- MCRouteOf
  Documents <- FewDocuments
  Unsound <- None
  Enterprise <- None
  Refused <- HeldRefused
  Events = {"document", "gateway", "remove", "orphan", "handover", "occupy", "faults"}
  MaxChanges = 1
  MaxFaults = 1
  MaxMeddling = 1
  MaxLag = 1
  MaxCreated = 9
PROPERTIES SyncSettles ForeignNeverOverwritten
