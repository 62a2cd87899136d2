SPECIFICATION Spec
CONSTANTS
  Rank <- MCRank
  Clash <- MCClash
  Entries <- MCEntries
  SourceOf <- MCSource
  Routes <- MCRoutes
  MaxAge = 1
  RoutesOf <- MCRoutesOf
  Joint <- MCJoint
  MaxRouteRefusals = 2
INVARIANTS  RemovalNeverDrops
CHECK_DEADLOCK FALSE
