SPECIFICATION MCFairSpec
CONSTANTS
  Islands = {i1, i2}
  NoIsland = NoIsland
  Queries = {q1, q2}
  NoQuery = NoQuery
  MaxVersion = 2
  MaxRequests = 2
  MaxLoads = 2
INVARIANTS TypeOK PoolIsTheIslands   SitesAreTheIslands
PROPERTIES SearchSettles MapSettles
CHECK_DEADLOCK FALSE
