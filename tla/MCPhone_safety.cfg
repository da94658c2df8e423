SPECIFICATION MCFairSpec
CONSTANTS
  Users = {u1, u2}
  MaxFlows = 2
  NoUser = NoUser
  Services = {s1, s2}
  Secrets = {k1, k2}
  MaxCalls = 3
  MaxSignIns = 2
  MaxStarts = 3
  MaxInstalls = 2
INVARIANTS TypeOK OneIdentity StartsClean OnlyTheSessionsData
PROPERTIES OwnDataIsKept 
CHECK_DEADLOCK FALSE
