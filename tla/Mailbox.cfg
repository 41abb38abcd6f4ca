SPECIFICATION Spec
CONSTANTS
  NoProc = NoProc
  s1 = s1
  u1 = u1
  Deliverers = {s1}
  Users = {u1}
  Keepers = {s1}
  MaxBatch = 1
  Limit = 2
  Forced = FALSE
  MaxMid = 2
  MaxInodes = 3
  MaxFaults = 1
VIEW Reachable
INVARIANTS TypeOK   UidBinding ClientView UidsAscend 
