CONSTANTS
  i1 = i1
  t1 = t1
  k1 = k1
  k2 = k2
  k3 = k3
  p1 = p1
  NoKey = NoKey
  NoData = NoData
  Ids = {i1}
  Keys = {k1, k2, k3}
  Tabs = {t1}
  Responders = {p1}
  Ops = {"rotate", "view", "revoke", "remove", "purgeAll", "clearCollected"}
  MaxActs = 2
  MaxFaults = 0
  MaxCalls = 2
  MaxRounds = 2
SYMMETRY Symmetry
SPECIFICATION ListedSpec
INVARIANT TypeOK
INVARIANT KeyKept
 
 
PROPERTY StatusNeverBackwards
CHECK_DEADLOCK FALSE
