CONSTANTS
  i1 = i1
  t1 = t1
  k1 = k1
  p1 = p1
  NoKey = NoKey
  NoData = NoData
  Ids = {i1}
  Keys = {k1}
  Tabs = {t1}
  Responders = {p1}
  Ops = {"create", "view", "move", "purgeAll"}
  MaxActs = 2
  MaxFaults = 1
  MaxCalls = 1
  MaxRounds = 2
SPECIFICATION Spec
PROPERTY ProvidedNoticed
PROPERTY BadgeSettles
CHECK_DEADLOCK FALSE
