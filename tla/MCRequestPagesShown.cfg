CONSTANTS
  i1 = i1
  i2 = i2
  t1 = t1
  k1 = k1
  k2 = k2
  p1 = p1
  NoKey = NoKey
  NoData = NoData
  Ids = {i1, i2}
  Keys = {k1, k2}
  Tabs = {t1}
  Responders = {p1}
  Ops = {"view"}
  MaxActs = 2
  MaxFaults = 0
  MaxCalls = 2
  MaxRounds = 2
SPECIFICATION ProvidedSpec
PROPERTY ShownUntilClosed
CHECK_DEADLOCK FALSE
