CONSTANTS
  k1 = k1
  r1 = r1
  r2 = r2
  r3 = r3
  NoKey = NoKey
  Keys = {k1}
  Reqs = {r1, r2, r3}
  Stores = {"disk", "s3", "database"}
  Lifetime = 2
  MaxNow = 5
  MaxFaults = 1
SPECIFICATION Spec
INVARIANT TypeOK
INVARIANT SentOnceAndTold
INVARIANT AvailableInTime
 
