CONSTANTS
  i1 = i1
  i2 = i2
  r1 = r1
  r2 = r2
  Ids = {i1, i2}
  Active = {i1}
  Rounds = {r1, r2}
SPECIFICATION Spec
INVARIANT TypeOK
INVARIANT NeverFalselyViewed
PROPERTY RemovedStaysRemoved
PROPERTY OpeningSettles
CHECK_DEADLOCK FALSE
