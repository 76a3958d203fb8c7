CONSTANTS
  Ids = {i1, i2}
  Generated = {g1, g2}
  Custom = {c1}
  NoKey = NoKey
  NoData = NoData
  None = None
  Posts = {p1, p2}
  Gets = {q1, q2}
  MaxActs = 2
  MaxFaults = 1
  MaxVisits = 3

SPECIFICATION MCSpec
SYMMETRY Symmetry
CHECK_DEADLOCK FALSE
INVARIANT TypeOK
INVARIANT KeyOpensItsLink
INVARIANT CustomKeyNotInLink
INVARIANT ShownMatchesLink
INVARIANT FirstIsRevealed
 
