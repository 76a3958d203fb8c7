CONSTANTS
  i1 = i1
  h1 = h1
  h2 = h2
  h3 = h3
  h4 = h4
  NoId = NoId
  NoHandler = NoHandler
  Ids = {i1}
  Handlers = {h1, h2, h3, h4}
  Lifetimes = {2}
  AskedLifetimes = {0, 2, 3}
  MayEvict = TRUE
  UpdateRetries = 2
  MaxNow = 3
  MaxFaults = 1
SYMMETRY Symmetry
SPECIFICATION Spec
INVARIANT TypeOK
INVARIANT AcceptedOnce
INVARIANT HandedOutOnce
 
INVARIANT Mortal
PROPERTY FulfilledIsFinal
PROPERTY OwnerOnly
PROPERTY RevokedIsDead
PROPERTY FollowsLifecycle
