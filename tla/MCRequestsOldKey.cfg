CONSTANTS
  i1 = i1
  h1 = h1
  h2 = h2
  h3 = h3
  h4 = h4
  NoId = NoId
  NoHandler = NoHandler
  Ids = {i1}
  Handlers = {h1, h2, h3, h4}
  Lifetimes = {2}
  AskedLifetimes = {0, 2, 3}
  MayEvict = FALSE
  UpdateRetries = 5
  MaxNow = 2
  MaxFaults = 0
SYMMETRY Symmetry
SPECIFICATION Spec
INVARIANT AnswerFitsKey
