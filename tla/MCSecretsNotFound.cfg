CONSTANTS
  k1 = k1
  r1 = r1
  r2 = r2
  r3 = r3
  NoKey = NoKey
  Keys = {k1}
  Reqs = {r1, r2, r3}
  Lifetimes = {2}
  AskedLifetimes = {0, 2}
  ForceLifetime = 0
  ForceOneTimeSecrets = FALSE
  OidcEnabled = TRUE
  DisableReadReceipts = FALSE
  MayEvict = FALSE
  UpdateRetries = 5
  MaxNow = 4
  MaxFaults = 0
SYMMETRY Symmetry
SPECIFICATION Spec
PROPERTY NotFoundMeansUnread
