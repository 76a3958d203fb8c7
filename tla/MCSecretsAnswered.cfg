CONSTANTS
  k1 = k1
  r1 = r1
  r2 = r2
  r3 = r3
  NoKey = NoKey
  Keys = {k1}
  Reqs = {r1, r2, r3}
  Lifetimes = {1}
  AskedLifetimes = {1}
  ForceLifetime = 1
  ForceOneTimeSecrets = FALSE
  OidcEnabled = FALSE
  DisableReadReceipts = FALSE
  MayEvict = FALSE
  UpdateRetries = 2
  MaxNow = 2
  MaxFaults = 1
SPECIFICATION FairSpec
PROPERTY EveryRequestAnswered
