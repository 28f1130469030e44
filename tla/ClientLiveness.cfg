SPECIFICATION FairSpec
CONSTANTS
  c1 = c1
  c2 = c2
  r1 = r1
  k1 = k1
  dirty = dirty
  Rails = {"inert", "localKey", "custom"}
  Calls = {c1, c2}
  Refreshers = {}
  Keys = {k1}
  CleanKeys = {k1}
  Observed = {c1}
  MaxRevision = 1
  ActiveIn = {1}
  Amounts = {1, 2}
  Cap = 1
  MaxSends = 2
  MaxCrashes = 1
PROPERTIES CallsSettle ChargeIsReported
