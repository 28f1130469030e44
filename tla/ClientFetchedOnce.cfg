SPECIFICATION Spec
CONSTANTS
  c1 = c1
  c2 = c2
  r1 = r1
  k1 = k1
  dirty = dirty
  Rails = {"inert", "localKey"}
  Calls = {c1, c2}
  Refreshers = {}
  Keys = {k1}
  CleanKeys = {k1}
  Observed = {c1, c2}
  MaxRevision = 2
  ActiveIn = {1, 2}
  Amounts = {1, 2}
  Cap = 1
  MaxSends = 2
  MaxCrashes = 0
PROPERTIES CatalogFetchedOnce
