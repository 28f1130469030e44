SPECIFICATION DelegatedSpec
CONSTANTS
  Rails = {"custom"}
  Calls = {c1, c2}
  Refreshers = {}
  Keys = {k1}
  CleanKeys = {k1}
  Observed = {c1, c2}
  MaxRevision = 1
  ActiveIn = {1}
  Amounts = {1, 2}
  Cap = 1
  MaxSends = 1
  MaxCrashes = 0
INVARIANTS RefusedBeforePayment
