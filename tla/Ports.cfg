SPECIFICATION Spec
CONSTANTS
  c1 = c1
  c2 = c2
  k1 = k1
  k2 = k2
  Calls = {c1, c2}
  Keys = {k1, k2}
  MaxRevision = 2
  MaxSends = 2
SYMMETRY Symmetry
INVARIANTS TypeOK ResultIsPaid OnlyForeignForgets
PROPERTIES ImplementsContract
