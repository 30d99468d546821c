SPECIFICATION Spec
CONSTANTS
  s1 = s1
  s2 = s2
  c1 = c1
  c2 = c2
  c3 = c3
  Shares = {s1, s2}
  Contracts = {c1, c2, c3}
  Expiry <- Expiries
  Worthless = {c1}
  Records <- AllRecords
  Batch = 2
  Days = 7
  From = 6
  LateLinks = FALSE
INVARIANTS TypeOK SameAsWhole CutsHold StretchesAreFlat UnitsAddUp
CHECK_DEADLOCK FALSE
