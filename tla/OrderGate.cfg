SPECIFICATION Spec
CONSTANTS
  Orders = {o1}
  Prompt = {o1}
  Entries = {}
  Readers = {r1, r2}
  Callers = {c1, c2}
  NoOrder = NoOrder
  Quantity = 2
  MaxCrashes = 1
  LateFills = FALSE
SYMMETRY Symmetry
INVARIANTS TypeOK BookNeverAhead LetGoIsOver LetGoIsExact
PROPERTIES MovesNeverBack KeepsPromise
CHECK_DEADLOCK FALSE
