SPECIFICATION FairSpec
CONSTANTS
  Orders = {o1}
  Prompt = {o1}
  Entries = {}
  Readers = {r1}
  Callers = {c1}
  NoOrder = NoOrder
  Quantity = 2
  MaxCrashes = 2
  LateFills = TRUE
PROPERTIES Settles
CHECK_DEADLOCK FALSE
