SPECIFICATION LiveSpec
CONSTANTS
  Writers = {pull}
  Quiet <- NoQuiet
  Changes = 2
  Logged = 1
  Params = {a, b}
  None = None
  Mixed = Mixed
  Turns = 1
  Faults = 1
  FaultKinds <- AllFaults
  Hasty = FALSE
  StaleUrl = FALSE
  Between = FALSE
INVARIANTS TypeOK ShowsItsOwn
PROPERTIES CatchesUp
CHECK_DEADLOCK FALSE
