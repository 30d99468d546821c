SPECIFICATION LiveSpec
CONSTANTS
  Builds <- MCBuilds
  Names <- MCNames
  Stores <- MCStores
  Starters = {s1}
  Starts = 3
  Presses = 2
  Writes = 1
  Faults = 1
  Losses = 1
  EarlyPress = FALSE
INVARIANTS TypeOK ReadsItsStores KeptRows WholeCopy
PROPERTIES GoodStays ComesBack
CHECK_DEADLOCK FALSE
