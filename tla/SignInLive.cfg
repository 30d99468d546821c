SPECIFICATION LiveSpec
CONSTANTS
  Tokens = {t1, t2, t3}
  None = none
  Askers = {"keeper"}
  Readers = {"read"}
  Losses = {"unanswered"}
  Resends = FALSE
  Captures = 0
  Disconnects = 1
  Ends = 1
  Faults = 0
  Crashes = 1
PROPERTIES Recovers
CHECK_DEADLOCK FALSE
