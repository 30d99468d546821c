SPECIFICATION Spec
CONSTANTS
  Tokens = {t1, t2, t3, t4}
  None = none
  Askers = {"keeper"}
  Readers = {"read"}
  Losses = {"unanswered"}
  Resends = TRUE
  Captures = 1
  Disconnects = 0
  Ends = 0
  Faults = 1
  Crashes = 0
SYMMETRY TokenSymmetry
INVARIANTS TypeOK NeverPostedAgain SavedWorks
PROPERTIES LostIsSaid WorkingNeverDeleted
CHECK_DEADLOCK FALSE
