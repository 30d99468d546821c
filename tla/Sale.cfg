SPECIFICATION Spec
CONSTANTS
  BackOff = 1
  UnknownTries = 2
  Brackets = {1, 2}
  Sales = {3}
  Part = 1
  StopLevel = 2
  Tapes <- UnderOnly
  PartFills = FALSE
  LostAnswers = TRUE
  MaxCrashes = 2
  AskedAgain = FALSE
INVARIANTS TypeOK NoneTwice AllGuarded NeverNeither
CHECK_DEADLOCK FALSE
