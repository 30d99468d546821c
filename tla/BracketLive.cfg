SPECIFICATION FairSpec
CONSTANTS
  BackOff = 1
  UnknownTries = 2
  Exits = {1}
  Quantity = 1
  FillPrice = 4
  Stops <- Trailing
  Targets <- WithTarget
  Tapes <- AllTapes
  Keys = {1}
  Refusals = {"invalid"}
  RefusedRoles = {"stop", "target"}
  MayCap = FALSE
  MayLapse = FALSE
  MayAdjust = FALSE
  HandPrices = {}
  LostChanges = FALSE
  LostCancels = TRUE
  LostReads = FALSE
  MaxSteps = 12
  MaxCrashes = 0
PROPERTIES ReachedStopSells LegFollowed
