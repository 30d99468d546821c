SPECIFICATION Spec
CONSTANTS
  BackOff = 1
  UnknownTries = 2
  Exits = {1, 2}
  Quantity = 1
  FillPrice = 4
  Stops <- OneStop
  Targets <- NoTargets
  Tapes <- TwoTapes
  Keys = {1, 2}
  Refusals = {"state", "no-answer"}
  RefusedRoles = {"stop"}
  MayCap = FALSE
  MayLapse = FALSE
  MayAdjust = TRUE
  HandPrices = {3}
  LostChanges = TRUE
  LostCancels = TRUE
  LostReads = TRUE
  MaxSteps = 12
  MaxCrashes = 2
INVARIANTS OneAtBroker EndsAlone
PROPERTIES ComesToAnEnd
