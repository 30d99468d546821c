SPECIFICATION Spec
CONSTANTS
  BackOff = 1
  UnknownTries = 2
  Exits = {1}
  Quantity = 2
  FillPrice = 4
  Stops <- OneStop
  Targets <- WithTarget
  Tapes <- ThreeTapes
  Keys = {1}
  Refusals = {"invalid", "unknown"}
  RefusedRoles = {"stop", "target", "market"}
  MayCap = TRUE
  MayLapse = TRUE
  MayAdjust = FALSE
  HandPrices = {}
  LostChanges = FALSE
  LostCancels = TRUE
  LostReads = FALSE
  MaxSteps = 12
  MaxCrashes = 0
INVARIANTS TypeOK NeverOversold QuantityKept MovesAllowed
