CONSTANTS
  N = 2
  Objective <- MCObjective
  MaxObjectives = 2
  LegCO2 <- MCLegCO2
  FarCO2 = 9
SPECIFICATION Spec
INVARIANTS
  CheapestTourRecommended
  ResponseAgrees
  LostOnlyBeyondReach
CHECK_DEADLOCK FALSE
