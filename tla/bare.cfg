\* A run whose routes have no segments is recalculated.
CONSTANTS
  v1 = v1
  v2 = v2
  p1 = p1
  p2 = p2
  r0 = r0
  r1 = r1
  None = None
  Unborn = Unborn
  Deleted = Deleted
  Request = {q1, q2}
  Endpoint = {"recalculate"}
  Fuel <- OneFuel
  Class <- OneClass
  FactorPair <- OnePair
  Plate = {}
  Fleet <- OneVehicle
  Past <- BarePast
SPECIFICATION Spec
INVARIANTS
  RecalculatedRunsArePriced
