\* Everything at once, with two plates to swap, a third to compete for, and a pair without a factor,
\* until every request is answered.
CONSTANTS
  v1 = v1
  v2 = v2
  p1 = p1
  p2 = p2
  r0 = r0
  r1 = r1
  None = None
  Unborn = Unborn
  Deleted = Deleted
  Request = {q1, q2}
  Endpoint = {"p2p", "vrp", "recalculate", "patchRun", "deleteRun", "createVehicle", "patchVehicle", "deleteVehicle"}
  Fuel <- OneFuel
  Class <- MCClass
  FactorPair <- OnePair
  Plate = {p1, p2, p3}
  Fleet <- RacedVehicle
  Past <- MixedPast
SPECIFICATION FairSpec
INVARIANTS
  HandlersOnTrack
  PlatesUnique
  OnlyPlatesMakeCircles
  DoneRunsHadAFactor
PROPERTIES
  RequestsEnd
