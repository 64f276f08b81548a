\* Runs that are planned, recalculated, relabelled and deleted while the
\* vehicles they refer to are deleted.
CONSTANTS
  v1 = v1
  v2 = v2
  p1 = p1
  p2 = p2
  r0 = r0
  r1 = r1
  None = None
  Unborn = Unborn
  Deleted = Deleted
  Request = {q1, q2, q3}
  Endpoint = {"p2p", "recalculate", "patchRun", "deleteRun", "deleteVehicle"}
  Fuel <- OneFuel
  Class <- OneClass
  FactorPair <- OnePair
  Plate = {}
  Fleet <- OneVehicle
  Past <- MixedPast
SPECIFICATION Spec
SYMMETRY Symmetry
INVARIANTS
  RunsFinished
  VehicleReferencesHold
  OriginsWereDone
  AnswersTellTheTruth
PROPERTIES
  HistoryIsFrozen
  LedgerSpec
