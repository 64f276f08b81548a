\* Two clients change the fuel and the class of one vehicle.
CONSTANTS
  v1 = v1
  v2 = v2
  p1 = p1
  p2 = p2
  r0 = r0
  r1 = r1
  None = None
  Unborn = Unborn
  Deleted = Deleted
  Request = {q1, q2}
  Endpoint = {"patchVehicle"}
  Fuel <- MCFuel
  Class <- MCClass
  FactorPair <- MCPair
  Plate = {}
  Fleet <- OneVehicle
  Past <- NoPast
SPECIFICATION Spec
INVARIANTS
  FactorMatchesVehicle
