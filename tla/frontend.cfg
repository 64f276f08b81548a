CONSTANTS
  Slot = {s1, s2}
  MaxRuns = 2
  Mode = {"p2p", "vrp"}
SPECIFICATION FairSpec
INVARIANTS
  TypeOK
  OnePlanAtATime
  CurrentRunIsStored
PROPERTIES
  OnlyListingsAdd
  LoadingEnds
