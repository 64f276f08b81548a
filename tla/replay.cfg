CONSTANTS
  Slot = {s1, s2}
  MaxRuns = 2
  Mode = {"p2p", "vrp"}
SPECIFICATION Spec
INVARIANTS
  PageAlive
