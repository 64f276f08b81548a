CONSTANTS
  Plan <- MCPlan
  Said <- MCSaid
  Composed <- MCComposed
  Site = {1, 2}
SPECIFICATION FairSpec
INVARIANTS
  TypeOK
  ComposedWeightsAccepted
  OneAgentCostsOnlyItself
  NarrativeIsOfThePlan
PROPERTIES
  RequestEnds
CHECK_DEADLOCK FALSE
