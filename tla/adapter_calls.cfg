CONSTANTS
  Engine = {"kakao", "ors"}
  MaxRoutes = 3
  Batches = 2
SPECIFICATION FairSpec
INVARIANTS
  TypeOK
  CallsBounded
  ElevationAllOrNone
PROPERTIES
  NoAnswerIsQuestioned
  AllEnginesHeard
CHECK_DEADLOCK FALSE
