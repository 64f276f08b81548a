CONSTANTS
  KakaoAnswer <- MCKakao
  OrsAnswer <- MCOrs
  GivenWeights <- MCWeights
  Book <- MCBook
  Factor = {0, 1, 3}
  Alternatives = 2
  Closeness = 1000
  Width <- MCWidth
SPECIFICATION Spec
INVARIANTS
  TypeOK
  RecommendedNotDominated
  OneMultiplier
  CongestionCountedOnce
  PlanSurvives
  RecalculationProportional
  RecalculationSaves
CHECK_DEADLOCK FALSE
