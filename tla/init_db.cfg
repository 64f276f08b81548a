CONSTANTS
  MaxDay = 3
  MaxBins = 4
SPECIFICATION Spec
INVARIANTS
  TypeOK
  SuccessIsComplete
  BinsFollowFactors
  ResetIsNeverRefused
