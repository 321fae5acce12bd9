SPECIFICATION FairSpec
CONSTANTS
  Keys = {1, 2, 3}
  Values <- NumberAndText
  PageSize = 8
  MaxDataEntry = 256
  NumPages = 6
  RowPages = 3
  MaxPowerLosses = 1
INVARIANT LogInv
PROPERTIES RefusedOnlyWhenFull RefinesPropertyMap ProgrammedOnce EveryOperationEnds
