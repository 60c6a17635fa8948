SPECIFICATION Spec
CONSTANTS
  Values <- TwoValues
  FirstBoots <- SetOrOld
  MaxSaves = 3
  MaxCrashes = 2
INVARIANTS FileWhole SavedSurvives ResetIsReset
CHECK_DEADLOCK FALSE
