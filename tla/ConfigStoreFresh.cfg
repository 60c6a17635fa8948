SPECIFICATION Spec
CONSTANTS
  Values <- OneValue
  FirstBoots <- FreshOnly
  MaxSaves = 1
  MaxCrashes = 0
INVARIANT SavedIsKept
CHECK_DEADLOCK FALSE
