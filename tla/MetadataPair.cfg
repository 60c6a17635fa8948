SPECIFICATION Spec
CONSTANTS
  b1 = b1
  b2 = b2
  b3 = b3
  Blocks <- ThreeBlocks
  Keys <- TwoKeys
  Values <- TwoValues
  Units = 2
  Commits = 2
  HalfRevs = 4
  Cycles = 2
  MaxOps = 4
  MaxCrashes = 1
  MaxFaults = 2
SYMMETRY AnyBlock
INVARIANTS ProgOnlyErased HandleAgrees
PROPERTIES ChangesAreAtomic
CHECK_DEADLOCK FALSE
