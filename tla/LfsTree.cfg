SPECIFICATION Spec
CONSTANTS
  b0 = b0
  b1 = b1
  b2 = b2
  b3 = b3
  b4 = b4
  b5 = b5
  b6 = b6
  Blocks <- SevenBlocks
  Root <- RootPair
  Names <- TwoNames
  MaxDirs = 3
  MaxOps = 4
  MaxRewrites = 1
  MaxCrashes = 1
SYMMETRY AnyBlock
INVARIANTS Consistent
PROPERTIES TreeChangesAreAtomic
CHECK_DEADLOCK FALSE
