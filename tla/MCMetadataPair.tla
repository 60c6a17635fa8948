--------------------------- MODULE MCMetadataPair ---------------------------
EXTENDS MetadataPair, TLC
CONSTANTS b1, b2, b3
ThreeBlocks == {b1, b2, b3}
TwoKeys == {"a", "b"}
TwoValues == {0, 1}
AnyBlock == Permutations(ThreeBlocks)
=============================================================================
