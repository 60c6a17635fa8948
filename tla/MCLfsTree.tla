----------------------------- MODULE MCLfsTree -----------------------------
EXTENDS LfsTree, TLC
CONSTANTS b0, b1, b2, b3, b4, b5, b6
SevenBlocks == {b0, b1, b2, b3, b4, b5, b6}
RootPair == <<b0, b1>>
TwoNames == {"a", "b"}
AnyBlock == Permutations(SevenBlocks \ {b0, b1})
=============================================================================
