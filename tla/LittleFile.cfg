SPECIFICATION Spec
CONSTANTS
    Names = {config, temp}
    BlockCount = 8
    BlockSize = 6
    InlineMax = 2
    Window = 3
    FdCount = 2
    Writes <- Chunks
    Positions <- Places
    BadBlocks <- NoneOrOneBad
    Seeds <- OneSeed
    Volumes <- OneFile
    MaxCalls = 5
    MaxRestarts = 1
INVARIANTS RoomIsFound FreeIsFree
PROPERTIES FilesArePromised
SYMMETRY AnyName
CHECK_DEADLOCK FALSE
