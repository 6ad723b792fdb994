CONSTANTS
    Workers = {w1, w2}
    Main = main
    MaxChunks = 2
    Submissions <- MCSubmissions
    BlockSize = 2
    DataStart = 3
    CompressedSize <- MCCompressedSize
    CompressBlocks = TRUE
    CompressFragments = TRUE
    Faults = {"open", "read", "alloc", "seal", "serialize", "truncate", "write", "table"}
    MaxSpurious = 0
    SuperblockSize = 2
    OptionSize = 1
    PartSize <- MCPartSize
    Exportable = FALSE
    Xattrs = FALSE
    PadUnit = 4
    MaxFinalize = 2
SPECIFICATION FairImageSpec
CHECK_DEADLOCK FALSE
PROPERTIES
    EveryThreadEnds CloseReturns
