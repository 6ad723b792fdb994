CONSTANTS
    Workers = {w1}
    Main = main
    MaxChunks = 3
    Submissions <- MCSubmissions
    BlockSize = 2
    DataStart = 3
    CompressedSize <- MCCompressedSize
    CompressBlocks = TRUE
    CompressFragments = TRUE
    Faults = {"read"}
    MaxSpurious = 0
    SuperblockSize = 2
    OptionSize = 1
    PartSize <- MCPartSize
    Exportable = FALSE
    Xattrs = FALSE
    PadUnit = 4
    MaxFinalize = 2
SPECIFICATION ImageSpec
CHECK_DEADLOCK FALSE
INVARIANTS
    AreasDisjoint
