CONSTANTS
    Workers = {w1, w2}
    Main = main
    MaxChunks = 4
    Submissions <- MCSubmissions
    BlockSize = 2
    DataStart = 3
    CompressedSize <- MCCompressedSize
    CompressBlocks = TRUE
    CompressFragments = TRUE
    Faults = {"seal", "table"}
    MaxSpurious = 0
    SuperblockSize = 2
    OptionSize = 1
    PartSize <- MCPartSize
    Exportable = TRUE
    Xattrs = TRUE
    PadUnit = 4
    MaxFinalize = 2
SPECIFICATION ImageSpec
CHECK_DEADLOCK FALSE
INVARIANTS
    FinalizedMeansComplete AreasDisjoint NoHoles FailureIsReported
PROPERTIES
    FatalStaysFatal
