CONSTANTS
    Workers = {w1, w2}
    Main = main
    MaxChunks = 4
    Submissions <- MCMixed
    BlockSize = 3
    DataStart = 5
    CompressedSize <- MCCompressedSize
    CompressBlocks = FALSE
    CompressFragments = TRUE
    Faults = {"open", "read", "write", "alloc", "seal"}
    MaxSpurious = 1
SYMMETRY Symmetry
SPECIFICATION Spec
CHECK_DEADLOCK FALSE
INVARIANTS
    IInv DataInv DiskContiguous BytesPresent
PROPERTIES
    NoRaceOnSources
    SameAsSequential
