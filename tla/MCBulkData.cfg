CONSTANTS
    Workers = {w1, w2}
    Main = main
    MaxChunks = 5
    Submissions <- MCMixed
    BlockSize = 3
    DataStart = 5
    CompressedSize <- MCCompressedSize
    CompressBlocks = TRUE
    CompressFragments = TRUE
    Faults = {}
    MaxSpurious = 0
SYMMETRY Symmetry
SPECIFICATION Spec
CHECK_DEADLOCK FALSE
INVARIANTS
    HandedOutOnce AssertionsHold WriteoutInOrder FragmentsPacked
    NoChunkLost FinishedMeansWritten FilesReadBack
PROPERTIES
    SameAsSequential
