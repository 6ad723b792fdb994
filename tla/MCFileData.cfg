\* Blocks of two bytes, sources of up to five.
SPECIFICATION Spec
CONSTANTS
    BlockSize = 2
    Sources <- MCSources
    MaxLength = 5
    Faults = {"stat", "open", "alloc"}
INVARIANTS
    ChunksTileFile ReaderCountsBlocks AcceptedChunksComplete NoOverrun
CHECK_DEADLOCK FALSE
