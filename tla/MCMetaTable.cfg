\* Blocks of three bytes; records that fit, fill and span blocks; every outcome
\* of the compressor; a table that is written a second time after more appends.
SPECIFICATION Spec
CONSTANTS
    MetaSize = 3
    Lengths = {1, 2, 5}
    MaxRecords = 3
    MaxWrites = 2
    CompressResults <- MCCompressResults
    ImageStart = 10
    Faults = {"alloc", "write"}
INVARIANTS
    MetaInv RecordsReadBack TableOnDisk IndexLocatesBytes
CHECK_DEADLOCK FALSE
