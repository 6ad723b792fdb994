CONSTANTS
    Makes <- MCMakes
    MaxInodes = 4
    Names <- MCNames
    NameLength <- MCNameLength
    MaxEntries = 3
    MetaSize = 8
    DirHeaderSize = 2
    DirEntrySize = 1
    HalfDiff = 1
    MaxRun = 2
    IndexSpacing = 1
    ShortMax = 11
    RecordSize = 5
    IndexSize = 1
    Faults = {"link", "append"}
SPECIFICATION Spec
CHECK_DEADLOCK FALSE
INVARIANTS
    TreeInv LinkCounts TreeReadBack ListingRules
