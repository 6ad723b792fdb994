CONSTANTS
    Makes <- MCMakes
    Runs <- MCRuns
    HashSize = 2
    TargetMax = 3
    MaxInodes = 8
    Names <- MCNames
    NameLength <- MCNameLength
    MaxEntries = 7
    MetaSize = 8
    DirHeaderSize = 2
    DirEntrySize = 1
    HalfDiff = 1
    MaxRun = 2
    IndexSpacing = 1
    ShortMax = 11
    RecordSize = 5
    IndexSize = 1
    Faults = {"link", "append", "path", "create", "data"}
SPECIFICATION MkSpec
INVARIANTS
    HandlesBalanced SourceMirrored NumberedInOrder IndexUsable
