\* Two descriptors to a block, attributes within and across blocks, the image
\* finalized twice with sets created in between; a reference
\* that wraps at the third block.
SPECIFICATION XattrSpec
CONSTANTS
    IdRange = 2
    Owners <- MCXattrOwners
    MaxAttrs = 1
    Attributes <- MCAttributes
    MaxSets = 3
    MaxWrites = 2
    MetaSize = 4
    DescSize = 2
    BlockRange = 12
    ImageStart = 7
    Faults = {"append", "write"}
INVARIANTS
    OwnersKeptInRange AttributesReadBack IndexWithinBlocks
CHECK_DEADLOCK FALSE
