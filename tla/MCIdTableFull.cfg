\* One owner more than the field has values.
SPECIFICATION Spec
CONSTANTS
    IdRange = 3
    Owners <- MCOwners
    MaxAttrs = 3
    Faults = {}
INVARIANTS
    OwnersKept
CHECK_DEADLOCK FALSE
