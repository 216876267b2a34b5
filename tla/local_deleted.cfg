SPECIFICATION LocalSpec
CONSTANTS
    None = None
    Old = Old
    New = New
    Torn = Torn
    edit1 = edit1
    edit2 = edit2
    edit3 = edit3
    Edits = {}
    MaxCrashes = 3
    MaxFaults = 3
INVARIANTS
    DeletedStaysDeleted
CHECK_DEADLOCK FALSE
