SPECIFICATION FairLocalSpec
CONSTANTS
    None = None
    Old = Old
    New = New
    Torn = Torn
    edit1 = edit1
    edit2 = edit2
    edit3 = edit3
    Edits <- ThreeEdits
    MaxCrashes = 3
    MaxFaults = 3
INVARIANTS
    NothingLost
PROPERTIES
    DisplacedComesBack
CHECK_DEADLOCK FALSE
