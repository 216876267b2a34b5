SPECIFICATION FairSyncSpec
CONSTANTS
    window = window
    drain = drain
    click = click
    none = none
    Realm <- OneRealm
    Caller <- TwoCallers
    Drain = drain
    NoOne = none
    MaxOperations = 1
    MaxEvents = 3
    Settings <- Everything
INVARIANTS
    QuietWhenStopped
    NothingStranded
    NothingForgotten
PROPERTY
    EveryChangeIsTakenUp
CHECK_DEADLOCK FALSE
