SPECIFICATION FairSyncSpec
CONSTANTS
    window = window
    drain = drain
    click = click
    none = none
    Realm <- OneRealm
    Caller <- TwoCallers
    Drain = drain
    NoOne = none
    MaxOperations = 1
    MaxEvents = 3
    Settings <- Watching
PROPERTY
    EveryChangeGetsItsPass
CHECK_DEADLOCK FALSE
