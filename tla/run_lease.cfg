SPECIFICATION FairRunSpec
CONSTANTS
    desktop = desktop
    window = window
    drain = drain
    click = click
    none = none
    Realm <- TwoRealms
    Caller <- TwoCallers
    Drain = drain
    NoOne = none
    MaxOperations = 2
    MaxEvents = 4
INVARIANTS
    OneMutator
PROPERTIES
    StopIsObeyed
    ReplacedAtRest
    NeverWedged
    OwedIsKept
CHECK_DEADLOCK FALSE
