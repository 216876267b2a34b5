SPECIFICATION FairStoreSpec
CONSTANTS
    window = window
    worker = worker
    note = note
    None = None
    Contexts <- TwoContexts
    Writers <- OneWriter
    Readers <- OneReader
    Collectors <- TwoContexts
    Objects <- OneObject
    Initially <- OneObject
    MaxGen = 3
    MaxPins = 1
    MaxDepth = 1
    GcBatch = 1
    MaxCursor = 2
    MaxRev = 3
    MaxFaults = 1
INVARIANTS
    ReachableIntact
    CursorFenced
    LeaseReadsItsHorizon
    RowsAccounted
PROPERTIES
    PublishesViews
    GarbageIsCollected
CHECK_DEADLOCK FALSE
