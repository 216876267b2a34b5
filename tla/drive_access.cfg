SPECIFICATION FairAccessSpec
CONSTANTS
    list = list
    upload = upload
    Request <- TwoRequests
    MaxAuthorizations = 1
    MaxDrifts = 2
    MaxAttempts = 2
    MaxConcurrency = 1
INVARIANTS
    NothingRevived
    ScopeNeverBroadens
    UnsafeSentOnce
    SlotsAreUsed
PROPERTIES
    NewerGrantWins
    RefusedNotResent
    RequestsEnd
