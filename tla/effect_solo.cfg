SPECIFICATION FairSpec
CONSTANTS
    merge = merge
    upload = upload
    auto = auto
    other = other
    Op <- Ops
    Merge <- Merges
    Remote <- Remotes
    Glanced <- NoEffects
    Provable <- Creates
    Lingering <- Updates
    Client <- OneChain
    Automatic = auto
    MaxDisturbances = 4
INVARIANTS
    NoOrphanEffect
PROPERTIES
    CommittedOnce
    ImplementsContract
    OutstandingIsSettled
