SPECIFICATION Spec
CONSTANTS
    merge = merge
    upload = upload
    auto = auto
    other = other
    Op <- OneMerge
    Merge <- Merges
    Remote <- Updates
    Glanced <- NoEffects
    Provable <- NoEffects
    Lingering <- Updates
    Client <- TwoChains
    Automatic = auto
    MaxDisturbances = 3
INVARIANTS
    CommitCoversEffects
    FinalizedAfterCommit
PROPERTIES
    DispatchIsRecorded
    VerifiedIsStable
    RepeatedOnlyByRecovery
    SureImplementContract
