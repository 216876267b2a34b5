SPECIFICATION Spec
CONSTANTS
    merge = merge
    upload = upload
    auto = auto
    other = other
    Op <- Ops
    Merge <- Merges
    Remote <- Remotes
    Glanced <- NoEffects
    Provable <- Creates
    Lingering <- NoEffects
    Client <- TwoChains
    Automatic = auto
    MaxDisturbances = 1
INVARIANT
    NoOrphanEffect
