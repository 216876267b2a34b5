SPECIFICATION Spec
CONSTANTS
    Devices = {d1, d2}
    d1 = d1
    d2 = d2
    Absent = Absent
    None = None
    Paths <- DefPaths
    Text <- DefPaths
    Clash <- DefClash
    Ids <- DefIds
    Edits <- DefEdits
    Notes <- DefNotes
    Written <- DefWritten
    Actions <- UserActions
    MaxActs = 3
    Openers = {d1}
    MaxCrashes = 1
INVARIANTS EditsRecoverable BaseWasShared CalmWhenEqual
PROPERTIES EditsStayInPlace TrashedOrReplaced ConvergesOrAsks
CHECK_DEADLOCK FALSE
