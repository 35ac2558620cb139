SPECIFICATION Spec
CONSTANTS
    Adapters = {a1, a2}
    Threads = {t1}
    Default = default
    Unset = unset
    None = none
    Attempts = 2
    Reads = 2
    Rows = 1
INVARIANTS
    OwnWrites
    EnvFollows
    ReadsOwn
    SnapshotWhole
CHECK_DEADLOCK FALSE
