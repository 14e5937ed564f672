SPECIFICATION Spec
CONSTANTS
    Slot = {s1, s2}
    Chunks = 1
    SnapshotThreshold = 1
    Old = 1
    Compacted = 1
    MaxStale = 2
    MaxIndex = 3
    MaxFailures = 0
INVARIANT CommitReplicated
CHECK_DEADLOCK FALSE
