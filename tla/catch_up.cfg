SPECIFICATION Spec
CONSTANTS
    Slot = {s1, s2}
    Chunks = 2
    SnapshotThreshold = 1
    Old = 2
    Compacted = 2
    MaxStale = 2
    MaxIndex = 4
    MaxFailures = 1
INVARIANTS TypeOK FollowerAgrees CommitReplicatedUnlessKept
PROPERTIES OnlyOldSnapshots EventuallyCaughtUp
CHECK_DEADLOCK FALSE
