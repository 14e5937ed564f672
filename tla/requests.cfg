SPECIFICATION Spec
CONSTANTS
    Client = {a, b}
    Numbering = {a}
    Deletes = {2}
    Shared = Shared
    Absent = Absent
    MaxWrites = 3
    MaxRequests = 4
    MaxRestarts = 1
INVARIANTS TypeOK AppliedInOrder AckedIsApplied ReadsLatest
PROPERTY ImplementsExactlyOnce
CHECK_DEADLOCK FALSE
