SPECIFICATION Spec
CONSTANTS
    Node = {n1, n2}
    Self = n1
    Nil = Nil
    Thresholds = {0, 1}
    Installs = {1, 2}
    TornWrites = TRUE
    MaxTerm = 2
    MaxIndex = 2
    MaxRecords = 4
    MaxCrashes = 2
INVARIANTS TypeOK LostOnlyBySnapshots VoteKept NoResurrection RecoveredOrdered
CHECK_DEADLOCK FALSE
