SPECIFICATION Spec
CONSTANTS
    Node = {n1, n2}
    Self = n1
    Nil = Nil
    Thresholds = {2}
    Installs = {}
    TornWrites = FALSE
    MaxTerm = 1
    MaxIndex = 3
    MaxRecords = 6
    MaxCrashes = 2
INVARIANT AckedSurvives
