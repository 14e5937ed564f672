SPECIFICATION SpecReplaced
CONSTANTS
    Server = {n1, n2, n3}
    Command = {c1, c2}
    Nil = Nil
    Noop = Noop
    MaxTerm = 2
    MaxRestarts = 0
    MaxPreVotes = 0
    MaxAppends = 1
    Mode = {"safe", "lease", "local"}
    MaxReads = 2
SYMMETRY Symmetry
INVARIANTS ReadsTypeOK SafeReadsFresh ReadsDurable
CHECK_DEADLOCK FALSE
