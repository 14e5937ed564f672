SPECIFICATION SpecFive
CONSTANTS
    Server = {n1, n2, n3, n4, n5}
    Command = {c1}
    Nil = Nil
    Noop = Noop
    MaxTerm = 2
    MaxRestarts = 1
    MaxPreVotes = 0
    MaxAppends = 2
INVARIANT AckedIsCommitted
CHECK_DEADLOCK FALSE
