SPECIFICATION SpecRivals
CONSTANTS
    Server = {n1, n2, n3}
    Command = {c1}
    Nil = Nil
    Noop = Noop
    MaxTerm = 2
    MaxRestarts = 1
    MaxPreVotes = 2
    MaxAppends = 3
SYMMETRY Symmetry
INVARIANTS LogMatching MatchIndexSound CommittedOnQuorum AckedIsCommitted
PROPERTY LeaderAppendOnly
