SPECIFICATION Spec
CONSTANTS
    Server = {n1, n2, n3}
    Command = {}
    Nil = Nil
    Noop = Noop
    MaxTerm = 2
    MaxRestarts = 1
    MaxPreVotes = 4
    MaxAppends = 0
SYMMETRY Symmetry
INVARIANTS TypeOK VoteInv ElectionSafety
