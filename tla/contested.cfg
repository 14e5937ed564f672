SPECIFICATION SpecContested
CONSTANTS
    Server = {n1, n2, n3}
    Command = {c1}
    Nil = Nil
    Noop = Noop
    MaxTerm = 3
    MaxRestarts = 0
    MaxPreVotes = 2
    MaxAppends = 2
SYMMETRY Symmetry
INVARIANTS StateMachineSafety LeaderCompleteness
PROPERTY AnsweredOnce
