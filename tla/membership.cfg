SPECIFICATION Spec
CONSTANTS
    Node = {n1, n2, n3}
    Boot = n1
    StartClusters = {{n1}, {n1, n2}, {n1, n2, n3}}
    MaxChanges = 2
    MaxCommands = 1
    MaxInFlight = 1
INVARIANTS TypeOK ChangesInTurn CommittedByBoth SuccessorReady
PROPERTIES ChangesComplete ProposalsAnswered MembersLearn
CHECK_DEADLOCK FALSE
