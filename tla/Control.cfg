SPECIFICATION FairSpec
CONSTANTS
    Processes = {p1, p2}
    Files = {file}
    Numbers = {3, 4}
    MaxConnections = 2
    MaxCrashes = 1
    None = None
INVARIANTS
    AnswerIsTheUsersChoice
    BothSidesPend

    
CHECK_DEADLOCK FALSE
