SPECIFICATION Spec
CONSTANTS
    s1 = s1
    s2 = s2
    None = None
    Sessions = {s1, s2}
    Ids <- PlainIds
    Alnum <- MCAlnum
    Requests <- Workday
    Capacity = 1
    IdDiscipline = "fresh"
CONSTRAINT
    OnePair
INVARIANTS
    TypeOK
    TokensReachTasks
    ScratchFollowsHolders
    InstallsOrdered
PROPERTIES
    RepliesSafe
