SPECIFICATION FairSpec
CONSTANTS
    s1 = s1
    s2 = s2
    d1 = d1
    Sessions = {s1, s2}
    Devices = {d1}
    Capacity = 1
    Backlog = 1
    MaxConnects = 2
INVARIANTS
    TypeOK
    NoPumpOrphaned
    BooksAgree
    LossesOnTheWay
PROPERTIES
    DeadConnectionsLeave
    TeardownEnds
