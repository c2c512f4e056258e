SPECIFICATION FairSpec
CONSTANTS
    MaxPending = 2
    MaxConns = 1
    None = None
INVARIANTS
    TypeOK
    LivingChildIsOwned
    ShownIsTrue
PROPERTIES
    QuitEnds
    AbsenceIsNoticed
