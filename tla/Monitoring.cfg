SPECIFICATION FairSpec
CONSTANTS
    s1 = s1
    s2 = s2
    p1 = p1
    Sessions = {s1, s2}
    Ports = {p1}
    Capacity = 1
    Window = 1
    MaxOpens = 2
    None = None
INVARIANTS
    TypeOK
    PumpBelongs
    OpenAnswered
PROPERTIES
    LeaseKept
    MonitorsLetGo
