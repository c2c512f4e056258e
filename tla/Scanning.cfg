SPECIFICATION FairSpec
CONSTANTS
    s1 = s1
    s2 = s2
    i1 = i1
    Sessions = {s1, s2}
    Ids = {i1}
    Scans <- ThreeScans
    None = None
CONSTRAINT
    TwoArrive
INVARIANTS
    TypeOK
    NewestKeepsScanning
    StartsWhenIdle
    NothingLeftBehind
PROPERTIES
    ScanningStops
