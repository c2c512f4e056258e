SPECIFICATION Spec
CONSTANTS
    s1 = s1
    s2 = s2
    None = None
    Sessions = {s1}
    Ids <- PlainIds
    Alnum <- MCAlnum
    Requests <- Flashes
    Capacity = 1
    IdDiscipline = "afterTerminal"
INVARIANTS
    NoOrphanAfterTeardown
