SPECIFICATION Spec
CONSTANTS
    s1 = s1
    s2 = s2
    None = None
    Sessions = {s1}
    Ids <- PlainIds
    Alnum <- MCAlnum
    Requests <- Install
    Capacity = 1
    IdDiscipline = "fresh"
INVARIANTS
    InstallsAreLoaded
