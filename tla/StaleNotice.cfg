SPECIFICATION Spec
CONSTANTS
    s1 = s1
    s2 = s2
    d1 = d1
    Sessions = {s1}
    Devices = {d1}
    Capacity = 1
    Backlog = 1
    MaxConnects = 2
PROPERTIES
    NoticesAreTrue
