SPECIFICATION FairSpec
CONSTANTS
    s1 = s1
    s2 = s2
    None = None
    Sessions = {s1}
    Ids <- PlainIds
    Alnum <- MCAlnum
    Requests <- CompileAndList
    Capacity = 1
    IdDiscipline = "fresh"
PROPERTIES
    CancelledTaskEnds
    SessionEndsAfterBrowserGone
    RepliesPrompt
