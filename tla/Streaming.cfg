SPECIFICATION FairSpec
CONSTANTS
    Labels <- MCLabels
    None = None
    Offered <- MCOffered
    MaxFrames = 3
    Capacity = 1
INVARIANTS
    TypeOK
    StreamIsFaithful
    ImagesWhole
PROPERTIES
    AbortStopsCompile
    RepliesSafe
    RepliesPrompt
