SPECIFICATION FairSpec
CONSTANTS
    MaxPending = 2
    MaxConns = 1
    None = None
INVARIANTS
    ReapedOnQuit
