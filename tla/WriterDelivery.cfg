SPECIFICATION FairSpec
CONSTANTS
    i1 = i1
    i2 = i2
    ReqIds = {i1, i2}
    Capacity = 2
    Cooldown = 2
    MaxSent = 4
    None = None
INVARIANTS
    TypeOK
    FramesFaithful
    TimerMatchesBuffer
PROPERTIES
    DeliverySafe
    DeliveryPrompt
