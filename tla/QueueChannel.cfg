SPECIFICATION FairSpec
CONSTANTS
    Update = {u1, u2}
    CompactAt = 1
    MaxSent = 6
INVARIANTS
    NoLostWakeUp
PROPERTIES
    ImplementsChannel
    ServesConsumer
CHECK_DEADLOCK FALSE
