SPECIFICATION FairSpec
CONSTANTS
    Commands = {c1, c2}
    Disconnects = {d1, d2}
    Ids = {i1, i2, i3}
    None = None
INVARIANTS
    NoChildLeftBehind
    ShutdownReachesAll
    LatchIsTheShutdown
    ChatsNotShared
PROPERTIES
    EveryCommandKeepsItsPromises
    DrainedByAbort
    NoResurrection
    CallsReturn
