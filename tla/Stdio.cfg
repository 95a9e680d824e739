SPECIFICATION FairSpec
CONSTANTS
    None = None
    Child = {c1, c2}
    Call = {k1, k2}
    Overlap = TRUE
    Reentrant <- ExitReentry
    MaxDepth = 3
INVARIANTS
    CurrentIsAlive
    NoOrphan
PROPERTIES
    SignalsReachTheirTarget
    DisconnectReturns
    DisconnectedChildDies
