SPECIFICATION ClientSpec
CONSTANTS
    None = None
    Child = {c1, c2, c3}
    Call = {k1, k2}
    Overlap = TRUE
    Reentrant <- FullReentry
    MaxDepth = 3
    MaxAttaching = 2
SYMMETRY Symmetry
INVARIANTS
    RequestsReachALiveChild
    ConnectedIsUsable
    OneReaderInSequence
