SPECIFICATION ClientSpec
CONSTANTS
    None = None
    Child = {c1, c2}
    Call = {k1}
    Overlap = TRUE
    Reentrant <- NoReentry
    MaxDepth = 1
    MaxAttaching = 2
INVARIANTS
    OneReader
