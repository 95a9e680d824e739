SPECIFICATION Spec
CONSTANTS
    None = None
    Child = {c1, c2}
    Call = {k1, k2}
    Overlap = TRUE
    Reentrant <- NoReentry
    MaxDepth = 1
PROPERTIES
    ResumeActsOnItsOwnChild
