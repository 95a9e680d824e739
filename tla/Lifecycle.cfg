SPECIFICATION Spec
CONSTANTS
    Restarts = {r1, r2}
    MaxRetries = 3
    BackoffBase = 1
    BackoffCap = 3
    NewSessions = {n1}
    Notes = {m1}
    Sessions = {a1, a2}
    Cwds = {d1, d2}
    Workspace = d2
    ResumeOnRestart = TRUE
    None = None
SYMMETRY Symmetric
INVARIANTS
    OneWritePerNotification
    RecordFitsItsSession
PROPERTIES
    AttemptsAreSpaced
    CwdIsNotWiped
