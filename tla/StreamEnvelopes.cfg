SPECIFICATION EnvelopesSpec
CONSTANTS
    None = None
    Stream = {s1, s2}
    StopReason <- Reasons
    MaxUpdates = 2
SYMMETRY Symmetry
INVARIANTS
    ChunkIdsUnique
    EnvelopesMirrorUpdates
    FinishTellsWhy
CHECK_DEADLOCK FALSE
