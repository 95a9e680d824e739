SPECIFICATION FairSpec
CONSTANTS
    None = None
    Stream = {s1, s2}
    Session = {a1, a2}
    MaxUpdates = 2
INVARIANTS
    InFlightHoldsLock
    NothingLostAtTheEnd
PROPERTIES
    AbandonedStopsBuffering
    SettledEnds
