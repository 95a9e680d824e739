SPECIFICATION FairSpec
CONSTANTS
    MaxChunks = 2
INVARIANTS
    HelpIsComplete
PROPERTIES
    ImplementsCommand
    SettlesAndEnds
