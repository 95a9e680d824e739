SPECIFICATION Spec
CONSTANTS
    None = None
    AcpIds = {"gemini-cli"}
    CursorId = "cursor-cli"
    OwnIds = {"own-cli"}
    Word <- SmallWords
    Shells <- SmallShells
    Configs <- SmallConfigs
    Options <- SmallOptions
    MaxCalls = 2
    Session = {s1, s2}
    ModeIds = {"auto", "plan", "bogus"}
    Models = {"", "m2"}
    MaxSettings = 2
SYMMETRY Symmetry
INVARIANTS
    MetricsTellTheCalls
    DocumentedCallsAreServed
    ConfigIsHonoured
    SettingsReachThePrompt
    AgentsAreAnswered
CHECK_DEADLOCK FALSE
