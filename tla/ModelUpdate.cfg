SPECIFICATION Spec
CONSTANTS
    Id <- Ids
    ConstantName <- Names
    Order <- InOrder
    Paged <- WithPages
    Stripped <- WithPages
    Fallback <- BuiltIn
    MaxPages = 2
INVARIANTS
    ModulesAreUsable
    FailureWritesNothingMore
