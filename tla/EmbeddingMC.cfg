SPECIFICATION FairSpec
CONSTANTS
    Sections = {1, 2, 3}
    Contents = {short, long, huge}
    short = short
    long = long
    huge = huge
    old = old
    None = None
    Text <- MCText
    Plan = Plan
    Existing <- MCExisting
    Leftovers <- MCLeftovers
    ContextTokens = 2
    BatchSize = 2
    MaxBatchTokens = 3
    Concurrency = 2
    SplitFactor = 10
    OrdinalLimit = 14
    Passes = {p1}
    Overlap = TRUE
    MaxEdits = 2
    MaxFaults = 1
INVARIANTS
    AuditIsExact
    LonePassCompletes
PROPERTIES
    LonePassKeepsCovered
    EmbeddedUnlessStranded
CHECK_DEADLOCK FALSE
