SPECIFICATION Spec
CONSTANTS
    MaxJobs = 2
    Sources = {s1, s2}
    NoSource = NoSource
    Workers = {w1, w2}
    NoWorker = NoWorker
    Clients = {c1}
    Clis = {p1}
    Requests = {"sync_source", "maintenance_embedding_ensure", "maintenance_profile_rebuild"}
    EmbedderOn = TRUE
    LeaseOverrun = TRUE
    StoreFaults = TRUE
    MaxCrashes = 1
SYMMETRY Symmetry
INVARIANTS
    TypeOK
    SourceLeasedOnce
    OneActiveSync
PROPERTIES
    CancelIsFinal
    EndedStaysEnded
CHECK_DEADLOCK FALSE
