SPECIFICATION Spec
CONSTANTS
    MaxJobs = 3
    Sources = {s1, s2}
    NoSource = NoSource
    Workers = {w1, w2}
    NoWorker = NoWorker
    Clients = {c1}
    Clis = {}
    Requests = {"sync_source", "maintenance_embedding_ensure"}
    EmbedderOn = TRUE
    LeaseOverrun = FALSE
    StoreFaults = FALSE
    MaxCrashes = 1
SYMMETRY Symmetry
INVARIANTS
    WorkIsExclusive
    CanceledMeansStopped
PROPERTIES
    ImplementsLifecycle
CHECK_DEADLOCK FALSE
