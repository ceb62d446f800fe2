SPECIFICATION FairSpec
CONSTANTS
    MaxJobs = 3
    Sources = {s1}
    NoSource = NoSource
    Workers = {w1, w2}
    NoWorker = NoWorker
    Clients = {c1}
    Clis = {}
    Requests = {"sync_source", "maintenance_embedding_ensure"}
    EmbedderOn = TRUE
    LeaseOverrun = FALSE
    StoreFaults = FALSE
    MaxCrashes = 1
PROPERTIES
    QueuedIsServed
CHECK_DEADLOCK FALSE
