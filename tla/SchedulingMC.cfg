SPECIFICATION FairSpec
CONSTANTS
    Sources = {s1}
    Creds = {k1}
    None = None
    Schedules = {0, 1}
    Zones <- Offsets
    MaxAge = 2
    Runs = {p1, p2}
    Overlap = TRUE
    Embedder = TRUE
    Requests = {c1}
    MaxEdits = 1
    MaxFaults = 1
INVARIANTS
    SuccessActivates
PROPERTIES
    PauseSurvivesEdits
    ScheduledApart
    RefusedIsPaused
    ScheduledIsServed
CHECK_DEADLOCK FALSE
