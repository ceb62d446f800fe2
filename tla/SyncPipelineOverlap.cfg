SPECIFICATION Spec
CONSTANTS
    Docs = {guide}
    Content <- OneDoc
    None = None
    Procs = {p1, p2}
    MaxEdits = 1
    MaxFaults = 1
    guide = guide
    usage = usage
    limits = limits
    v1 = v1
    v2 = v2
SYMMETRY Symmetry
INVARIANTS TypeOK HashTellsSections CleanSyncDerives LoneSyncIndexes
PROPERTY DescriptionKept
CHECK_DEADLOCK FALSE
