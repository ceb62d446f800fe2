SPECIFICATION Spec
CONSTANTS
    Docs = {guide}
    Content <- OneDoc
    None = None
    Procs = {p1}
    MaxEdits = 0
    MaxFaults = 1
    guide = guide
    usage = usage
    limits = limits
    v1 = v1
    v2 = v2
INVARIANT RetryDerives
CHECK_DEADLOCK FALSE
