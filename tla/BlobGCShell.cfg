SPECIFICATION Spec
CONSTANTS
    Digests = {d1}
    Sources = {s1}
    Syncs = {y1}
    Collectors = {hourly}
    Home <- TwoProcesses
    None = None
    MaxFaults = 0
    hourly = hourly
    server = server
    shell = shell
INVARIANT ReferencedIsStored
