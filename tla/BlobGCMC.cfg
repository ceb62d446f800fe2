SPECIFICATION LiveSpec
CONSTANTS
    Digests = {d1}
    Sources = {s1}
    Syncs = {y1, y2}
    Collectors = {hourly}
    Home <- OneProcess
    None = None
    MaxFaults = 1
    hourly = hourly
    server = server
    shell = shell
INVARIANTS TypeOK ReferencedIsStored
PROPERTIES GarbageIsCollected EveryRunEnds
