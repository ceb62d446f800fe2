SPECIFICATION AlgorithmsSpec
CONSTANTS
  RRFK = 2
  Scale = 60
  Queries <- SearchQueries
  Commits <- StoreCommits
  Catalogs <- ReferenceCalls
  LongLine = 12
  MinBody = 2
  MinTarget = 4
  DefaultTarget = 12
  Margin = 1
  LongFragment = 8
  Dotted = {"c.html", "index.html"}
  MaxCandidates = 3
  MaxNoProgress = 2
  InPageDefault = 3
  BaseName <- FileName
  Documents = {"a", "b", "c"}
  Clients = {c1, c2}
  Inputs <- Proposable
  MaxCalls = 4
  MaxRemovals = 1
SYMMETRY ClientSymmetry
CHECK_DEADLOCK FALSE
INVARIANTS
  ChunksAreWhole
  BlocksAreKept
  HitsAreCurrent
  CrawlIsComplete
  ReferencesFindTheirTarget
  PagesAreWhole
  DecisionsStand
