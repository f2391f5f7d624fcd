SPECIFICATION FairSpec
CONSTANTS
  users = users
  orders = orders
  loaded = loaded
  pipeline = pipeline
  operator = operator
  Tables <- TwoTables
  Callers <- Pipeline
  Preloaded = {orders}
  Excluded = {}
  Keyless = {}
  ParallelWorkers = 1
  MaxChunks = 1
  WithRestart = TRUE
  Troubles = {"catalog", "torn", "crash"}
  MaxTroubles = 1
INVARIANTS
  ListedOnce
PROPERTIES
  VisitedForever
  StopReturns
  TriggersReturn
