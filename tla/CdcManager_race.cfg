SPECIFICATION Spec
SYMMETRY CallerSymmetry
CONSTANTS
  users = users
  orders = orders
  loaded = loaded
  pipeline = pipeline
  operator = operator
  Tables <- AllTables
  Callers <- Both
  Preloaded = {users, orders}
  Excluded = {users}
  Keyless = {orders}
  ParallelWorkers = 1
  MaxChunks = 1
  WithRestart = FALSE
  Troubles = {"ddl", "catalog", "torn", "crash"}
  MaxTroubles = 1
INVARIANTS
  TypeOK
  TrackedOnce
  WorkersBounded
  FlagsSettle
  StatusTruthful
PROPERTIES
  ImplementsSchedule
