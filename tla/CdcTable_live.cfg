SPECIFICATION FairSpec
CONSTANTS
  loop = loop
  pipeline = pipeline
  Loop = loop
  Triggers <- OnePipeline
  MaxId = 2
  MaxVersion = 1
  ChunkSize = 1
  BatchSize = 1
  MaxRetries = 2
  PkIsBigint = TRUE
  UpdatedAt = TRUE
  SoftDeleted = {}
  Disturbances = {"send", "ambiguous", "deadletter", "crash", "stop"}
  MaxDisturbances = 2
  StatsCap = 2
PROPERTIES
  EventuallyStored
  ShutdownCompletes
