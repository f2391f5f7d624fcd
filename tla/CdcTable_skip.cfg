SPECIFICATION FairSpec
CONSTANTS
  loop = loop
  pipeline = pipeline
  Loop = loop
  Triggers <- NoPipeline
  MaxId = 4
  MaxVersion = 1
  ChunkSize = 2
  BatchSize = 2
  MaxRetries = 1
  PkIsBigint = TRUE
  UpdatedAt = TRUE
  SoftDeleted = {}
  Disturbances = {"query"}
  MaxDisturbances = 1
  StatsCap = 2
PROPERTIES
  EventuallySearchable
