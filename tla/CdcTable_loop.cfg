SPECIFICATION Spec
CONSTANTS
  loop = loop
  pipeline = pipeline
  Loop = loop
  Triggers <- NoPipeline
  MaxId = 4
  MaxVersion = 2
  ChunkSize = 2
  BatchSize = 2
  MaxRetries = 2
  PkIsBigint = TRUE
  UpdatedAt = FALSE
  SoftDeleted = {}
  Disturbances = {"query", "short", "send", "crash", "stop", "late", "update", "delete"}
  MaxDisturbances = 3
  StatsCap = 2
INVARIANTS
  TypeOK
  GapsAreReported
  StatsCountedOnce
PROPERTIES
  CheckpointMonotone
  ImplementsSchedule
