SPECIFICATION Spec
CONSTANTS
  loop = loop
  pipeline = pipeline
  Loop = loop
  Triggers <- OnePipeline
  MaxId = 3
  MaxVersion = 1
  ChunkSize = 2
  BatchSize = 1
  MaxRetries = 1
  PkIsBigint = TRUE
  UpdatedAt = TRUE
  SoftDeleted = {1}
  Disturbances = {"query", "resume", "send", "ackloss", "crash", "stop", "late"}
  MaxDisturbances = 2
  StatsCap = 1
INVARIANTS
  CheckpointCovers
  ResumePointCovers
  IndInv
PROPERTIES
  ImplementsFeed
