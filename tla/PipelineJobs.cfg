SPECIFICATION FairSpec
CHECK_DEADLOCK FALSE
CONSTANTS
  j1 = j1
  j2 = j2
  a = a
  b = b
  book = book
  Jobs <- TwoJobs
  NumFiles = 2
  FolderOf <- Folders
  Parts <- Workbooks
  Base <- BaseNames
  LongNames = {}
  Endless = {}
  Batches <- Inserts
  OtherTables = FALSE
  MaxTime = 1
  MaxFailures = 1
  MaxCrashes = 1
INVARIANTS
  TypeOK
  CountersAgree
  LoadedUnlessReplaced
  FilesKept
PROPERTIES
  JobsEnd
  
