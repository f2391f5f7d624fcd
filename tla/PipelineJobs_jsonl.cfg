SPECIFICATION FairSpec
CHECK_DEADLOCK FALSE
CONSTANTS
  j1 = j1
  j2 = j2
  a = a
  b = b
  book = book
  Jobs <- TwoJobs
  NumFiles = 2
  FolderOf <- Folders
  Parts <- Workbooks
  Base <- BaseNames
  LongNames = {}
  Endless <- FirstFile
  Batches <- Inserts
  OtherTables = TRUE
  MaxTime = 0
  MaxFailures = 0
  MaxCrashes = 1
PROPERTY
  JobsEnd
