SPECIFICATION FairSpec
CHECK_DEADLOCK FALSE
CONSTANTS
  short = short
  long = long
  Tables <- TwoTables
  Pages <- PageCount
  Terms = {"x"}
  None = None
  Broken = Broken
  MaxCalls = 2
  MaxClicks = 7
  MaxFailures = 1
INVARIANTS
  TypeOK
  SteadyWalk
PROPERTIES
  
  GlobalSearchAnswered
