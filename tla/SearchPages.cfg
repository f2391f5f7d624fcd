SPECIFICATION FairSpec
CONSTANTS
  orders = orders
  items = items
  notes = notes
  MaxGlobalId = 5
  Tables <- ThreeTables
  Homes <- SomeHomes
  Limit = 2
  MaxCopies = 2
  MaxWrites = 1
INVARIANTS
  TypeOK
PROPERTIES
  ImplementsWalk
  WalkEnds
