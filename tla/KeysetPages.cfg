SPECIFICATION Spec
CONSTANTS
  MaxId = 4
  Keys <- KeyColumns
  NoKey = NoKey
  Values = {1, 2, 4}
  Null = Null
  Absent = Absent
  Limit = 2
  Exact = 3
  MaxChanges = 1
INVARIANTS
  TypeOK
  CursorSeparates
  CacheSeparates
PROPERTIES
  ImplementsWalk
