SPECIFICATION Spec
CONSTANTS
  N = 3
  MaxVal = 1
  Type <- SomeTypes
  PageSizes = {2}
  Filters <- AllOrUsers
  NoCursor = NoCursor
INVARIANTS FetchesAllNodes
