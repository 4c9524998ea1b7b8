\* A query for one row and a query for many share one connection.
SPECIFICATION ScanningSpec
CONSTANTS
  c1 = c1
  c2 = c2
  Calls = {c1, c2}
  KindOf <- MCKindOf
  MaxRows = 2
  MaxOpen = 1
  Structs <- MCStructs
  Shapes <- MCShapes
INVARIANTS
  TypeOK
  CompleteOrError
  NotFoundIsTrue
  ConnectionIsReleased
  CloseErrorsAreTold
  ColumnsReachTheirFields
PROPERTIES
  CallsReturn
CHECK_DEADLOCK FALSE
