\* Filling and reading a result set, every allocation failing or not.
SPECIFICATION Spec
CONSTANTS
  Names = {x, y}
  NULL = NULL
  Nodes <- MCNodes
  InLiteral <- MCInLiteral
  InUri <- MCInUri
  VarBlock = 2
  RowBlock = 2
  MaxVariables = 2
  MaxRows = 2
  MaxLinks = 1
  MaxFetches = 3
INVARIANTS
  Rectangular
  InBounds
  WidthsCover
PROPERTIES
  FailedCallsChangeNothing
  RowsInOrder
\* A destroyed result set does nothing more.
CHECK_DEADLOCK FALSE
