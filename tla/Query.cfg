\* sparql_query over documents of several rows, or of rows of several cells.
SPECIFICATION Spec
CONSTANTS
  Names = {x, y}
  NULL = NULL
  Texts = {"true"}
  Attributes = {"datatype"}
  MaxText = 1
  VarBlock = 2
  RowBlock = 1
  MaxVariables = 2
  MaxRows = 2
  MaxLinks = 1
  MaxFetches = 0
SYMMETRY Symmetry
CONSTRAINT Narrow
INVARIANTS
  RowPointerLive
  BooleanOrRows
  ResultIsDocument
PROPERTIES
  PartsKeepTheirSpecs
CHECK_DEADLOCK FALSE
