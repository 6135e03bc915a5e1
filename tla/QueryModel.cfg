\* sparql_query_model over documents of several rows.
SPECIFICATION Spec
CONSTANTS
  Names = {"g", "s", "p", "o", "z"}
  NULL = NULL
  Texts = {"true"}
  Attributes = {}
  MaxText = 1
  MaxRows = 2
CONSTRAINT
  FewNodes
INVARIANTS
  NoDuplicateInGraph
  ModelIsRows
CHECK_DEADLOCK FALSE
