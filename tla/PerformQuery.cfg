\* The SAX state machine under every document, chunking and failure.
SPECIFICATION FairSpec
CONSTANTS
  Names = {x, y}
  NULL = NULL
  Texts = {"true", "false", "other"}
  Attributes = {"language", "datatype"}
  MaxText = 2
INVARIANTS
  StateTracksDocument
  NoStaleValue
  NamedWhenBound
  CompleteOnlyForWholeResponse
PROPERTIES
  CallbacksNest
  AlwaysReports
\* A query that has returned does nothing more.
CHECK_DEADLOCK FALSE
