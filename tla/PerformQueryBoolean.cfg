\* Which end tags the boolean check rejects.
SPECIFICATION Spec
CONSTANTS
  Names = {x}
  NULL = NULL
  Texts = {"true", "false", "other"}
  Attributes = {"language", "datatype"}
  MaxText = 2
PROPERTY
  BooleanCheckIsForBoolean
CHECK_DEADLOCK FALSE
