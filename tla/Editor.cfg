SPECIFICATION EditorSpec
CONSTANTS
  Past <- MCPast
  BufSiz = 10
  Spare = 8
  MaxSize = 20
  Refused <- MCRefused
  ArgLimit = 2
  TypedKeys <- MCTypedKeys
  UserKeys <- MCUserKeys
  TypedLines <- MCTypedLines
  Answers <- MCAnswers
  Characters <- MCCharacters
  EditedTexts <- MCEditedTexts
  MaxKeys = 3
INVARIANT InBounds
PROPERTY UndoHoldsLine
PROPERTY DeletedIsKept
PROPERTY ReturnsToTyped
PROPERTY RedoIsRetyping
CHECK_DEADLOCK FALSE
