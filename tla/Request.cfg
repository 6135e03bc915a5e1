\* The statements of requests, formatted and encoded.
SPECIFICATION RequestSpec
CONSTANTS
  a = a
  b = b
  Null = Null
  Chunk = 5
  Margin = 5
  Chars = {a, b}
  Plain = {a}
  Blank = b
  UriLength = 3
  Own = {1, 2, 9}
  MaxPieces = 3
  Formats <- MCFormats
  Statements <- Texts
  GraphUris <- Uris
INVARIANTS
  MarkerStands
  PrintsAll
  RequestFits
CHECK_DEADLOCK FALSE
