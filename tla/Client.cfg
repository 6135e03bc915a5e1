\* A connection under any sequence of calls, each failing or not.
SPECIFICATION Spec
CONSTANTS
  Bases = {b}
  UserWorlds = {w}
  Graphs = {g, h}
  NULL = NULL
  CaptureLimit = 1
  ChunkSizes = {1, 2}
  MaxRequests = 2
  MaxChunks = 2
  MaxWorlds = 2
  MaxContexts = 2
SYMMETRY Symmetry
INVARIANTS
  CaptureInBounds
  ErrorIsTheResponse
  WorldsFreedOnce
  InsertedInOrder
CHECK_DEADLOCK FALSE
