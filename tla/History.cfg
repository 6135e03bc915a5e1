\* A history under any sequence of calls.
SPECIFICATION HistorySpec
CONSTANTS
  Strings <- Typed
  Sizes = {0, 2}
  LineSize = 8
  TextSize = 2
  MaxEvents = 3
  MaxText = 2
VIEW Told
INVARIANTS
  CursorLive
  WalkInOrder
  FileRoundTrips
CHECK_DEADLOCK FALSE
