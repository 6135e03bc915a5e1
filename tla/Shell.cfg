\* What is typed against what is taken, and the session's connection.
SPECIFICATION Spec
CONSTANTS
  Tokens = {"SELECT", "INSERT", ";", "quote", "{", "}",
            "cmd_c", "cmd_v", "cmd_q", "cmd_x"}
  NULL = NULL
  MaxTyped = 6
INVARIANTS
  TakenAsTyped
  OneConnection
CHECK_DEADLOCK FALSE
