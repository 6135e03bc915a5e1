SPECIFICATION Spec
CONSTANTS
  Chars <- MCChars
  emacs <- MCemacs
  vii <- MCvii
  vic <- MCvic
  Metas <- MCMetas
  Printable = {"M-b"}
  Ansi <- MCAnsi
  Arrows <- MCArrows
  tty_map <- MCtty_map
  TtyChars <- MCTtyChars
  TtyChoices <- MCTtyChoices
  Terminals <- MCTerminals
  Keys <- MCKeys
  Commands = {"ed_redisplay"}
  Strings = {"text"}
  MaxCalls = 3
INVARIANT StandsUntilNamed
PROPERTY TreeIsTheKeys
PROPERTY ArrowsAfterSwitch
CHECK_DEADLOCK FALSE
