SPECIFICATION Spec
CONSTANTS
  Original <- MCOriginal
  UserBits <- MCUserBits
  UserChars <- MCUserChars
  SettyBits <- MCSettyBits
  SettyChars <- MCSettyChars
  MaxCalls = 2
  MaxSignals = 2
  MaxChanges = 2
INVARIANT UserSettingsKept
INVARIANT CookedOutside
PROPERTY HandlersGivenBack
CHECK_DEADLOCK FALSE
