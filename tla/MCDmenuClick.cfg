SPECIFICATION ClickSpec
CONSTANTS
  Byte <- MCByte
  Continuation <- MCContinuation
  worddelimiters <- MCDelimiters
  MaxText = 3
  Options <- MCOptions
  Inputs <- MCInputs
  Typed <- MCTyped
  Selections <- MCSelections
  screenw = 17
  min_width = 16
  promptw = 2
  arrow = 1
  lrpad = 1
  MaxTries = 3
INVARIANTS ClickClearsInput
CHECK_DEADLOCK FALSE
