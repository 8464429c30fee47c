CONSTANTS
  Heights <- MCHeights
  MaxRows = 4
  BufSize = 3
  Chars <- MCChars
  Newline = "nl"
  Typed <- MCTyped
  Upper <- MCUpper
  LowByte <- MCLowByte
  Start <- MCStart
  Run <- MCRun
  Help <- MCHelp
  Exit <- MCExit
SPECIFICATION KeysSpec
CHECK_DEADLOCK FALSE
INVARIANTS TypeOK TextOK SentWhole OneCommand
PROPERTIES ScrollLands ScrollStepwise LineUndisturbed
