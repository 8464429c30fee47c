CONSTANTS
  Heights <- MCHeights
  MaxRows = 1
  BufSize = 3
  Chars <- MCChars
  Newline = "nl"
  Typed <- MCTypedStart
  Upper <- MCUpper
  LowByte <- MCLowByte
  Start <- MCStartShort
  Run <- MCRun
  Help <- MCHelp
  Exit <- MCExit
SPECIFICATION KeysSpec
CHECK_DEADLOCK FALSE
PROPERTY CommandAsTyped
