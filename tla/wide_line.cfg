CONSTANTS
  Half = 16
  Buffers = {3}
  Texts <- MCWideTexts
  Letters <- MCLetters
  Longest = 5
  Held <- MCHeld
SPECIFICATION MCSpec
INVARIANT NulNotReached
CHECK_DEADLOCK FALSE
