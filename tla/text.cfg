CONSTANTS
  Half = 16
  Buffers = {0, 1, 3}
  Texts <- MCTexts
  Letters <- MCLetters
  Longest = 5
  Held <- MCHeld
SPECIFICATION MCSpec
INVARIANTS CursorInside LexedAsRead
CHECK_DEADLOCK FALSE
