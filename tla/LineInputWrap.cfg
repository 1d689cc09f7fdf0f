SPECIFICATION Spec
CONSTANTS
  a = a
  b = b
  Letters <- JustA
  Symbols <- NoKeys
  Unshifted <- NoKeys
  Dead <- NoKeys
  Enter = Enter
  Backspace = Backspace
  NoKey = NoKey
  NUL = NUL
  LineSize = 4
  WordSize = 4
  RepeatDelay = 1
  RepeatRate = 1
  IntMax = 7
  MaxTime = 0
  MaxHeld = 1
  LowestRow <- MinusOne
  Width = 5
  Height = 3
INVARIANTS CursorFollowsWrappedLine
