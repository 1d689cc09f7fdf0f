SPECIFICATION Spec
CONSTANTS
  a = a
  b = b
  Letters <- JustA
  Symbols <- NoKeys
  Unshifted <- NoKeys
  Dead <- NoKeys
  Enter = Enter
  Backspace = Backspace
  NoKey = NoKey
  NUL = NUL
  LineSize = 2
  WordSize = 2
  RepeatDelay = 2
  RepeatRate = 1
  IntMax = 4
  MaxTime = 5
  MaxHeld = 1
  LowestRow = 0
  Width = 7
  Height = 3
INVARIANTS HeldKeyRepeats
PROPERTIES SameKeyPaced
