SPECIFICATION Spec
CONSTANTS
  a = a
  b = b
  Letters <- JustA
  Symbols <- NoKeys
  Unshifted <- NoKeys
  Dead <- NoKeys
  Enter = Enter
  Backspace = Backspace
  NoKey = NoKey
  NUL = NUL
  LineSize = 2
  WordSize = 1
  RepeatDelay = 1
  RepeatRate = 1
  IntMax = 7
  MaxTime = 0
  MaxHeld = 2
  LowestRow <- MinusOne
  Width = 7
  Height = 3
INVARIANTS TypeOK HandlerInsideReadLine OneByteOverrun BufferIsEcho LastKeyHeld CursorFollowsLine
PROPERTIES EditsAsPromised EndedLineFrozen EndedLineNears EndedLineIsParsed
