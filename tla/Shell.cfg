SPECIFICATION Spec
CONSTANTS
  a = a
  b = b
  c = c
  A = A
  LastBus = 1
  LastDevice = 1
  LastFunc = 1
  TableSize = 3
  Machines <- SmallMachines
  Words <- AllWords
  Leftovers <- SomeLeftovers
  Calendar <- Midnight
  Garbage <- NoTime
  Upper <- Capital
  Lower <- Small
  small <- small_letter
  Space = Space
  NUL = NUL
  CmdSize = 4
  LabelMax = 3
  Name <- Names
  Lines <- SomeLines
  Memory <- SomeMemory
INVARIANTS TypeOK EveryFunctionOnce FirstControllerDriven RunsWhatWasTyped LspciShowsTheMachine ClockShowsATime
