SPECIFICATION FairSpec
CONSTANTS
  MaxCallStack = 9
  CodeStart = 2
  RomBase = 7
  CallSites <- MCNone
  RetSites <- MCNone
  Handlers <- MCNone
  IgnoreAddrs <- MCNone
  JumpRets <- MCNone
  MaxExec = 2
  NearIds = 1
  MagicSeg = 9
  RomSeg = 8
  MagicOff = 10
  Hooks <- MCNone
  Stubs <- MCStubs
  Bodies <- MCBodies
  MaxTracked = 1
  Fns <- MCOverlayFns
  Main <- MCMain
  RelocChoices <- MCBoth
  StartModes = {"NORMAL"}
  CaptureAddr <- MCMain
  RestoreEntry <- MCMain
  ExitCodes = {5}
  MaxStack = 3
  MaxCalls = 2
INVARIANTS
  OverlayHooksSafe
PROPERTIES
  WakeupsArrive
