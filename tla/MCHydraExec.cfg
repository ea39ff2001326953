SPECIFICATION Spec
CONSTANTS
  MaxCallStack = 9
  CodeStart = 2
  RomBase = 7
  CallSites <- MCNone
  RetSites <- MCNone
  Handlers <- MCNone
  IgnoreAddrs <- MCNone
  JumpRets <- MCNone
  MaxExec = 3
  NearIds = 2
  MagicSeg = 9
  RomSeg = 8
  MagicOff = 10
  Hooks <- MCHooks
  Stubs <- MCNone
  Bodies <- MCNone
  MaxTracked = 1
  Fns <- MCHighFns
  Main <- MCMain
  RelocChoices <- MCNoReloc
  StartModes = {"NORMAL", "CAPTURE", "RESTORE"}
  CaptureAddr <- MCCapture
  RestoreEntry <- MCEntry
  ExitCodes = {5}
  MaxStack = 3
  MaxCalls = 3
INVARIANTS
  TypeOK
  HandoverSafe
  ReturnsFound
  HookDiscipline
PROPERTIES
  StepsDisciplined
  ImplementsCoroutines
