SPECIFICATION WatchedSpec
CONSTANTS
  Fns = {3}
  Hooks = {1}
  Stubs = {}
  OvlHooks = {}
  OvlOf <- MCNoStubs
  Places = {1}
  Main = 0
  CallKinds = {"far", "near"}
  HookCalls <- MCTargets
  HookJumps <- MCTargets
  HooksResume = TRUE
  TailJumps = TRUE
  StartModes = {"NORMAL", "CAPTURE", "RESTORE"}
  CaptureAddr <- MCCapture
  RestoreEntry <- MCRestore
  OverlaysArmed = FALSE
  MzLoad = TRUE
  MaxBps = 4
  MaxOverlays = 2
  MaxDepth = 2
  MaxRedirects = 2
  MaxTrace = 4
  MaxExec = 2
  Faults = TRUE
  StubFaults = FALSE
  MaxStack = 7
INVARIANTS
  TypeOK
  NestingSafe
  DispatchDiscipline
  SnapshotFaithful
