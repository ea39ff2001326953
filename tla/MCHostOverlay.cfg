SPECIFICATION WatchedFairSpec
CONSTANTS
  Fns = {3}
  Hooks = {1}
  Stubs = {5, 6, 7}
  OvlHooks = {5, 7}
  OvlOf <- MCTwoOverlays
  Places = {1, 2}
  Main = 0
  CallKinds = {"far"}
  HookCalls <- MCTargets
  HookJumps <- MCTargets
  HooksResume = TRUE
  TailJumps = FALSE
  StartModes = {"NORMAL"}
  CaptureAddr <- MCCapture
  RestoreEntry <- MCRestore
  OverlaysArmed = TRUE
  MzLoad = FALSE
  MaxBps = 4
  MaxOverlays = 2
  MaxDepth = 1
  MaxRedirects = 1
  MaxTrace = 4
  MaxExec = 2
  Faults = FALSE
  StubFaults = TRUE
  MaxStack = 3
INVARIANTS
  NestingSafe
  OverlayMapFresh
PROPERTIES
  DispatchesEnd
