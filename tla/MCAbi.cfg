SPECIFICATION Spec
CONSTANTS
  M = 8
  N_OPT_PASSES = 5
  MAX_FIXPOINT_ITERS = 8
  Fuel = 12
  Globals <- MCGlobals
  Systems <- MCSystems
  Inputs <- MCInputs
INVARIANTS InputsExact DxReadsExact
CHECK_DEADLOCK FALSE
