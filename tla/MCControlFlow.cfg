SPECIFICATION Spec
CONSTANTS
  NPlain = 5
  NPhi = 4
  NTable = 4
  JoinPreds = 10
  Cfgs <- MCCfgs
INVARIANTS LayoutExact FlowPreserved PanicExplained
CHECK_DEADLOCK FALSE
