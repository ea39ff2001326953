SPECIFICATION Spec
CONSTANTS
  M = 8
  N_OPT_PASSES = 5
  Fuel = 5
  Globals <- MCGlobals
  Programs <- MCPrograms
  Inputs <- MCInputs
INVARIANTS WellFormed Preserved Printed
CHECK_DEADLOCK FALSE
