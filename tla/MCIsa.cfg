CONSTANTS
  B = 2
  Program <- MCProgram
  Starts <- MCStarts
SPECIFICATION Spec
INVARIANTS StateAgrees FlagsHonest BranchesAgree
CHECK_DEADLOCK FALSE
