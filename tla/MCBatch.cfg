SPECIFICATION Spec
CONSTANTS
  Code <- C
  ImageLen = 7
  Scenarios <- MCScenarios
INVARIANTS PreflightSound BlocksExact FlagsEntryExact LedgerBalances ExitHonest
CHECK_DEADLOCK TRUE
