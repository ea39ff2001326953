SPECIFICATION FairSpec
CONSTANTS
  FuncLists <- MCFuncs
  TextLists <- MCText
  Instrs <- MCInstrs
  Branches = {2, 3}
  Calls = {0, 4}
  Seg = 0
  SegStart = 1
  SegEnd = 5
  Elsewhere = 9
INVARIANTS
  WalkExact
  ReportExact
PROPERTY ScanEnds
