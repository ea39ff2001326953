SPECIFICATION Spec
CONSTANTS
  FuncLists <- MCFuncs
  TextLists <- MCText
  Seg = 0
  SegStart = 1
  SegEnd = 4
INVARIANTS
  RangesAgree
  Accounted
