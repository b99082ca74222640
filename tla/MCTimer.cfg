\* Three sleepers, and a clock that wraps.
SPECIFICATION Spec
CONSTANTS
  a = a
  b = b
  c = c
  Proc = {a, b, c}
  NoProc = NoProc
  Half = 8
  Horizon = 5
  MaxStep = 3
  Stale = {}
SYMMETRY Symmetry
INVARIANTS TypeOK ListOfSleepers Sorted OnTime
PROPERTIES NeverEarly
