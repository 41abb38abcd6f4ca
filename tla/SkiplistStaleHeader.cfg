SPECIFICATION Spec
CONSTANTS
  p1 = p1
  p2 = p2
  v1 = v1
  v2 = v2
  NoProc = NoProc
  Absent = Absent
  Procs = {p1, p2}
  Keys = {1, 2}
  Vals = {v1}
  MaxLevel = 2
  MINREWRITE = 0
  InitLevel = 1
  MaxSize = 6
  MaxBoots = 1
SYMMETRY ProcValSymmetry
INVARIANT Recoverable
