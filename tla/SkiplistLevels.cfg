SPECIFICATION Spec
CONSTANTS
  p1 = p1
  p2 = p2
  v1 = v1
  v2 = v2
  NoProc = NoProc
  Absent = Absent
  Procs = {p1}
  Keys = {1, 2}
  Vals = {v1, v2}
  MaxLevel = 2
  MINREWRITE = 0
  InitLevel = 0
  MaxSize = 6
  MaxBoots = 2
INVARIANTS  LevelsAgree
 
