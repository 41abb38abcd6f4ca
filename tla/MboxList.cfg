SPECIFICATION Spec
CONSTANTS
  Procs = {p1, p2}
  Names = {a, b, c}
  NoProc = NoProc
  Occupied = {a, c}
  Reuse = FALSE
  Kinds = {"kill", "lost", "io"}
  MaxFaults = 1
  MaxOps = 3
SYMMETRY Swap
INVARIANTS TypeOK  
