SPECIFICATION Spec
CONSTANTS
  N = 3
  Order <- MCOne
  Strcmp <- MCOne
  Kickers = {9}
  Fragile = {2, 3}
  MaxOps = 2
  MaxFaults = 1
  Quiet = {}
INVARIANTS TypeOK Streamed KickFresh
CHECK_DEADLOCK FALSE
