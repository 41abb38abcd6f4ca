SPECIFICATION FairSpec
CONSTANTS
  N = 2
  Order <- MCSame
  Strcmp <- MCSame
  Kickers = {9}
  Fragile = {2}
  MaxOps = 1
  MaxFaults = 2
  Quiet = {2}
PROPERTIES Converges KickAnswered
CHECK_DEADLOCK FALSE
