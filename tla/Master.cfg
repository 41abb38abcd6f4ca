SPECIFICATION Spec
CONSTANTS
  NServices = 1
  p1 = p1
  p2 = p2
  p3 = p3
  p4 = p4
  Pids = {p1, p2, p3}
  Prefork <- PreforkOne
  MaxChild <- MaxTwo
  Babysit = {}
  Multi = {}
  ImapServices = {1}
  MAX_USE = 2
  PIPE_CAP = 2
  LISTEN_BACKLOG = 1
  MaxEvents = 1
  MaxRefusals = 1
  MaxHups = 2
  MaxCrashes = 1
  PromptDelivery = TRUE
  RecycleDraining = FALSE
SYMMETRY PidSymmetry
INVARIANTS TypeOK ReadyCount ActiveCount ImapDrift  MasterView
