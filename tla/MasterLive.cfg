SPECIFICATION FairSpec
CONSTANTS
  NServices = 2
  p1 = p1
  p2 = p2
  p3 = p3
  p4 = p4
  Pids = {p1, p2}
  Prefork <- PreforkPair
  MaxChild <- MaxPair
  Babysit = {2}
  Multi = {2}
  ImapServices = {}
  MAX_USE = 1
  PIPE_CAP = 1
  LISTEN_BACKLOG = 1
  MaxEvents = 0
  MaxRefusals = 1
  MaxHups = 1
  MaxCrashes = 0
  PromptDelivery = TRUE
  RecycleDraining = FALSE
PROPERTIES ConnectionServed ZombiesReaped DrainEnds
