CONSTANTS
  g1 = g1
  a1 = a1
  Proposals = {g1}
  Outcomes = {"passed", "failed"}
  Syncers = {a1}
  MaxSyncs = 1
  n1 = n1
  n2 = n2
  Names = {n1, n2}
  NameHeight <- TwoHeights
  MaxHeight = 2
  MaxUpgrades = 3
  MaxCancels = 2
  h1 = h1
  h2 = h2
  Handlers = {h1, h2}
  HandlerType <- OneType
  MaxNotifications = 1
  MaxNotifies = 2
  Requests <- OnePlan
  Window = 1
  WriteFails = FALSE
  MaxBlock = 5
  MaxStep = 2
  MaxCoordinations = 1
  u1 = u1
  u2 = u2
  Binaries = {u1, u2}
  AllowDownload = TRUE
  SkipChecksum = FALSE
  MaxRetries = 2
  Faults = {"crash", "chmod", "operator"}
  MaxPrepares = 2
  Parts = {"coordinator"}
SPECIFICATION FairSpec
PROPERTIES NoneMissed
CHECK_DEADLOCK FALSE
