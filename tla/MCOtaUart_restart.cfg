SPECIFICATION Spec
CONSTANTS
  n1 = n1
  n2 = n2
  PageChunks = 2
  MaxPages = 2
  Bit <- MCBit
  Nodes = {n1, n2}
  RouteTables <- MCRouteTables
  MAX_NODES = 2
  MaxRounds = 2
  MaxQueued = 1
  Images <- MCImages
  SecVers = {2}
  SentTargets = {"B"}
  MaxAttempts = 2
  MaxStarts = 2
  BusyStarts = TRUE
  MaxLosses = 0
  LossyLinks = {"commands"}
  StaleReports = TRUE
PROPERTIES NoPageSkipped
CHECK_DEADLOCK FALSE
