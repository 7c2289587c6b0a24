SPECIFICATION FairSystemSpec
CONSTANTS
  n1 = n1
  n2 = n2
  n3 = n3
  PageChunks = 2
  MaxPages = 2
  Bit <- MCBit
  Nodes = {n1}
  RouteTables <- MCRouteTables
  MAX_NODES = 2
  MaxRounds = 2
  MaxQueued = 1
  Images <- MCShortImages
  SecVers = {2}
  SentTargets = {"offchip"}
  MaxAttempts = 1
  MaxStarts = 1
  BusyStarts = FALSE
  MaxLosses = 0
  LossyLinks = {}
  StaleReports = TRUE
  Backend = "offchip"
  SectorPages = 1
  SlotPages <- MCSlotPages
  HeaderSecVer <- MCHeaderSecVer
  Line <- MCLine1
  RunningSecVer <- MCSecVer
  MaxLoss = 1
PROPERTIES PageEnds
CHECK_DEADLOCK FALSE
