SPECIFICATION FairSpec
CONSTANTS
  n1 = n1
  n2 = n2
  n3 = n3
  PageChunks = 2
  MaxPages = 2
  Bit <- MCBit
  LastByte <- MCLastByte
  Nodes = {n1, n2, n3}
  RouteTables <- MCRouteTables
  MAX_NODES = 2
  MaxRounds = 2
  MaxQueued = 20
  Images <- MCImages
  SecVers = {0}
  SentTargets = {"offchip"}
  MaxAttempts = 1
  MaxStarts = 1
  BusyStarts = FALSE
  MaxLosses = 0
  LossyLinks = {}
  Line <- MCLine3
  OldFlash <- MCOldFlash
  MaxLoss = 1
INVARIANTS StoredPagesStay 
PROPERTIES PageEnds
CHECK_DEADLOCK FALSE
