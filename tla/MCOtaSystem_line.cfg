SPECIFICATION FairSystemSpec
CONSTANTS
  n1 = n1
  n2 = n2
  n3 = n3
  PageChunks = 3
  MaxPages = 2
  Bit <- MCBit
  Nodes = {n1, n2, n3}
  RouteTables <- MCRouteTables
  MAX_NODES = 3
  MaxRounds = 3
  MaxQueued = 1
  Images <- MCImages
  SecVers = {2}
  SentTargets = {"offchip"}
  MaxAttempts = 1
  MaxStarts = 1
  BusyStarts = FALSE
  MaxLosses = 0
  LossyLinks = {}
  StaleReports = TRUE
  Backend = "offchip"
  SectorPages = 1
  SlotPages <- MCSlotPages
  HeaderSecVer <- MCHeaderSecVer
  Line <- MCLine3
  RunningSecVer <- MCSecVer
  MaxLoss = 2
INVARIANTS SystemInv RecoveryFollowsLoss RoundInv SessionAgreed StagedImageIsHosts DoneMeansStaged DeliveryInv
PROPERTIES ImplementsUart PageOkMeansStored PageEnds
CHECK_DEADLOCK FALSE
