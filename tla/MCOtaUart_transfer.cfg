SPECIFICATION FairSpec
CONSTANTS
  n1 = n1
  n2 = n2
  PageChunks = 2
  MaxPages = 2
  Bit <- MCBit
  Nodes = {n1, n2}
  RouteTables <- MCRouteTables
  MAX_NODES = 2
  MaxRounds = 2
  MaxQueued = 0
  Images <- MCImages
  SecVers = {2}
  SentTargets = {"B"}
  MaxAttempts = 2
  MaxStarts = 1
  BusyStarts = FALSE
  MaxLosses = 2
  LossyLinks = {"commands"}
  StaleReports = FALSE
INVARIANTS IInv AcknowledgedChunksBuffered ActiveNodesAccepted FlagGuardsProcess
PROPERTIES PageOkMeansDistributed AcceptedNodesStay NoPageSkipped PageEnds
CHECK_DEADLOCK FALSE
