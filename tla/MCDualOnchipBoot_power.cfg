SPECIFICATION FairSpec
CONSTANTS
  Img = {"old", "new"}
  SecVer <- MCSecVer
  HomeSlot <- MCHomeSlot
  FactoryImage = "old"
  Files = {"old", "new"}
  UndeclaredSecVers = {}
  CrashLoopers = {"new"}
  Unstable = {}
  WriteOutcomes = {"ok", "lost"}
  MaxDownloads = 3
  MaxFaults = 3
INVARIANTS IInv SomethingBoots RunningImageRecorded
PROPERTIES AbandonedOnlyForFallback AbandonedOnlyAfterCrashes StagedCandidateKept CrashLoopEnds
CHECK_DEADLOCK FALSE
