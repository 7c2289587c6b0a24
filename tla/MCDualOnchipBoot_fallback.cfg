SPECIFICATION Spec
CONSTANTS
  Img = {"old", "new"}
  SecVer <- MCSecVer
  HomeSlot <- MCHomeSlot
  FactoryImage = "old"
  Files = {"new"}
  UndeclaredSecVers = {}
  CrashLoopers = {}
  Unstable = {"old"}
  WriteOutcomes = {"ok"}
  MaxDownloads = 1
  MaxFaults = 0
PROPERTIES AbandonedOnlyForFallback
CHECK_DEADLOCK FALSE
