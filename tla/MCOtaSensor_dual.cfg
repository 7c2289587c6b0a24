SPECIFICATION Spec
CONSTANTS
  PageChunks = 2
  MaxPages = 4
  Bit <- MCBit
  Backend = "dual"
  SectorPages = 2
  SlotPages <- MCSlotPages
  HeaderSecVer <- MCHeaderSecVer
  Images <- MCImages
  SecVers = {2}
  SentTargets = {"A", "B"}
  LeafValues = {TRUE}
  CurrentSlot = "A"
  RunningSecVer = 1
  EraseOutcomes = {TRUE}
  IoOutcomes = {TRUE, FALSE}
  StageOutcomes = {"ok", "lost"}
  InitialFlash <- MCInitialFlash
  MaxMissed = 1
INVARIANTS IInv VerifyImpliesIntact CrcCountsEachPageOnce BitmapSound
PROPERTIES RunningSlotUntouched ReportsOnlyCommittedPages ReceivesPages
CHECK_DEADLOCK FALSE
