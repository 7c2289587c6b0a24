SPECIFICATION Spec
CONSTANTS
  PageChunks = 2
  MaxPages = 4
  Bit <- MCBit
  Backend = "offchip"
  SectorPages = 1
  SlotPages <- MCSlotPages
  HeaderSecVer <- MCHeaderSecVer
  Images <- MCImages
  SecVers = {2}
  SentTargets = {"offchip", "B"}
  LeafValues = {TRUE, FALSE}
  CurrentSlot = "invalid"
  RunningSecVer = 1
  EraseOutcomes = {TRUE, FALSE}
  IoOutcomes = {TRUE, FALSE}
  StageOutcomes = {"ok", "kept", "unconfirmed"}
  InitialFlash <- MCInitialFlash
  MaxMissed = 0
INVARIANTS IInv VerifyImpliesIntact
PROPERTIES ReportsOnlyCommittedPages ReceivesPages
CHECK_DEADLOCK FALSE
