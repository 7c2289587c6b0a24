SPECIFICATION Spec
CONSTANTS
  PageChunks = 2
  MaxPages = 4
  Bit <- MCBit
  Backend = "dual"
  SectorPages = 2
  SlotPages <- MCSlotPages
  HeaderSecVer <- MCHeaderSecVer
  Images <- MCLongImages
  SecVers = {2}
  SentTargets = {"A", "B"}
  LeafValues = {TRUE}
  CurrentSlot = "A"
  RunningSecVer = 1
  EraseOutcomes = {TRUE, FALSE}
  IoOutcomes = {TRUE}
  StageOutcomes = {"ok"}
  InitialFlash <- MCLongFlash
  MaxMissed = 0
INVARIANTS VerifyImpliesIntact
CHECK_DEADLOCK FALSE
