SPECIFICATION Spec
CONSTANTS
  PageChunks = 2
  MaxPages = 4
  Bit <- MCBit
  Backend = "offchip"
  SectorPages = 1
  SlotPages <- MCSlotPages
  HeaderSecVer <- MCHeaderSecVer
  Images <- MCImages
  SecVers = {2}
  SentTargets = {"offchip"}
  LeafValues = {TRUE, FALSE}
  CurrentSlot = "invalid"
  RunningSecVer = 1
  EraseOutcomes = {TRUE}
  IoOutcomes = {TRUE}
  StageOutcomes = {"ok"}
  InitialFlash <- MCInitialFlash
  MaxMissed = 0
PROPERTIES ResetBootsStagedImage
CHECK_DEADLOCK FALSE
