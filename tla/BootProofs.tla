------------------------------ MODULE BootProofs ------------------------------
(***************************************************************************)
(* Proofs about the boot side of a dual-onchip node: something always      *)
(* boots, and an image is given up only for its crashes and only for one   *)
(* that boots.                                                             *)
(***************************************************************************)
EXTENDS DualOnchipBoot, TLAPS

\* A failed metadata write is seen to have failed, and no update is accepted over an
\* image that may crash: the run boot_fallback shows what happens without the second.
FailuresShow == "kept" \notin WriteOutcomes /\ CrashersAreLast

-----------------------------------------------------------------------------
(* What the operations on metadata return. *)

LEMMA SlotFacts ==
  /\ "A" \in Slot /\ "B" \in Slot
  /\ \A s \in Slot : OtherSlot(s) \in Slot /\ OtherSlot(s) # s /\ OtherSlot(OtherSlot(s)) = s
  /\ \A s, t \in Slot : s # t => t = OtherSlot(s)
BY DEF Slot, OtherSlot

LEMMA MetadataType ==
  ASSUME NEW m \in Metadata
  PROVE  /\ m # NoMetadata
         /\ m.active_slot \in Slot /\ m.candidate_slot \in Slot \cup {NoSlot}
         /\ m.state \in [Slot -> ImageState] /\ m.crc \in [Slot -> Img \cup {NoCrc}]
         /\ m.boot_attempts \in Nat
<1>1. m.valid = TRUE
  BY Zenon DEF Metadata
<1>2. NoMetadata.valid = FALSE
  BY DEF NoMetadata
<1> QED
  BY <1>1, <1>2 DEF Metadata

LEMMA InitFactoryFacts ==
  ASSUME NEW s \in Slot, NEW crc \in Img \cup {NoCrc}
  PROVE  /\ InitFactory(s, crc) \in Metadata
         /\ InitFactory(s, crc).boot_attempts = 0 /\ InitFactory(s, crc).crc[s] = crc
BY DEF InitFactory, Metadata, ImageState

LEMMA ConfirmRunningFacts ==
  ASSUME NEW m \in Metadata, NEW s \in Slot
  PROVE  /\ ConfirmRunning(m, s) \in Metadata
         /\ ConfirmRunning(m, s).boot_attempts = 0 /\ ConfirmRunning(m, s).crc = m.crc
BY DEF ConfirmRunning, Metadata, ImageState

LEMMA MarkInvalidFacts ==
  ASSUME NEW m \in Metadata, NEW s \in Slot
  PROVE  MarkInvalid(m, s) \in Metadata
BY DEF MarkInvalid, Metadata, ImageState

LEMMA StagingFacts ==
  ASSUME NEW m \in Metadata, NEW s \in Slot, NEW crc \in Img \cup {NoCrc}
  PROVE  LET staged == StageVerified(MarkVerified(m, s, crc), s)
         IN /\ staged \in Metadata /\ staged.boot_attempts = 0
            /\ \A t \in Slot \ {s} : staged.crc[t] = m.crc[t]
<1>1. /\ MarkVerified(m, s, crc) \in Metadata
      /\ \A t \in Slot \ {s} : MarkVerified(m, s, crc).crc[t] = m.crc[t]
  BY DEF MarkVerified, Metadata, ImageState
<1>2. ASSUME NEW v \in Metadata
      PROVE  /\ StageVerified(v, s) \in Metadata /\ StageVerified(v, s).boot_attempts = 0
             /\ StageVerified(v, s).crc = v.crc
  BY DEF StageVerified, Metadata, ImageState
<1> QED
  BY <1>1, <1>2

LEMMA CountingFacts ==
  ASSUME NEW m \in Metadata, NEW s \in Slot, NEW crc \in Img \cup {NoCrc}
  PROVE  /\ IncrementBootAttempts(m) \in Metadata
         /\ IncrementBootAttempts(m).boot_attempts = m.boot_attempts + 1
         /\ IncrementBootAttempts(m).crc = m.crc
         /\ SetCandidate(m, s, crc) \in Metadata /\ SetCandidate(m, s, crc).boot_attempts = 1
         /\ SetCandidate(m, s, crc).crc[s] = crc
         /\ ClearSlot(m, s) \in Metadata /\ ClearSlot(m, s).boot_attempts = m.boot_attempts
         /\ \A t \in Slot \ {s} : ClearSlot(m, s).crc[t] = m.crc[t]
<1>1. /\ IncrementBootAttempts(m) \in Metadata
      /\ IncrementBootAttempts(m).boot_attempts = m.boot_attempts + 1
      /\ IncrementBootAttempts(m).crc = m.crc
  <2> DEFINE attempts == m.boot_attempts + 1
  <2>1. attempts \in Nat
    BY MetadataType
  <2>2. IncrementBootAttempts(m) = [m EXCEPT !.boot_attempts = attempts]
    BY Zenon DEF IncrementBootAttempts
  <2> HIDE DEF attempts
  <2>3. /\ IncrementBootAttempts(m) \in Metadata
        /\ IncrementBootAttempts(m).boot_attempts = attempts
        /\ IncrementBootAttempts(m).crc = m.crc
    BY <2>1, <2>2 DEF Metadata
  <2> QED
    BY <2>3 DEF attempts
<1>2. /\ SetCandidate(m, s, crc) \in Metadata /\ SetCandidate(m, s, crc).boot_attempts = 1
      /\ SetCandidate(m, s, crc).crc[s] = crc
  BY DEF SetCandidate, Metadata, ImageState
<1>3. /\ ClearSlot(m, s) \in Metadata /\ ClearSlot(m, s).boot_attempts = m.boot_attempts
      /\ \A t \in Slot \ {s} : ClearSlot(m, s).crc[t] = m.crc[t]
  BY DEF ClearSlot, Metadata, ImageState
<1> QED
  BY <1>1, <1>2, <1>3

\* What ota_sensor_boot_check makes of the metadata it finds in flash.
LEMMA CheckedFacts ==
  ASSUME TypeOK
  PROVE  /\ CheckedMetadata \in Metadata
         /\ CheckedMetadata.crc[current_slot] = RunningImage
         /\ flash_metadata = NoMetadata => CheckedMetadata.boot_attempts = 0
         /\ flash_metadata # NoMetadata =>
              \/ CheckedMetadata.boot_attempts = 1
              \/ CheckedMetadata.boot_attempts =
                   flash_metadata.boot_attempts + 1 - FirstBoot
<1>1. /\ current_slot \in Slot /\ OtherSlot(current_slot) \in Slot
      /\ OtherSlot(current_slot) # current_slot
      /\ RunningImage \in Img \cup {NoCrc} /\ reset_source \in {"power", "other"}
  BY SlotFacts DEF TypeOK, SlotContent, RunningImage
<1>2. CASE flash_metadata = NoMetadata
  BY <1>1, <1>2, InitFactoryFacts DEF CheckedMetadata
<1>3. CASE flash_metadata # NoMetadata
  <2> DEFINE m == flash_metadata
             r == RunningChecked(m)
  <2>1. m \in Metadata
    BY <1>3 DEF TypeOK
  <2>2. m.boot_attempts \in Nat /\ m.crc \in [Slot -> Img \cup {NoCrc}]
    BY <2>1, MetadataType
  <2>3. r \in Metadata /\ r.crc[current_slot] = RunningImage
        /\ (r.boot_attempts = 1 \/ r.boot_attempts = m.boot_attempts + 1 - FirstBoot)
    <3>1. CASE NewImage(m)
      BY <1>1, <2>1, <3>1, CountingFacts DEF RunningChecked
    <3>2. CASE ~NewImage(m) /\ Abnormal
      BY <1>1, <2>1, <2>2, <3>2, CountingFacts DEF RunningChecked, NewImage, Abnormal, FirstBoot
    <3>3. CASE ~NewImage(m) /\ ~Abnormal
      BY <1>1, <2>1, <2>2, <3>3 DEF RunningChecked, NewImage, Abnormal, FirstBoot
    <3> QED
      BY <3>1, <3>2, <3>3
  <2>4. CheckedMetadata = ShadowChecked(r)
    BY <1>3 DEF CheckedMetadata
  <2> HIDE DEF r
  <2>5. /\ ShadowChecked(r) \in Metadata /\ ShadowChecked(r).boot_attempts = r.boot_attempts
        /\ ShadowChecked(r).crc[current_slot] = r.crc[current_slot]
    BY <1>1, <2>3, CountingFacts DEF ShadowChecked
  <2> QED
    BY <1>3, <2>3, <2>4, <2>5
<1> QED
  BY <1>2, <1>3

\* What VERIFY stages.
LEMMA StagedFacts ==
  ASSUME TypeOK, NEW s \in Slot
  PROVE  /\ StagedMetadata(s) \in Metadata /\ StagedMetadata(s).boot_attempts = 0
         /\ s # current_slot => StagedMetadata(s).crc[current_slot] =
              IF flash_metadata = NoMetadata THEN RunningImage
              ELSE flash_metadata.crc[current_slot]
<1>1. /\ current_slot \in Slot /\ RunningImage \in Img \cup {NoCrc}
      /\ slots[s].header \in Img \cup {NoCrc}
  BY DEF TypeOK, SlotContent, RunningImage
<1> DEFINE m == IF flash_metadata = NoMetadata THEN InitFactory(current_slot, RunningImage)
                ELSE flash_metadata
<1>2. m \in Metadata /\ m.crc[current_slot] =
        IF flash_metadata = NoMetadata THEN RunningImage ELSE flash_metadata.crc[current_slot]
  BY <1>1, InitFactoryFacts DEF TypeOK
<1>3. StagedMetadata(s) = StageVerified(MarkVerified(m, s, slots[s].header), s)
  BY DEF StagedMetadata
<1> HIDE DEF m
<1> QED
  BY <1>1, <1>2, <1>3, StagingFacts

LEMMA WriteFacts ==
  ASSUME TypeOK, NEW m \in Metadata, NEW out \in WriteOutcomes, WriteMetadata(m, out)
  PROVE  /\ flash_metadata' \in Metadata \cup {NoMetadata} /\ faults' \in 0 .. MaxFaults
         /\ out = "ok" => flash_metadata' = m
         /\ "kept" \notin WriteOutcomes => flash_metadata' \in {m, NoMetadata}
         /\ flash_metadata = m => flash_metadata' = m
<1>1. out \in {"ok", "kept", "lost"}
  BY BootAssumption DEF WriteOutcome
<1>2. faults \in 0 .. MaxFaults /\ MaxFaults \in Nat
  BY BootAssumption DEF TypeOK
<1>3. CASE flash_metadata = m
  BY <1>2, <1>3 DEF WriteMetadata
<1>4. CASE flash_metadata # m
  BY <1>1, <1>2, <1>4 DEF WriteMetadata, TypeOK
<1> QED
  BY <1>3, <1>4
-----------------------------------------------------------------------------
(* Types. *)

\* Once the boot check is done the node has metadata in RAM.
HasMetadata ==
  pc \in {"fallback", "invalidate", "running", "safe"} => current_metadata # NoMetadata

TypeInv == TypeOK /\ HasMetadata

\* The node's variables but for those a reset, a write or a download sets.
LEMMA ResetType ==
  ASSUME TypeInv, NEW source \in {"power", "other"}, Reset(source),
         UNCHANGED <<current_slot, downloads>>, slots' \in [Slot -> SlotContent],
         flash_metadata' = flash_metadata, faults' \in 0 .. MaxFaults,
         crashes' \in [Slot -> 0 .. MAX_BOOT_ATTEMPTS + 1]
  PROVE  TypeInv'
BY BootAssumption DEF TypeInv, TypeOK, HasMetadata, Reset, NoDownload, Slot

LEMMA CountCrashType ==
  ASSUME TypeOK, CountCrash
  PROVE  /\ crashes' \in [Slot -> 0 .. MAX_BOOT_ATTEMPTS + 1]
         /\ \A s \in Slot \ {current_slot} : crashes'[s] = crashes[s]
         /\ crashes[current_slot] <= MAX_BOOT_ATTEMPTS =>
              crashes'[current_slot] = crashes[current_slot] + 1
         /\ crashes[current_slot] > MAX_BOOT_ATTEMPTS =>
              crashes'[current_slot] = MAX_BOOT_ATTEMPTS + 1
<1> DEFINE c == crashes[current_slot]
           n == IF c > MAX_BOOT_ATTEMPTS THEN c ELSE c + 1
<1>1. /\ current_slot \in Slot /\ c \in 0 .. MAX_BOOT_ATTEMPTS + 1
      /\ crashes \in [Slot -> 0 .. MAX_BOOT_ATTEMPTS + 1]
  BY DEF TypeOK
<1>2. n \in 0 .. MAX_BOOT_ATTEMPTS + 1
  BY <1>1 DEF MAX_BOOT_ATTEMPTS
<1>3. crashes' = [crashes EXCEPT ![current_slot] = n]
  BY Zenon DEF CountCrash
<1>4. /\ c <= MAX_BOOT_ATTEMPTS => n = c + 1
      /\ c > MAX_BOOT_ATTEMPTS => n = MAX_BOOT_ATTEMPTS + 1
  BY <1>1 DEF MAX_BOOT_ATTEMPTS
<1> HIDE DEF n
<1> QED
  BY <1>1, <1>2, <1>3, <1>4

LEMMA PowerLossType ==
  ASSUME TypeInv, PowerLoss
  PROVE  TypeInv'
<1>1. faults' \in 0 .. MaxFaults
  BY BootAssumption DEF TypeInv, TypeOK, PowerLoss
<1> QED
  BY <1>1, ResetType DEF TypeInv, TypeOK, PowerLoss

LEMMA AbnormalResetType ==
  ASSUME TypeInv, Crash \/ SafeModeEnds \/ ResetToStagedImage
  PROVE  TypeInv'
<1>1. Reset("other") /\ CountCrash /\ UNCHANGED <<slots, flash_metadata, current_slot, downloads, faults>>
  BY DEF Crash, SafeModeEnds, ResetToStagedImage
<1> QED
  BY <1>1, CountCrashType, ResetType DEF TypeInv, TypeOK

LEMMA BimBootsType ==
  ASSUME TypeInv, BimBoots
  PROVE  TypeInv'
BY DEF TypeInv, TypeOK, HasMetadata, BimBoots

LEMMA BootCheckType ==
  ASSUME TypeInv, NEW out \in WriteOutcomes, BootCheck(out)
  PROVE  TypeInv'
<1>1. /\ current_metadata' \in Metadata /\ flash_metadata' \in Metadata \cup {NoMetadata}
      /\ faults' \in 0 .. MaxFaults
  BY CheckedFacts, WriteFacts DEF TypeInv, BootCheck
<1>2. current_metadata'.boot_attempts \in Nat /\ current_metadata' # NoMetadata
  BY <1>1, MetadataType
<1>3. pc' \in {"fallback", "running"} /\ stability_timer' \in BOOLEAN
      /\ (pc' = "running" => current_metadata'.boot_attempts <= MAX_BOOT_ATTEMPTS)
  <2>1. \/ /\ TooManyAttempts(current_metadata') /\ pc' = "fallback"
           /\ UNCHANGED stability_timer
        \/ /\ ~TooManyAttempts(current_metadata') /\ pc' = "running" /\ stability_timer' = TRUE
    BY Zenon DEF BootCheck
  <2>2. stability_timer \in BOOLEAN
    BY DEF TypeInv, TypeOK
  <2>3. pc' \in {"fallback", "running"} /\ stability_timer' \in BOOLEAN
    BY <2>1, <2>2
  <2>4. CASE pc' = "running"
    <3>1. ~TooManyAttempts(current_metadata')
      BY <2>1, <2>4
    <3> QED
      BY <1>2, <2>3, <3>1 DEF TooManyAttempts, MAX_BOOT_ATTEMPTS
  <2> QED
    BY <2>3, <2>4
<1>4. UNCHANGED <<slots, current_slot, reset_source, download, staged_reboot, downloads, crashes>>
  BY DEF BootCheck
<1> QED
  BY <1>1, <1>2, <1>3, <1>4 DEF TypeInv, TypeOK, HasMetadata

LEMMA FallbackType ==
  ASSUME TypeInv, NEW out \in WriteOutcomes, Fallback(out)
  PROVE  TypeInv'
<1> USE DEF TypeInv
<1>1. CASE FallbackRefused
  BY <1>1 DEF Fallback, TypeOK, HasMetadata
<1>2. CASE ~FallbackRefused
  <2>1. current_metadata \in Metadata /\ current_slot \in Slot /\ OtherSlot(current_slot) \in Slot
    BY SlotFacts DEF Fallback, TypeOK, HasMetadata
  <2>2. current_metadata' \in Metadata
    BY <1>2, <2>1, MarkInvalidFacts, ConfirmRunningFacts DEF Fallback
  <2>3. /\ flash_metadata' \in Metadata \cup {NoMetadata} /\ faults' \in 0 .. MaxFaults
    BY <1>2, <2>2, WriteFacts DEF Fallback
  <2> QED
    BY <1>2, <2>2, <2>3, MetadataType DEF Fallback, TypeOK, HasMetadata
<1> QED
  BY <1>1, <1>2

LEMMA InvalidatedFacts ==
  ASSUME TypeOK
  PROVE  /\ Invalidated \in [Slot -> SlotContent]
         /\ \A s \in Slot : /\ Invalidated[s].header = slots[s].header
                            /\ s # current_slot => Invalidated[s] = slots[s]
         /\ Invalidated[current_slot].crcStatInvalid = TRUE
BY DEF TypeOK, SlotContent, Invalidated

LEMMA InvalidateHeaderType ==
  ASSUME TypeInv, NEW ok \in BOOLEAN, InvalidateHeader(ok)
  PROVE  TypeInv'
<1>1. CASE ok
  BY <1>1, InvalidatedFacts, ResetType DEF InvalidateHeader, TypeInv, TypeOK
<1>2. CASE ~ok
  <2>1. faults' \in 0 .. MaxFaults
    BY <1>2, BootAssumption DEF InvalidateHeader, TypeInv, TypeOK
  <2> QED
    BY <1>2, <2>1 DEF InvalidateHeader, TypeInv, TypeOK, HasMetadata
<1> QED
  BY <1>1, <1>2

LEMMA ConfirmStableType ==
  ASSUME TypeInv, NEW out \in WriteOutcomes, ConfirmStable(out)
  PROVE  TypeInv'
<1>1. /\ current_metadata \in Metadata /\ current_slot \in Slot
      /\ crashes' \in [Slot -> 0 .. MAX_BOOT_ATTEMPTS + 1]
  BY DEF ConfirmStable, TypeInv, TypeOK, HasMetadata, MAX_BOOT_ATTEMPTS
<1>2. CASE current_metadata.boot_attempts > 0
  <2>1. current_metadata' \in Metadata /\ current_metadata'.boot_attempts = 0
    BY <1>1, <1>2, ConfirmRunningFacts DEF ConfirmStable
  <2>2. flash_metadata' \in Metadata \cup {NoMetadata} /\ faults' \in 0 .. MaxFaults
    BY <1>2, <2>1, WriteFacts DEF ConfirmStable, TypeInv
  <2>3. /\ current_metadata' # NoMetadata
        /\ current_metadata'.boot_attempts <= MAX_BOOT_ATTEMPTS
    BY <2>1, MetadataType DEF MAX_BOOT_ATTEMPTS
  <2>4. /\ stability_timer' \in BOOLEAN /\ current_metadata' \in Metadata \cup {NoMetadata}
        /\ UNCHANGED <<slots, current_slot, pc, reset_source, download, staged_reboot, downloads>>
    BY <2>1 DEF ConfirmStable
  <2> QED
    BY <1>1, <2>2, <2>3, <2>4 DEF TypeInv, TypeOK, HasMetadata
<1>3. CASE ~(current_metadata.boot_attempts > 0)
  BY <1>1, <1>3 DEF ConfirmStable, TypeInv, TypeOK, HasMetadata
<1> QED
  BY <1>2, <1>3

LEMMA StartDownloadType ==
  ASSUME TypeInv, NEW file \in Files, NEW target \in Slot, NEW sec_ver,
         StartDownload(file, sec_ver, target)
  PROVE  TypeInv'
<1>1. /\ slots' \in [Slot -> SlotContent] /\ downloads' \in 0 .. MaxDownloads
      /\ crashes' \in [Slot -> 0 .. MAX_BOOT_ATTEMPTS + 1]
  BY BootAssumption DEF StartDownload, TypeInv, TypeOK, SlotContent, Empty, MAX_BOOT_ATTEMPTS
<1>2. download' \in [at : {"none", "started", "header", "whole"}, file : Img, target : Slot]
  BY BootAssumption DEF StartDownload
<1> QED
  BY <1>1, <1>2 DEF StartDownload, TypeInv, TypeOK, HasMetadata

LEMMA WriteDownloadFacts ==
  ASSUME TypeOK, WriteDownload
  PROVE  /\ slots' \in [Slot -> SlotContent]
         /\ download' \in [at : {"header", "whole"}, file : {download.file},
                           target : {download.target}]
         /\ \A s \in Slot \ {download.target} : slots'[s] = slots[s]
         /\ slots'[download.target].header \in {download.file, slots[download.target].header}
<1>1. /\ slots \in [Slot -> SlotContent] /\ download.target \in Slot /\ download.file \in Img
      /\ download \in [at : {"none", "started", "header", "whole"}, file : Img, target : Slot]
  BY DEF TypeOK
<1>2. CASE download.at = "started"
  BY <1>1, <1>2 DEF WriteDownload, SlotContent
<1>3. CASE download.at # "started"
  <2>1. /\ slots' = [slots EXCEPT ![download.target].whole = TRUE]
        /\ download' = [download EXCEPT !.at = "whole"]
    BY <1>3 DEF WriteDownload
  <2>2. /\ slots' \in [Slot -> SlotContent]
        /\ \A s \in Slot \ {download.target} : slots'[s] = slots[s]
        /\ slots'[download.target].header = slots[download.target].header
    BY <1>1, <2>1 DEF SlotContent
  <2>3. download' \in [at : {"whole"}, file : {download.file}, target : {download.target}]
    BY <1>1, <2>1
  <2> QED
    BY <2>2, <2>3
<1> QED
  BY <1>2, <1>3

LEMMA WriteDownloadType ==
  ASSUME TypeInv, WriteDownload
  PROVE  TypeInv'
<1>1. download' \in [at : {"none", "started", "header", "whole"}, file : Img, target : Slot]
  BY WriteDownloadFacts DEF TypeInv, TypeOK
<1> QED
  BY <1>1, WriteDownloadFacts DEF WriteDownload, TypeInv, TypeOK, HasMetadata
LEMMA VerifyType ==
  ASSUME TypeInv, NEW out \in WriteOutcomes, Verify(out)
  PROVE  TypeInv'
<1>1. download' \in [at : {"none", "started", "header", "whole"}, file : Img, target : Slot]
  BY BootAssumption DEF Verify, NoDownload, Slot
<1>2. pc = "running" /\ download.target \in Slot /\ staged_reboot \in BOOLEAN
      /\ UNCHANGED <<slots, current_slot, pc, reset_source, stability_timer, downloads, crashes>>
  BY DEF Verify, TypeInv, TypeOK
<1>3. CASE ValidImage(download.target)
  <2>1. /\ StagedMetadata(download.target) \in Metadata
        /\ StagedMetadata(download.target).boot_attempts = 0
    BY <1>2, StagedFacts DEF TypeInv
  <2>2. flash_metadata' \in Metadata \cup {NoMetadata} /\ faults' \in 0 .. MaxFaults
    BY <1>3, <2>1, WriteFacts DEF Verify, TypeInv
  <2>3. CASE out = "ok"
    <3>1. /\ current_metadata' = StagedMetadata(download.target)
          /\ staged_reboot' \in BOOLEAN
      BY <1>2, <1>3, <2>3 DEF Verify
    <3>2. /\ current_metadata' \in Metadata \cup {NoMetadata} /\ current_metadata' # NoMetadata
          /\ current_metadata'.boot_attempts <= MAX_BOOT_ATTEMPTS
      BY <2>1, <3>1, MetadataType DEF MAX_BOOT_ATTEMPTS
    <3> QED
      BY <1>1, <1>2, <2>2, <3>1, <3>2 DEF TypeInv, TypeOK, HasMetadata
  <2>4. CASE out # "ok"
    <3>1. UNCHANGED <<current_metadata, staged_reboot>>
      BY <1>3, <2>4 DEF Verify
    <3> QED
      BY <1>1, <1>2, <2>2, <3>1 DEF TypeInv, TypeOK, HasMetadata
  <2> QED
    BY <2>3, <2>4
<1>4. CASE ~ValidImage(download.target)
  <2>1. UNCHANGED <<current_metadata, flash_metadata, staged_reboot, faults>>
    BY <1>4 DEF Verify
  <2> QED
    BY <1>1, <1>2, <2>1 DEF TypeInv, TypeOK, HasMetadata
<1> QED
  BY <1>3, <1>4

LEMMA TypeInit == Init => TypeInv
<1> SUFFICES ASSUME Init PROVE TypeInv
  OBVIOUS
<1>1. slots \in [Slot -> SlotContent]
  BY BootAssumption DEF Init, SlotContent, Empty, Slot
<1>2. downloads \in 0 .. MaxDownloads /\ faults \in 0 .. MaxFaults
  BY BootAssumption DEF Init
<1>3. crashes \in [Slot -> 0 .. MAX_BOOT_ATTEMPTS + 1]
  BY DEF Init, MAX_BOOT_ATTEMPTS
<1> QED
  BY <1>1, <1>2, <1>3, BootAssumption DEF Init, TypeInv, TypeOK, HasMetadata, NoDownload, Slot

LEMMA TypeNext == TypeInv /\ [Next]_vars => TypeInv'
<1> SUFFICES ASSUME TypeInv, [Next]_vars PROVE TypeInv'
  OBVIOUS
<1>1. CASE Booting
  BY <1>1, BimBootsType, BootCheckType, FallbackType, InvalidateHeaderType DEF Booting
<1>2. CASE Downloading
  BY <1>2, StartDownloadType, WriteDownloadType, AbnormalResetType, VerifyType DEF Downloading
<1>3. ASSUME NEW out \in WriteOutcomes, ConfirmStable(out) PROVE TypeInv'
  BY <1>3, ConfirmStableType
<1>4. CASE Crash \/ PowerLoss \/ SafeModeEnds
  BY <1>4, AbnormalResetType, PowerLossType
<1>5. CASE UNCHANGED vars
  BY <1>5 DEF vars, TypeInv, TypeOK, HasMetadata
<1> QED
  BY <1>1, <1>2, <1>3, <1>4, <1>5 DEF Next

\* The variables stay in their ranges and a running image has attempts left, whatever
\* fails and whatever the images do.
THEOREM BootTypeCorrect == Spec => []TypeOK
<1>1. TypeInv => TypeOK
  BY DEF TypeInv
<1> QED
  BY <1>1, TypeInit, TypeNext, PTL DEF Spec

-----------------------------------------------------------------------------
(* The inductive invariant. *)

BootInv ==
  /\ TypeInv
  /\ DownloadOfRunning /\ CrasherHasFallback /\ RunningBoots
  /\ MetadataInStep /\ RunningImageRecorded /\ AttemptsInRam /\ AttemptsInFlash

LEMMA SlotView ==
  ASSUME TypeOK, NEW s \in Slot
  PROVE  /\ HoldsCrasher(s) \/ Bootable(s) => HasHeader(s)
         /\ HasHeader(s) => slots[s].header \in Img /\ SecVer[slots[s].header] \in Nat
BY BootAssumption DEF TypeOK, SlotContent, HoldsCrasher, Crashers, Bootable, HasHeader

\* What is said of a slot depends on that slot alone.
LEMMA SameSlot ==
  ASSUME NEW s \in Slot, slots'[s] = slots[s]
  PROVE  /\ Bootable(s)' <=> Bootable(s)
         /\ HoldsCrasher(s)' <=> HoldsCrasher(s)
         /\ HasHeader(s)' <=> HasHeader(s)
BY DEF Bootable, HoldsCrasher, HasHeader

LEMMA SameSlots ==
  ASSUME UNCHANGED slots
  PROVE  /\ CrasherBootable' <=> CrasherBootable
         /\ SomethingBoots' <=> SomethingBoots
         /\ CrasherHasFallback' <=> CrasherHasFallback
<1>1. \A s \in Slot : /\ Bootable(s)' <=> Bootable(s)
                      /\ HoldsCrasher(s)' <=> HoldsCrasher(s)
                      /\ HasHeader(s)' <=> HasHeader(s)
  BY SameSlot
<1> QED
  BY <1>1, SlotFacts DEF CrasherBootable, SomethingBoots, CrasherHasFallback

\* Only one slot holds an image that may crash.
LEMMA OneCrasher ==
  ASSUME TypeOK, CrasherHasFallback, NEW s \in Slot, HoldsCrasher(s)
  PROVE  ~HoldsCrasher(OtherSlot(s))
BY SlotView, SlotFacts DEF CrasherHasFallback

\* What the metadata counts where the next boot finds it.
AttemptsBounded(m, spare) ==
  /\ ~CrasherBootable => m.boot_attempts <= spare
  /\ \A s \in Slot : Bootable(s) /\ HoldsCrasher(s) => m.boot_attempts <= crashes[s] + spare

LEMMA AttemptsAreCrashes ==
  ASSUME BootInv, flash_metadata # NoMetadata
  PROVE  AttemptsBounded(flash_metadata, 1)
<1>1. /\ flash_metadata.boot_attempts \in Nat /\ current_slot \in Slot
      /\ crashes \in [Slot -> 0 .. MAX_BOOT_ATTEMPTS + 1]
  BY MetadataType DEF BootInv, TypeInv, TypeOK
<1>2. CASE pc \in {"bim", "boot"}
  BY <1>1, <1>2 DEF BootInv, AttemptsInFlash, AttemptsBounded, FirstBoot
<1>3. CASE pc \notin {"bim", "boot"}
  <2>1. /\ pc \in {"fallback", "invalidate", "running", "safe"}
        /\ flash_metadata = current_metadata /\ Bootable(current_slot)
    BY <1>3 DEF BootInv, TypeInv, TypeOK, MetadataInStep, RunningBoots
  <2>2. CASE HoldsCrasher(current_slot)
    <3>1. CrasherBootable
      BY <1>1, <2>1, <2>2 DEF CrasherBootable
    <3>2. \A s \in Slot : HoldsCrasher(s) => s = current_slot
      BY <1>1, <2>2, OneCrasher, SlotFacts DEF BootInv, TypeInv
    <3>3. current_metadata.boot_attempts <= crashes[current_slot] + 1
      BY <1>1, <2>1, <2>2 DEF BootInv, AttemptsInRam
    <3> QED
      BY <2>1, <3>1, <3>2, <3>3 DEF AttemptsBounded
  <2>3. CASE ~HoldsCrasher(current_slot)
    BY <1>1, <2>1, <2>3 DEF BootInv, RunningBoots, AttemptsInRam, AttemptsBounded
  <2> QED
    BY <2>2, <2>3
<1> QED
  BY <1>2, <1>3

\* After a reset only the slots and the metadata in flash matter.
LEMMA ResetInv ==
  ASSUME TypeInv', NEW source, Reset(source), SomethingBoots', CrasherHasFallback',
         AttemptsInFlash'
  PROVE  BootInv'
BY DEF BootInv, Reset, NoDownload, DownloadOfRunning, RunningBoots, MetadataInStep,
       RunningImageRecorded, AttemptsInRam

LEMMA PowerLossInv ==
  ASSUME BootInv, PowerLoss
  PROVE  BootInv'
<1>1. Reset("power") /\ UNCHANGED <<slots, flash_metadata, crashes>> /\ TypeInv'
  BY PowerLossType DEF PowerLoss, BootInv
<1>2. \A s \in Slot : (Bootable(s)' <=> Bootable(s)) /\ (HoldsCrasher(s)' <=> HoldsCrasher(s))
  BY <1>1, SameSlot
<1>3. AttemptsInFlash'
  BY <1>1, <1>2, SameSlots, AttemptsAreCrashes
  DEF AttemptsInFlash, AttemptsBounded, FirstBoot, Reset
<1> QED
  BY <1>1, <1>3, SameSlots, ResetInv DEF BootInv, RunningBoots

\* An abnormal reset of an image that crashes: its crash makes room for one more attempt.
LEMMA CrashInv ==
  ASSUME BootInv, Crash \/ SafeModeEnds
  PROVE  BootInv'
<1>1. /\ Reset("other") /\ CountCrash /\ UNCHANGED <<slots, flash_metadata>> /\ TypeInv'
      /\ pc \in {"running", "safe"} /\ HoldsCrasher(current_slot)
      /\ current_slot \in Slot /\ Bootable(current_slot)
      /\ current_metadata.boot_attempts <= MAX_BOOT_ATTEMPTS + 1
  <2>1. pc \in {"running", "safe"} /\ HoldsCrasher(current_slot)
    BY DEF Crash, SafeModeEnds, BootInv, RunningBoots, HoldsCrasher, Crashers, RunningImage
  <2>2. current_metadata.boot_attempts \in Nat
    BY <2>1, MetadataType DEF BootInv, MetadataInStep, TypeInv, TypeOK
  <2> QED
    BY <2>1, <2>2, AbnormalResetType
    DEF Crash, SafeModeEnds, BootInv, TypeInv, TypeOK, RunningBoots, MAX_BOOT_ATTEMPTS
<1>2. \A s \in Slot : (Bootable(s)' <=> Bootable(s)) /\ (HoldsCrasher(s)' <=> HoldsCrasher(s))
  BY <1>1, SameSlot
<1>3. \A s \in Slot : HoldsCrasher(s) => s = current_slot
  BY <1>1, OneCrasher, SlotFacts DEF BootInv, TypeInv
<1>4. CrasherBootable
  BY <1>1 DEF CrasherBootable
<1>5. current_metadata.boot_attempts <= crashes'[current_slot]
  <2>1. current_metadata.boot_attempts \in Nat
    BY <1>1, MetadataType DEF BootInv, MetadataInStep, TypeInv, TypeOK
  <2>2. /\ current_metadata.boot_attempts <= crashes[current_slot] + 1
        /\ crashes[current_slot] \in 0 .. MAX_BOOT_ATTEMPTS + 1
    BY <1>1 DEF BootInv, TypeInv, TypeOK, AttemptsInRam
  <2> QED
    BY <1>1, <2>1, <2>2, CountCrashType DEF BootInv, TypeInv, MAX_BOOT_ATTEMPTS
<1>6. AttemptsInFlash'
  <2>1. FirstBoot' = 0 /\ CrasherBootable' /\ crashes'[current_slot] \in Nat
    BY <1>1, <1>4, SameSlots, CountCrashType
    DEF FirstBoot, Reset, BootInv, TypeInv, MAX_BOOT_ATTEMPTS
  <2>2. flash_metadata' \in {NoMetadata, current_metadata}
    BY <1>1 DEF BootInv, MetadataInStep
  <2> QED
    BY <1>2, <1>3, <1>5, <2>1, <2>2 DEF AttemptsInFlash
<1> QED
  BY <1>1, <1>6, SameSlots, ResetInv DEF BootInv, RunningBoots

LEMMA ResetToStagedImageInv ==
  ASSUME BootInv, ResetToStagedImage
  PROVE  BootInv'
<1>1. /\ Reset("other") /\ CountCrash /\ UNCHANGED <<slots, flash_metadata>> /\ TypeInv'
      /\ flash_metadata \in {NoMetadata, current_metadata}
      /\ current_metadata.boot_attempts = 0
  BY AbnormalResetType
  DEF ResetToStagedImage, BootInv, MetadataInStep, AttemptsInRam
<1>2. \A s \in Slot : crashes'[s] \in Nat
  BY <1>1 DEF TypeInv, TypeOK
<1>3. AttemptsInFlash'
  BY <1>1, <1>2 DEF AttemptsInFlash, FirstBoot, Reset
<1> QED
  BY <1>1, <1>3, SameSlots, ResetInv DEF BootInv, RunningBoots

LEMMA BimBootsInv ==
  ASSUME BootInv, BimBoots
  PROVE  BootInv'
<1>1. PICK s \in Slot : /\ Bootable(s)
                        /\ Bootable(OtherSlot(s)) =>
                             SecVer[slots[s].header] >= SecVer[slots[OtherSlot(s)].header]
                        /\ current_slot' = s /\ pc' = "boot"
  BY SlotFacts DEF BimBoots, BootInv, RunningBoots, SomethingBoots
<1>2. /\ pc = "bim" /\ TypeInv'
      /\ UNCHANGED <<slots, flash_metadata, current_metadata, reset_source, stability_timer,
                     download, staged_reboot, downloads, faults, crashes>>
  BY BimBootsType DEF BimBoots, BootInv
<1>3. \A t \in Slot : (Bootable(t)' <=> Bootable(t)) /\ (HoldsCrasher(t)' <=> HoldsCrasher(t))
  BY <1>2, SameSlot
<1>4. ~HoldsCrasher(s) => ~CrasherBootable
  <2> SUFFICES ASSUME ~HoldsCrasher(s), NEW t \in Slot, Bootable(t), HoldsCrasher(t)
               PROVE  FALSE
    BY DEF CrasherBootable
  <2>1. t = OtherSlot(s) /\ s = OtherSlot(t)
    BY SlotFacts
  <2>2. HasHeader(s) /\ SecVer[slots[s].header] \in Nat /\ SecVer[slots[t].header] \in Nat
    BY <1>1, SlotView DEF BootInv, TypeInv
  <2>3. SecVer[slots[s].header] < SecVer[slots[t].header]
    BY <2>1, <2>2 DEF BootInv, CrasherHasFallback
  <2> QED
    BY <1>1, <2>1, <2>2, <2>3
<1>5. RunningBoots'
  BY <1>1, <1>2, <1>3, <1>4, SameSlots DEF BootInv, RunningBoots
<1>6. AttemptsInFlash'
  BY <1>1, <1>2, <1>3, SameSlots DEF BootInv, AttemptsInFlash, FirstBoot
<1>7. DownloadOfRunning'
  BY <1>2 DEF BootInv, DownloadOfRunning
<1> QED
  BY <1>1, <1>2, <1>5, <1>6, <1>7, SameSlots
  DEF BootInv, MetadataInStep, RunningImageRecorded, AttemptsInRam, DownloadOfRunning

LEMMA BootCheckInv ==
  ASSUME FailuresShow, BootInv, NEW out \in WriteOutcomes, BootCheck(out)
  PROVE  BootInv'
<1>1. /\ pc = "boot" /\ TypeInv' /\ current_slot \in Slot
      /\ UNCHANGED <<slots, current_slot, reset_source, download, staged_reboot, downloads, crashes>>
      /\ current_metadata' = CheckedMetadata
  BY BootCheckType DEF BootCheck, BootInv, TypeInv, TypeOK
<1>2. pc' \in {"fallback", "running"}
      /\ (pc' = "fallback" <=> TooManyAttempts(current_metadata'))
  <2>1. \/ TooManyAttempts(current_metadata') /\ pc' = "fallback"
        \/ ~TooManyAttempts(current_metadata') /\ pc' = "running"
    BY Zenon DEF BootCheck
  <2> QED
    BY <2>1
<1>3. /\ current_metadata' \in Metadata /\ current_metadata' # NoMetadata
      /\ current_metadata'.boot_attempts \in Nat
      /\ flash_metadata' \in {NoMetadata, current_metadata'}
  BY CheckedFacts, MetadataType, WriteFacts DEF BootCheck, BootInv, TypeInv, FailuresShow
<1>4. \A s \in Slot : (Bootable(s)' <=> Bootable(s)) /\ (HoldsCrasher(s)' <=> HoldsCrasher(s))
  BY <1>1, SameSlot
<1>5. current_metadata'.boot_attempts <= 1
        \/ (HoldsCrasher(current_slot)
              /\ current_metadata'.boot_attempts <= crashes[current_slot] + 1)
  <2>1. CASE flash_metadata = NoMetadata
    BY <1>1, <1>3, <2>1, CheckedFacts DEF BootInv, TypeInv
  <2>2. CASE flash_metadata # NoMetadata
    <3>1. FirstBoot \in {0, 1} /\ flash_metadata.boot_attempts \in Nat
          /\ crashes[current_slot] \in Nat
      BY <1>1, <2>2, MetadataType DEF FirstBoot, BootInv, TypeInv, TypeOK
    <3>2. current_metadata'.boot_attempts
            \in {1, flash_metadata.boot_attempts + 1 - FirstBoot}
      BY <1>1, <2>2, CheckedFacts DEF BootInv, TypeInv
    <3>3. \/ flash_metadata.boot_attempts <= FirstBoot
          \/ /\ HoldsCrasher(current_slot)
             /\ flash_metadata.boot_attempts <= crashes[current_slot] + FirstBoot
      BY <1>1, <2>2 DEF BootInv, RunningBoots, AttemptsInFlash
    <3> QED
      BY <3>1, <3>2, <3>3
  <2> QED
    BY <2>1, <2>2
<1>6. RunningBoots'
  <2>1. pc' = "fallback" => HoldsCrasher(current_slot)
    BY <1>2, <1>3, <1>5 DEF TooManyAttempts, MAX_BOOT_ATTEMPTS
  <2> QED
    BY <1>1, <1>2, <1>4, <2>1, SameSlots DEF BootInv, RunningBoots
<1>7. AttemptsInRam'
  <2>1. crashes[current_slot] \in Nat
    BY <1>1 DEF BootInv, TypeInv, TypeOK
  <2>2. ~staged_reboot
    BY <1>1 DEF BootInv, DownloadOfRunning
  <2> QED
    BY <1>1, <1>2, <1>3, <1>4, <1>5, <2>1, <2>2 DEF AttemptsInRam, TooManyAttempts
<1>8. DownloadOfRunning' /\ AttemptsInFlash'
  BY <1>1, <1>2 DEF BootInv, DownloadOfRunning, AttemptsInFlash
<1>9. RunningImageRecorded' /\ MetadataInStep'
  BY <1>1, <1>3, CheckedFacts
  DEF BootInv, TypeInv, RunningImageRecorded, MetadataInStep, RunningImage
<1> QED
  BY <1>1, <1>6, <1>7, <1>8, <1>9, SameSlots DEF BootInv

LEMMA FallbackInv ==
  ASSUME FailuresShow, BootInv, NEW out \in WriteOutcomes, Fallback(out)
  PROVE  BootInv'
<1>1. /\ pc = "fallback" /\ TypeInv' /\ current_slot \in Slot /\ HoldsCrasher(current_slot)
      /\ OtherSlot(current_slot) \in Slot
      /\ UNCHANGED <<slots, current_slot, reset_source, stability_timer, download, staged_reboot,
                     downloads, crashes>>
  BY FallbackType, SlotFacts DEF Fallback, BootInv, TypeInv, TypeOK, RunningBoots
<1>2. \A s \in Slot : (Bootable(s)' <=> Bootable(s)) /\ (HoldsCrasher(s)' <=> HoldsCrasher(s))
  BY <1>1, SameSlot
<1>3. current_metadata \in Metadata /\ current_metadata.boot_attempts \in Nat
  BY <1>1, MetadataType DEF BootInv, TypeInv, TypeOK, MetadataInStep
<1>4. CASE FallbackRefused
  <2>1. pc' = "safe" /\ UNCHANGED <<current_metadata, flash_metadata>>
    BY <1>4 DEF Fallback
  <2>2. RunningBoots'
    BY <1>1, <1>2, <2>1, SameSlots DEF BootInv, RunningBoots
  <2>3. AttemptsInRam' /\ AttemptsInFlash'
    BY <1>1, <1>2, <2>1 DEF BootInv, AttemptsInRam, AttemptsInFlash, DownloadOfRunning
  <2> QED
    BY <1>1, <2>1, <2>2, <2>3, SameSlots
    DEF BootInv, DownloadOfRunning, MetadataInStep, RunningImageRecorded
<1>5. CASE ~FallbackRefused
  <2>1. /\ current_metadata' = ConfirmRunning(MarkInvalid(current_metadata, current_slot),
                                              OtherSlot(current_slot))
        /\ pc' = "invalidate" /\ WriteMetadata(current_metadata', out)
    BY <1>5 DEF Fallback
  <2>2. current_metadata' \in Metadata /\ current_metadata'.boot_attempts = 0
    BY <1>1, <1>3, <2>1, MarkInvalidFacts, ConfirmRunningFacts
  <2>3. MetadataInStep'
    BY <2>1, <2>2, MetadataType, WriteFacts DEF MetadataInStep, BootInv, TypeInv, FailuresShow
  <2>4. Bootable(OtherSlot(current_slot))
    BY <1>1, <1>5 DEF FallbackRefused, BootInv, CrasherHasFallback
  <2>5. RunningBoots'
    BY <1>1, <1>2, <2>1, <2>4, SameSlots DEF BootInv, RunningBoots
  <2>6. crashes[current_slot] >= MAX_BOOT_ATTEMPTS
    <3>1. crashes[current_slot] \in Nat
      BY <1>1 DEF BootInv, TypeInv, TypeOK
    <3> QED
      BY <1>1, <1>3, <3>1 DEF BootInv, AttemptsInRam, MAX_BOOT_ATTEMPTS
  <2>7. AttemptsInRam' /\ AttemptsInFlash'
    BY <1>1, <2>1, <2>2, <2>6 DEF BootInv, AttemptsInRam, AttemptsInFlash, DownloadOfRunning
  <2> QED
    BY <1>1, <2>1, <2>3, <2>5, <2>7, SameSlots
    DEF BootInv, DownloadOfRunning, RunningImageRecorded
<1> QED
  BY <1>4, <1>5

LEMMA InvalidateHeaderInv ==
  ASSUME BootInv, NEW ok \in BOOLEAN, InvalidateHeader(ok)
  PROVE  BootInv'
<1>1. /\ pc = "invalidate" /\ TypeInv' /\ current_slot \in Slot /\ HoldsCrasher(current_slot)
      /\ OtherSlot(current_slot) \in Slot /\ Bootable(OtherSlot(current_slot))
      /\ UNCHANGED <<flash_metadata, current_slot, downloads, crashes>>
      /\ current_metadata.boot_attempts = 0
      /\ flash_metadata \in {NoMetadata, current_metadata}
  BY InvalidateHeaderType, SlotFacts
  DEF InvalidateHeader, BootInv, TypeInv, TypeOK, RunningBoots, AttemptsInRam, MetadataInStep
<1>2. \A s \in Slot : crashes[s] \in Nat
  BY DEF BootInv, TypeInv, TypeOK
<1>3. CASE ok
  <2>1. slots' = Invalidated /\ Reset("other")
    BY <1>3 DEF InvalidateHeader
  <2>2. PICK s \in Slot, other \in Slot : s = current_slot /\ other = OtherSlot(s)
    BY <1>1
  <2>3. /\ ~Bootable(s)' /\ (HoldsCrasher(s)' <=> HoldsCrasher(s))
        /\ slots'[other] = slots[other] /\ slots'[s].header = slots[s].header
    BY <2>1, <2>2, InvalidatedFacts, SlotFacts DEF Bootable, HoldsCrasher, BootInv, TypeInv
  <2>4. /\ (Bootable(other)' <=> Bootable(other)) /\ Bootable(other)
        /\ (HoldsCrasher(other)' <=> HoldsCrasher(other))
    BY <1>1, <2>2, <2>3, SameSlot
  <2>5. ~HoldsCrasher(other) /\ HasHeader(other)
    BY <1>1, <2>2, <2>4, OneCrasher, SlotView DEF BootInv, TypeInv
  <2>6. \A t \in Slot : t = s \/ t = other
    BY <2>2, SlotFacts
  <2>7. SomethingBoots'
    BY <2>4 DEF SomethingBoots
  <2>8. CrasherHasFallback'
    <3> SUFFICES ASSUME NEW t \in Slot, HoldsCrasher(t)'
                 PROVE  /\ Bootable(OtherSlot(t))' /\ ~HoldsCrasher(OtherSlot(t))'
                        /\ SecVer[slots'[OtherSlot(t)].header] < SecVer[slots'[t].header]
      BY DEF CrasherHasFallback
    <3>1. t = s
      BY <2>4, <2>5, <2>6
    <3>2. SecVer[slots[other].header] < SecVer[slots[s].header]
      BY <1>1, <2>2, <2>5 DEF BootInv, CrasherHasFallback
    <3> QED
      BY <2>2, <2>3, <2>4, <2>5, <3>1, <3>2
  <2>9. AttemptsInFlash'
    BY <1>1, <1>2, <2>1 DEF AttemptsInFlash, FirstBoot, Reset
  <2> QED
    BY <1>1, <2>1, <2>7, <2>8, <2>9, ResetInv
<1>4. CASE ~ok
  <2>1. pc' = "safe" /\ UNCHANGED <<slots, reset_source, current_metadata, stability_timer,
                                    download, staged_reboot>>
    BY <1>4 DEF InvalidateHeader
  <2>2. \A s \in Slot : (Bootable(s)' <=> Bootable(s)) /\ (HoldsCrasher(s)' <=> HoldsCrasher(s))
    BY <2>1, SameSlot
  <2>3. RunningBoots'
    BY <1>1, <2>1, <2>2, SameSlots DEF BootInv, RunningBoots
  <2>4. AttemptsInRam' /\ AttemptsInFlash' /\ DownloadOfRunning' /\ MetadataInStep'
    BY <1>1, <1>2, <2>1
    DEF BootInv, AttemptsInRam, AttemptsInFlash, DownloadOfRunning, MetadataInStep
  <2> QED
    BY <1>1, <2>1, <2>3, <2>4, SameSlots DEF BootInv, RunningImageRecorded
<1> QED
  BY <1>3, <1>4

LEMMA ConfirmStableInv ==
  ASSUME FailuresShow, BootInv, NEW out \in WriteOutcomes, ConfirmStable(out)
  PROVE  BootInv'
<1>1. /\ pc = "running" /\ TypeInv' /\ current_slot \in Slot
      /\ UNCHANGED <<slots, current_slot, pc, reset_source, download, staged_reboot, downloads>>
  BY ConfirmStableType DEF ConfirmStable, BootInv, TypeInv, TypeOK
<1>2. \A s \in Slot : (Bootable(s)' <=> Bootable(s)) /\ (HoldsCrasher(s)' <=> HoldsCrasher(s))
  BY <1>1, SameSlot
<1>3. current_metadata \in Metadata /\ current_metadata.boot_attempts \in Nat
  BY <1>1, MetadataType DEF BootInv, TypeInv, TypeOK, MetadataInStep
<1>4. /\ current_metadata' \in Metadata /\ current_metadata'.boot_attempts = 0
      /\ current_metadata'.crc = current_metadata.crc
      /\ flash_metadata' \in {NoMetadata, current_metadata'}
  <2>1. CASE current_metadata.boot_attempts > 0
    <3>1. /\ current_metadata' = ConfirmRunning(current_metadata, current_slot)
          /\ WriteMetadata(current_metadata', out)
      BY <2>1 DEF ConfirmStable
    <3>2. /\ current_metadata' \in Metadata /\ current_metadata'.boot_attempts = 0
          /\ current_metadata'.crc = current_metadata.crc
      BY <1>1, <1>3, <3>1, ConfirmRunningFacts
    <3> QED
      BY <3>1, <3>2, WriteFacts DEF BootInv, TypeInv, FailuresShow
  <2>2. CASE ~(current_metadata.boot_attempts > 0)
    <3>1. UNCHANGED <<current_metadata, flash_metadata>>
      BY <2>2 DEF ConfirmStable
    <3> QED
      BY <1>1, <1>3, <2>2, <3>1 DEF BootInv, MetadataInStep
  <2> QED
    BY <2>1, <2>2
<1>5. RunningBoots'
  BY <1>1, <1>2, SameSlots DEF BootInv, RunningBoots
<1>6. AttemptsInRam' /\ AttemptsInFlash'
  <2>1. crashes'[current_slot] \in Nat
    BY <1>1 DEF TypeInv, TypeOK
  <2> QED
    BY <1>1, <1>4, <2>1 DEF AttemptsInRam, AttemptsInFlash
<1>7. MetadataInStep' /\ RunningImageRecorded'
  BY <1>1, <1>4, MetadataType DEF BootInv, MetadataInStep, RunningImageRecorded, RunningImage
<1>8. DownloadOfRunning'
  BY <1>1, <1>2 DEF BootInv, DownloadOfRunning, RunningImage
<1> QED
  BY <1>1, <1>5, <1>6, <1>7, <1>8, SameSlots DEF BootInv

LEMMA StartDownloadInv ==
  ASSUME FailuresShow, BootInv, NEW file \in Files, NEW target \in Slot,
         NEW sec_ver \in UndeclaredSecVers \cup {SecVer[file]},
         StartDownload(file, sec_ver, target)
  PROVE  BootInv'
<1>1. PICK s \in Slot : s = current_slot
  BY DEF BootInv, TypeInv, TypeOK
<1>2. /\ pc = "running" /\ TypeInv' /\ target # s
      /\ UNCHANGED <<flash_metadata, current_metadata, current_slot, pc, reset_source,
                     stability_timer, staged_reboot, faults>>
  BY <1>1, StartDownloadType DEF StartDownload, AcceptsStart, BootInv
<1>3. /\ slots' = [slots EXCEPT ![target] = Empty] /\ slots \in [Slot -> SlotContent]
      /\ crashes' = [crashes EXCEPT ![target] = 0]
      /\ download' = [at |-> "started", file |-> file, target |-> target]
  BY DEF StartDownload, BootInv, TypeInv, TypeOK
<1>4. SecVer[file] > SecVer[slots[s].header] /\ file \in Img
  BY <1>1, BootAssumption
  DEF StartDownload, AcceptsStart, FailuresShow, CrashersAreLast, RunningImage
<1>5. HasHeader(s) /\ Bootable(s) /\ ~HoldsCrasher(s)
  <2>1. Bootable(s)
    BY <1>1, <1>2 DEF BootInv, RunningBoots
  <2>2. HasHeader(s) /\ SecVer[slots[s].header] \in Nat /\ SecVer[file] \in Nat
    BY <1>4, <2>1, SlotView, BootAssumption DEF BootInv, TypeInv
  <2>3. HoldsCrasher(s) => SecVer[file] <= SecVer[slots[s].header]
    BY DEF FailuresShow, CrashersAreLast, HoldsCrasher
  <2> QED
    BY <1>4, <2>1, <2>2, <2>3
<1>6. /\ slots'[s] = slots[s] /\ crashes'[s] = crashes[s]
      /\ (Bootable(s)' <=> Bootable(s)) /\ (HoldsCrasher(s)' <=> HoldsCrasher(s))
  BY <1>2, <1>3, SameSlot DEF BootInv, TypeInv, TypeOK
<1>7. ~HoldsCrasher(target)'
  BY <1>3, BootAssumption DEF HoldsCrasher, Empty, Crashers
<1>8. \A t \in Slot : t = s \/ t = target
  BY <1>2, SlotFacts
<1>9. CrasherHasFallback'
  BY <1>5, <1>6, <1>7, <1>8 DEF CrasherHasFallback
<1>10. RunningBoots'
  BY <1>1, <1>2, <1>5, <1>6 DEF BootInv, RunningBoots, SomethingBoots
<1>11. DownloadOfRunning'
  BY <1>1, <1>2, <1>3, <1>4, <1>5, <1>6 DEF DownloadOfRunning, RunningImage
<1>12. AttemptsInRam' /\ AttemptsInFlash'
  BY <1>1, <1>2, <1>5, <1>6 DEF BootInv, AttemptsInRam, AttemptsInFlash
<1>13. MetadataInStep' /\ RunningImageRecorded'
  BY <1>1, <1>2, <1>6 DEF BootInv, MetadataInStep, RunningImageRecorded, RunningImage
<1> QED
  BY <1>2, <1>9, <1>10, <1>11, <1>12, <1>13 DEF BootInv

LEMMA WriteDownloadInv ==
  ASSUME BootInv, WriteDownload
  PROVE  BootInv'
<1>1. PICK s \in Slot, target \in Slot : s = current_slot /\ target = download.target
  BY DEF BootInv, TypeInv, TypeOK
<1>2. /\ pc = "running" /\ TypeInv' /\ target # s /\ download.at # "none"
      /\ UNCHANGED <<flash_metadata, current_metadata, current_slot, pc, reset_source,
                     stability_timer, staged_reboot, downloads, faults, crashes>>
  BY <1>1, WriteDownloadType DEF WriteDownload, BootInv, DownloadOfRunning
<1>3. /\ Bootable(s) /\ ~HoldsCrasher(s) /\ HasHeader(s)
      /\ SecVer[download.file] > SecVer[slots[s].header]
  BY <1>1, <1>2, SlotView
  DEF BootInv, TypeInv, RunningBoots, DownloadOfRunning, RunningImage
<1>4. /\ slots'[s] = slots[s]
      /\ (Bootable(s)' <=> Bootable(s)) /\ (HoldsCrasher(s)' <=> HoldsCrasher(s))
  BY <1>1, <1>2, WriteDownloadFacts, SameSlot DEF BootInv, TypeInv
<1>5. /\ slots'[target].header \in {download.file, slots[target].header}
      /\ download'.file = download.file /\ download'.target = target
  BY <1>1, WriteDownloadFacts DEF BootInv, TypeInv
<1>6. \A t \in Slot : t = s \/ t = target
  BY <1>2, SlotFacts
<1>7. CrasherHasFallback'
  <2> SUFFICES ASSUME NEW t \in Slot, HoldsCrasher(t)'
               PROVE  /\ Bootable(OtherSlot(t))' /\ ~HoldsCrasher(OtherSlot(t))'
                      /\ SecVer[slots'[OtherSlot(t)].header] < SecVer[slots'[t].header]
    BY DEF CrasherHasFallback
  <2>1. t = target /\ OtherSlot(t) = s
    BY <1>2, <1>3, <1>4, <1>6, SlotFacts
  <2>2. SecVer[slots[s].header] < SecVer[slots'[target].header]
    <3>1. CASE slots'[target].header = download.file
      BY <1>3, <3>1, SlotView, BootAssumption DEF BootInv, TypeInv, TypeOK
    <3>2. CASE slots'[target].header = slots[target].header
      <4>1. HoldsCrasher(target)
        BY <2>1, <3>2 DEF HoldsCrasher
      <4> QED
        BY <1>3, <2>1, <3>2, <4>1 DEF BootInv, CrasherHasFallback
    <3> QED
      BY <1>5, <3>1, <3>2
  <2> QED
    BY <1>3, <1>4, <2>1, <2>2
<1>8. RunningBoots'
  BY <1>1, <1>2, <1>3, <1>4 DEF BootInv, RunningBoots, SomethingBoots
<1>9. DownloadOfRunning'
  BY <1>1, <1>2, <1>3, <1>4, <1>5 DEF DownloadOfRunning, RunningImage
<1>10. AttemptsInRam' /\ AttemptsInFlash'
  BY <1>1, <1>2, <1>3, <1>4 DEF BootInv, AttemptsInRam, AttemptsInFlash
<1>11. MetadataInStep' /\ RunningImageRecorded'
  BY <1>1, <1>2, <1>4 DEF BootInv, MetadataInStep, RunningImageRecorded, RunningImage
<1> QED
  BY <1>2, <1>7, <1>8, <1>9, <1>10, <1>11 DEF BootInv

LEMMA VerifyInv ==
  ASSUME FailuresShow, BootInv, NEW out \in WriteOutcomes, Verify(out)
  PROVE  BootInv'
<1>1. /\ pc = "running" /\ TypeInv' /\ current_slot \in Slot /\ download' = NoDownload
      /\ UNCHANGED <<slots, current_slot, pc, reset_source, stability_timer, downloads, crashes>>
      /\ ~HoldsCrasher(current_slot)
      /\ download.target \in Slot /\ download.target # current_slot
  BY VerifyType DEF Verify, BootInv, TypeInv, TypeOK, DownloadOfRunning
<1>2. \A s \in Slot : (Bootable(s)' <=> Bootable(s)) /\ (HoldsCrasher(s)' <=> HoldsCrasher(s))
  BY <1>1, SameSlot
<1>3. /\ flash_metadata' \in {NoMetadata, current_metadata'}
      /\ current_metadata' # NoMetadata
      /\ current_metadata'.crc[current_slot] = RunningImage
      /\ current_metadata'.boot_attempts <= 1
      /\ staged_reboot' => current_metadata'.boot_attempts = 0
  <2> DEFINE staged == StagedMetadata(download.target)
  <2>1. /\ current_metadata # NoMetadata /\ flash_metadata \in {NoMetadata, current_metadata}
        /\ current_metadata.crc[current_slot] = RunningImage
        /\ current_metadata.boot_attempts <= 1
        /\ staged_reboot => current_metadata.boot_attempts = 0
    BY <1>1 DEF BootInv, MetadataInStep, RunningImageRecorded, AttemptsInRam
  <2>2. /\ staged \in Metadata /\ staged # NoMetadata /\ staged.boot_attempts = 0
        /\ staged.crc[current_slot] = RunningImage
    BY <1>1, <2>1, StagedFacts, MetadataType DEF BootInv, TypeInv
  <2>3. CASE ~ValidImage(download.target)
    BY <2>1, <2>3 DEF Verify
  <2>4. CASE ValidImage(download.target) /\ out = "ok"
    <3>1. WriteMetadata(staged, out) /\ current_metadata' = staged
      BY <2>4 DEF Verify
    <3>2. flash_metadata' = staged
      BY <2>2, <2>4, <3>1, WriteFacts DEF BootInv, TypeInv
    <3> QED
      BY <2>2, <3>1, <3>2
  <2>5. CASE ValidImage(download.target) /\ out # "ok"
    <3>1. WriteMetadata(staged, out) /\ UNCHANGED <<current_metadata, staged_reboot>>
      BY <2>5 DEF Verify
    <3>2. flash_metadata' \in {NoMetadata, flash_metadata}
      <4>1. out = "lost"
        BY <2>5, BootAssumption DEF FailuresShow, WriteOutcome
      <4> QED
        BY <3>1, <4>1 DEF WriteMetadata
    <3> QED
      BY <2>1, <3>1, <3>2
  <2> QED
    BY <2>3, <2>4, <2>5
<1>4. RunningBoots'
  BY <1>1, <1>2, SameSlots DEF BootInv, RunningBoots
<1>5. DownloadOfRunning'
  BY <1>1, <1>2 DEF DownloadOfRunning, NoDownload
<1>6. AttemptsInRam' /\ AttemptsInFlash'
  BY <1>1, <1>2, <1>3 DEF AttemptsInRam, AttemptsInFlash
<1>7. MetadataInStep' /\ RunningImageRecorded'
  BY <1>1, <1>3 DEF MetadataInStep, RunningImageRecorded, RunningImage
<1> QED
  BY <1>1, <1>4, <1>5, <1>6, <1>7, SameSlots DEF BootInv

LEMMA BootInit == Init => BootInv
<1> SUFFICES ASSUME Init PROVE BootInv
  OBVIOUS
<1>1. TypeInv /\ "A" \in Slot /\ OtherSlot("A") = "B"
  BY TypeInit DEF Slot, OtherSlot
<1>2. /\ pc = "bim" /\ flash_metadata = NoMetadata /\ download.at = "none" /\ ~staged_reboot
      /\ slots["A"] = [header |-> FactoryImage, whole |-> TRUE, crcStatInvalid |-> FALSE]
      /\ slots["B"] = Empty /\ Empty.header = NoCrc
  BY DEF Init, Empty, NoDownload, Slot
<1>3. Bootable("A") /\ ~HasHeader("B")
  BY <1>2, BootAssumption DEF Bootable, HasHeader
<1>4. ~HoldsCrasher("B")
  BY <1>1, <1>3, SlotView, SlotFacts DEF TypeInv
<1>5. CrasherHasFallback
  BY <1>1, <1>3, <1>4 DEF CrasherHasFallback, Slot
<1>6. RunningBoots
  BY <1>1, <1>2, <1>3 DEF RunningBoots, SomethingBoots
<1> QED
  BY <1>1, <1>2, <1>5, <1>6
  DEF BootInv, DownloadOfRunning, MetadataInStep, RunningImageRecorded, AttemptsInRam,
      AttemptsInFlash

LEMMA BootNext ==
  ASSUME FailuresShow, BootInv, [Next]_vars
  PROVE  BootInv'
<1>1. CASE Booting
  BY <1>1, BimBootsInv, BootCheckInv, FallbackInv, InvalidateHeaderInv DEF Booting
<1>2. CASE Downloading
  BY <1>2, StartDownloadInv, WriteDownloadInv, ResetToStagedImageInv, VerifyInv DEF Downloading
<1>3. ASSUME NEW out \in WriteOutcomes, ConfirmStable(out) PROVE BootInv'
  BY <1>3, ConfirmStableInv
<1>4. CASE Crash \/ PowerLoss \/ SafeModeEnds
  BY <1>4, CrashInv, PowerLossInv
<1>5. CASE UNCHANGED vars
  <2>1. TypeInv' /\ UNCHANGED slots
    BY <1>5, TypeNext DEF BootInv, vars
  <2>2. \A s \in Slot : (Bootable(s)' <=> Bootable(s)) /\ (HoldsCrasher(s)' <=> HoldsCrasher(s))
    BY <2>1, SameSlot
  <2>3. current_slot \in Slot
    BY DEF BootInv, TypeInv, TypeOK
  <2>4. RunningBoots'
    BY <1>5, <2>1, <2>2, <2>3, SlotFacts, SameSlots DEF vars, BootInv, RunningBoots
  <2>5. DownloadOfRunning' /\ AttemptsInRam' /\ AttemptsInFlash'
    BY <1>5, <2>2, <2>3, SameSlots
    DEF vars, BootInv, DownloadOfRunning, AttemptsInRam, AttemptsInFlash, FirstBoot, RunningImage
  <2>6. MetadataInStep' /\ RunningImageRecorded'
    BY <1>5 DEF vars, BootInv, MetadataInStep, RunningImageRecorded, RunningImage
  <2> QED
    BY <2>1, <2>4, <2>5, <2>6, SameSlots DEF BootInv
<1> QED
  BY <1>1, <1>2, <1>3, <1>4, <1>5 DEF Next

LEMMA BootInvHolds == FailuresShow => (Spec => []BootInv)
<1> SUFFICES ASSUME FailuresShow PROVE Spec => []BootInv
  OBVIOUS
<1>1. BootInv /\ [Next]_vars => BootInv'
  BY BootNext
<1> QED
  BY <1>1, BootInit, PTL DEF Spec

\* The inductive invariant of the boot side.  Its parts but the types need a failed write to
\* show (FailuresShow is in IInv itself).
THEOREM BootInvariant == Spec => []IInv
<1>1. CASE FailuresShow
  <2>1. BootInv => IInv
    BY DEF BootInv, TypeInv, IInv
  <2> QED
    BY <1>1, <2>1, BootInvHolds, PTL
<1>2. CASE ~FailuresShow
  <2>1. TypeOK => IInv
    BY <1>2 DEF IInv, FailuresShow
  <2> QED
    BY <2>1, BootTypeCorrect, PTL
<1> QED
  BY <1>1, <1>2

\* Whenever power is lost, whatever it interrupts and whichever image crashes, an image is
\* left that BIM boots.
THEOREM SomethingBootsCorrect == FailuresShow => (Spec => []SomethingBoots)
<1> SUFFICES ASSUME FailuresShow PROVE Spec => []SomethingBoots
  OBVIOUS
<1>1. BootInv => SomethingBoots
  BY DEF BootInv, RunningBoots
<1> QED
  BY <1>1, BootInvHolds, PTL

\* The metadata knows the image that runs.
THEOREM RecordedCorrect == FailuresShow => (Spec => []RunningImageRecorded)
<1> SUFFICES ASSUME FailuresShow PROVE Spec => []RunningImageRecorded
  OBVIOUS
<1>1. BootInv => RunningImageRecorded
  BY DEF BootInv
<1> QED
  BY <1>1, BootInvHolds, PTL

\* Only the fallback gives up an image, the one that runs.
LEMMA GivesUpRunning ==
  ASSUME BootInv, [Next]_vars, NEW s \in Slot, slots'[s].crcStatInvalid, ~slots[s].crcStatInvalid
  PROVE  pc = "invalidate" /\ s = current_slot
<1>1. slots' # slots
  OBVIOUS
<1>2. CASE Booting
  <2>1. PICK ok \in BOOLEAN : InvalidateHeader(ok)
    BY <1>1, <1>2 DEF Booting, BimBoots, BootCheck, Fallback
  <2>2. slots' = Invalidated /\ pc = "invalidate"
    BY <1>1, <2>1 DEF InvalidateHeader
  <2> QED
    BY <2>2, InvalidatedFacts DEF BootInv, TypeInv
<1>3. CASE Downloading
  <2>1. ASSUME NEW file, NEW sec_ver, NEW target, StartDownload(file, sec_ver, target)
        PROVE  FALSE
    BY <2>1 DEF StartDownload, Empty, BootInv, TypeInv, TypeOK
  <2>2. CASE WriteDownload
    BY <2>2 DEF WriteDownload, BootInv, TypeInv, TypeOK, SlotContent
  <2> QED
    BY <1>1, <1>3, <2>1, <2>2 DEF Downloading, ResetToStagedImage, Verify
<1>4. CASE UNCHANGED vars
  BY <1>1, <1>4 DEF vars
<1> QED
  BY <1>1, <1>2, <1>3, <1>4 DEF Next, ConfirmStable, Crash, PowerLoss, SafeModeEnds

\* An image is given up only after MAX_BOOT_ATTEMPTS crashes since it was last stable: no
\* number of power losses, failed writes or resets to staged images adds up to them.
THEOREM AbandonedCorrect == FailuresShow => (Spec => AbandonedOnlyAfterCrashes)
<1> SUFFICES ASSUME FailuresShow PROVE Spec => AbandonedOnlyAfterCrashes
  OBVIOUS
<1>1. BootInv /\ [Next]_vars =>
        [\A s \in Slot : slots'[s].crcStatInvalid /\ ~slots[s].crcStatInvalid
                           => crashes[s] >= MAX_BOOT_ATTEMPTS]_vars
  BY GivesUpRunning DEF BootInv, AttemptsInRam
<1> QED
  BY <1>1, BootInvHolds, PTL DEF Spec, AbandonedOnlyAfterCrashes

\* The header of a crashing image is invalidated only if the other image can boot.
THEOREM FallbackCorrect == FailuresShow => (Spec => AbandonedOnlyForFallback)
<1> SUFFICES ASSUME FailuresShow PROVE Spec => AbandonedOnlyForFallback
  OBVIOUS
<1>1. BootInv /\ [Next]_vars =>
        [\A s \in Slot : slots'[s].crcStatInvalid /\ ~slots[s].crcStatInvalid
                           => Bootable(OtherSlot(s))]_vars
  BY GivesUpRunning DEF BootInv, RunningBoots
<1> QED
  BY <1>1, BootInvHolds, PTL DEF Spec, AbandonedOnlyForFallback

LEMMA CandidateNotUndone ==
  ASSUME BootInv, [Next]_vars, pc = "running", pc' = "running", staged_reboot,
         current_metadata.candidate_slot = OtherSlot(current_slot)
  PROVE  current_metadata'.candidate_slot = OtherSlot(current_slot)
<1>1. current_metadata \in Metadata /\ current_metadata.boot_attempts = 0
  BY DEF BootInv, TypeInv, TypeOK, MetadataInStep, AttemptsInRam
<1>2. ASSUME NEW out, Verify(out) PROVE current_metadata'.candidate_slot = OtherSlot(current_slot)
  <2>1. CASE current_metadata' = current_metadata
    BY <2>1
  <2>2. CASE current_metadata' # current_metadata
    <3>1. current_metadata' = StagedMetadata(download.target)
      BY <1>2, <2>2 DEF Verify
    <3>2. /\ download.target \in Slot /\ download.target # current_slot
          /\ current_slot \in Slot
      BY <1>2 DEF Verify, BootInv, DownloadOfRunning, TypeInv, TypeOK
    <3>3. StagedMetadata(download.target).candidate_slot = download.target
      <4> DEFINE m == IF flash_metadata = NoMetadata THEN InitFactory(current_slot, RunningImage)
                      ELSE flash_metadata
                 v == MarkVerified(m, download.target, slots[download.target].header)
      <4>1. v \in Metadata
        <5>1. m \in Metadata /\ slots[download.target].header \in Img \cup {NoCrc}
          BY <3>2, InitFactoryFacts DEF BootInv, TypeInv, TypeOK, SlotContent, RunningImage
        <5> HIDE DEF m
        <5> QED
          BY <3>2, <5>1 DEF MarkVerified, Metadata, ImageState
      <4>2. StagedMetadata(download.target) = StageVerified(v, download.target)
        BY DEF StagedMetadata
      <4> HIDE DEF v
      <4> QED
        BY <3>2, <4>1, <4>2 DEF StageVerified, Metadata
    <3> QED
      BY <3>1, <3>2, <3>3, SlotFacts
  <2> QED
    BY <2>1, <2>2
<1>3. ASSUME NEW out, ConfirmStable(out) PROVE current_metadata' = current_metadata
  BY <1>1, <1>3 DEF ConfirmStable
<1>4. CASE Booting
  BY <1>4 DEF Booting, BimBoots, BootCheck, Fallback, InvalidateHeader
<1>5. CASE Downloading
  BY <1>2, <1>5 DEF Downloading, StartDownload, WriteDownload, ResetToStagedImage, Reset
<1>6. CASE Crash \/ PowerLoss \/ SafeModeEnds
  BY <1>6 DEF Crash, PowerLoss, SafeModeEnds, Reset
<1>7. CASE UNCHANGED vars
  BY <1>7 DEF vars
<1> QED
  BY <1>3, <1>4, <1>5, <1>6, <1>7 DEF Next

\* Confirming the running image does not undo the staging of another.
THEOREM StagedKeptCorrect == FailuresShow => (Spec => StagedCandidateKept)
<1> SUFFICES ASSUME FailuresShow PROVE Spec => StagedCandidateKept
  OBVIOUS
<1>1. BootInv /\ [Next]_vars =>
        [/\ pc = "running" /\ pc' = "running" /\ staged_reboot
         /\ current_metadata.candidate_slot = OtherSlot(current_slot)
         => current_metadata'.candidate_slot = OtherSlot(current_slot)]_vars
  BY CandidateNotUndone
<1> QED
  BY <1>1, BootInvHolds, PTL DEF Spec, StagedCandidateKept
=============================================================================
