---------------------------- MODULE DualOnchipBoot ----------------------------
(***************************************************************************)
(* The boot side of a dual-onchip node (src/sensor-node-dual-onchip.c,     *)
(* src/ota-flash.c): which image it runs, what it writes to the boot       *)
(* metadata and to the image headers, and when.  Power may be lost between *)
(* any two flash operations.                                               *)
(*                                                                         *)
(* The download is reduced to what the next boot can tell apart: the       *)
(* target's first sector erased, its header written, all of it written.    *)
(* The boot image manager (BIM) is not part of the repository: it boots,   *)
(* of the slots with a whole image whose header is not marked invalid, the *)
(* one with the highest secVer.                                            *)
(***************************************************************************)
EXTENDS BootMetadata

CONSTANTS SecVer,             \* of each image
          HomeSlot,           \* the slot each image is linked for
          FactoryImage,       \* what slot A holds at first
          Files,              \* the images the host may send
          UndeclaredSecVers,  \* {0} if it may leave out the secVer, else {}
          CrashLoopers,       \* images that always crash before the stability window passes
          Unstable,           \* images that may crash at any time
          WriteOutcomes,      \* how a metadata write may end, a subset of WriteOutcome
          MaxDownloads,       \* bound: STARTs accepted
          MaxFaults           \* bound: power losses and failed flash operations

WriteOutcome == {"ok", "kept", "lost"}
MAX_BOOT_ATTEMPTS == 3

ASSUME BootAssumption ==
  /\ NoCrc \notin Img
  /\ SecVer \in [Img -> Nat \ {0}] /\ HomeSlot \in [Img -> Slot]
  /\ FactoryImage \in Img /\ HomeSlot[FactoryImage] = "A"
  /\ Files \subseteq Img
  /\ UndeclaredSecVers \subseteq {0}
  /\ CrashLoopers \subseteq Img /\ Unstable \subseteq Img
  /\ WriteOutcomes \subseteq WriteOutcome /\ "ok" \in WriteOutcomes
  /\ MaxDownloads \in Nat /\ MaxFaults \in Nat

VARIABLES slots,             \* what each slot holds
          flash_metadata,    \* the metadata page
          current_metadata,  \* its copy in RAM
          current_slot,      \* the slot the node runs from
          pc,                \* "bim", "boot", "fallback", "invalidate", "running", "safe", "dead"
          reset_source,      \* of the last reset: "power" or "other"
          stability_timer,   \* the window is open
          download,          \* the OTA session
          staged_reboot,     \* the reset to the staged image is pending
          downloads, faults,
          crashes            \* abnormal resets out of each slot since its image was last stable

vars == <<slots, flash_metadata, current_metadata, current_slot, pc, reset_source,
          stability_timer, download, staged_reboot, downloads, faults, crashes>>

Empty == [header |-> NoCrc, whole |-> FALSE, crcStatInvalid |-> FALSE]
SlotContent == [header : Img \cup {NoCrc}, whole : BOOLEAN, crcStatInvalid : BOOLEAN]
NoDownload == [at |-> "none", file |-> FactoryImage, target |-> "A"]

HasHeader(s) == slots[s].header # NoCrc            \* the OAD id is there
RunningImage == slots[current_slot].header

Init ==
  /\ slots = [s \in Slot |-> IF s = "A" THEN [Empty EXCEPT !.header = FactoryImage, !.whole = TRUE]
                             ELSE Empty]
  /\ flash_metadata = NoMetadata /\ current_metadata = NoMetadata
  /\ current_slot = "A"
  /\ pc = "bim" /\ reset_source = "power"
  /\ stability_timer = FALSE
  /\ download = NoDownload /\ staged_reboot = FALSE
  /\ downloads = 0 /\ faults = 0
  /\ crashes = [s \in Slot |-> 0]

-----------------------------------------------------------------------------
(***************************************************************************)
(* Resets.  RAM is lost.                                                   *)
(***************************************************************************)
Reset(source) ==
  /\ pc' = "bim"
  /\ reset_source' = source
  /\ current_metadata' = NoMetadata
  /\ stability_timer' = FALSE
  /\ download' = NoDownload /\ staged_reboot' = FALSE

PowerLoss ==
  /\ pc # "dead" /\ faults < MaxFaults
  /\ faults' = faults + 1
  /\ Reset("power")
  /\ UNCHANGED <<slots, flash_metadata, current_slot, downloads, crashes>>

\* Crashes are counted as far as the properties need them.
CountCrash ==
  crashes' = [crashes EXCEPT ![current_slot] = IF @ > MAX_BOOT_ATTEMPTS THEN @ ELSE @ + 1]

\* A crash-looper crashes before the window passes, an unstable image at any time.
Crash ==
  /\ pc = "running"
  /\ RunningImage \in CrashLoopers \cup Unstable
  /\ Reset("other") /\ CountCrash
  /\ UNCHANGED <<slots, flash_metadata, current_slot, downloads, faults>>

\* Whatever ends the busy loop of safe mode, a watchdog for one, is no power-on.
SafeModeEnds ==
  /\ pc = "safe"
  /\ current_metadata.boot_attempts <= MAX_BOOT_ATTEMPTS + 1
  /\ Reset("other") /\ CountCrash
  /\ UNCHANGED <<slots, flash_metadata, current_slot, downloads, faults>>

Bootable(s) ==
  /\ HasHeader(s) /\ slots[s].whole /\ ~slots[s].crcStatInvalid
  /\ HomeSlot[slots[s].header] = s

BimBoots ==
  /\ pc = "bim"
  /\ \/ \E s \in Slot :
          /\ Bootable(s)
          /\ Bootable(OtherSlot(s)) =>
               SecVer[slots[s].header] >= SecVer[slots[OtherSlot(s)].header]
          /\ current_slot' = s
          /\ pc' = "boot"
     \/ /\ \A s \in Slot : ~Bootable(s)
        /\ pc' = "dead" /\ UNCHANGED current_slot
  /\ UNCHANGED <<slots, flash_metadata, current_metadata, reset_source, stability_timer,
                 download, staged_reboot, downloads, faults, crashes>>

(***************************************************************************)
(* Persisting metadata: erase, then program, unless it is there already.   *)
(***************************************************************************)
WriteMetadata(m, out) ==
  IF flash_metadata = m THEN UNCHANGED <<flash_metadata, faults>>
  ELSE /\ out # "ok" => faults < MaxFaults
       /\ faults' = IF out = "ok" THEN faults ELSE faults + 1
       /\ flash_metadata' = CASE out = "ok"   -> m
                              [] out = "kept" -> flash_metadata
                              [] out = "lost" -> NoMetadata

Persisted(m, out) == out = "ok" \/ flash_metadata = m

(***************************************************************************)
(* ota_sensor_boot_check                                                   *)
(***************************************************************************)
NewImage(m) ==
  \/ current_slot \notin {m.active_slot, m.candidate_slot}
  \/ RunningImage # m.crc[current_slot]

AbnormalAlways == TRUE
Abnormal == reset_source # "power"

RunningChecked(m) ==
  IF NewImage(m) THEN SetCandidate(m, current_slot, RunningImage)
  ELSE IF Abnormal THEN IncrementBootAttempts(m)
  ELSE m

ShadowChecked(m) ==
  LET shadow == OtherSlot(current_slot)
  IN IF HasHeader(shadow) /\ slots[shadow].header # m.crc[shadow] THEN ClearSlot(m, shadow) ELSE m

CheckedMetadata ==
  IF flash_metadata = NoMetadata THEN InitFactory(current_slot, RunningImage)
  ELSE ShadowChecked(RunningChecked(flash_metadata))

TooManyAttemptsLate(m) == m.boot_attempts > MAX_BOOT_ATTEMPTS + 1
TooManyAttempts(m) == m.boot_attempts > MAX_BOOT_ATTEMPTS

BootCheck(out) ==
  /\ pc = "boot"
  /\ current_metadata' = CheckedMetadata
  /\ WriteMetadata(current_metadata', out)
  /\ IF TooManyAttempts(current_metadata')
     THEN pc' = "fallback" /\ UNCHANGED stability_timer
     ELSE pc' = "running" /\ stability_timer' = TRUE
  /\ UNCHANGED <<slots, current_slot, reset_source, download, staged_reboot, downloads, crashes>>

\* The fallback slot needs an OAD id, and must not have been marked invalid.
FallbackRefused ==
  LET fallback == OtherSlot(current_slot)
  IN current_metadata.state[fallback] = "INVALID" \/ ~HasHeader(fallback)

Fallback(out) ==
  /\ pc = "fallback"
  /\ IF FallbackRefused
     THEN pc' = "safe" /\ UNCHANGED <<current_metadata, flash_metadata, faults>>
     ELSE /\ current_metadata' = ConfirmRunning(MarkInvalid(current_metadata, current_slot),
                                                OtherSlot(current_slot))
          /\ WriteMetadata(current_metadata', out)
          /\ pc' = "invalidate"
  /\ UNCHANGED <<slots, current_slot, reset_source, stability_timer, download, staged_reboot,
                 downloads, crashes>>

Invalidated == [slots EXCEPT ![current_slot].crcStatInvalid = TRUE]

InvalidateHeader(ok) ==
  /\ pc = "invalidate"
  /\ IF ok THEN slots' = Invalidated /\ Reset("other") /\ UNCHANGED faults
     ELSE /\ faults < MaxFaults /\ faults' = faults + 1
          /\ pc' = "safe"
          /\ UNCHANGED <<slots, reset_source, current_metadata, stability_timer, download,
                         staged_reboot>>
  /\ UNCHANGED <<flash_metadata, current_slot, downloads, crashes>>

(***************************************************************************)
(* ota_sensor_confirm_stable, 30 s after boot.  The image is stable then,  *)
(* whether or not there is an attempt to confirm.                          *)
(***************************************************************************)
ConfirmStable(out) ==
  /\ pc = "running" /\ stability_timer
  /\ RunningImage \notin CrashLoopers
  /\ stability_timer' = FALSE
  /\ crashes' = [crashes EXCEPT ![current_slot] = 0]
  /\ IF current_metadata.boot_attempts > 0
     THEN /\ current_metadata' = ConfirmRunning(current_metadata, current_slot)
          /\ WriteMetadata(current_metadata', out)
     ELSE UNCHANGED <<current_metadata, flash_metadata, faults>>
  /\ UNCHANGED <<slots, current_slot, pc, reset_source, download, staged_reboot, downloads>>

(***************************************************************************)
(* The download.                                                           *)
(***************************************************************************)
AcceptsStartAnySlot(sec_ver, target) == sec_ver # 0 => sec_ver > SecVer[RunningImage]
AcceptsStart(sec_ver, target) ==
  /\ sec_ver # 0 => sec_ver > SecVer[RunningImage]
  /\ target # current_slot

StartDownload(file, sec_ver, target) ==
  /\ pc = "running" /\ downloads < MaxDownloads
  /\ AcceptsStart(sec_ver, target)
  /\ downloads' = downloads + 1
  /\ slots' = [slots EXCEPT ![target] = Empty]
  /\ crashes' = [crashes EXCEPT ![target] = 0]
  /\ download' = [at |-> "started", file |-> file, target |-> target]
  /\ UNCHANGED <<flash_metadata, current_metadata, current_slot, pc, reset_source,
                 stability_timer, staged_reboot, faults>>

\* Page 0 is written, later the rest.
WriteDownload ==
  /\ pc = "running" /\ download.at \in {"started", "header"}
  /\ IF download.at = "started"
     THEN /\ slots' = [slots EXCEPT ![download.target].header = download.file]
          /\ download' = [download EXCEPT !.at = "header"]
     ELSE /\ slots' = [slots EXCEPT ![download.target].whole = TRUE]
          /\ download' = [download EXCEPT !.at = "whole"]
  /\ UNCHANGED <<flash_metadata, current_metadata, current_slot, pc, reset_source,
                 stability_timer, staged_reboot, downloads, faults, crashes>>

\* VERIFY: the header's secVer and address range, then the metadata as flash has it.
ValidImage(s) ==
  /\ SecVer[slots[s].header] > SecVer[RunningImage]
  /\ HomeSlot[slots[s].header] = s

StagedMetadata(s) ==
  LET m == IF flash_metadata = NoMetadata THEN InitFactory(current_slot, RunningImage)
           ELSE flash_metadata
  IN StageVerified(MarkVerified(m, s, slots[s].header), s)

Verify(out) ==
  /\ pc = "running" /\ download.at = "whole"
  /\ download' = NoDownload
  /\ IF ValidImage(download.target)
     THEN /\ WriteMetadata(StagedMetadata(download.target), out)
          /\ IF out = "ok"
             THEN /\ current_metadata' = StagedMetadata(download.target)
                  /\ staged_reboot' \in {staged_reboot, TRUE}      \* TRUE on a leaf
             ELSE UNCHANGED <<current_metadata, staged_reboot>>
     ELSE UNCHANGED <<current_metadata, flash_metadata, staged_reboot, faults>>
  /\ UNCHANGED <<slots, current_slot, pc, reset_source, stability_timer, downloads, crashes>>

\* The leaf's timers expire.
ResetToStagedImage ==
  /\ pc = "running" /\ staged_reboot
  /\ Reset("other") /\ CountCrash
  /\ UNCHANGED <<slots, flash_metadata, current_slot, downloads, faults>>

-----------------------------------------------------------------------------
Booting ==
  \/ BimBoots
  \/ \E out \in WriteOutcomes : BootCheck(out) \/ Fallback(out)
  \/ \E ok \in BOOLEAN : InvalidateHeader(ok)

Downloading ==
  \/ \E file \in Files, target \in Slot : \E sec_ver \in UndeclaredSecVers \cup {SecVer[file]} :
       StartDownload(file, sec_ver, target)
  \/ WriteDownload \/ ResetToStagedImage
  \/ \E out \in WriteOutcomes : Verify(out)

Next ==
  \/ Booting \/ Downloading
  \/ \E out \in WriteOutcomes : ConfirmStable(out)
  \/ Crash \/ PowerLoss \/ SafeModeEnds

Spec == Init /\ [][Next]_vars

\* The node boots when it has power, and a crash-looper crashes.
Fairness == WF_vars(Booting) /\ WF_vars(RunningImage \in CrashLoopers /\ Crash)

FairSpec == Spec /\ Fairness

-----------------------------------------------------------------------------
(***************************************************************************)
(* Properties.                                                             *)
(***************************************************************************)
\* The variables stay in their ranges; an image that runs has not used up its
\* boot attempts.
TypeOK ==
  /\ slots \in [Slot -> SlotContent]
  /\ flash_metadata \in Metadata \cup {NoMetadata}
  /\ current_metadata \in Metadata \cup {NoMetadata}
  /\ current_slot \in Slot
  /\ pc \in {"bim", "boot", "fallback", "invalidate", "running", "safe", "dead"}
  /\ reset_source \in {"power", "other"} /\ stability_timer \in BOOLEAN
  /\ download \in [at : {"none", "started", "header", "whole"}, file : Img, target : Slot]
  /\ staged_reboot \in BOOLEAN
  /\ downloads \in 0 .. MaxDownloads /\ faults \in 0 .. MaxFaults
  /\ crashes \in [Slot -> 0 .. MAX_BOOT_ATTEMPTS + 1]
  /\ pc = "running" => current_metadata.boot_attempts <= MAX_BOOT_ATTEMPTS

\* Whenever power is lost, and whatever it interrupts, an image is left that BIM
\* can boot.
SomethingBoots == \E s \in Slot : Bootable(s)

\* While an image runs, the metadata knows it: a running image whose crc32 was
\* lost would be taken for a new one at every boot and its attempts never add up.
RunningImageRecorded ==
  pc \in {"running", "fallback"} => current_metadata.crc[current_slot] = RunningImage

\* An image is abandoned for crashing, never for losing power, and never with
\* fewer crashes than MAX_BOOT_ATTEMPTS since it was last stable.
AbandonedOnlyAfterCrashes ==
  [][\A s \in Slot : slots'[s].crcStatInvalid /\ ~slots[s].crcStatInvalid
                       => crashes[s] >= MAX_BOOT_ATTEMPTS]_vars

\* The stability window of the running image may pass after another image was
\* staged; confirming the one does not undo the staging of the other before the
\* reset that goes with it.
StagedCandidateKept ==
  [][/\ pc = "running" /\ pc' = "running" /\ staged_reboot
     /\ current_metadata.candidate_slot = OtherSlot(current_slot)
     => current_metadata'.candidate_slot = OtherSlot(current_slot)]_vars

\* "No valid fallback image. Staying in safe mode." (sensor-node-dual-onchip.c:329):
\* the header of the crashing image is invalidated only if another image can boot.
AbandonedOnlyForFallback ==
  [][\A s \in Slot : slots'[s].crcStatInvalid /\ ~slots[s].crcStatInvalid
                       => Bootable(OtherSlot(s))]_vars

(***************************************************************************)
(* The inductive invariant, when every metadata write shows its failure,   *)
(* and no update is accepted over an image that may crash.                 *)
(***************************************************************************)
Crashers == CrashLoopers \cup Unstable
HoldsCrasher(s) == slots[s].header \in Crashers
CrasherBootable == \E s \in Slot : Bootable(s) /\ HoldsCrasher(s)

CrashersAreLast ==
  /\ UndeclaredSecVers = {}
  /\ \A i \in Crashers, file \in Files : SecVer[file] <= SecVer[i]

\* The download is one of a running image that does not crash, into the other slot.
DownloadOfRunning ==
  /\ download.at # "none" \/ staged_reboot => pc = "running" /\ ~HoldsCrasher(current_slot)
  /\ download.at # "none" =>
       download.target # current_slot /\ SecVer[download.file] > SecVer[RunningImage]

\* Beside an image that may crash there is an older one that boots, or nothing.
CrasherHasFallback ==
  \A s \in Slot : HoldsCrasher(s) /\ HasHeader(OtherSlot(s)) =>
    /\ Bootable(OtherSlot(s)) /\ ~HoldsCrasher(OtherSlot(s))
    /\ SecVer[slots[OtherSlot(s)].header] < SecVer[slots[s].header]

\* The slot the node runs from boots; only an image that crashes is given up, for one
\* that boots; another image runs only where no such image boots.
RunningBoots ==
  /\ pc # "dead" /\ SomethingBoots
  /\ pc # "bim" => Bootable(current_slot)
  /\ pc \in {"fallback", "invalidate", "safe"} => HoldsCrasher(current_slot)
  /\ pc = "invalidate" => Bootable(OtherSlot(current_slot))
  /\ pc = "boot" /\ ~HoldsCrasher(current_slot) => ~CrasherBootable

\* Metadata in flash is the copy in RAM, or lost.
MetadataInStep ==
  pc \in {"fallback", "invalidate", "running", "safe"} =>
    current_metadata # NoMetadata /\ flash_metadata \in {NoMetadata, current_metadata}

\* Boot attempts are crashes: at most one of them is the first boot, or the reset to
\* a staged image.
AttemptsInRam ==
  /\ pc = "running" /\ ~HoldsCrasher(current_slot) => current_metadata.boot_attempts <= 1
  /\ staged_reboot => current_metadata.boot_attempts = 0
  /\ pc \in {"fallback", "running", "safe"} /\ HoldsCrasher(current_slot) =>
       current_metadata.boot_attempts <= crashes[current_slot] + 1
  /\ pc = "fallback" => current_metadata.boot_attempts > MAX_BOOT_ATTEMPTS
  /\ pc = "invalidate" =>
       current_metadata.boot_attempts = 0 /\ crashes[current_slot] >= MAX_BOOT_ATTEMPTS

FirstBoot == IF reset_source = "power" THEN 1 ELSE 0
AttemptsInFlash ==
  pc \in {"bim", "boot"} /\ flash_metadata # NoMetadata =>
    /\ ~CrasherBootable => flash_metadata.boot_attempts <= FirstBoot
    /\ \A s \in Slot : Bootable(s) /\ HoldsCrasher(s) =>
         flash_metadata.boot_attempts <= crashes[s] + FirstBoot

IInv ==
  /\ TypeOK
  /\ "kept" \notin WriteOutcomes /\ CrashersAreLast =>
       /\ DownloadOfRunning /\ CrasherHasFallback /\ RunningBoots
       /\ MetadataInStep /\ RunningImageRecorded /\ AttemptsInRam /\ AttemptsInFlash

\* A crash loop ends: in another image or in safe mode.
CrashLoopEnds ==
  \A i \in CrashLoopers :
    pc = "running" /\ RunningImage = i
      ~> pc \in {"safe", "dead"} \/ (pc = "running" /\ RunningImage # i)
=============================================================================
