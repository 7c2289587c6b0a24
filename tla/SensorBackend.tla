---------------------------- MODULE SensorBackend ----------------------------
(***************************************************************************)
(* The storage and staging interface of a sensor node                      *)
(* (src/ota-sensor-backend.h) and its two implementations: the inactive    *)
(* internal slot (src/sensor-node-dual-onchip.c with src/ota-flash.c) and  *)
(* the external flash (src/sensor-node-offchip.c).                         *)
(*                                                                         *)
(* Every operator takes the node n, a record declared in OtaSensor.  The   *)
(* argument `ok` is the answer of the flash driver.                        *)
(***************************************************************************)
EXTENDS OtaWire

CONSTANTS Backend,       \* "dual" or "offchip"
          SectorPages,   \* pages in an erase sector: 2 dual-onchip, 1 off-chip
          SlotPages,     \* pages each download area holds
          HeaderSecVer   \* the secVer an OAD header in a cell declares, 0: no valid header

Slots == IF Backend = "dual" THEN {"A", "B"} ELSE {"offchip"}

ASSUME BackendAssumption ==
  /\ Backend \in {"dual", "offchip"}
  /\ SectorPages \in {1, 2}
  /\ SlotPages \in [Slots -> 0 .. MaxPages]
  /\ \A s \in Slots : SlotPages[s] % SectorPages = 0
  /\ HeaderSecVer \in [Cell -> Nat]

NoSector == <<NoTarget, NoPage>>
NoStage == [slot |-> NoTarget, sec_ver |-> 0]

SectorBase(p) == p - (p % SectorPages)

\* A dual-onchip node never writes to the slot it runs from.
SameSlotAccepted(n, target) == FALSE
SameSlot(n, target) == Backend = "dual" /\ target = n.current_slot

TooOld(n, sec_ver) == sec_ver # OTA_START_SEC_VER_UNKNOWN /\ sec_ver <= n.running_sec_ver

Fits(size, target) == size.pages > 0 /\ (Backend = "dual" => size.pages <= SlotPages[target])

\* What a node's policy answers to START, in the order the checks are made;
\* the last one is the erase of the first sector.
StartStatus(n, pkt, ok) ==
  IF pkt.target \notin Slots THEN "REJECTED_TARGET"
  ELSE IF TooOld(n, pkt.sec_ver) THEN "REJECTED_VERSION"
  ELSE IF ~Fits(pkt.size, pkt.target) THEN "REJECTED_TARGET"
  ELSE IF SameSlot(n, pkt.target) THEN "REJECTED_SAME_SLOT"
  ELSE IF ok THEN "ACCEPTED" ELSE "REJECTED_TARGET"

\* The dual-onchip check only knows the slot, the off-chip one only the file.
BoundsOk(n, slot, p, c) ==
  IF Backend = "dual" THEN p < SlotPages[slot]
                      ELSE c < PageLen(n.current_file_size, p)

EraseFlash(flash, slot, base) ==
  [flash EXCEPT ![slot] = [p \in Page |-> IF SectorBase(p) = base THEN ErasedPage ELSE @[p]]]

\* Only the dual-onchip helper remembers the sector it erased last.
AlreadyErasedNever(n, slot, base) == FALSE
AlreadyErased(n, slot, base) == Backend = "dual" /\ n.erased_sector_addr = <<slot, base>>

Tracked(n, slot, base) == IF Backend = "dual" THEN <<slot, base>> ELSE n.erased_sector_addr

EraseSucceeds(n, slot, base, ok) == AlreadyErased(n, slot, base) \/ ok
EraseSector(n, slot, base, ok) ==
  IF AlreadyErased(n, slot, base) \/ ~ok THEN n
  ELSE [n EXCEPT !.flash = EraseFlash(n.flash, slot, base),
                 !.erased_sector_addr = Tracked(n, slot, base)]

\* Programming clears bits; `programmed` says whether a failing driver call did it first.
WriteFlash(n, slot, p, c, data, programmed) ==
  IF programmed THEN [n EXCEPT !.flash[slot][p][c] = @ \cap data] ELSE n

\* The header check of VERIFY: only a newer image than the running one is staged.
StagedSecVer(n, slot) == HeaderSecVer[n.flash[slot][0][0]]
ValidImage(n, slot) == StagedSecVer(n, slot) > n.running_sec_ver

\* Staging replaces the metadata the boot manager reads.  The driver may refuse
\* before it touched the old metadata ("kept"), after it erased it ("lost"), or
\* answer an error for metadata that is in place ("unconfirmed").
StageOutcome == {"ok", "kept", "lost", "unconfirmed"}

Stage(n, slot, out) ==
  IF ~ValidImage(n, slot) \/ out = "kept" THEN n
  ELSE [n EXCEPT !.staged = IF out = "lost" THEN NoStage
                            ELSE [slot |-> slot, sec_ver |-> StagedSecVer(n, slot)]]
StageSucceeds(n, slot, out) == ValidImage(n, slot) /\ out = "ok"
=============================================================================
