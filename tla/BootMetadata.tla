----------------------------- MODULE BootMetadata -----------------------------
(***************************************************************************)
(* The boot metadata of a dual-onchip node (src/ota-metadata.c) as a       *)
(* record, and its operations as functions on it.  Each of them leaves     *)
(* metadata with a valid CRC; NoMetadata stands for whatever fails         *)
(* ota_metadata_crc_is_valid.  An image's crc32 identifies it; its version *)
(* and size, stored beside it, are left out.                               *)
(***************************************************************************)
EXTENDS Naturals

CONSTANT Img        \* the images, as their header's crc32 tells them apart

Slot == {"A", "B"}
NoSlot == "none"                                   \* OTA_SLOT_NONE
NoCrc == "0"
ImageState == {"EMPTY", "VERIFIED", "PENDING", "CONFIRMED", "INVALID"}
NoMetadata == [valid |-> FALSE]

Metadata == [valid : {TRUE}, active_slot : Slot, candidate_slot : Slot \cup {NoSlot},
             state : [Slot -> ImageState], crc : [Slot -> Img \cup {NoCrc}],
             boot_attempts : Nat]

OtherSlot(s) == IF s = "A" THEN "B" ELSE "A"

InitFactory(active, crc) ==
  [valid |-> TRUE, active_slot |-> active, candidate_slot |-> NoSlot,
   state |-> [s \in Slot |-> IF s = active THEN "PENDING" ELSE "EMPTY"],
   crc |-> [s \in Slot |-> IF s = active THEN crc ELSE NoCrc],
   boot_attempts |-> 0]

MarkVerified(m, s, crc) == [m EXCEPT !.crc[s] = crc, !.state[s] = "VERIFIED"]

\* Staging starts a new count of boot attempts.
StageVerifiedKeepsCount(m, s) == [m EXCEPT !.candidate_slot = s, !.state[s] = "PENDING"]
StageVerified(m, s) ==
  [m EXCEPT !.candidate_slot = s, !.state[s] = "PENDING", !.boot_attempts = 0]

ConfirmRunning(m, s) ==
  [m EXCEPT !.active_slot = s, !.candidate_slot = NoSlot, !.state[s] = "CONFIRMED",
            !.boot_attempts = 0]

IncrementNever(m) == m
IncrementBootAttempts(m) == [m EXCEPT !.boot_attempts = @ + 1]

MarkInvalid(m, s) == [m EXCEPT !.state[s] = "INVALID"]

SetCandidateNoCrc(m, s, crc) ==
  [m EXCEPT !.candidate_slot = s, !.boot_attempts = 1, !.state[s] = "PENDING"]
SetCandidate(m, s, crc) ==
  [m EXCEPT !.candidate_slot = s, !.boot_attempts = 1, !.state[s] = "PENDING", !.crc[s] = crc]

ClearSlot(m, s) == [m EXCEPT !.state[s] = "EMPTY", !.crc[s] = NoCrc]
=============================================================================
