--------------------------- MODULE SensorReceives ---------------------------
(***************************************************************************)
(* A sensor node (OtaSensor) is a PageReceiver: the mapping of its state.  *)
(***************************************************************************)
EXTENDS OtaSensor

Session == IF ~n.ota_session_active THEN "closed" ELSE IF missed = 0 THEN "open" ELSE "stray"

\* The pages of the stream's image that the download area holds.
HeldPages ==
  {p \in 0 .. stream.image.size.pages - 1 :
     Prefix(n.flash[n.ota_target_slot][p], PageLen(stream.image.size, p))
       = ImagePage(stream.image, p)}

Pages == IF InStep THEN stream.image.size.pages ELSE 0
Stored == IF InStep THEN HeldPages ELSE {}
Committed == IF InStep THEN Len(n.running_fw_crc) ELSE 0
Last == IF InStep THEN n.last_crc_committed_page_offset ELSE -1

Receiver == INSTANCE PageReceiver WITH
  Stages <- [slot : Target \cup {NoTarget}, sec_ver : Nat],
  session <- Session, pages <- Pages, stored <- Stored,
  committed <- Committed, last <- Last, staged <- n.staged

\* Whatever the node hears, and whatever its flash driver answers, it counts
\* pages that are in the slot, each once and in order, and changes the boot
\* metadata only with all of them counted (ota-sensor.c:285-331, 334-575).
ReceivesPages == Receiver!Spec
=============================================================================
