------------------------------ MODULE SensorNode ------------------------------
(***************************************************************************)
(* A sensor node (src/ota-sensor.c): its START / DATA / PAGE_END / VERIFY  *)
(* handlers, its delayed bitmap report and the timers that reboot a leaf,  *)
(* as operators on the node's record m.  OtaSensor runs one node against a *)
(* stream, OtaSystem a line of them behind the coordinator.                *)
(*                                                                         *)
(* ok, erase_ok, write_ok are the answers of the flash driver.             *)
(***************************************************************************)
EXTENDS SensorBackend

NoReport == [page |-> NoPage, bitmap |-> {}]

\* A node after reset, with the contents of its flash.
Boot(flash, slot, sec_ver) ==
  [flash |-> flash, current_slot |-> slot, running_sec_ver |-> sec_ver,
   staged |-> NoStage, erased_sector_addr |-> NoSector,
   current_file_size |-> NoFile, ota_target_slot |-> NoTarget,
   current_image_sec_ver |-> OTA_START_SEC_VER_UNKNOWN,
   ota_session_active |-> FALSE, page_0_erased |-> FALSE,
   current_rx_page_offset |-> NoPage, page_bitmap |-> {},
   running_fw_crc |-> <<>>, last_crc_committed_page_offset |-> NoPage,
   report_to_send |-> NoReport,
   leaf_stability_ctimer |-> FALSE, staged_reboot_ctimer |-> FALSE, reset |-> FALSE]

(***************************************************************************)
(* START: whatever the answer, the old session is over.                    *)
(***************************************************************************)
EndSessionKeepCrc(m, pkt) ==
  [m EXCEPT !.current_file_size = pkt.size,
            !.ota_target_slot = pkt.target,
            !.current_image_sec_ver = pkt.sec_ver,
            !.ota_session_active = FALSE,
            !.page_0_erased = FALSE,
            !.current_rx_page_offset = NoPage,
            !.page_bitmap = {},
            !.last_crc_committed_page_offset = NoPage,
            !.erased_sector_addr = NoSector]

EndSession(m, pkt) ==
  [m EXCEPT !.current_file_size = pkt.size,
            !.ota_target_slot = pkt.target,
            !.current_image_sec_ver = pkt.sec_ver,
            !.ota_session_active = FALSE,
            !.page_0_erased = FALSE,
            !.current_rx_page_offset = NoPage,
            !.page_bitmap = {},
            !.running_fw_crc = <<>>,
            !.last_crc_committed_page_offset = NoPage,
            !.erased_sector_addr = NoSector]

OnStartKeepsSession(m, pkt, ok) ==
  IF StartStatus(m, pkt, ok) # "ACCEPTED"
  THEN [m EXCEPT !.current_file_size = pkt.size, !.ota_target_slot = pkt.target]
  ELSE [EraseSector(EndSession(m, pkt), pkt.target, 0, ok)
          EXCEPT !.page_0_erased = TRUE, !.ota_session_active = TRUE]

OnStart(m, pkt, ok) ==
  IF StartStatus(m, pkt, ok) # "ACCEPTED"
  THEN EndSession(m, pkt)
  ELSE [EraseSector(EndSession(m, pkt), pkt.target, 0, ok)
          EXCEPT !.page_0_erased = TRUE, !.ota_session_active = TRUE]

(***************************************************************************)
(* DATA: the first chunk of a later page selects the page and erases its   *)
(* sector; a chunk of an older page is ignored.                            *)
(***************************************************************************)
InSession(m, pkt) == m.ota_session_active /\ pkt.target = m.ota_target_slot

SelectsPage(m, pkt) == pkt.page > m.current_rx_page_offset

\* Page 0 was erased by START; every other page needs its sector erased.
NeedsErase(m, pkt) ==
  ~(m.current_rx_page_offset = NoPage /\ pkt.page = 0 /\ m.page_0_erased)

SelectPage(m, pkt, ok) ==
  LET chosen == [m EXCEPT !.current_rx_page_offset = pkt.page, !.page_bitmap = {}]
  IN IF ~NeedsErase(m, pkt) THEN chosen
     ELSE [EraseSector(chosen, m.ota_target_slot, SectorBase(pkt.page), ok)
             EXCEPT !.page_0_erased = m.page_0_erased \/ (pkt.page = 0 /\ ok)]

PageSelected(m, pkt, ok) ==
  SelectsPage(m, pkt) /\ NeedsErase(m, pkt)
    => EraseSucceeds(m, m.ota_target_slot, SectorBase(pkt.page), ok)

\* The chunk's bit is set only once its write succeeded.
StoreChunkAlways(m, pkt, ok, programmed) ==
  IF pkt.chunk \in m.page_bitmap THEN m
  ELSE [WriteFlash(m, m.ota_target_slot, pkt.page, pkt.chunk, pkt.data, ok \/ programmed)
          EXCEPT !.page_bitmap = @ \cup {pkt.chunk}]

StoreChunk(m, pkt, ok, programmed) ==
  IF pkt.chunk \in m.page_bitmap THEN m
  ELSE [WriteFlash(m, m.ota_target_slot, pkt.page, pkt.chunk, pkt.data, ok \/ programmed)
          EXCEPT !.page_bitmap = IF ok THEN @ \cup {pkt.chunk} ELSE @]

OnData(m, pkt, erase_ok, write_ok, programmed) ==
  IF \/ ~InSession(m, pkt)
     \/ ~BoundsOk(m, m.ota_target_slot, pkt.page, pkt.chunk)
     \/ pkt.page < m.current_rx_page_offset
  THEN m
  ELSE LET selected == IF SelectsPage(m, pkt) THEN SelectPage(m, pkt, erase_ok) ELSE m
       IN IF PageSelected(m, pkt, erase_ok)
          THEN StoreChunk(selected, pkt, write_ok, programmed)
          ELSE selected

(***************************************************************************)
(* PAGE_END: reread the page from flash; a matching CRC commits it, once,  *)
(* to the CRC of the image; a mismatch asks for the whole page again.      *)
(***************************************************************************)
FlashPage(m, p) ==
  Prefix(m.flash[m.ota_target_slot][p], PageLen(m.current_file_size, p))

CommitAlways(m) ==
  LET p == m.current_rx_page_offset
  IN [m EXCEPT !.running_fw_crc = Append(@, FlashPage(m, p)),
               !.last_crc_committed_page_offset = p]

Commit(m) ==
  LET p == m.current_rx_page_offset
  IN IF m.last_crc_committed_page_offset = p THEN m
     ELSE [m EXCEPT !.running_fw_crc = Append(@, FlashPage(m, p)),
                    !.last_crc_committed_page_offset = p]

\* The report is a snapshot; it leaves when report_ctimer fires.
SendPageReport(m) ==
  IF m.current_rx_page_offset = NoPage THEN m
  ELSE [m EXCEPT !.report_to_send = [page |-> m.current_rx_page_offset,
                                     bitmap |-> m.page_bitmap]]

\* A page the node's own file does not have is never read back as the page
\* PAGE_END describes: page_len is then 0, or wraps to a length of its own.
PageMatches(m, pkt, ok) ==
  /\ ok
  /\ PageLen(m.current_file_size, pkt.page) > 0
  /\ FlashPage(m, pkt.page) = pkt.crc

OnPageEndKeepBitmap(m, pkt, ok) ==
  IF ~InSession(m, pkt) \/ pkt.page # m.current_rx_page_offset THEN m
  ELSE SendPageReport(IF PageMatches(m, pkt, ok) THEN Commit(m) ELSE m)

OnPageEndOnce(m, pkt, ok) ==
  IF ~InSession(m, pkt) \/ pkt.page # m.current_rx_page_offset
       \/ m.last_crc_committed_page_offset = pkt.page THEN m
  ELSE SendPageReport(IF PageMatches(m, pkt, ok) THEN Commit(m)
                      ELSE [m EXCEPT !.page_bitmap = {}])

OnPageEnd(m, pkt, ok) ==
  IF ~InSession(m, pkt) \/ pkt.page # m.current_rx_page_offset THEN m
  ELSE SendPageReport(IF PageMatches(m, pkt, ok) THEN Commit(m)
                      ELSE [m EXCEPT !.page_bitmap = {}])

(***************************************************************************)
(* VERIFY: compare the CRC accumulated at the PAGE_ENDs, then stage.  A    *)
(* mismatch leaves the session open.                                       *)
(***************************************************************************)
VerifyMatchesAlways(m, pkt) == TRUE
VerifyMatches(m, pkt) == m.running_fw_crc = pkt.crc

OnVerify(m, pkt, out, leaf) ==
  IF ~InSession(m, pkt) THEN m
  ELSE LET r == [SendPageReport(m) EXCEPT !.current_rx_page_offset = NoPage]
       IN IF ~VerifyMatches(m, pkt) THEN r
          ELSE [Stage(r, m.ota_target_slot, out) EXCEPT
                  !.ota_session_active = FALSE,
                  !.leaf_stability_ctimer =
                     @ \/ (leaf /\ StageSucceeds(r, m.ota_target_slot, out))]

(***************************************************************************)
(* The timers: the delayed report, and the reboot of a leaf that stayed a  *)
(* leaf.  The reset hands over to the boot manager; the node is deaf then. *)
(***************************************************************************)
ReportSent(m) == [m EXCEPT !.report_to_send = NoReport]

LeafStability(m, leaf) ==
  [m EXCEPT !.leaf_stability_ctimer = FALSE, !.staged_reboot_ctimer = @ \/ leaf]

StagedReboot(m) ==
  [Boot(m.flash, m.current_slot, m.running_sec_ver) EXCEPT
     !.staged = m.staged, !.reset = TRUE]

-----------------------------------------------------------------------------
\* The page a node without a page is about to receive.
FirstPage(p) == IF p = NoPage THEN 0 ELSE p

Node ==
  [flash : [Slots -> [Page -> [Chunk -> Cell]]],
   current_slot : Target \cup {NoTarget}, running_sec_ver : Nat,
   staged : [slot : Target \cup {NoTarget}, sec_ver : Nat],
   erased_sector_addr : (Target \cup {NoTarget}) \X (Page \cup {NoPage}),
   current_file_size : Size, ota_target_slot : Target \cup {NoTarget},
   current_image_sec_ver : Nat, ota_session_active : BOOLEAN, page_0_erased : BOOLEAN,
   current_rx_page_offset : Page \cup {NoPage}, page_bitmap : SUBSET Chunk,
   running_fw_crc : Seq(PageContent),
   last_crc_committed_page_offset : Page \cup {NoPage},
   report_to_send : [page : Page \cup {NoPage}, bitmap : SUBSET Chunk],
   leaf_stability_ctimer : BOOLEAN, staged_reboot_ctimer : BOOLEAN, reset : BOOLEAN]
=============================================================================
