------------------------------ MODULE OtaSensor ------------------------------
(***************************************************************************)
(* One sensor node (SensorNode) that hears a coordinator transmit a        *)
(* stream.                                                                 *)
(*                                                                         *)
(* The stream over-approximates the coordinator: while it is in its data   *)
(* phase the node may hear any DATA and PAGE_END of the image, any number  *)
(* of times, in any order; VERIFY follows the last of them; and the host   *)
(* may start another stream at any time.                                   *)
(***************************************************************************)
EXTENDS SensorNode

CONSTANTS Images,          \* the firmware files the host may send
          SecVers,         \* the secVers it may declare for them
          SentTargets,     \* the targets it may name
          LeafValues,      \* what is_leaf may be: {TRUE}, {FALSE} or BOOLEAN
          CurrentSlot,     \* the slot the node runs from ("A", "B", or none off-chip)
          RunningSecVer,   \* the secVer of the image it runs
          EraseOutcomes,   \* what the flash driver may answer to an erase, a subset of BOOLEAN
          IoOutcomes,      \* what it may answer to a read or a write
          StageOutcomes,   \* how writing the boot metadata may end
          InitialFlash,    \* what the download areas may hold at first
          MaxMissed        \* bound: STARTs in a row the node may miss

ASSUME SensorAssumption ==
  /\ Images \subseteq Image
  /\ SecVers \subseteq Nat
  /\ SentTargets \subseteq Target
  /\ LeafValues \subseteq BOOLEAN
  /\ CurrentSlot \in Target \cup {NoTarget}
  /\ RunningSecVer \in Nat
  /\ EraseOutcomes \subseteq BOOLEAN
  /\ IoOutcomes \subseteq BOOLEAN
  /\ StageOutcomes \subseteq StageOutcome
  /\ InitialFlash \subseteq [Slots -> [Page -> [Chunk -> Cell]]]
  /\ MaxMissed \in Nat

VARIABLES n,        \* the node
          is_leaf,  \* whether its routing table is empty
          stream,   \* what the coordinator transmits
          missed    \* STARTs the node has missed since the last one it heard

vars == <<n, is_leaf, stream, missed>>

-----------------------------------------------------------------------------
(***************************************************************************)
(* One node and a stream.                                                  *)
(***************************************************************************)
Stream == [phase : {"idle", "data", "verify"}, image : Images,
           target : SentTargets, sec_ver : SecVers]

Init ==
  /\ n \in {Boot(f, CurrentSlot, RunningSecVer) : f \in InitialFlash}
  /\ is_leaf \in LeafValues
  /\ stream \in {s \in Stream : s.phase = "idle"}
  /\ missed = 0

\* The host starts a stream, at any time.
NextStream(img, target, sec_ver) ==
  stream' = [phase |-> "data", image |-> img, target |-> target, sec_ver |-> sec_ver]

HearStart(img, target, sec_ver, ok) ==
  /\ ~n.reset
  /\ NextStream(img, target, sec_ver)
  /\ n' = OnStart(n, StartPkt(img.size, sec_ver, target), ok)
  /\ missed' = 0
  /\ UNCHANGED is_leaf

MissStart(img, target, sec_ver) ==
  /\ missed < MaxMissed
  /\ NextStream(img, target, sec_ver)
  /\ missed' = missed + 1
  /\ UNCHANGED <<n, is_leaf>>

HearData(p, c, erase_ok, write_ok, programmed) ==
  /\ ~n.reset /\ stream.phase = "data"
  /\ c < PageLen(stream.image.size, p)
  /\ n' = OnData(n, DataPkt(p, c, stream.image.data[p][c], stream.target),
                 erase_ok, write_ok, programmed)
  /\ UNCHANGED <<is_leaf, stream, missed>>

HearPageEnd(p, ok) ==
  /\ ~n.reset /\ stream.phase = "data"
  /\ p < stream.image.size.pages
  /\ n' = OnPageEnd(n, PageEndPkt(p, ImagePage(stream.image, p), stream.target), ok)
  /\ UNCHANGED <<is_leaf, stream, missed>>

HearVerify(out) ==
  /\ ~n.reset /\ stream.phase # "idle"
  /\ stream' = [stream EXCEPT !.phase = "verify"]
  /\ n' = OnVerify(n, VerifyPkt(ImageCrc(stream.image), stream.target), out, is_leaf)
  /\ UNCHANGED <<is_leaf, missed>>

SendReport ==
  /\ n.report_to_send # NoReport
  /\ n' = ReportSent(n)
  /\ UNCHANGED <<is_leaf, stream, missed>>

LeafStabilityExpires ==
  /\ n.leaf_stability_ctimer
  /\ n' = LeafStability(n, is_leaf)
  /\ UNCHANGED <<is_leaf, stream, missed>>

StagedRebootExpires ==
  /\ n.staged_reboot_ctimer
  /\ n' = StagedReboot(n)
  /\ UNCHANGED <<is_leaf, stream, missed>>

\* A child joins or leaves.
RouteChanges == is_leaf' \in LeafValues \ {is_leaf} /\ UNCHANGED <<n, stream, missed>>

Next ==
  \/ \E img \in Images, target \in SentTargets, sec_ver \in SecVers :
       \/ \E ok \in EraseOutcomes : HearStart(img, target, sec_ver, ok)
       \/ MissStart(img, target, sec_ver)
  \/ \E p \in Page, c \in Chunk, erase_ok \in EraseOutcomes, write_ok \in IoOutcomes,
        programmed \in BOOLEAN : HearData(p, c, erase_ok, write_ok, programmed)
  \/ \E p \in Page, ok \in IoOutcomes : HearPageEnd(p, ok)
  \/ \E out \in StageOutcomes : HearVerify(out)
  \/ SendReport \/ LeafStabilityExpires \/ StagedRebootExpires \/ RouteChanges

Spec == Init /\ [][Next]_vars

-----------------------------------------------------------------------------
(***************************************************************************)
(* Properties.                                                             *)
(***************************************************************************)
\* The node's fields stay in the ranges their C types and uses give them, and
\* an open session writes to a slot of this node's backend.
TypeOK ==
  /\ n \in Node
  /\ n.ota_session_active => n.ota_target_slot \in Slots
  /\ is_leaf \in BOOLEAN
  /\ stream \in Stream
  /\ missed \in 0 .. MaxMissed

\* The node has the session of the stream it hears.
InStep == n.ota_session_active /\ missed = 0

\* VERIFY compares a CRC that was accumulated page by page and never reads the
\* flash again (ota-sensor.c:544).  Whenever that comparison would succeed, the
\* slot holds the image, every page of it.
FlashHolds(img, slot) ==
  \A p \in 0 .. img.size.pages - 1 :
    Prefix(n.flash[slot][p], PageLen(img.size, p)) = ImagePage(img, p)

VerifyImpliesIntact ==
  InStep /\ stream.target = n.ota_target_slot /\ n.running_fw_crc = ImageCrc(stream.image)
    => FlashHolds(stream.image, n.ota_target_slot)

\* PAGE_END is repeated until every node has answered (ota-coordinator.c:185);
\* however often a node hears it, a page enters the CRC of the image at most
\* once, so the CRC never has more pages than were passed.
CrcCountsEachPageOnce ==
  InStep => Len(n.running_fw_crc) <= n.last_crc_committed_page_offset + 1

\* An open session is the session of the stream.
SessionOfStream ==
  InStep => /\ stream.phase # "idle"
            /\ n.current_file_size = stream.image.size
            /\ n.ota_target_slot = stream.target
            /\ n.page_0_erased

\* If no page was skipped, every committed page is still in the slot; the page
\* being received is never before the last committed one.
CommittedPagesInFlash ==
  InStep =>
    LET last == n.last_crc_committed_page_offset
    IN /\ last < stream.image.size.pages
       /\ stream.phase = "data" => last <= n.current_rx_page_offset
       /\ Len(n.running_fw_crc) = last + 1 =>
            \A p \in 0 .. last :
              Prefix(n.flash[n.ota_target_slot][p], PageLen(stream.image.size, p))
                = ImagePage(stream.image, p)

\* With two pages in a sector, the erased sector is the one being filled: the
\* second page of a sector must not erase the first.
ErasedSectorIsCurrent ==
  InStep /\ stream.phase = "data" /\ SectorPages = 2 =>
    n.erased_sector_addr = <<n.ota_target_slot, SectorBase(FirstPage(n.current_rx_page_offset))>>

\* The inductive invariant behind VerifyImpliesIntact.
IInv == /\ TypeOK /\ SessionOfStream /\ CrcCountsEachPageOnce
        /\ CommittedPagesInFlash /\ ErasedSectorIsCurrent

\* It needs sectors of one page, or erases that succeed: a failed erase in the
\* middle of a sector leaves the page selected and the next chunk erases nothing.
ReliableErase == SectorPages = 1 \/ (Backend = "dual" /\ FALSE \notin EraseOutcomes)

\* A set bit of the bitmap is a promise to the coordinator that the chunk is in
\* flash, and a chunk that is not set can still be programmed: its cell was
\* erased in this session (the sector rule of ota-sensor.c:394-421 with the
\* erase cache of ota-flash.c:170) and holds nothing else than its own data.
BitmapSound ==
  InStep /\ n.current_rx_page_offset # NoPage /\ stream.target = n.ota_target_slot =>
    \A c \in 0 .. PageLen(stream.image.size, n.current_rx_page_offset) - 1 :
      LET cell == n.flash[n.ota_target_slot][n.current_rx_page_offset][c]
          data == stream.image.data[n.current_rx_page_offset][c]
      IN /\ cell \in {ErasedCell, data}
         /\ c \in n.page_bitmap => cell = data

\* Whatever START names, and also when it is refused after its target was
\* already recorded (ota-sensor.c:349), no step writes the slot the node runs from.
RunningSlotUntouched ==
  [][n.current_slot \in Slots => n'.flash[n.current_slot] = n.flash[n.current_slot]]_vars

\* A report whose bitmap is full, taken while pages are sent, is taken by a
\* PAGE_END that found the page's CRC right and left the page in the image's CRC:
\* the coordinator moves on to the next page on such reports alone.
FullReport(m, size) ==
  /\ m.report_to_send # NoReport
  /\ 0 .. PageLen(size, m.report_to_send.page) - 1 \subseteq m.report_to_send.bitmap

ReportsOnlyCommittedPages ==
  [][/\ n'.report_to_send # n.report_to_send
     /\ stream'.phase = "data"
     /\ FullReport(n', stream.image.size)
     => LET p == n'.report_to_send.page
        IN /\ n'.last_crc_committed_page_offset = p
           /\ FlashPage(n', p) = ImagePage(stream.image, p)]_vars

\* "[OTA] Resetting to boot staged image" (sensor-node-offchip.c:231): when the
\* timers reset the node, some 7 s after VERIFY, the image that was staged is
\* still in the download area, whole.
ResetBootsStagedImage ==
  [][~n.reset /\ n'.reset =>
       \E img \in Images : /\ HeaderSecVer[img.data[0][0]] = n.staged.sec_ver
                           /\ FlashHolds(img, n.staged.slot)]_vars
=============================================================================
