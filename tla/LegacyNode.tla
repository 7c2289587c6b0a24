------------------------------ MODULE LegacyNode ------------------------------
(***************************************************************************)
(* The sensor node of the builds without a boot manager                    *)
(* (src/sensor-node-legacy.c), as operators on the node's record m.  It    *)
(* knows no session and no target, erases and writes the external flash    *)
(* without looking at the driver's answer, and stages nothing: VERIFY only *)
(* prints how the comparison of the CRCs ended.                            *)
(*                                                                         *)
(* The legacy senders count 7 bytes of header, fw_packet_t has 8: the last *)
(* byte of a chunk is not sent, and the receiver takes what lies behind    *)
(* the packet in its buffer.                                               *)
(***************************************************************************)
EXTENDS OtaWire

CONSTANT LastByte      \* the bits of a chunk that are in its last byte

ASSUME LastByteAssumption == LastByte \subseteq Bit

NoReport == [page |-> NoPage, bitmap |-> {}]

\* A node after reset.
Boot(flash) ==
  [flash |-> flash, current_file_size |-> NoFile, running_fw_crc |-> <<>>,
   current_rx_page_offset |-> NoPage, page_bitmap |-> {}, page_0_erased |-> FALSE,
   report_to_send |-> NoReport, verified |-> "no"]

\* What arrives of a chunk, with `stale` behind the packet.
Received(data, stale) == (data \ LastByte) \cup stale

\* Erased if the flash can be opened and the driver does it.
ErasePage(m, p, ok) == IF ok THEN [m EXCEPT !.flash[p] = ErasedPage] ELSE m

(***************************************************************************)
(* START.  `opened`: the flash could be opened; `ok`: the erase was done.  *)
(***************************************************************************)
OnStart(m, pkt, opened, ok) ==
  ErasePage([m EXCEPT !.current_file_size = pkt.size, !.running_fw_crc = <<>>,
                      !.current_rx_page_offset = NoPage, !.page_bitmap = {},
                      !.page_0_erased = opened],
            0, opened /\ ok)

(***************************************************************************)
(* DATA: the first chunk of a later page selects it; an older page is      *)
(* ignored, and not passed on either.                                      *)
(***************************************************************************)
OlderPage(m, pkt) == pkt.page < m.current_rx_page_offset

\* Page 0 was erased by START, unless that START was missed or found no flash.
SelectPageAgain(m, p, opened, ok) ==
  [m EXCEPT !.current_rx_page_offset = p, !.page_bitmap = {}]

SelectPage(m, p, opened, ok) ==
  LET chosen == [m EXCEPT !.current_rx_page_offset = p, !.page_bitmap = {}]
  IN IF m.current_rx_page_offset = NoPage /\ p = 0
     THEN IF m.page_0_erased THEN chosen
          ELSE ErasePage([chosen EXCEPT !.page_0_erased = opened], 0, opened /\ ok)
     ELSE ErasePage(chosen, p, opened /\ ok)

\* The chunk's bit is set before the write, whose answer nobody reads.
StoreChunk(m, pkt, data, ok) ==
  IF pkt.chunk \in m.page_bitmap THEN m
  ELSE [m EXCEPT !.page_bitmap = @ \cup {pkt.chunk},
                 !.flash[pkt.page][pkt.chunk] = IF ok THEN @ \cap data ELSE @]

\* `erased`, `written`: how the erase and the write of the handler ended.
OnData(m, pkt, stale, opened, erased, written) ==
  IF OlderPage(m, pkt) THEN m
  ELSE StoreChunk(IF pkt.page = m.current_rx_page_offset THEN m
                  ELSE SelectPage(m, pkt.page, opened, erased),
                  pkt, Received(pkt.data, stale), written)

(***************************************************************************)
(* PAGE_END selects a page none of whose chunks arrived, without erasing   *)
(* it.  A page that matches enters the CRC of the image each time.         *)
(***************************************************************************)
Selects(m, pkt) ==
  IF m.current_rx_page_offset = NoPage THEN pkt.page = 0
  ELSE pkt.page > m.current_rx_page_offset

FlashPage(m, p) == Prefix(m.flash[p], PageLen(m.current_file_size, p))

Reported(m) ==
  [m EXCEPT !.report_to_send = [page |-> m.current_rx_page_offset, bitmap |-> m.page_bitmap]]

\* A page past the end of the node's file is never read as the page PAGE_END describes.
PageMatches(m, pkt, opened) ==
  opened /\ PageLen(m.current_file_size, pkt.page) > 0 /\ FlashPage(m, pkt.page) = pkt.crc

CheckPageTrusting(m, pkt, opened) ==
  Reported([m EXCEPT !.running_fw_crc = Append(@, FlashPage(m, pkt.page))])

CheckPage(m, pkt, opened) ==
  Reported(IF PageMatches(m, pkt, opened)
           THEN [m EXCEPT !.running_fw_crc = Append(@, FlashPage(m, pkt.page))]
           ELSE [m EXCEPT !.page_bitmap = {}])

OnPageEnd(m, pkt, opened) ==
  IF pkt.page = m.current_rx_page_offset THEN CheckPage(m, pkt, opened)
  ELSE IF Selects(m, pkt)
  THEN CheckPage([m EXCEPT !.current_rx_page_offset = pkt.page, !.page_bitmap = {}], pkt, opened)
  ELSE m

\* VERIFY reports once more and forgets the page.
Verifies(m, pkt) == m.running_fw_crc = pkt.crc

OnVerify(m, pkt) ==
  [(IF m.current_rx_page_offset = NoPage THEN m ELSE Reported(m)) EXCEPT
     !.current_rx_page_offset = NoPage,
     !.verified = IF Verifies(m, pkt) THEN "success" ELSE "failed"]

ReportSent(m) == [m EXCEPT !.report_to_send = NoReport]
=============================================================================
