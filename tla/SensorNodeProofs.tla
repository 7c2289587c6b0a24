--------------------------- MODULE SensorNodeProofs ---------------------------
(***************************************************************************)
(* What the operators of SensorNode do to a node: the lemmas that the      *)
(* proofs about one node (OtaSensorProofs) and about a line of them        *)
(* (OtaSystemProofs, OtaDeliveryProofs) share.                             *)
(***************************************************************************)
EXTENDS SensorNode, TLAPS

-----------------------------------------------------------------------------
(* What the operators return. *)

\* Every packet is about a page and a chunk of the modelled flash.
LEMMA OffsetPageLen ==
  ASSUME NEW size \in Size, NEW p \in Page \cup {NoPage}
  PROVE  PageLen(size, p) \in 0 .. PageChunks
BY WireAssumption DEF Size, PageLen, Page, NoPage

LEMMA FlashPrefixType ==
  ASSUME NEW page \in [Chunk -> Cell], NEW len \in 0 .. PageChunks
  PROVE  Prefix(page, len) \in PageContent
<1>1. Prefix(page, len) \in [0 .. len - 1 -> Cell]
  BY WireAssumption DEF Prefix, Chunk
<1> QED
  BY <1>1 DEF PageContent

LEMMA ErasedPageType == ErasedPage \in [Chunk -> Cell]
BY DEF ErasedPage, ErasedCell, Cell

LEMMA SectorBaseType ==
  ASSUME NEW p \in Page
  PROVE  SectorBase(p) \in Page
BY BackendAssumption, WireAssumption DEF SectorBase, Page

LEMMA EraseFlashType ==
  ASSUME NEW flash \in [Slots -> [Page -> [Chunk -> Cell]]], NEW slot \in Slots, NEW base
  PROVE  EraseFlash(flash, slot, base) \in [Slots -> [Page -> [Chunk -> Cell]]]
BY ErasedPageType DEF EraseFlash

LEMMA SlotsAreTargets == Slots \subseteq Target
BY DEF Slots, Target

LEMMA EraseSectorType ==
  ASSUME NEW m \in Node, NEW slot \in Slots, NEW base \in Page, NEW ok \in BOOLEAN
  PROVE  EraseSector(m, slot, base, ok) \in Node
<1>1. EraseFlash(m.flash, slot, base) \in [Slots -> [Page -> [Chunk -> Cell]]]
  BY EraseFlashType DEF Node
<1>2. <<slot, base>> \in (Target \cup {NoTarget}) \X (Page \cup {NoPage})
  BY SlotsAreTargets
<1>3. Tracked(m, slot, base) \in (Target \cup {NoTarget}) \X (Page \cup {NoPage})
  BY <1>2 DEF Node, Tracked
<1>4. [m EXCEPT !.flash = EraseFlash(m.flash, slot, base),
                !.erased_sector_addr = Tracked(m, slot, base)] \in Node
  BY <1>1, <1>3 DEF Node
<1> QED
  BY <1>4, Zenon DEF EraseSector

LEMMA EndSessionType ==
  ASSUME NEW m \in Node,
         NEW pkt \in [type : {"START"}, size : Size, sec_ver : Nat, target : Target]
  PROVE  /\ EndSession(m, pkt) \in Node
         /\ EndSession(m, pkt).ota_target_slot = pkt.target
         /\ EndSession(m, pkt).ota_session_active = FALSE
<1>1. NoSector \in (Target \cup {NoTarget}) \X (Page \cup {NoPage})
  BY DEF NoSector
<1>2. <<>> \in Seq(PageContent)
  OBVIOUS
<1>3. EndSession(m, pkt) \in Node
  BY <1>1, <1>2, ZenonT(60) DEF EndSession, Node
<1> QED
  BY <1>3, ZenonT(60) DEF EndSession, Node

LEMMA WriteFlashType ==
  ASSUME NEW m \in Node, NEW slot \in Slots, NEW p \in Page, NEW c \in Chunk,
         NEW data \in Cell, NEW programmed \in BOOLEAN
  PROVE  /\ WriteFlash(m, slot, p, c, data, programmed) \in Node
         /\ \A q \in Page : q # p =>
              WriteFlash(m, slot, p, c, data, programmed).flash[slot][q] = m.flash[slot][q]
         /\ m.flash[slot][p][c] = data =>
              WriteFlash(m, slot, p, c, data, programmed).flash = m.flash
<1> DEFINE f == [m.flash EXCEPT ![slot][p][c] = m.flash[slot][p][c] \cap data]
<1>1. m.flash \in [Slots -> [Page -> [Chunk -> Cell]]]
  BY DEF Node
<1>2. m.flash[slot][p][c] \cap data \in Cell
  BY <1>1 DEF Cell
<1>3. f \in [Slots -> [Page -> [Chunk -> Cell]]]
  BY <1>1, <1>2
<1>4. \A q \in Page : q # p => f[slot][q] = m.flash[slot][q]
  BY <1>1
<1>5. m.flash[slot][p][c] = data => f = m.flash
  <2> SUFFICES ASSUME m.flash[slot][p][c] = data PROVE f = m.flash
    OBVIOUS
  <2>1. m.flash[slot][p][c] \cap data = m.flash[slot][p][c]
    OBVIOUS
  <2> QED
    BY <1>1, <2>1, ZenonT(60)
<1> DEFINE r == [m EXCEPT !.flash = f]
<1>6. programmed => WriteFlash(m, slot, p, c, data, programmed) = r
  BY <1>1 DEF WriteFlash, Node
<1>7. ~programmed => WriteFlash(m, slot, p, c, data, programmed) = m
  BY DEF WriteFlash
<1> HIDE DEF f
<1>8. r \in Node /\ r.flash = f
  BY <1>3 DEF Node
<1> QED
  BY <1>1, <1>3, <1>4, <1>5, <1>6, <1>7, <1>8

DataPkts == [type : {"DATA"}, page : Page, chunk : Chunk, data : Cell,
             target : Target \cup {NoTarget}]

\* The fields DATA leaves alone.
SameSession(r, m) ==
  /\ r.running_fw_crc = m.running_fw_crc
  /\ r.last_crc_committed_page_offset = m.last_crc_committed_page_offset
  /\ r.ota_session_active = m.ota_session_active
  /\ r.current_file_size = m.current_file_size
  /\ r.ota_target_slot = m.ota_target_slot
  /\ r.staged = m.staged

\* Selecting a page erases its sector and no other, or nothing at all.
LEMMA SelectPageEffect ==
  ASSUME NEW m \in Node, NEW pkt \in DataPkts, NEW ok \in BOOLEAN,
         m.ota_target_slot \in Slots
  PROVE  LET s == SelectPage(m, pkt, ok)
             base == SectorBase(pkt.page)
         IN /\ s \in Node /\ SameSession(s, m)
            /\ s.current_rx_page_offset = pkt.page
            /\ m.page_0_erased => s.page_0_erased = TRUE
            /\ \A p \in Page : SectorBase(p) # base =>
                 s.flash[m.ota_target_slot][p] = m.flash[m.ota_target_slot][p]
            /\ ~NeedsErase(m, pkt) \/ AlreadyErased(m, m.ota_target_slot, base) =>
                 s.flash = m.flash /\ s.erased_sector_addr = m.erased_sector_addr
            /\ NeedsErase(m, pkt) /\ Backend = "dual" /\ ok =>
                 s.erased_sector_addr = <<m.ota_target_slot, base>>
<1> DEFINE base == SectorBase(pkt.page)
           slot == m.ota_target_slot
           chosen == [m EXCEPT !.current_rx_page_offset = pkt.page, !.page_bitmap = {}]
           e == EraseSector(chosen, slot, base, ok)
           b == m.page_0_erased \/ (pkt.page = 0 /\ ok)
           s == [e EXCEPT !.page_0_erased = b]
<1>1. pkt.page \in Page /\ base \in Page
  BY SectorBaseType DEF DataPkts
<1>2. /\ chosen \in Node
      /\ chosen.flash = m.flash /\ chosen.erased_sector_addr = m.erased_sector_addr
      /\ chosen.page_0_erased = m.page_0_erased
      /\ SameSession(chosen, m) /\ chosen.current_rx_page_offset = pkt.page
  BY <1>1 DEF Node, SameSession
<1>3. e \in Node
  BY <1>1, <1>2, EraseSectorType
<1> HIDE DEF chosen
<1>4. /\ SameSession(e, chosen)
      /\ e.current_rx_page_offset = chosen.current_rx_page_offset
      /\ e.page_0_erased = chosen.page_0_erased
  BY <1>2 DEF EraseSector, Node, SameSession
<1>5. AlreadyErased(chosen, slot, base) = AlreadyErased(m, slot, base)
  BY <1>2 DEF AlreadyErased
<1>6. AlreadyErased(chosen, slot, base) \/ ~ok => e = chosen
  BY DEF EraseSector
<1>7. ~AlreadyErased(chosen, slot, base) /\ ok =>
        /\ e.flash = EraseFlash(m.flash, slot, base)
        /\ e.erased_sector_addr = Tracked(chosen, slot, base)
  <2>1. ~AlreadyErased(chosen, slot, base) /\ ok =>
          e = [chosen EXCEPT !.flash = EraseFlash(chosen.flash, slot, base),
                             !.erased_sector_addr = Tracked(chosen, slot, base)]
    BY Zenon DEF EraseSector
  <2> DEFINE erased == EraseFlash(chosen.flash, slot, base)
             tracked == Tracked(chosen, slot, base)
             r == [chosen EXCEPT !.flash = erased, !.erased_sector_addr = tracked]
  <2> HIDE DEF erased, tracked
  <2>2. r.flash = erased /\ r.erased_sector_addr = tracked
    BY <1>2 DEF Node
  <2> HIDE DEF r
  <2> QED
    BY <2>1, <2>2, <1>2 DEF r, erased, tracked
<1>8. \A p \in Page : SectorBase(p) # base =>
        EraseFlash(m.flash, slot, base)[slot][p] = m.flash[slot][p]
  BY DEF EraseFlash, Node
<1> HIDE DEF e
<1>a. b \in BOOLEAN /\ (m.page_0_erased => b = TRUE)
  BY DEF Node
<1> HIDE DEF b
<1>9. /\ s \in Node /\ SameSession(s, e) /\ s.flash = e.flash
      /\ s.erased_sector_addr = e.erased_sector_addr
      /\ s.current_rx_page_offset = e.current_rx_page_offset
      /\ m.page_0_erased => s.page_0_erased = TRUE
  BY <1>3, <1>a, ZenonT(60) DEF Node, SameSession
<1>10. SelectPage(m, pkt, ok) = IF ~NeedsErase(m, pkt) THEN chosen ELSE s
  BY Zenon DEF SelectPage, chosen, e, b
<1> HIDE DEF s
<1>11. CASE ~NeedsErase(m, pkt)
  BY <1>11, <1>10, <1>2
<1>12. CASE NeedsErase(m, pkt)
  <2>1. SelectPage(m, pkt, ok) = s
    BY <1>10, <1>12
  <2>2. s \in Node /\ SameSession(s, m) /\ s.current_rx_page_offset = pkt.page
        /\ (m.page_0_erased => s.page_0_erased = TRUE)
    BY <1>2, <1>4, <1>9 DEF SameSession
  <2>3. \A p \in Page : SectorBase(p) # base => s.flash[slot][p] = m.flash[slot][p]
    BY <1>2, <1>6, <1>7, <1>8, <1>9 DEF AlreadyErased
  <2>4. AlreadyErased(m, slot, base) =>
          s.flash = m.flash /\ s.erased_sector_addr = m.erased_sector_addr
    BY <1>2, <1>5, <1>6, <1>9
  <2>5. Backend = "dual" /\ ok => s.erased_sector_addr = <<slot, base>>
    BY <1>2, <1>6, <1>7, <1>9 DEF AlreadyErased, Tracked
  <2> QED
    BY <1>12, <2>1, <2>2, <2>3, <2>4, <2>5
<1> QED
  BY <1>11, <1>12

\* Storing a chunk touches its own page only, and no cell that already holds it.
Stores(r, m, pkt) ==
  LET slot == m.ota_target_slot
  IN /\ r \in Node /\ SameSession(r, m)
     /\ r.current_rx_page_offset = m.current_rx_page_offset
     /\ r.page_0_erased = m.page_0_erased
     /\ r.erased_sector_addr = m.erased_sector_addr
     /\ \A p \in Page : p # pkt.page => r.flash[slot][p] = m.flash[slot][p]
     /\ m.flash[slot][pkt.page][pkt.chunk] = pkt.data => r.flash = m.flash

LEMMA StoreChunkEffect ==
  ASSUME NEW m \in Node, NEW pkt \in DataPkts, NEW ok \in BOOLEAN,
         NEW programmed \in BOOLEAN, m.ota_target_slot \in Slots
  PROVE  Stores(StoreChunk(m, pkt, ok, programmed), m, pkt)
<1> DEFINE slot == m.ota_target_slot
           w == WriteFlash(m, slot, pkt.page, pkt.chunk, pkt.data, ok \/ programmed)
           bits == IF ok THEN m.page_bitmap \cup {pkt.chunk} ELSE m.page_bitmap
           r == [w EXCEPT !.page_bitmap = bits]
<1>1. /\ pkt.page \in Page /\ pkt.chunk \in Chunk /\ pkt.data \in Cell
      /\ (ok \/ programmed) \in BOOLEAN
  BY DEF DataPkts
<1>2. /\ w \in Node
      /\ \A p \in Page : p # pkt.page => w.flash[slot][p] = m.flash[slot][p]
      /\ m.flash[slot][pkt.page][pkt.chunk] = pkt.data => w.flash = m.flash
  BY <1>1, WriteFlashType
<1>3. /\ SameSession(w, m)
      /\ w.current_rx_page_offset = m.current_rx_page_offset
      /\ w.page_0_erased = m.page_0_erased
      /\ w.erased_sector_addr = m.erased_sector_addr
      /\ w.page_bitmap = m.page_bitmap
  BY DEF WriteFlash, Node, SameSession
<1>4. bits \in SUBSET Chunk
  BY <1>1 DEF Node
<1>5. pkt.chunk \notin m.page_bitmap => StoreChunk(m, pkt, ok, programmed) = r
  BY <1>2, <1>3 DEF StoreChunk, Node
<1>6. pkt.chunk \in m.page_bitmap => StoreChunk(m, pkt, ok, programmed) = m
  BY DEF StoreChunk
<1> HIDE DEF w, bits
<1>7. /\ r \in Node /\ SameSession(r, w) /\ r.flash = w.flash
      /\ r.current_rx_page_offset = w.current_rx_page_offset
      /\ r.page_0_erased = w.page_0_erased
      /\ r.erased_sector_addr = w.erased_sector_addr
  <2>1. r \in Node
    BY <1>2, <1>4 DEF Node
  <2> QED
    BY <1>2, <2>1 DEF Node, SameSession
<1> HIDE DEF r
<1>8. CASE pkt.chunk \in m.page_bitmap
  BY <1>6, <1>8 DEF Stores, SameSession
<1>9. CASE pkt.chunk \notin m.page_bitmap
  BY <1>9, <1>2, <1>3, <1>5, <1>7 DEF Stores, SameSession
<1> QED
  BY <1>8, <1>9

\* A node whose session is open writes to one of its own slots.
SlotOk(m) == m.ota_session_active => m.ota_target_slot \in Slots

LEMMA OnDataType ==
  ASSUME NEW m \in Node, SlotOk(m), NEW pkt \in DataPkts,
         NEW erase_ok \in BOOLEAN, NEW write_ok \in BOOLEAN, NEW programmed \in BOOLEAN
  PROVE  LET r == OnData(m, pkt, erase_ok, write_ok, programmed)
         IN /\ r \in Node /\ SameSession(r, m)
            /\ r.current_rx_page_offset \in {m.current_rx_page_offset, pkt.page}
<1> DEFINE s == IF SelectsPage(m, pkt) THEN SelectPage(m, pkt, erase_ok) ELSE m
           ignored == \/ ~InSession(m, pkt)
                      \/ ~BoundsOk(m, m.ota_target_slot, pkt.page, pkt.chunk)
                      \/ pkt.page < m.current_rx_page_offset
<1>1. CASE ignored
  BY <1>1, Zenon DEF OnData, SameSession
<1>2. CASE ~ignored
  <2>1. m.ota_target_slot \in Slots
    BY <1>2 DEF InSession, SlotOk
  <2>2. /\ s \in Node /\ SameSession(s, m)
        /\ s.current_rx_page_offset \in {m.current_rx_page_offset, pkt.page}
    <3>1. CASE SelectsPage(m, pkt)
      BY <2>1, <3>1, SelectPageEffect
    <3>2. CASE ~SelectsPage(m, pkt)
      BY <3>2 DEF SameSession
    <3> QED
      BY <3>1, <3>2
  <2> HIDE DEF s
  <2> DEFINE t == StoreChunk(s, pkt, write_ok, programmed)
  <2>3. /\ t \in Node /\ SameSession(t, m)
        /\ t.current_rx_page_offset \in {m.current_rx_page_offset, pkt.page}
    <3>1. s.ota_target_slot \in Slots
      BY <2>1, <2>2 DEF SameSession
    <3>2. /\ t \in Node /\ SameSession(t, s)
          /\ t.current_rx_page_offset = s.current_rx_page_offset
      BY <2>2, <3>1, StoreChunkEffect DEF Stores
    <3> QED
      BY <2>2, <3>2 DEF SameSession
  <2>4. OnData(m, pkt, erase_ok, write_ok, programmed)
          = IF PageSelected(m, pkt, erase_ok) THEN t ELSE s
    BY <1>2, Zenon DEF OnData, s
  <2> HIDE DEF t
  <2> QED
    BY <2>2, <2>3, <2>4
<1> QED
  BY <1>1, <1>2

-----------------------------------------------------------------------------
(* START, PAGE_END, VERIFY and the timers. *)

StartPkts == [type : {"START"}, size : Size, sec_ver : Nat, target : Target]

\* START leaves no session, or a new one in a slot of this node with page 0 erased.
LEMMA OnStartEffect ==
  ASSUME NEW m \in Node, NEW pkt \in StartPkts, NEW ok \in BOOLEAN
  PROVE  LET r == OnStart(m, pkt, ok)
         IN /\ r \in Node /\ r.staged = m.staged
            /\ r.ota_session_active <=> StartStatus(m, pkt, ok) = "ACCEPTED"
            /\ r.ota_target_slot = pkt.target /\ r.current_file_size = pkt.size
            /\ r.running_fw_crc = <<>>
            /\ r.last_crc_committed_page_offset = NoPage
            /\ r.current_rx_page_offset = NoPage
            /\ r.ota_session_active =>
                 /\ r.ota_target_slot \in Slots /\ r.page_0_erased
                 /\ Backend = "dual" /\ ok => r.erased_sector_addr = <<pkt.target, 0>>
<1> DEFINE over == EndSession(m, pkt)
           e == EraseSector(over, pkt.target, 0, ok)
           r == [e EXCEPT !.page_0_erased = TRUE, !.ota_session_active = TRUE]
<1>1. /\ over \in Node /\ over.ota_target_slot = pkt.target
      /\ over.ota_session_active = FALSE
  BY EndSessionType DEF StartPkts
<1>2. /\ over.current_file_size = pkt.size /\ over.running_fw_crc = <<>>
      /\ over.last_crc_committed_page_offset = NoPage
      /\ over.current_rx_page_offset = NoPage
      /\ over.erased_sector_addr = NoSector
      /\ over.staged = m.staged
  BY DEF EndSession, Node
<1> HIDE DEF over
<1>3. CASE StartStatus(m, pkt, ok) # "ACCEPTED"
  <2>1. OnStart(m, pkt, ok) = over
    BY <1>3, Zenon DEF OnStart, over
  <2> QED
    BY <1>1, <1>2, <1>3, <2>1
<1>4. CASE StartStatus(m, pkt, ok) = "ACCEPTED"
  <2>1. OnStart(m, pkt, ok) = r
    BY <1>4, Zenon DEF OnStart, over
  <2>2. pkt.target \in Slots /\ 0 \in Page
    BY <1>4, WireAssumption DEF StartStatus, Page
  <2>3. e \in Node
    BY <1>1, <2>2, EraseSectorType
  <2>4. /\ e.ota_target_slot = over.ota_target_slot
        /\ e.current_file_size = over.current_file_size
        /\ e.running_fw_crc = over.running_fw_crc
        /\ e.last_crc_committed_page_offset = over.last_crc_committed_page_offset
        /\ e.current_rx_page_offset = over.current_rx_page_offset
        /\ e.staged = over.staged
    BY <1>1 DEF EraseSector, Node
  <2>5. Backend = "dual" /\ ok => e.erased_sector_addr = <<pkt.target, 0>>
    <3>1. ~AlreadyErased(over, pkt.target, 0)
      BY <1>2, <2>2 DEF AlreadyErased, NoSector, NoPage
    <3>2. ok => e = [over EXCEPT !.flash = EraseFlash(over.flash, pkt.target, 0),
                                 !.erased_sector_addr = Tracked(over, pkt.target, 0)]
      BY <3>1, Zenon DEF EraseSector
    <3> DEFINE erased == EraseFlash(over.flash, pkt.target, 0)
               tracked == Tracked(over, pkt.target, 0)
               o == [over EXCEPT !.flash = erased, !.erased_sector_addr = tracked]
    <3>3. Backend = "dual" => tracked = <<pkt.target, 0>>
      BY DEF Tracked
    <3> HIDE DEF erased, tracked, e
    <3>4. o.erased_sector_addr = tracked
      BY <1>1 DEF Node
    <3> HIDE DEF o
    <3>5. ok => e = o
      BY <3>2 DEF o, erased, tracked
    <3> QED
      BY <3>3, <3>4, <3>5
  <2> HIDE DEF e
  <2>6. /\ r \in Node
        /\ r.ota_target_slot = e.ota_target_slot
        /\ r.current_file_size = e.current_file_size
        /\ r.running_fw_crc = e.running_fw_crc
        /\ r.last_crc_committed_page_offset = e.last_crc_committed_page_offset
        /\ r.current_rx_page_offset = e.current_rx_page_offset
        /\ r.erased_sector_addr = e.erased_sector_addr
        /\ r.page_0_erased = TRUE /\ r.staged = e.staged /\ r.ota_session_active = TRUE
    <3>1. r \in Node
      BY <2>3 DEF Node
    <3> QED
      BY <2>3, <3>1 DEF Node
  <2> HIDE DEF r
  <2> QED
    BY <1>1, <1>2, <1>4, <2>1, <2>2, <2>4, <2>5, <2>6
<1> QED
  BY <1>3, <1>4

\* The fields the reception of pages works on.
SameReception(r, m) ==
  /\ SameSession(r, m)
  /\ r.flash = m.flash
  /\ r.erased_sector_addr = m.erased_sector_addr
  /\ r.page_0_erased = m.page_0_erased
  /\ r.current_rx_page_offset = m.current_rx_page_offset

LEMMA SendPageReportEffect ==
  ASSUME NEW m \in Node
  PROVE  SendPageReport(m) \in Node /\ SameReception(SendPageReport(m), m)
<1> DEFINE rep == [page |-> m.current_rx_page_offset, bitmap |-> m.page_bitmap]
           r == [m EXCEPT !.report_to_send = rep]
<1>1. rep \in [page : Page \cup {NoPage}, bitmap : SUBSET Chunk]
  BY DEF Node
<1>2. SendPageReport(m) = IF m.current_rx_page_offset = NoPage THEN m ELSE r
  BY Zenon DEF SendPageReport
<1> HIDE DEF rep
<1>3. r \in Node /\ SameReception(r, m)
  BY <1>1 DEF Node, SameReception, SameSession
<1> QED
  BY <1>2, <1>3 DEF SameReception, SameSession

LEMMA FlashPageType ==
  ASSUME NEW m \in Node, NEW p \in Page, m.ota_target_slot \in Slots
  PROVE  FlashPage(m, p) \in PageContent
<1>1. PageLen(m.current_file_size, p) \in 0 .. PageChunks
  BY OffsetPageLen DEF Node
<1>2. m.flash[m.ota_target_slot][p] \in [Chunk -> Cell]
  BY DEF Node
<1> QED
  BY <1>1, <1>2, FlashPrefixType DEF FlashPage

\* A commit appends the page in flash to the CRC, unless it was the last one to.
LEMMA CommitEffect ==
  ASSUME NEW m \in Node, m.ota_target_slot \in Slots, m.current_rx_page_offset \in Page
  PROVE  LET r == Commit(m)
             p == m.current_rx_page_offset
         IN /\ r \in Node
            /\ r.ota_session_active = m.ota_session_active
            /\ r.current_file_size = m.current_file_size
            /\ r.ota_target_slot = m.ota_target_slot
            /\ r.flash = m.flash
            /\ r.erased_sector_addr = m.erased_sector_addr
            /\ r.page_0_erased = m.page_0_erased
            /\ r.current_rx_page_offset = p
            /\ r.staged = m.staged
            /\ m.last_crc_committed_page_offset = p => r = m
            /\ m.last_crc_committed_page_offset # p =>
                 /\ r.last_crc_committed_page_offset = p
                 /\ r.running_fw_crc = Append(m.running_fw_crc, FlashPage(m, p))
<1> DEFINE p == m.current_rx_page_offset
           crc == Append(m.running_fw_crc, FlashPage(m, p))
           r == [m EXCEPT !.running_fw_crc = crc, !.last_crc_committed_page_offset = p]
<1>1. m.running_fw_crc \in Seq(PageContent)
  BY DEF Node
<1>2. FlashPage(m, p) \in PageContent
  BY FlashPageType
<1>3. crc \in Seq(PageContent)
  BY <1>1, <1>2
<1>4. Commit(m) = IF m.last_crc_committed_page_offset = p THEN m ELSE r
  BY <1>1 DEF Commit, Node
<1> HIDE DEF crc
<1>5. /\ r \in Node
      /\ r.ota_session_active = m.ota_session_active
      /\ r.current_file_size = m.current_file_size
      /\ r.ota_target_slot = m.ota_target_slot
      /\ r.flash = m.flash
      /\ r.erased_sector_addr = m.erased_sector_addr
      /\ r.page_0_erased = m.page_0_erased
      /\ r.current_rx_page_offset = p
      /\ r.last_crc_committed_page_offset = p
      /\ r.running_fw_crc = crc
      /\ r.staged = m.staged
  BY <1>3 DEF Node
<1> HIDE DEF r
<1>6. CASE m.last_crc_committed_page_offset = p
  BY <1>4, <1>6
<1>7. CASE m.last_crc_committed_page_offset # p
  BY <1>4, <1>5, <1>7 DEF crc
<1> QED
  BY <1>6, <1>7

PageEndPkts == [type : {"PAGE_END"}, page : Page, crc : PageContent \cup {<<>>},
                target : Target \cup {NoTarget}]

\* PAGE_END of the page being received commits it if flash holds what the packet
\* describes; otherwise it changes nothing the reception of pages works on.
LEMMA OnPageEndEffect ==
  ASSUME NEW m \in Node, SlotOk(m), NEW pkt \in PageEndPkts, NEW ok \in BOOLEAN
  PROVE  LET r == OnPageEnd(m, pkt, ok)
         IN /\ r \in Node
            /\ \/ SameReception(r, m)
               \/ /\ InSession(m, pkt) /\ m.current_rx_page_offset = pkt.page
                  /\ FlashPage(m, pkt.page) = pkt.crc
                  /\ SameReception(r, Commit(m))
<1> DEFINE reject == [m EXCEPT !.page_bitmap = {}]
<1>1. CASE ~InSession(m, pkt) \/ pkt.page # m.current_rx_page_offset
  <2>1. OnPageEnd(m, pkt, ok) = m
    BY <1>1, Zenon DEF OnPageEnd
  <2> QED
    BY <2>1 DEF SameReception, SameSession
<1>2. CASE InSession(m, pkt) /\ pkt.page = m.current_rx_page_offset /\ ~PageMatches(m, pkt, ok)
  <2>1. OnPageEnd(m, pkt, ok) = SendPageReport(reject)
    BY <1>2, Zenon DEF OnPageEnd
  <2>2. reject \in Node /\ SameReception(reject, m)
    BY DEF Node, SameReception, SameSession
  <2> HIDE DEF reject
  <2> QED
    BY <2>1, <2>2, SendPageReportEffect DEF SameReception, SameSession
<1>3. CASE InSession(m, pkt) /\ pkt.page = m.current_rx_page_offset /\ PageMatches(m, pkt, ok)
  <2>1. OnPageEnd(m, pkt, ok) = SendPageReport(Commit(m))
    BY <1>3, Zenon DEF OnPageEnd
  <2>2. m.ota_target_slot \in Slots /\ m.current_rx_page_offset \in Page
    BY <1>3 DEF InSession, SlotOk, PageEndPkts
  <2>3. Commit(m) \in Node
    BY <2>2, CommitEffect
  <2>4. /\ SendPageReport(Commit(m)) \in Node
        /\ SameReception(SendPageReport(Commit(m)), Commit(m))
    BY <2>3, SendPageReportEffect
  <2> QED
    BY <1>3, <2>1, <2>4 DEF PageMatches
<1> QED
  BY <1>1, <1>2, <1>3

\* What staging leaves alone.
SameButStaged(r, m) ==
  /\ r.flash = m.flash /\ r.page_0_erased = m.page_0_erased
  /\ r.running_fw_crc = m.running_fw_crc
  /\ r.last_crc_committed_page_offset = m.last_crc_committed_page_offset
  /\ r.current_rx_page_offset = m.current_rx_page_offset

LEMMA StageType ==
  ASSUME NEW m \in Node, NEW slot \in Slots, NEW out
  PROVE  Stage(m, slot, out) \in Node /\ SameButStaged(Stage(m, slot, out), m)
<1> DEFINE st == IF out = "lost" THEN NoStage
                 ELSE [slot |-> slot, sec_ver |-> StagedSecVer(m, slot)]
           r == [m EXCEPT !.staged = st]
<1>1. StagedSecVer(m, slot) \in Nat
  <2>1. 0 \in Page /\ 0 \in Chunk
    BY WireAssumption DEF Page, Chunk
  <2>2. m.flash[slot][0][0] \in Cell
    BY <2>1 DEF Node
  <2> QED
    BY <2>2, BackendAssumption DEF StagedSecVer
<1>2. st \in [slot : Target \cup {NoTarget}, sec_ver : Nat]
  BY <1>1, SlotsAreTargets DEF NoStage
<1>3. Stage(m, slot, out) = IF ~ValidImage(m, slot) \/ out = "kept" THEN m ELSE r
  BY Zenon DEF Stage
<1> HIDE DEF st
<1>4. r \in Node
  BY <1>2 DEF Node
<1>5. SameButStaged(r, m) /\ SameButStaged(m, m)
  BY <1>2, ZenonT(60) DEF Node, SameButStaged
<1> QED
  BY <1>3, <1>4, <1>5

VerifyPkts == [type : {"VERIFY"}, crc : Seq(PageContent), target : Target \cup {NoTarget}]

\* VERIFY keeps the session, with no page selected, or ends it; it stages only
\* if the CRCs match.
LEMMA OnVerifyEffect ==
  ASSUME NEW m \in Node, SlotOk(m), NEW pkt \in VerifyPkts, NEW out, NEW leaf \in BOOLEAN
  PROVE  LET r == OnVerify(m, pkt, out, leaf)
         IN /\ r \in Node
            /\ r.flash = m.flash /\ r.page_0_erased = m.page_0_erased
            /\ r.running_fw_crc = m.running_fw_crc
            /\ r.last_crc_committed_page_offset = m.last_crc_committed_page_offset
            /\ r.current_rx_page_offset \in {m.current_rx_page_offset, NoPage}
            /\ r.ota_session_active => SameSession(r, m)
            /\ r.staged # m.staged => InSession(m, pkt) /\ VerifyMatches(m, pkt)
                                        /\ r.ota_session_active = FALSE
<1> DEFINE q == [SendPageReport(m) EXCEPT !.current_rx_page_offset = NoPage]
           st == Stage(q, m.ota_target_slot, out)
           timer == st.leaf_stability_ctimer
                      \/ (leaf /\ StageSucceeds(q, m.ota_target_slot, out))
           r == [st EXCEPT !.ota_session_active = FALSE, !.leaf_stability_ctimer = timer]
<1>1. /\ q \in Node /\ SameSession(q, m)
      /\ q.flash = m.flash /\ q.page_0_erased = m.page_0_erased
      /\ q.current_rx_page_offset = NoPage
  <2>1. SendPageReport(m) \in Node /\ SameReception(SendPageReport(m), m)
    BY SendPageReportEffect
  <2> QED
    BY <2>1 DEF Node, SameReception, SameSession
<1> HIDE DEF q
<1>2. CASE ~InSession(m, pkt)
  <2>1. OnVerify(m, pkt, out, leaf) = m
    BY <1>2, Zenon DEF OnVerify
  <2> QED
    BY <2>1 DEF SameSession
<1>3. CASE InSession(m, pkt) /\ ~VerifyMatches(m, pkt)
  <2>1. OnVerify(m, pkt, out, leaf) = q
    BY <1>3, Zenon DEF OnVerify, q
  <2> QED
    BY <1>1, <2>1 DEF SameSession
<1>4. CASE InSession(m, pkt) /\ VerifyMatches(m, pkt)
  <2>1. m.ota_target_slot \in Slots
    BY <1>4 DEF InSession, SlotOk
  <2>2. st \in Node /\ SameButStaged(st, q)
    BY <1>1, <2>1, StageType
  <2>3. OnVerify(m, pkt, out, leaf)
          = [st EXCEPT !.ota_session_active = FALSE,
                       !.leaf_stability_ctimer =
                          @ \/ (leaf /\ StageSucceeds(q, m.ota_target_slot, out))]
    BY <1>4, Zenon DEF OnVerify, q
  <2>4. OnVerify(m, pkt, out, leaf) = r
    BY <2>2, <2>3, Zenon DEF Node
  <2> HIDE DEF st
  <2>5. timer \in BOOLEAN
    OBVIOUS
  <2> HIDE DEF timer
  <2>6. r \in Node /\ r.ota_session_active = FALSE
    BY <2>2, <2>5, ZenonT(60) DEF Node
  <2>7. SameButStaged(r, st)
    BY <2>2, <2>5, ZenonT(60) DEF Node, SameButStaged
  <2> HIDE DEF r
  <2> QED
    BY <1>1, <1>4, <2>2, <2>4, <2>6, <2>7 DEF SameButStaged, SameSession
<1> QED
  BY <1>2, <1>3, <1>4

LEMMA BootType ==
  ASSUME NEW flash \in [Slots -> [Page -> [Chunk -> Cell]]],
         NEW slot \in Target \cup {NoTarget}, NEW sec_ver \in Nat
  PROVE  /\ Boot(flash, slot, sec_ver) \in Node
         /\ Boot(flash, slot, sec_ver).ota_session_active = FALSE
<1>1. NoSector \in (Target \cup {NoTarget}) \X (Page \cup {NoPage})
  BY DEF NoSector
<1>2. NoReport \in [page : Page \cup {NoPage}, bitmap : SUBSET Chunk]
  BY DEF NoReport
<1>3. NoStage \in [slot : Target \cup {NoTarget}, sec_ver : Nat]
  BY DEF NoStage
<1>4. NoFile \in Size
  BY WireAssumption DEF NoFile, Size
<1>5. <<>> \in Seq(PageContent) /\ OTA_START_SEC_VER_UNKNOWN \in Nat
  BY DEF OTA_START_SEC_VER_UNKNOWN
<1> QED
  BY <1>1, <1>2, <1>3, <1>4, <1>5 DEF Boot, Node

LEMMA TimersEffect ==
  ASSUME NEW m \in Node, NEW leaf \in BOOLEAN
  PROVE  /\ ReportSent(m) \in Node /\ SameReception(ReportSent(m), m)
         /\ LeafStability(m, leaf) \in Node /\ SameReception(LeafStability(m, leaf), m)
         /\ StagedReboot(m) \in Node /\ StagedReboot(m).ota_session_active = FALSE
         /\ StagedReboot(m).staged = m.staged
<1>1. ReportSent(m) \in Node /\ SameReception(ReportSent(m), m)
  <2>1. NoReport \in [page : Page \cup {NoPage}, bitmap : SUBSET Chunk]
    BY DEF NoReport
  <2> QED
    BY <2>1 DEF ReportSent, Node, SameReception, SameSession
<1>2. LeafStability(m, leaf) \in Node /\ SameReception(LeafStability(m, leaf), m)
  <2> DEFINE t == m.staged_reboot_ctimer \/ leaf
             r == [m EXCEPT !.leaf_stability_ctimer = FALSE, !.staged_reboot_ctimer = t]
  <2>1. LeafStability(m, leaf) = r
    BY Zenon DEF LeafStability, Node
  <2>2. t \in BOOLEAN
    OBVIOUS
  <2> HIDE DEF t
  <2>3. r \in Node /\ SameReception(r, m)
    BY <2>2, ZenonT(60) DEF Node, SameReception, SameSession
  <2> QED
    BY <2>1, <2>3
<1>3. /\ StagedReboot(m) \in Node /\ StagedReboot(m).ota_session_active = FALSE
      /\ StagedReboot(m).staged = m.staged
  <2> DEFINE b == Boot(m.flash, m.current_slot, m.running_sec_ver)
  <2>1. b \in Node /\ b.ota_session_active = FALSE
    <3>1. /\ m.flash \in [Slots -> [Page -> [Chunk -> Cell]]]
          /\ m.current_slot \in Target \cup {NoTarget} /\ m.running_sec_ver \in Nat
      BY DEF Node
    <3> QED
      BY <3>1, BootType
  <2> HIDE DEF b
  <2>2. m.staged \in [slot : Target \cup {NoTarget}, sec_ver : Nat]
    BY DEF Node
  <2> DEFINE r == [b EXCEPT !.staged = m.staged, !.reset = TRUE]
  <2>3. StagedReboot(m) = r
    BY Zenon DEF StagedReboot, b
  <2> DEFINE staged == m.staged
  <2> HIDE DEF staged
  <2>4. r = [b EXCEPT !.staged = staged, !.reset = TRUE]
    BY DEF staged
  <2>5. staged \in [slot : Target \cup {NoTarget}, sec_ver : Nat]
    BY <2>2 DEF staged
  <2> HIDE DEF r
  <2>6. r \in Node
    BY <2>1, <2>4, <2>5 DEF Node
  <2>7. r.ota_session_active = b.ota_session_active /\ r.staged = staged
    BY <2>1, <2>4, <2>5 DEF Node
  <2> QED
    BY <2>1, <2>3, <2>6, <2>7 DEF staged
<1> QED
  BY <1>1, <1>2, <1>3

-----------------------------------------------------------------------------
(* The pages received before. *)

\* A page between two pages of a sector is in the sector.
LEMMA SectorBaseBetween ==
  ASSUME NEW p \in Page, NEW q \in Page, NEW r \in Page, p <= q, q <= r,
         SectorBase(p) = SectorBase(r)
  PROVE  SectorBase(q) = SectorBase(p)
BY BackendAssumption, WireAssumption DEF SectorBase, Page

\* DATA moves the page being received forward, keeps the erased sector the one
\* it is in, and touches no page received before, except to store a chunk in the
\* page being received.
LEMMA OnDataEffect ==
  ASSUME NEW m \in Node, SlotOk(m), NEW pkt \in DataPkts,
         NEW erase_ok \in BOOLEAN, NEW write_ok \in BOOLEAN, NEW programmed \in BOOLEAN,
         SectorPages = 2 => Backend = "dual" /\ erase_ok,
         m.page_0_erased,
         SectorPages = 2 =>
           m.erased_sector_addr =
             <<m.ota_target_slot, SectorBase(FirstPage(m.current_rx_page_offset))>>
  PROVE  LET r == OnData(m, pkt, erase_ok, write_ok, programmed)
             slot == m.ota_target_slot
             rx == m.current_rx_page_offset
         IN /\ rx <= r.current_rx_page_offset
            /\ r.page_0_erased
            /\ SectorPages = 2 =>
                 r.erased_sector_addr = <<slot, SectorBase(FirstPage(r.current_rx_page_offset))>>
            /\ \A p \in Page : p <= rx /\ p # pkt.page => r.flash[slot][p] = m.flash[slot][p]
            /\ pkt.page <= rx /\ m.flash[slot][pkt.page][pkt.chunk] = pkt.data =>
                 r.flash = m.flash
<1> DEFINE slot == m.ota_target_slot
           rx == m.current_rx_page_offset
           base == SectorBase(pkt.page)
           s == IF SelectsPage(m, pkt) THEN SelectPage(m, pkt, erase_ok) ELSE m
           t == StoreChunk(s, pkt, write_ok, programmed)
           ignored == \/ ~InSession(m, pkt)
                      \/ ~BoundsOk(m, m.ota_target_slot, pkt.page, pkt.chunk)
                      \/ pkt.page < m.current_rx_page_offset
<1>1. /\ rx \in Page \cup {NoPage} /\ pkt.page \in Page
      /\ \A p \in Page : p \in Nat
  BY WireAssumption DEF Node, DataPkts, Page
<1>2. CASE ignored
  <2>1. OnData(m, pkt, erase_ok, write_ok, programmed) = m
    BY <1>2, Zenon DEF OnData
  <2>2. rx <= rx
    BY <1>1 DEF NoPage
  <2> QED
    BY <2>1, <2>2
<1>3. CASE ~ignored
  <2>1. slot \in Slots /\ pkt.page >= rx
    BY <1>1, <1>3 DEF InSession, SlotOk, NoPage
  \* The sector rule.
  <2>2. /\ s \in Node /\ SameSession(s, m) /\ s.page_0_erased
        /\ s.current_rx_page_offset = pkt.page
        /\ SectorPages = 2 => s.erased_sector_addr = <<slot, base>>
        /\ \A p \in Page : p <= rx => s.flash[slot][p] = m.flash[slot][p]
        /\ pkt.page <= rx => s.flash = m.flash
    <3>1. CASE ~SelectsPage(m, pkt)
      <4>1. pkt.page = rx
        BY <1>1, <2>1, <3>1 DEF SelectsPage, NoPage
      <4>2. FirstPage(rx) = rx
        BY <1>1, <4>1 DEF FirstPage, NoPage
      <4> QED
        BY <3>1, <4>1, <4>2 DEF SameSession
    <3>2. CASE SelectsPage(m, pkt)
      <4>1. rx < pkt.page
        BY <3>2 DEF SelectsPage
      <4> DEFINE e == SelectPage(m, pkt, erase_ok)
      <4>2. /\ e \in Node /\ SameSession(e, m)
            /\ e.current_rx_page_offset = pkt.page
            /\ e.page_0_erased
            /\ \A p \in Page : SectorBase(p) # base => e.flash[slot][p] = m.flash[slot][p]
            /\ ~NeedsErase(m, pkt) \/ AlreadyErased(m, slot, base) =>
                 e.flash = m.flash /\ e.erased_sector_addr = m.erased_sector_addr
            /\ NeedsErase(m, pkt) /\ Backend = "dual" /\ erase_ok =>
                 e.erased_sector_addr = <<slot, base>>
        BY <1>1, <2>1, SelectPageEffect, ZenonT(60)
      <4> HIDE DEF e
      <4>3. s = e
        BY <3>2 DEF e
      <4>4. SectorPages = 2 => Backend = "dual" /\ erase_ok
        OBVIOUS
      <4>5. ~NeedsErase(m, pkt) => rx = NoPage /\ pkt.page = 0
        BY DEF NeedsErase
      <4>6. SectorPages = 2 => e.erased_sector_addr = <<slot, base>>
        BY <4>2, <4>4, <4>5 DEF FirstPage
      <4>7. ASSUME NEW p \in Page, p <= rx
            PROVE  e.flash[slot][p] = m.flash[slot][p]
        <5>1. rx \in Page /\ rx # NoPage
          BY <1>1, <4>7 DEF NoPage
        <5>2. CASE SectorPages = 1
          <6>1. \A q \in Page : SectorBase(q) = q
            BY <1>1, <5>2 DEF SectorBase
          <6>2. p # pkt.page
            BY <1>1, <4>1, <4>7, <5>1
          <6> QED
            BY <1>1, <4>2, <6>1, <6>2
        <5>3. CASE SectorPages = 2 /\ SectorBase(p) = base
          <6>1. rx <= pkt.page
            BY <1>1, <4>1, <5>1
          <6>2. SectorBase(rx) = base
            BY <1>1, <4>7, <5>1, <5>3, <6>1, SectorBaseBetween
          <6>3. AlreadyErased(m, slot, base)
            BY <4>4, <5>1, <5>3, <6>2 DEF AlreadyErased, FirstPage
          <6> QED
            BY <4>2, <6>3
        <5> QED
          BY <4>2, <5>2, <5>3, BackendAssumption
      <4>8. ~(pkt.page <= rx)
        BY <1>1, <4>1 DEF NoPage
      <4> QED
        BY <4>2, <4>3, <4>6, <4>7, <4>8
    <3> QED
      BY <3>1, <3>2
  <2>3. OnData(m, pkt, erase_ok, write_ok, programmed)
          = IF PageSelected(m, pkt, erase_ok) THEN t ELSE s
    BY <1>3, Zenon DEF OnData, s, t
  <2> HIDE DEF s
  <2>4. /\ t.current_rx_page_offset = pkt.page
        /\ t.page_0_erased
        /\ t.erased_sector_addr = s.erased_sector_addr
        /\ \A p \in Page : p # pkt.page => t.flash[slot][p] = s.flash[slot][p]
        /\ s.flash[slot][pkt.page][pkt.chunk] = pkt.data => t.flash = s.flash
    <3>1. s.ota_target_slot = slot /\ s.ota_target_slot \in Slots
      BY <2>1, <2>2 DEF SameSession
    <3>2. s \in Node /\ s.current_rx_page_offset = pkt.page /\ s.page_0_erased
      BY <2>2
    <3>3. /\ t.current_rx_page_offset = s.current_rx_page_offset
          /\ t.page_0_erased = s.page_0_erased
          /\ t.erased_sector_addr = s.erased_sector_addr
          /\ \A p \in Page : p # pkt.page =>
               t.flash[s.ota_target_slot][p] = s.flash[s.ota_target_slot][p]
          /\ s.flash[s.ota_target_slot][pkt.page][pkt.chunk] = pkt.data => t.flash = s.flash
      <4>1. Stores(t, s, pkt)
        BY <3>1, <3>2, StoreChunkEffect
      <4> HIDE DEF t
      <4> QED
        BY <4>1 DEF Stores
    <3> HIDE DEF t
    <3> QED
      BY <3>1, <3>2, <3>3
  <2> HIDE DEF t
  <2>5. FirstPage(pkt.page) = pkt.page
    BY <1>1 DEF FirstPage, NoPage
  <2>6. CASE PageSelected(m, pkt, erase_ok)
    BY <2>1, <2>2, <2>3, <2>4, <2>5, <2>6
  <2>7. CASE ~PageSelected(m, pkt, erase_ok)
    BY <2>1, <2>2, <2>3, <2>5, <2>7
  <2> QED
    BY <2>6, <2>7
<1> QED
  BY <1>2, <1>3

\* What "page p of img is in the flash of m" means, for a node whose session is for img.
HasPage(m, img, p) ==
  Prefix(m.flash[m.ota_target_slot][p], PageLen(img.size, p)) = ImagePage(img, p)

\* DATA of img leaves the pages of img up to the one being received in flash: what it
\* writes there is what is there.
LEMMA OnDataKeepsPages ==
  ASSUME NEW m \in Node, SlotOk(m), NEW img \in Image, NEW pkt \in DataPkts,
         NEW erase_ok \in BOOLEAN, NEW write_ok \in BOOLEAN, NEW programmed \in BOOLEAN,
         SectorPages = 2 => Backend = "dual" /\ erase_ok,
         m.page_0_erased,
         SectorPages = 2 =>
           m.erased_sector_addr =
             <<m.ota_target_slot, SectorBase(FirstPage(m.current_rx_page_offset))>>,
         pkt.chunk < PageLen(img.size, pkt.page),
         pkt.data = img.data[pkt.page][pkt.chunk],
         NEW q \in Page, q <= m.current_rx_page_offset, HasPage(m, img, q)
  PROVE  HasPage(OnData(m, pkt, erase_ok, write_ok, programmed), img, q)
<1> DEFINE slot == m.ota_target_slot
           r == OnData(m, pkt, erase_ok, write_ok, programmed)
           len == PageLen(img.size, q)
<1> SUFFICES HasPage(r, img, q)
  OBVIOUS
<1>1. r.ota_target_slot = slot
  BY OnDataType DEF SameSession
<1>2. /\ \A p \in Page : p <= m.current_rx_page_offset /\ p # pkt.page =>
                           r.flash[slot][p] = m.flash[slot][p]
      /\ pkt.page <= m.current_rx_page_offset
           /\ m.flash[slot][pkt.page][pkt.chunk] = pkt.data => r.flash = m.flash
  BY OnDataEffect
<1> HIDE DEF r
<1>3. CASE q # pkt.page
  BY <1>1, <1>2, <1>3 DEF HasPage
<1>4. CASE q = pkt.page
  <2>1. len \in 0 .. PageChunks /\ pkt.chunk \in Chunk
    BY OffsetPageLen DEF Image, FileSize, DataPkts
  <2>2. pkt.chunk \in 0 .. len - 1
    BY <1>4, <2>1, WireAssumption DEF Chunk
  <2> HIDE DEF len
  <2>3. Prefix(m.flash[slot][q], len) = Prefix(img.data[q], len)
    BY DEF HasPage, ImagePage, len
  <2>4. m.flash[slot][q][pkt.chunk] = img.data[q][pkt.chunk]
    BY <2>2, <2>3 DEF Prefix
  <2>5. r.flash = m.flash
    BY <1>2, <1>4, <2>4
  <2> QED
    BY <1>1, <2>5 DEF HasPage
<1> QED
  BY <1>3, <1>4

\* An open session writes to the other slot.
SlotSafe(m) == m.ota_session_active => m.ota_target_slot # m.current_slot

\* What START and DATA may do to the node: they keep the image the node runs
\* and its pending report, and change no other slot than `target`.
WritesOnly(r, m, target) ==
  /\ r.current_slot = m.current_slot
  /\ r.running_sec_ver = m.running_sec_ver
  /\ r.report_to_send = m.report_to_send
  /\ \A s \in Slots : s # target => r.flash[s] = m.flash[s]

\* An operation that leaves flash alone, and opens no session.
WritesNothing(r, m) ==
  /\ r.flash = m.flash
  /\ r.current_slot = m.current_slot
  /\ r.running_sec_ver = m.running_sec_ver
  /\ r.ota_session_active => m.ota_session_active /\ r.ota_target_slot = m.ota_target_slot

-----------------------------------------------------------------------------
(* What the operators write. *)

\* An erase changes the slot it is asked for.
LEMMA EraseSectorWrites ==
  ASSUME NEW m \in Node, NEW slot \in Slots, NEW base \in Page, NEW ok \in BOOLEAN
  PROVE  LET r == EraseSector(m, slot, base, ok)
         IN WritesOnly(r, m, slot)
<1> DEFINE f == EraseFlash(m.flash, slot, base)
           e == [m EXCEPT !.flash = f, !.erased_sector_addr = Tracked(m, slot, base)]
<1>1. m.flash \in [Slots -> [Page -> [Chunk -> Cell]]]
  BY DEF Node
<1>2. \A s \in Slots : s # slot => f[s] = m.flash[s]
  BY <1>1 DEF EraseFlash
<1> HIDE DEF f
<1>3. /\ e.flash = f /\ e.current_slot = m.current_slot
      /\ e.running_sec_ver = m.running_sec_ver
      /\ e.report_to_send = m.report_to_send
  BY DEF Node
<1>4. EraseSector(m, slot, base, ok) = m \/ EraseSector(m, slot, base, ok) = e
  BY Zenon DEF EraseSector, f
<1> QED
  BY <1>2, <1>3, <1>4 DEF WritesOnly

\* DATA writes to the slot of the open session only.
LEMMA SelectPageWrites ==
  ASSUME NEW m \in Node, NEW pkt \in DataPkts, NEW ok \in BOOLEAN,
         m.ota_target_slot \in Slots
  PROVE  WritesOnly(SelectPage(m, pkt, ok), m, m.ota_target_slot)
<1> DEFINE chosen == [m EXCEPT !.current_rx_page_offset = pkt.page, !.page_bitmap = {}]
           e == EraseSector(chosen, m.ota_target_slot, SectorBase(pkt.page), ok)
           erased == m.page_0_erased \/ (pkt.page = 0 /\ ok)
           r == [e EXCEPT !.page_0_erased = erased]
<1>1. pkt.page \in Page /\ SectorBase(pkt.page) \in Page
  BY SectorBaseType DEF DataPkts
<1>2. /\ chosen \in Node /\ chosen.flash = m.flash
      /\ chosen.current_slot = m.current_slot
     
      /\ chosen.running_sec_ver = m.running_sec_ver
      /\ chosen.report_to_send = m.report_to_send
  BY <1>1 DEF Node
<1>3. SelectPage(m, pkt, ok) = chosen \/ SelectPage(m, pkt, ok) = r
  BY Zenon DEF SelectPage
<1> HIDE DEF chosen, erased
<1>4. e \in Node
  BY <1>1, <1>2, EraseSectorType
<1>5. WritesOnly(e, chosen, m.ota_target_slot)
  BY <1>1, <1>2, EraseSectorWrites
<1> HIDE DEF e
<1>6. /\ r.flash = e.flash /\ r.current_slot = e.current_slot
      /\ r.running_sec_ver = e.running_sec_ver
      /\ r.report_to_send = e.report_to_send
  BY <1>4 DEF Node
<1> HIDE DEF r
<1> QED
  BY <1>2, <1>3, <1>5, <1>6 DEF WritesOnly

LEMMA StoreChunkWrites ==
  ASSUME NEW m \in Node, NEW pkt \in DataPkts, NEW ok \in BOOLEAN,
         NEW programmed \in BOOLEAN, m.ota_target_slot \in Slots
  PROVE  WritesOnly(StoreChunk(m, pkt, ok, programmed), m, m.ota_target_slot)
<1> DEFINE slot == m.ota_target_slot
           w == WriteFlash(m, slot, pkt.page, pkt.chunk, pkt.data, ok \/ programmed)
           bits == IF ok THEN m.page_bitmap \cup {pkt.chunk} ELSE m.page_bitmap
           r == [w EXCEPT !.page_bitmap = bits]
<1>1. /\ pkt.page \in Page /\ pkt.chunk \in Chunk /\ pkt.data \in Cell
      /\ (ok \/ programmed) \in BOOLEAN
  BY DEF DataPkts
<1>2. w \in Node
  BY <1>1, WriteFlashType
<1>3. WritesOnly(w, m, slot)
  <2>1. m.flash \in [Slots -> [Page -> [Chunk -> Cell]]]
    BY DEF Node
  <2> QED
    BY <2>1 DEF WriteFlash, Node, WritesOnly
<1>4. w.page_bitmap = m.page_bitmap
  BY DEF WriteFlash, Node
<1>5. StoreChunk(m, pkt, ok, programmed) = m \/ StoreChunk(m, pkt, ok, programmed) = r
  BY <1>2, <1>4 DEF StoreChunk, Node
<1> HIDE DEF w, bits
<1>6. /\ r.flash = w.flash /\ r.current_slot = w.current_slot
      /\ r.running_sec_ver = w.running_sec_ver
      /\ r.report_to_send = w.report_to_send
  BY <1>2 DEF Node
<1> HIDE DEF r
<1> QED
  BY <1>3, <1>5, <1>6 DEF WritesOnly

LEMMA OnDataWrites ==
  ASSUME NEW m \in Node, SlotOk(m), NEW pkt \in DataPkts,
         NEW erase_ok \in BOOLEAN, NEW write_ok \in BOOLEAN, NEW programmed \in BOOLEAN
  PROVE  LET r == OnData(m, pkt, erase_ok, write_ok, programmed)
         IN r = m \/ (m.ota_session_active /\ WritesOnly(r, m, m.ota_target_slot))
<1> DEFINE s == IF SelectsPage(m, pkt) THEN SelectPage(m, pkt, erase_ok) ELSE m
           t == StoreChunk(s, pkt, write_ok, programmed)
           ignored == \/ ~InSession(m, pkt)
                      \/ ~BoundsOk(m, m.ota_target_slot, pkt.page, pkt.chunk)
                      \/ pkt.page < m.current_rx_page_offset
<1>1. CASE ignored
  BY <1>1, Zenon DEF OnData
<1>2. CASE ~ignored
  <2>1. m.ota_session_active /\ m.ota_target_slot \in Slots
    BY <1>2 DEF InSession, SlotOk
  <2>2. /\ s \in Node /\ s.ota_target_slot = m.ota_target_slot
        /\ WritesOnly(s, m, m.ota_target_slot)
    <3>1. CASE SelectsPage(m, pkt)
      BY <2>1, <3>1, SelectPageEffect, SelectPageWrites, ZenonT(60) DEF SameSession
    <3>2. CASE ~SelectsPage(m, pkt)
      BY <3>2 DEF WritesOnly
    <3> QED
      BY <3>1, <3>2
  <2>3. \/ OnData(m, pkt, erase_ok, write_ok, programmed) = s
        \/ OnData(m, pkt, erase_ok, write_ok, programmed) = t
    BY <1>2, Zenon DEF OnData
  <2> HIDE DEF s
  <2>4. WritesOnly(t, s, m.ota_target_slot)
    BY <2>1, <2>2, StoreChunkWrites
  <2> HIDE DEF t
  <2> QED
    BY <2>1, <2>2, <2>3, <2>4 DEF WritesOnly
<1> QED
  BY <1>1, <1>2

\* START erases in the slot it opens a session for, which is never the running one.
LEMMA OnStartWrites ==
  ASSUME NEW m \in Node, NEW pkt \in StartPkts, NEW ok \in BOOLEAN
  PROVE  LET r == OnStart(m, pkt, ok)
         IN /\ r.current_slot = m.current_slot
            /\ r.running_sec_ver = m.running_sec_ver
            /\ r.report_to_send = m.report_to_send
            /\ Backend = "dual" =>
                 /\ SlotSafe(r)
                 /\ m.current_slot \in Slots =>
                      r.flash[m.current_slot] = m.flash[m.current_slot]
<1> DEFINE over == EndSession(m, pkt)
           e == EraseSector(over, pkt.target, 0, ok)
           r == [e EXCEPT !.page_0_erased = TRUE, !.ota_session_active = TRUE]
<1>1. /\ over \in Node /\ over.ota_target_slot = pkt.target
      /\ over.ota_session_active = FALSE
  BY EndSessionType DEF StartPkts
<1>2. /\ over.flash = m.flash /\ over.current_slot = m.current_slot
      /\ over.running_sec_ver = m.running_sec_ver
      /\ over.report_to_send = m.report_to_send
  BY DEF EndSession, Node
<1> HIDE DEF over
<1>3. CASE StartStatus(m, pkt, ok) # "ACCEPTED"
  <2>1. OnStart(m, pkt, ok) = over
    BY <1>3, Zenon DEF OnStart, over
  <2> QED
    BY <1>1, <1>2, <2>1 DEF SlotSafe
<1>4. CASE StartStatus(m, pkt, ok) = "ACCEPTED"
  <2>1. OnStart(m, pkt, ok) = r
    BY <1>4, Zenon DEF OnStart, over
  <2>2. pkt.target \in Slots /\ (Backend = "dual" => pkt.target # m.current_slot)
    BY <1>4 DEF StartStatus, SameSlot
  <2>3. 0 \in Page
    BY WireAssumption DEF Page
  <2>4. e \in Node /\ WritesOnly(e, over, pkt.target)
    BY <1>1, <2>2, <2>3, EraseSectorType, EraseSectorWrites
  <2>5. e.ota_target_slot = pkt.target
    BY <1>1 DEF EraseSector, Node
  <2> HIDE DEF e
  <2>6. /\ r.flash = e.flash /\ r.current_slot = e.current_slot
        /\ r.running_sec_ver = e.running_sec_ver
        /\ r.ota_target_slot = e.ota_target_slot /\ r.report_to_send = e.report_to_send
    BY <2>4 DEF Node
  <2> HIDE DEF r
  <2> QED
    BY <1>2, <2>1, <2>2, <2>4, <2>5, <2>6 DEF WritesOnly, SlotSafe
<1> QED
  BY <1>3, <1>4

\* The other handlers and the timers write nothing.
LEMMA SendPageReportWrites ==
  ASSUME NEW m \in Node
  PROVE  WritesNothing(SendPageReport(m), m)
<1> DEFINE rep == [page |-> m.current_rx_page_offset, bitmap |-> m.page_bitmap]
           r == [m EXCEPT !.report_to_send = rep]
<1>1. SendPageReport(m) = m \/ SendPageReport(m) = r
  BY Zenon DEF SendPageReport
<1> HIDE DEF rep
<1>2. WritesNothing(r, m)
  BY DEF Node, WritesNothing
<1> QED
  BY <1>1, <1>2 DEF WritesNothing

LEMMA CommitWrites ==
  ASSUME NEW m \in Node, m.ota_target_slot \in Slots, m.current_rx_page_offset \in Page
  PROVE  WritesNothing(Commit(m), m)
<1> DEFINE p == m.current_rx_page_offset
           crc == Append(m.running_fw_crc, FlashPage(m, p))
           r == [m EXCEPT !.running_fw_crc = crc, !.last_crc_committed_page_offset = p]
<1>1. m.running_fw_crc \in Seq(PageContent)
  BY DEF Node
<1>2. Commit(m) = IF m.last_crc_committed_page_offset = p THEN m ELSE r
  BY <1>1 DEF Commit, Node
<1> HIDE DEF crc
<1>3. WritesNothing(r, m)
  BY DEF Node, WritesNothing
<1>4. WritesNothing(m, m)
  BY DEF WritesNothing
<1> HIDE DEF r
<1> QED
  BY <1>2, <1>3, <1>4

LEMMA OnPageEndWrites ==
  ASSUME NEW m \in Node, SlotOk(m), NEW pkt \in PageEndPkts, NEW ok \in BOOLEAN
  PROVE  WritesNothing(OnPageEnd(m, pkt, ok), m)
<1> DEFINE reject == [m EXCEPT !.page_bitmap = {}]
           ignored == ~InSession(m, pkt) \/ pkt.page # m.current_rx_page_offset
<1>1. CASE ignored
  <2>1. OnPageEnd(m, pkt, ok) = m
    BY <1>1, Zenon DEF OnPageEnd
  <2> QED
    BY <2>1 DEF WritesNothing
<1>2. CASE ~ignored /\ ~PageMatches(m, pkt, ok)
  <2>1. OnPageEnd(m, pkt, ok) = SendPageReport(reject)
    BY <1>2, Zenon DEF OnPageEnd
  <2>2. reject \in Node /\ WritesNothing(reject, m)
    BY DEF Node, WritesNothing
  <2> HIDE DEF reject
  <2>3. WritesNothing(SendPageReport(reject), reject)
    BY <2>2, SendPageReportWrites
  <2> QED
    BY <2>1, <2>2, <2>3 DEF WritesNothing
<1>3. CASE ~ignored /\ PageMatches(m, pkt, ok)
  <2>1. OnPageEnd(m, pkt, ok) = SendPageReport(Commit(m))
    BY <1>3, Zenon DEF OnPageEnd
  <2>2. m.ota_target_slot \in Slots /\ m.current_rx_page_offset \in Page
    BY <1>3 DEF InSession, SlotOk, PageEndPkts
  <2>3. Commit(m) \in Node /\ WritesNothing(Commit(m), m)
    BY <2>2, CommitEffect, CommitWrites
  <2>4. WritesNothing(SendPageReport(Commit(m)), Commit(m))
    BY <2>3, SendPageReportWrites
  <2> QED
    BY <2>1, <2>3, <2>4 DEF WritesNothing
<1> QED
  BY <1>1, <1>2, <1>3

LEMMA StageWrites ==
  ASSUME NEW m \in Node, NEW slot \in Slots, NEW out
  PROVE  WritesNothing(Stage(m, slot, out), m)
<1> DEFINE st == IF out = "lost" THEN NoStage
                 ELSE [slot |-> slot, sec_ver |-> StagedSecVer(m, slot)]
           r == [m EXCEPT !.staged = st]
<1>1. Stage(m, slot, out) = m \/ Stage(m, slot, out) = r
  BY Zenon DEF Stage
<1> HIDE DEF st
<1>2. WritesNothing(r, m) /\ WritesNothing(m, m)
  BY DEF Node, WritesNothing
<1> HIDE DEF r
<1> QED
  BY <1>1, <1>2

LEMMA OnVerifyWrites ==
  ASSUME NEW m \in Node, SlotOk(m), NEW pkt \in VerifyPkts, NEW out, NEW leaf \in BOOLEAN
  PROVE  WritesNothing(OnVerify(m, pkt, out, leaf), m)
<1> DEFINE rep == SendPageReport(m)
           q == [rep EXCEPT !.current_rx_page_offset = NoPage]
           st == Stage(q, m.ota_target_slot, out)
           timer == st.leaf_stability_ctimer
                      \/ (leaf /\ StageSucceeds(q, m.ota_target_slot, out))
           r == [st EXCEPT !.ota_session_active = FALSE, !.leaf_stability_ctimer = timer]
<1>1. q \in Node /\ WritesNothing(q, m)
  <2>1. rep \in Node /\ WritesNothing(rep, m)
    BY SendPageReportEffect, SendPageReportWrites
  <2> HIDE DEF rep
  <2>2. q \in Node /\ WritesNothing(q, rep)
    BY <2>1, ZenonT(60) DEF Node, WritesNothing
  <2> QED
    BY <2>1, <2>2 DEF WritesNothing
<1>2. CASE ~InSession(m, pkt)
  <2>1. OnVerify(m, pkt, out, leaf) = m
    BY <1>2, Zenon DEF OnVerify
  <2> QED
    BY <2>1 DEF WritesNothing
<1>3. CASE InSession(m, pkt) /\ ~VerifyMatches(m, pkt)
  <2>1. OnVerify(m, pkt, out, leaf) = q
    BY <1>3, Zenon DEF OnVerify
  <2> QED
    BY <1>1, <2>1
<1>4. CASE InSession(m, pkt) /\ VerifyMatches(m, pkt)
  <2>1. m.ota_target_slot \in Slots
    BY <1>4 DEF InSession, SlotOk
  <2>3. OnVerify(m, pkt, out, leaf)
          = [st EXCEPT !.ota_session_active = FALSE,
                       !.leaf_stability_ctimer =
                          @ \/ (leaf /\ StageSucceeds(q, m.ota_target_slot, out))]
    BY <1>4, Zenon DEF OnVerify
  <2> HIDE DEF rep, q
  <2>2. st \in Node /\ WritesNothing(st, q)
    BY <1>1, <2>1, StageType, StageWrites
  <2>4. OnVerify(m, pkt, out, leaf) = r
    BY <2>2, <2>3, Zenon DEF Node
  <2> HIDE DEF st
  <2>5. timer \in BOOLEAN
    OBVIOUS
  <2> HIDE DEF timer
  <2>6. /\ r.flash = st.flash /\ r.current_slot = st.current_slot
        /\ r.running_sec_ver = st.running_sec_ver /\ r.ota_session_active = FALSE
    BY <2>2, <2>5 DEF Node
  <2> HIDE DEF r
  <2> QED
    BY <1>1, <2>2, <2>4, <2>6 DEF WritesNothing
<1> QED
  BY <1>2, <1>3, <1>4

LEMMA TimersWrite ==
  ASSUME NEW m \in Node, NEW leaf \in BOOLEAN
  PROVE  /\ WritesNothing(ReportSent(m), m)
         /\ WritesNothing(LeafStability(m, leaf), m)
         /\ WritesNothing(StagedReboot(m), m)
<1>1. WritesNothing(ReportSent(m), m)
  BY DEF ReportSent, Node, WritesNothing
<1>2. WritesNothing(LeafStability(m, leaf), m)
  <2> DEFINE t == m.staged_reboot_ctimer \/ leaf
             r == [m EXCEPT !.leaf_stability_ctimer = FALSE, !.staged_reboot_ctimer = t]
  <2>1. LeafStability(m, leaf) = r
    BY Zenon DEF LeafStability, Node
  <2>2. t \in BOOLEAN
    OBVIOUS
  <2> HIDE DEF t
  <2>3. WritesNothing(r, m)
    BY <2>2 DEF Node, WritesNothing
  <2> QED
    BY <2>1, <2>3
<1>3. WritesNothing(StagedReboot(m), m)
  <2> DEFINE b == Boot(m.flash, m.current_slot, m.running_sec_ver)
             staged == m.staged
             r == [b EXCEPT !.staged = staged, !.reset = TRUE]
  <2>1. /\ m.flash \in [Slots -> [Page -> [Chunk -> Cell]]]
        /\ m.current_slot \in Target \cup {NoTarget} /\ m.running_sec_ver \in Nat
    BY DEF Node
  <2>2. b \in Node /\ b.ota_session_active = FALSE
    BY <2>1, BootType
  <2>3. /\ b.flash = m.flash /\ b.current_slot = m.current_slot
        /\ b.running_sec_ver = m.running_sec_ver
    BY DEF Boot
  <2>4. StagedReboot(m) = r
    BY Zenon DEF StagedReboot
  <2> HIDE DEF b, staged
  <2>5. /\ r.flash = b.flash /\ r.current_slot = b.current_slot
        /\ r.running_sec_ver = b.running_sec_ver
        /\ r.ota_session_active = b.ota_session_active
    BY <2>2 DEF Node
  <2> HIDE DEF r
  <2> QED
    BY <2>2, <2>3, <2>4, <2>5 DEF WritesNothing
<1> QED
  BY <1>1, <1>2, <1>3

\* A report taken by PAGE_END is empty, or of a page that was just found in flash.
LEMMA OnPageEndReports ==
  ASSUME NEW m \in Node, SlotOk(m), NEW pkt \in PageEndPkts, NEW ok \in BOOLEAN
  PROVE  LET r == OnPageEnd(m, pkt, ok)
         IN \/ r.report_to_send = m.report_to_send
            \/ r.report_to_send = [page |-> pkt.page, bitmap |-> {}]
            \/ /\ r.report_to_send.page = pkt.page
               /\ r.last_crc_committed_page_offset = pkt.page
               /\ FlashPage(r, pkt.page) = pkt.crc
<1> DEFINE reject == [m EXCEPT !.page_bitmap = {}]
           ignored == ~InSession(m, pkt) \/ pkt.page # m.current_rx_page_offset
<1>1. pkt.page \in Page /\ pkt.page # NoPage
  BY DEF PageEndPkts, Page, NoPage
<1>2. ASSUME NEW s \in Node, s.current_rx_page_offset = pkt.page
      PROVE  SendPageReport(s).report_to_send = [page |-> pkt.page, bitmap |-> s.page_bitmap]
  <2> DEFINE rep == [page |-> s.current_rx_page_offset, bitmap |-> s.page_bitmap]
             r == [s EXCEPT !.report_to_send = rep]
  <2>1. s.current_rx_page_offset # NoPage
    BY <1>1, <1>2
  <2>2. SendPageReport(s) = r
    BY <2>1, Zenon DEF SendPageReport
  <2> HIDE DEF rep
  <2>3. r.report_to_send = rep
    BY DEF Node
  <2> QED
    BY <1>2, <2>2, <2>3 DEF rep
<1>3. CASE ignored
  BY <1>3, Zenon DEF OnPageEnd
<1>4. CASE ~ignored /\ ~PageMatches(m, pkt, ok)
  <2>1. OnPageEnd(m, pkt, ok) = SendPageReport(reject)
    BY <1>4, Zenon DEF OnPageEnd
  <2>2. /\ reject \in Node /\ reject.page_bitmap = {}
        /\ reject.current_rx_page_offset = pkt.page
    BY <1>4 DEF Node
  <2> HIDE DEF reject
  <2> QED
    BY <1>2, <2>1, <2>2
<1>5. CASE ~ignored /\ PageMatches(m, pkt, ok)
  <2> DEFINE c == Commit(m)
             r == SendPageReport(c)
  <2>1. OnPageEnd(m, pkt, ok) = r
    BY <1>5, Zenon DEF OnPageEnd
  <2>2. m.ota_target_slot \in Slots /\ m.current_rx_page_offset \in Page
    BY <1>1, <1>5 DEF InSession, SlotOk
  <2>3. /\ c \in Node /\ c.current_rx_page_offset = pkt.page
        /\ c.last_crc_committed_page_offset = pkt.page
        /\ c.flash = m.flash /\ c.ota_target_slot = m.ota_target_slot
        /\ c.current_file_size = m.current_file_size
    BY <1>5, <2>2, CommitEffect
  <2> HIDE DEF c
  <2>4. SameReception(r, c)
    BY <2>3, SendPageReportEffect
  <2>5. r.report_to_send = [page |-> pkt.page, bitmap |-> c.page_bitmap]
    BY <1>2, <2>3
  <2>6. r.report_to_send.page = pkt.page
    BY <2>5
  <2> HIDE DEF r
  <2>7. FlashPage(m, pkt.page) = pkt.crc
    BY <1>5 DEF PageMatches
  <2> QED
    BY <2>1, <2>3, <2>4, <2>6, <2>7 DEF SameReception, SameSession, FlashPage
<1> QED
  BY <1>3, <1>4, <1>5

-----------------------------------------------------------------------------
(* What the operators do to the page being received. *)

LEMMA EraseFlashErases ==
  ASSUME NEW flash \in [Slots -> [Page -> [Chunk -> Cell]]], NEW slot \in Slots, NEW base,
         NEW p \in Page, SectorBase(p) = base
  PROVE  EraseFlash(flash, slot, base)[slot][p] = ErasedPage
BY DEF EraseFlash

LEMMA OnStartErases ==
  ASSUME NEW m \in Node, NEW pkt \in StartPkts, NEW ok \in BOOLEAN,
         OnStart(m, pkt, ok).ota_session_active
  PROVE  /\ ok
         /\ \A p \in Page : SectorBase(p) = 0 =>
              OnStart(m, pkt, ok).flash[pkt.target][p] = ErasedPage
<1> DEFINE over == EndSession(m, pkt)
           e == EraseSector(over, pkt.target, 0, ok)
           r == [e EXCEPT !.page_0_erased = TRUE, !.ota_session_active = TRUE]
<1>1. over \in Node /\ over.ota_session_active = FALSE
  BY EndSessionType DEF StartPkts
<1>2. over.erased_sector_addr = NoSector
  BY DEF EndSession, Node
<1> HIDE DEF over
<1>3. StartStatus(m, pkt, ok) = "ACCEPTED"
  <2> SUFFICES ASSUME StartStatus(m, pkt, ok) # "ACCEPTED" PROVE FALSE
    OBVIOUS
  <2>1. OnStart(m, pkt, ok) = over
    BY Zenon DEF OnStart, over
  <2> QED
    BY <1>1, <2>1
<1>4. pkt.target \in Slots /\ ok /\ 0 \in Page
  BY <1>3, WireAssumption DEF StartStatus, Page
<1>5. OnStart(m, pkt, ok) = r
  BY <1>3, Zenon DEF OnStart, over
<1>6. ~AlreadyErased(over, pkt.target, 0)
  BY <1>2, <1>4 DEF AlreadyErased, NoSector, NoPage
<1>7. e = [over EXCEPT !.flash = EraseFlash(over.flash, pkt.target, 0),
                       !.erased_sector_addr = Tracked(over, pkt.target, 0)]
  BY <1>4, <1>6, Zenon DEF EraseSector
<1>8. e \in Node /\ e.flash = EraseFlash(over.flash, pkt.target, 0)
  <2>1. e \in Node
    BY <1>1, <1>4, EraseSectorType
  <2> QED
    BY <1>1, <1>7, <2>1 DEF Node
<1> HIDE DEF e
<1>9. r.flash = e.flash
  BY <1>8 DEF Node
<1>10. over.flash \in [Slots -> [Page -> [Chunk -> Cell]]]
  BY <1>1 DEF Node
<1>11. \A p \in Page : SectorBase(p) = 0 =>
         EraseFlash(over.flash, pkt.target, 0)[pkt.target][p] = ErasedPage
  BY <1>4, <1>10, EraseFlashErases
<1> QED
  BY <1>4, <1>5, <1>8, <1>9, <1>11

\* A page that is selected has no bits, and with its sector is freshly erased, unless the
\* sector was erased before.
LEMMA SelectPageErases ==
  ASSUME NEW m \in Node, NEW pkt \in DataPkts, m.ota_target_slot \in Slots
  PROVE  LET s == SelectPage(m, pkt, TRUE)
             base == SectorBase(pkt.page)
         IN /\ s.page_bitmap = {}
            /\ NeedsErase(m, pkt) /\ ~AlreadyErased(m, m.ota_target_slot, base) =>
                 \A p \in Page : SectorBase(p) = base =>
                   s.flash[m.ota_target_slot][p] = ErasedPage
<1> DEFINE base == SectorBase(pkt.page)
           slot == m.ota_target_slot
           chosen == [m EXCEPT !.current_rx_page_offset = pkt.page, !.page_bitmap = {}]
           e == EraseSector(chosen, slot, base, TRUE)
           b == m.page_0_erased \/ (pkt.page = 0 /\ TRUE)
           s == [e EXCEPT !.page_0_erased = b]
<1>1. pkt.page \in Page /\ base \in Page
  BY SectorBaseType DEF DataPkts
<1>2. /\ chosen \in Node /\ chosen.page_bitmap = {} /\ chosen.flash = m.flash
      /\ chosen.erased_sector_addr = m.erased_sector_addr
  BY <1>1 DEF Node
<1> HIDE DEF chosen
<1>3. e \in Node /\ e.page_bitmap = chosen.page_bitmap
  <2>1. e \in Node
    BY <1>1, <1>2, EraseSectorType
  <2>2. e.page_bitmap = chosen.page_bitmap
    BY <1>2 DEF EraseSector, Node
  <2> QED
    BY <2>1, <2>2
<1>4. ~AlreadyErased(m, slot, base) => e.flash = EraseFlash(m.flash, slot, base)
  <2> SUFFICES ASSUME ~AlreadyErased(m, slot, base)
               PROVE  e.flash = EraseFlash(m.flash, slot, base)
    OBVIOUS
  <2>1. ~AlreadyErased(chosen, slot, base)
    BY <1>2 DEF AlreadyErased
  <2>2. e = [chosen EXCEPT !.flash = EraseFlash(chosen.flash, slot, base),
                           !.erased_sector_addr = Tracked(chosen, slot, base)]
    BY <2>1, Zenon DEF EraseSector
  <2> QED
    BY <1>2, <2>2 DEF Node
<1> HIDE DEF e, b
<1>5. s.page_bitmap = e.page_bitmap /\ s.flash = e.flash
  BY <1>3 DEF Node
<1>6. SelectPage(m, pkt, TRUE) = IF ~NeedsErase(m, pkt) THEN chosen ELSE s
  BY Zenon DEF SelectPage, chosen, e, b
<1> HIDE DEF s
<1>7. m.flash \in [Slots -> [Page -> [Chunk -> Cell]]]
  BY DEF Node
<1>8. \A p \in Page : SectorBase(p) = base =>
        EraseFlash(m.flash, slot, base)[slot][p] = ErasedPage
  BY <1>7, EraseFlashErases
<1> QED
  BY <1>2, <1>3, <1>4, <1>5, <1>6, <1>8

\* Programming a chunk leaves the other cells of its page, and its bit is set with it.
ChunkStored(r, m, slot, pkt) ==
  LET old == m.flash[slot][pkt.page]
      new == r.flash[slot][pkt.page]
  IN /\ \A c \in Chunk \ {pkt.chunk} : new[c] = old[c]
     /\ new[pkt.chunk] \in {old[pkt.chunk], old[pkt.chunk] \cap pkt.data}
     /\ \/ r = m
        \/ r.page_bitmap = m.page_bitmap
        \/ /\ r.page_bitmap = m.page_bitmap \cup {pkt.chunk}
           /\ new[pkt.chunk] = old[pkt.chunk] \cap pkt.data

LEMMA StoreChunkCells ==
  ASSUME NEW m \in Node, NEW pkt \in DataPkts, NEW ok \in BOOLEAN,
         NEW programmed \in BOOLEAN, NEW slot \in Slots, m.ota_target_slot = slot
  PROVE  ChunkStored(StoreChunk(m, pkt, ok, programmed), m, slot, pkt)
<1> DEFINE cell == m.flash[slot][pkt.page][pkt.chunk] \cap pkt.data
           f == [m.flash EXCEPT ![slot][pkt.page][pkt.chunk] = cell]
           w == WriteFlash(m, slot, pkt.page, pkt.chunk, pkt.data, ok \/ programmed)
           bits == IF ok THEN m.page_bitmap \cup {pkt.chunk} ELSE m.page_bitmap
           r == [w EXCEPT !.page_bitmap = bits]
<1>1. /\ pkt.page \in Page /\ pkt.chunk \in Chunk /\ pkt.data \in Cell
      /\ (ok \/ programmed) \in BOOLEAN
      /\ m.flash \in [Slots -> [Page -> [Chunk -> Cell]]]
  BY DEF DataPkts, Node
<1>2. w \in Node
  BY <1>1, WriteFlashType
<1>3. w.flash = (IF ok \/ programmed THEN f ELSE m.flash) /\ w.page_bitmap = m.page_bitmap
  BY <1>1 DEF WriteFlash, Node
<1>4. /\ f[slot][pkt.page][pkt.chunk] = cell
      /\ \A c \in Chunk \ {pkt.chunk} : f[slot][pkt.page][c] = m.flash[slot][pkt.page][c]
  BY <1>1
<1>5. pkt.chunk \notin m.page_bitmap => StoreChunk(m, pkt, ok, programmed) = r
  BY <1>2, <1>3 DEF StoreChunk, Node
<1>6. pkt.chunk \in m.page_bitmap => StoreChunk(m, pkt, ok, programmed) = m
  BY DEF StoreChunk
<1> HIDE DEF w, f, bits
<1>7. r.flash = w.flash /\ r.page_bitmap = bits
  BY <1>2 DEF Node
<1> HIDE DEF r
<1>8. CASE pkt.chunk \in m.page_bitmap
  BY <1>6, <1>8 DEF ChunkStored
<1>9. CASE pkt.chunk \notin m.page_bitmap
  BY <1>3, <1>4, <1>5, <1>7, <1>9, ZenonT(60) DEF bits, ChunkStored
<1> QED
  BY <1>8, <1>9

\* PAGE_END takes bits away or leaves them.
LEMMA OnPageEndBits ==
  ASSUME NEW m \in Node, NEW pkt, NEW ok
  PROVE  OnPageEnd(m, pkt, ok).page_bitmap \subseteq m.page_bitmap
<1>1. ASSUME NEW k \in Node PROVE SendPageReport(k).page_bitmap = k.page_bitmap
  <2> DEFINE rep == [page |-> k.current_rx_page_offset, bitmap |-> k.page_bitmap]
             r == [k EXCEPT !.report_to_send = rep]
  <2>1. SendPageReport(k) = IF k.current_rx_page_offset = NoPage THEN k ELSE r
    BY Zenon DEF SendPageReport
  <2> HIDE DEF rep
  <2> QED
    BY <2>1 DEF Node
<1> DEFINE reject == [m EXCEPT !.page_bitmap = {}]
<1>2. reject \in Node /\ reject.page_bitmap = {}
  BY DEF Node
<1>3. \/ OnPageEnd(m, pkt, ok) = m
      \/ OnPageEnd(m, pkt, ok) = SendPageReport(reject)
      \/ /\ InSession(m, pkt) /\ pkt.page = m.current_rx_page_offset
         /\ OnPageEnd(m, pkt, ok) = SendPageReport(Commit(m))
  BY Zenon DEF OnPageEnd
<1> HIDE DEF reject
<1>4. Commit(m).page_bitmap = m.page_bitmap /\ SendPageReport(Commit(m)).page_bitmap = m.page_bitmap
  <2> DEFINE rx == m.current_rx_page_offset
             crc == Append(m.running_fw_crc, FlashPage(m, rx))
             r == [m EXCEPT !.running_fw_crc = crc, !.last_crc_committed_page_offset = rx]
  <2>1. Commit(m) = m \/ Commit(m) = r
    BY Zenon DEF Commit, Node
  <2> HIDE DEF crc
  <2>2. r.page_bitmap = m.page_bitmap /\ r.current_rx_page_offset = m.current_rx_page_offset
    BY DEF Node
  <2> HIDE DEF r
  <2>3. ASSUME NEW k, k.page_bitmap = m.page_bitmap, k = m \/ k = r
        PROVE  SendPageReport(k).page_bitmap = m.page_bitmap
    <3> DEFINE rep == [page |-> k.current_rx_page_offset, bitmap |-> k.page_bitmap]
               q == [k EXCEPT !.report_to_send = rep]
    <3>1. SendPageReport(k) = IF k.current_rx_page_offset = NoPage THEN k ELSE q
      BY Zenon DEF SendPageReport
    <3> HIDE DEF rep
    <3>2. q.page_bitmap = k.page_bitmap
      BY <2>3 DEF Node, r
    <3> QED
      BY <2>3, <3>1, <3>2
  <2> QED
    BY <2>1, <2>2, <2>3
<1> QED
  BY <1>1, <1>2, <1>3, <1>4

LEMMA VerifyDeselects ==
  ASSUME NEW m \in Node, SlotOk(m), NEW pkt \in VerifyPkts, NEW out, NEW leaf \in BOOLEAN,
         InSession(m, pkt), OnVerify(m, pkt, out, leaf).ota_session_active
  PROVE  OnVerify(m, pkt, out, leaf).current_rx_page_offset = NoPage
<1> DEFINE report == SendPageReport(m)
           q == [report EXCEPT !.current_rx_page_offset = NoPage]
           st == Stage(q, m.ota_target_slot, out)
           timer == st.leaf_stability_ctimer
                      \/ (leaf /\ StageSucceeds(q, m.ota_target_slot, out))
           r == [st EXCEPT !.ota_session_active = FALSE, !.leaf_stability_ctimer = timer]
<1>1. report \in Node
  BY SendPageReportEffect
<1>2. OnVerify(m, pkt, out, leaf) = IF ~VerifyMatches(m, pkt) THEN q ELSE
        [st EXCEPT !.ota_session_active = FALSE,
                   !.leaf_stability_ctimer =
                      @ \/ (leaf /\ StageSucceeds(q, m.ota_target_slot, out))]
  BY Zenon DEF OnVerify
<1> HIDE DEF report
<1>3. q \in Node /\ q.current_rx_page_offset = NoPage
  BY <1>1 DEF Node
<1>4. CASE ~VerifyMatches(m, pkt)
  BY <1>2, <1>3, <1>4
<1>5. CASE VerifyMatches(m, pkt)
  <2> HIDE DEF q
  <2>1. st \in Node
    BY <1>3, StageType DEF InSession, SlotOk
  <2> HIDE DEF st
  <2>2. OnVerify(m, pkt, out, leaf) = r
    BY <1>2, <1>5, <2>1, Zenon DEF Node
  <2> HIDE DEF timer
  <2>3. r.ota_session_active = FALSE
    BY <2>1 DEF Node
  <2> QED
    BY <2>2, <2>3
<1> QED
  BY <1>4, <1>5

-----------------------------------------------------------------------------
(* What the operators do when flash obeys. *)

\* An erase leaves every page as it is or erased.
ErasesOnly(r, m, slot) ==
  \A p \in Page : r.flash[slot][p] \in {m.flash[slot][p], ErasedPage}

LEMMA EraseSectorErases ==
  ASSUME NEW m \in Node, NEW slot \in Slots, NEW base \in Page, NEW ok \in BOOLEAN
  PROVE  ErasesOnly(EraseSector(m, slot, base, ok), m, slot)
<1> DEFINE f == EraseFlash(m.flash, slot, base)
           e == [m EXCEPT !.flash = f, !.erased_sector_addr = Tracked(m, slot, base)]
<1>1. m.flash \in [Slots -> [Page -> [Chunk -> Cell]]]
  BY DEF Node
<1>2. \A p \in Page : f[slot][p] \in {m.flash[slot][p], ErasedPage}
  BY <1>1 DEF EraseFlash
<1> HIDE DEF f
<1>3. e.flash = f
  BY DEF Node
<1>4. EraseSector(m, slot, base, ok) = m \/ EraseSector(m, slot, base, ok) = e
  BY Zenon DEF EraseSector, f
<1> QED
  BY <1>2, <1>3, <1>4 DEF ErasesOnly

LEMMA SelectPageFlash ==
  ASSUME NEW m \in Node, NEW pkt \in DataPkts, NEW ok \in BOOLEAN,
         m.ota_target_slot \in Slots
  PROVE  ErasesOnly(SelectPage(m, pkt, ok), m, m.ota_target_slot)
<1> DEFINE chosen == [m EXCEPT !.current_rx_page_offset = pkt.page, !.page_bitmap = {}]
           e == EraseSector(chosen, m.ota_target_slot, SectorBase(pkt.page), ok)
           erased == m.page_0_erased \/ (pkt.page = 0 /\ ok)
           r == [e EXCEPT !.page_0_erased = erased]
<1>1. pkt.page \in Page /\ SectorBase(pkt.page) \in Page
  BY SectorBaseType DEF DataPkts
<1>2. chosen \in Node /\ chosen.flash = m.flash
  BY <1>1 DEF Node
<1>3. SelectPage(m, pkt, ok) = chosen \/ SelectPage(m, pkt, ok) = r
  BY Zenon DEF SelectPage
<1> HIDE DEF chosen, erased
<1>4. e \in Node /\ ErasesOnly(e, chosen, m.ota_target_slot)
  BY <1>1, <1>2, EraseSectorType, EraseSectorErases
<1> HIDE DEF e
<1>5. r.flash = e.flash
  BY <1>4 DEF Node
<1> HIDE DEF r
<1> QED
  BY <1>2, <1>3, <1>4, <1>5 DEF ErasesOnly

LEMMA OnStartFlash ==
  ASSUME NEW m \in Node, NEW pkt \in StartPkts, NEW ok \in BOOLEAN,
         StartStatus(m, pkt, ok) = "ACCEPTED"
  PROVE  ErasesOnly(OnStart(m, pkt, ok), m, pkt.target)
<1> DEFINE over == EndSession(m, pkt)
           e == EraseSector(over, pkt.target, 0, ok)
           r == [e EXCEPT !.page_0_erased = TRUE, !.ota_session_active = TRUE]
<1>1. over \in Node
  BY EndSessionType DEF StartPkts
<1>2. over.flash = m.flash
  BY DEF EndSession, Node
<1> HIDE DEF over
<1>3. OnStart(m, pkt, ok) = r
  BY Zenon DEF OnStart, over
<1>4. pkt.target \in Slots /\ 0 \in Page
  BY WireAssumption DEF StartStatus, Page
<1>5. e \in Node /\ ErasesOnly(e, over, pkt.target)
  BY <1>1, <1>4, EraseSectorType, EraseSectorErases
<1> HIDE DEF e
<1>6. r.flash = e.flash
  BY <1>5 DEF Node
<1> HIDE DEF r
<1> QED
  BY <1>2, <1>3, <1>5, <1>6 DEF ErasesOnly

\* A write that succeeds programs the chunk unless its bit is set, and sets its bit.
ChunkWritten(r, m, slot, pkt) ==
  LET old == m.flash[slot][pkt.page]
      new == r.flash[slot][pkt.page]
  IN /\ r.page_bitmap = m.page_bitmap \cup {pkt.chunk}
     /\ \A c \in Chunk \ {pkt.chunk} : new[c] = old[c]
     /\ pkt.chunk \in m.page_bitmap => new[pkt.chunk] = old[pkt.chunk]
     /\ pkt.chunk \notin m.page_bitmap => new[pkt.chunk] = old[pkt.chunk] \cap pkt.data

LEMMA StoreChunkSucceeds ==
  ASSUME NEW m \in Node, NEW pkt \in DataPkts, NEW slot \in Slots, m.ota_target_slot = slot
  PROVE  ChunkWritten(StoreChunk(m, pkt, TRUE, TRUE), m, slot, pkt)
<1> DEFINE cell == m.flash[slot][pkt.page][pkt.chunk] \cap pkt.data
           f == [m.flash EXCEPT ![slot][pkt.page][pkt.chunk] = cell]
           w == WriteFlash(m, slot, pkt.page, pkt.chunk, pkt.data, TRUE \/ TRUE)
           bits == m.page_bitmap \cup {pkt.chunk}
           r == [w EXCEPT !.page_bitmap = bits]
<1>1. /\ pkt.page \in Page /\ pkt.chunk \in Chunk /\ pkt.data \in Cell
      /\ m.flash \in [Slots -> [Page -> [Chunk -> Cell]]]
  BY DEF DataPkts, Node
<1>2. w \in Node
  BY <1>1, WriteFlashType
<1>3. w.flash = f /\ w.page_bitmap = m.page_bitmap
  BY <1>1 DEF WriteFlash, Node
<1>4. /\ f[slot][pkt.page][pkt.chunk] = cell
      /\ \A c \in Chunk \ {pkt.chunk} : f[slot][pkt.page][c] = m.flash[slot][pkt.page][c]
  BY <1>1
<1>5. pkt.chunk \notin m.page_bitmap => StoreChunk(m, pkt, TRUE, TRUE) = r
  BY <1>2, <1>3 DEF StoreChunk, Node
<1>6. pkt.chunk \in m.page_bitmap => StoreChunk(m, pkt, TRUE, TRUE) = m
  BY DEF StoreChunk
<1> HIDE DEF w, f, bits
<1>7. r.flash = w.flash /\ r.page_bitmap = bits
  BY <1>2 DEF Node
<1> HIDE DEF r
<1>8. CASE pkt.chunk \in m.page_bitmap
  BY <1>6, <1>8 DEF ChunkWritten
<1>9. CASE pkt.chunk \notin m.page_bitmap
  BY <1>3, <1>4, <1>5, <1>7, <1>9, ZenonT(60) DEF bits, ChunkWritten
<1> QED
  BY <1>8, <1>9

\* PAGE_END of the page in flash commits it and keeps the bits.
LEMMA OnPageEndMatches ==
  ASSUME NEW m \in Node, SlotOk(m), NEW pkt \in PageEndPkts, InSession(m, pkt),
         pkt.page = m.current_rx_page_offset, PageMatches(m, pkt, TRUE)
  PROVE  LET r == OnPageEnd(m, pkt, TRUE)
         IN SameReception(r, Commit(m)) /\ r.page_bitmap = m.page_bitmap
<1> DEFINE c == Commit(m)
           rep == [page |-> c.current_rx_page_offset, bitmap |-> c.page_bitmap]
           r == [c EXCEPT !.report_to_send = rep]
<1>1. OnPageEnd(m, pkt, TRUE) = SendPageReport(c)
  BY Zenon DEF OnPageEnd
<1>2. c \in Node
  BY CommitEffect DEF InSession, SlotOk, PageEndPkts
<1>3. c.page_bitmap = m.page_bitmap
  <2> DEFINE rx == m.current_rx_page_offset
             crc == Append(m.running_fw_crc, FlashPage(m, rx))
             q == [m EXCEPT !.running_fw_crc = crc, !.last_crc_committed_page_offset = rx]
  <2>1. c = m \/ c = q
    BY Zenon DEF Commit, Node
  <2> HIDE DEF crc, c
  <2>2. q.page_bitmap = m.page_bitmap
    BY DEF Node
  <2> HIDE DEF q
  <2> QED
    BY <2>1, <2>2
<1>4. SendPageReport(c) = c \/ SendPageReport(c) = r
  BY Zenon DEF SendPageReport
<1>5. SameReception(SendPageReport(c), c)
  BY <1>2, SendPageReportEffect
<1> HIDE DEF c, rep
<1>6. r.page_bitmap = c.page_bitmap
  BY <1>2 DEF Node
<1> HIDE DEF r
<1> QED
  BY <1>1, <1>3, <1>4, <1>5, <1>6 DEF c

\* VERIFY of an intact, newer image stages it, and the session is over.
LEMMA OnVerifyStages ==
  ASSUME NEW m \in Node, SlotOk(m), NEW pkt \in VerifyPkts, NEW leaf \in BOOLEAN,
         InSession(m, pkt), VerifyMatches(m, pkt), ValidImage(m, m.ota_target_slot)
  PROVE  OnVerify(m, pkt, "ok", leaf).staged # NoStage
<1> DEFINE rep == SendPageReport(m)
           q == [rep EXCEPT !.current_rx_page_offset = NoPage]
           slot == m.ota_target_slot
           st == Stage(q, slot, "ok")
           done == [slot |-> slot, sec_ver |-> StagedSecVer(q, slot)]
           u == [q EXCEPT !.staged = done]
           timer == st.leaf_stability_ctimer \/ (leaf /\ StageSucceeds(q, slot, "ok"))
           r == [st EXCEPT !.ota_session_active = FALSE, !.leaf_stability_ctimer = timer]
<1>1. rep \in Node /\ rep.flash = m.flash /\ rep.running_sec_ver = m.running_sec_ver
  BY SendPageReportEffect, SendPageReportWrites DEF WritesNothing
<1>2. OnVerify(m, pkt, "ok", leaf)
          = [st EXCEPT !.ota_session_active = FALSE,
                       !.leaf_stability_ctimer =
                          @ \/ (leaf /\ StageSucceeds(q, slot, "ok"))]
  BY Zenon DEF OnVerify
<1> HIDE DEF rep
<1>3. /\ q \in Node /\ q.flash = m.flash /\ q.running_sec_ver = m.running_sec_ver
  BY <1>1 DEF Node
<1> HIDE DEF q
<1>4. slot \in Slots
  BY DEF InSession, SlotOk
<1>5. ValidImage(q, slot)
  BY <1>3 DEF ValidImage, StagedSecVer
<1>6. st = u
  BY <1>5, Zenon DEF Stage
<1>7. st \in Node
  BY <1>3, <1>4, StageType
<1>8. st.staged = done
  <2> HIDE DEF done
  <2>1. u.staged = done
    BY <1>3 DEF Node
  <2> HIDE DEF u
  <2> QED
    BY <1>6, <2>1
<1>9. OnVerify(m, pkt, "ok", leaf) = r
  BY <1>2, <1>7, Zenon DEF Node
<1> HIDE DEF st, timer
<1>10. r.staged = st.staged
  BY <1>7 DEF Node
<1> HIDE DEF r
<1>11. done.slot # NoTarget
  <2>1. done.slot = slot
    OBVIOUS
  <2> QED
    BY <1>4, <2>1, SlotsAreTargets DEF Target, NoTarget
<1>12. NoStage.slot = NoTarget
  BY DEF NoStage
<1> QED
  BY <1>8, <1>9, <1>10, <1>11, <1>12
=============================================================================
