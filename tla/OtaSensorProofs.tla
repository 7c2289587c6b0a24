--------------------------- MODULE OtaSensorProofs ---------------------------
(***************************************************************************)
(* Proofs about OtaSensor: its type invariant; that a node which heard the *)
(* START of its stream passes VERIFY only with the whole image in its      *)
(* slot; and what one step may do: a dual-onchip node never writes to the  *)
(* slot it runs from, a report of a full page is only taken by a PAGE_END  *)
(* that found the page in flash, and a step that sets a chunk's bit wrote  *)
(* the chunk, so that the bitmap is sound.  Last, that SensorReceives maps *)
(* every behaviour of a node to one of PageReceiver.                       *)
(***************************************************************************)
EXTENDS SensorReceives, SensorNodeProofs

-----------------------------------------------------------------------------
(* The packets of a stream. *)

LEMMA StreamPackets ==
  ASSUME NEW img \in Images, NEW target \in SentTargets, NEW sec_ver \in SecVers,
         NEW p \in Page, NEW c \in Chunk
  PROVE  /\ img \in Image
         /\ StartPkt(img.size, sec_ver, target) \in StartPkts
         /\ DataPkt(p, c, img.data[p][c], target) \in DataPkts
         /\ PageEndPkt(p, ImagePage(img, p), target) \in PageEndPkts
         /\ VerifyPkt(ImageCrc(img), target) \in VerifyPkts
         /\ ImagePage(img, p) \in PageContent
<1>1. img \in Image /\ target \in Target /\ sec_ver \in Nat
  BY SensorAssumption
<1>2. img.size \in Size /\ img.data \in [Page -> [Chunk -> Cell]]
  BY <1>1 DEF Image, FileSize
<1>3. \A q \in Page : ImagePage(img, q) \in PageContent
  BY <1>2, OffsetPageLen, FlashPrefixType DEF ImagePage
<1>4. ImageCrc(img) \in Seq(PageContent)
  <2>1. img.size.pages \in 0 .. MaxPages
    BY <1>2 DEF Size
  <2>2. \A i \in 1 .. img.size.pages : i - 1 \in Page
    BY <2>1, WireAssumption DEF Page
  <2>3. \A i \in 1 .. img.size.pages : ImagePage(img, i - 1) \in PageContent
    BY <1>3, <2>2
  <2>4. img.size.pages \in Nat
    BY <2>1, WireAssumption
  <2>5. ImageCrc(img) \in [1 .. img.size.pages -> PageContent]
    BY <2>3 DEF ImageCrc
  <2> QED
    BY <2>4, <2>5
<1> QED
  BY <1>1, <1>2, <1>3, <1>4 DEF StartPkt, StartPkts, DataPkt, DataPkts,
     PageEndPkt, PageEndPkts, VerifyPkt, VerifyPkts

-----------------------------------------------------------------------------
(* The type invariant. *)

LEMMA TypeInit == Init => TypeOK
<1> SUFFICES ASSUME Init PROVE TypeOK
  OBVIOUS
<1>1. n \in Node /\ n.ota_session_active = FALSE
  <2>1. PICK f \in InitialFlash : n = Boot(f, CurrentSlot, RunningSecVer)
    BY DEF Init
  <2>2. f \in [Slots -> [Page -> [Chunk -> Cell]]]
    BY SensorAssumption
  <2> QED
    BY <2>1, <2>2, BootType, SensorAssumption
<1>2. is_leaf \in BOOLEAN /\ stream \in Stream /\ missed \in 0 .. MaxMissed
  BY SensorAssumption DEF Init
<1> QED
  BY <1>1, <1>2 DEF TypeOK

LEMMA TypeStep == TypeOK /\ [Next]_vars => TypeOK'
<1> SUFFICES ASSUME TypeOK, [Next]_vars PROVE TypeOK'
  OBVIOUS
<1> USE DEF SlotOk
<1>1. /\ n \in Node /\ SlotOk(n) /\ is_leaf \in BOOLEAN
      /\ stream \in Stream /\ missed \in 0 .. MaxMissed
  BY DEF TypeOK
<1>2. /\ stream.image \in Images /\ stream.target \in SentTargets
      /\ stream.sec_ver \in SecVers /\ stream.phase \in {"idle", "data", "verify"}
  BY <1>1 DEF Stream
<1>3. ASSUME NEW img \in Images, NEW target \in SentTargets, NEW sec_ver \in SecVers,
             NextStream(img, target, sec_ver)
      PROVE  stream' \in Stream
  BY <1>3 DEF NextStream, Stream
<1>4. ASSUME NEW img \in Images, NEW target \in SentTargets, NEW sec_ver \in SecVers,
             NEW ok \in EraseOutcomes, HearStart(img, target, sec_ver, ok)
      PROVE  TypeOK'
  <2>1. ok \in BOOLEAN /\ 0 \in Page /\ 0 \in Chunk
    BY SensorAssumption, WireAssumption DEF Page, Chunk
  <2>2. StartPkt(img.size, sec_ver, target) \in StartPkts
    BY <2>1, StreamPackets
  <2>3. n' \in Node /\ SlotOk(n)'
    BY <1>1, <1>4, <2>1, <2>2, OnStartEffect DEF HearStart
  <2> QED
    BY <1>1, <1>3, <1>4, <2>3, SensorAssumption DEF HearStart, TypeOK
<1>5. ASSUME NEW img \in Images, NEW target \in SentTargets, NEW sec_ver \in SecVers,
             MissStart(img, target, sec_ver)
      PROVE  TypeOK'
  <2>1. missed + 1 \in 0 .. MaxMissed
    BY <1>1, <1>5, SensorAssumption DEF MissStart
  <2> QED
    BY <1>1, <1>3, <1>5, <2>1 DEF MissStart, TypeOK
<1>6. ASSUME NEW p \in Page, NEW c \in Chunk, NEW erase_ok \in EraseOutcomes,
             NEW write_ok \in IoOutcomes, NEW programmed \in BOOLEAN,
             HearData(p, c, erase_ok, write_ok, programmed)
      PROVE  TypeOK'
  <2>1. erase_ok \in BOOLEAN /\ write_ok \in BOOLEAN
    BY SensorAssumption
  <2>2. DataPkt(p, c, stream.image.data[p][c], stream.target) \in DataPkts
    BY <1>2, StreamPackets
  <2>3. n' \in Node /\ SameSession(n', n)
    BY <1>1, <1>6, <2>1, <2>2, OnDataType DEF HearData
  <2> QED
    BY <1>1, <1>6, <2>3 DEF HearData, TypeOK, SameSession
<1>7. ASSUME NEW p \in Page, NEW ok \in IoOutcomes, HearPageEnd(p, ok)
      PROVE  TypeOK'
  <2>1. ok \in BOOLEAN /\ 0 \in Chunk
    BY SensorAssumption, WireAssumption DEF Chunk
  <2>2. PageEndPkt(p, ImagePage(stream.image, p), stream.target) \in PageEndPkts
    BY <1>2, <2>1, StreamPackets
  <2> DEFINE pkt == PageEndPkt(p, ImagePage(stream.image, p), stream.target)
  <2>3. /\ n' \in Node
        /\ \/ SameReception(n', n)
           \/ /\ InSession(n, pkt) /\ n.current_rx_page_offset = pkt.page
              /\ SameReception(n', Commit(n))
    BY <1>1, <1>7, <2>1, <2>2, OnPageEndEffect DEF HearPageEnd
  <2>4. SlotOk(n)'
    <3>1. CASE SameReception(n', n)
      BY <1>1, <3>1 DEF SameReception, SameSession
    <3>2. CASE InSession(n, pkt) /\ n.current_rx_page_offset = pkt.page
               /\ SameReception(n', Commit(n))
      <4>1. n.ota_target_slot \in Slots /\ n.current_rx_page_offset \in Page
        BY <1>1, <3>2 DEF InSession, PageEndPkt
      <4>2. Commit(n).ota_target_slot = n.ota_target_slot
        BY <1>1, <4>1, CommitEffect
      <4> QED
        BY <3>2, <4>1, <4>2 DEF SameReception, SameSession
    <3> QED
      BY <2>3, <3>1, <3>2
  <2> QED
    BY <1>1, <1>7, <2>3, <2>4 DEF HearPageEnd, TypeOK
<1>8. ASSUME NEW out \in StageOutcomes, HearVerify(out)
      PROVE  TypeOK'
  <2>1. 0 \in Page /\ 0 \in Chunk
    BY WireAssumption DEF Page, Chunk
  <2>2. VerifyPkt(ImageCrc(stream.image), stream.target) \in VerifyPkts
    BY <1>2, <2>1, StreamPackets
  <2>3. n' \in Node /\ (n'.ota_session_active => SameSession(n', n))
    BY <1>1, <1>8, <2>2, OnVerifyEffect DEF HearVerify
  <2>4. stream' \in Stream
    BY <1>1, <1>8 DEF HearVerify, Stream
  <2> QED
    BY <1>1, <1>8, <2>3, <2>4 DEF HearVerify, TypeOK, SameSession
<1>9. CASE SendReport
  <2>1. n' \in Node /\ SameReception(n', n)
    BY <1>1, <1>9, TimersEffect DEF SendReport
  <2>2. SlotOk(n)'
    BY <1>1, <2>1 DEF SameReception, SameSession
  <2> QED
    BY <1>1, <1>9, <2>1, <2>2 DEF SendReport, TypeOK
<1>10. CASE LeafStabilityExpires
  <2>1. n' \in Node /\ SameReception(n', n)
    BY <1>1, <1>10, TimersEffect DEF LeafStabilityExpires
  <2>2. SlotOk(n)'
    BY <1>1, <2>1 DEF SameReception, SameSession
  <2> QED
    BY <1>1, <1>10, <2>1, <2>2 DEF LeafStabilityExpires, TypeOK
<1>11. CASE StagedRebootExpires
  BY <1>1, <1>11, TimersEffect DEF StagedRebootExpires, TypeOK
<1>12. CASE RouteChanges
  BY <1>1, <1>12, SensorAssumption DEF RouteChanges, TypeOK
<1>13. CASE UNCHANGED vars
  BY <1>1, <1>13 DEF vars, TypeOK
<1> QED
  BY <1>4, <1>5, <1>6, <1>7, <1>8, <1>9, <1>10, <1>11, <1>12, <1>13 DEF Next

\* The node's fields stay in the ranges the code's types and uses give them,
\* and an open session always writes to one of the node's own slots.
THEOREM TypeCorrect == Spec => []TypeOK
<1>1. Init => TypeOK
  BY TypeInit
<1>2. TypeOK /\ [Next]_vars => TypeOK'
  BY TypeStep
<1> QED
  BY <1>1, <1>2, PTL DEF Spec

-----------------------------------------------------------------------------
(* The pages that were committed stay in flash. *)

LEMMA EraseSucceedsInSector ==
  ASSUME ReliableErase, NEW ok \in EraseOutcomes, ok \in BOOLEAN
  PROVE  SectorPages = 2 => Backend = "dual" /\ ok
<1>1. SectorPages = 2 => SectorPages # 1
  OBVIOUS
<1>2. FALSE \notin EraseOutcomes => ok
  <2>1. CASE ok
    BY <2>1
  <2>2. CASE ~ok
    <3>1. ok = FALSE
      BY <2>2
    <3> QED
      BY <3>1, Zenon
  <2> QED
    BY <2>1, <2>2
<1> QED
  BY <1>1, <1>2, Zenon DEF ReliableErase

\* Everything of IInv but the types.
Reception == SessionOfStream /\ CrcCountsEachPageOnce /\ CommittedPagesInFlash
               /\ ErasedSectorIsCurrent

\* A step that leaves the reception of pages alone preserves it.
LEMMA ReceptionUnchanged ==
  ASSUME Reception, n'.ota_session_active => SameReception(n', n),
         stream' = stream, missed' = missed
  PROVE  Reception'
BY DEF Reception, SessionOfStream, CrcCountsEachPageOnce, CommittedPagesInFlash,
       ErasedSectorIsCurrent, InStep, SameReception, SameSession

LEMMA ReceptionStart ==
  ASSUME ReliableErase, TypeOK,
         NEW img \in Images, NEW target \in SentTargets, NEW sec_ver \in SecVers,
         NEW ok \in EraseOutcomes, HearStart(img, target, sec_ver, ok)
  PROVE  Reception'
<1> DEFINE pkt == StartPkt(img.size, sec_ver, target)
<1>1. ok \in BOOLEAN /\ 0 \in Page /\ 0 \in Chunk
  BY SensorAssumption, WireAssumption DEF Page, Chunk
<1>2. /\ pkt \in StartPkts /\ pkt.size = img.size /\ pkt.target = target
      /\ img.size.pages \in Nat \ {0}
  BY <1>1, StreamPackets, WireAssumption DEF StartPkt, Image, FileSize, Size
<1>3. n \in Node
  BY DEF TypeOK
<1>4. n' = OnStart(n, pkt, ok)
  BY DEF HearStart
<1>5. SectorPages = 2 => Backend = "dual" /\ ok
  BY <1>1, EraseSucceedsInSector
<1>6. n'.ota_session_active =>
        /\ n'.page_0_erased
        /\ n'.ota_target_slot = target /\ n'.current_file_size = img.size
        /\ n'.running_fw_crc = <<>>
        /\ n'.last_crc_committed_page_offset = NoPage
        /\ n'.current_rx_page_offset = NoPage
        /\ SectorPages = 2 => n'.erased_sector_addr = <<target, 0>>
  <2> HIDE DEF pkt
  <2> QED
    BY <1>1, <1>2, <1>3, <1>4, <1>5, OnStartEffect
<1>7. stream'.image = img /\ stream'.target = target /\ stream'.phase = "data"
  BY DEF HearStart, NextStream
<1>8. SectorBase(0) = 0 /\ FirstPage(NoPage) = 0
  BY BackendAssumption DEF SectorBase, FirstPage
<1>9. /\ SessionOfStream' /\ ErasedSectorIsCurrent' /\ CrcCountsEachPageOnce'
  BY <1>6, <1>7, <1>8
     DEF SessionOfStream, ErasedSectorIsCurrent, CrcCountsEachPageOnce, InStep, NoPage
<1>10. CommittedPagesInFlash'
  BY <1>2, <1>6, <1>7 DEF CommittedPagesInFlash, InStep, NoPage
<1> QED
  BY <1>9, <1>10 DEF Reception

LEMMA ReceptionData ==
  ASSUME ReliableErase, TypeOK, Reception,
         NEW p \in Page, NEW c \in Chunk, NEW erase_ok \in EraseOutcomes,
         NEW write_ok \in IoOutcomes, NEW programmed \in BOOLEAN,
         HearData(p, c, erase_ok, write_ok, programmed)
  PROVE  Reception'
<1> DEFINE pkt == DataPkt(p, c, stream.image.data[p][c], stream.target)
           slot == n.ota_target_slot
           last == n.last_crc_committed_page_offset
<1>1. /\ erase_ok \in BOOLEAN /\ write_ok \in BOOLEAN
      /\ n \in Node /\ SlotOk(n) /\ stream.image \in Images /\ stream.target \in SentTargets
      /\ stream.sec_ver \in SecVers
      /\ stream' = stream /\ missed' = missed /\ stream.phase = "data"
      /\ c < PageLen(stream.image.size, p)
  BY SensorAssumption DEF TypeOK, Stream, HearData, SlotOk
<1>2. pkt \in DataPkts
  BY <1>1, StreamPackets
<1>3. /\ pkt.page = p /\ pkt.chunk = c /\ pkt.data = stream.image.data[p][c]
      /\ pkt.target = stream.target
  BY DEF DataPkt
<1>4. n' = OnData(n, pkt, erase_ok, write_ok, programmed)
  BY DEF HearData
<1> HIDE DEF pkt
<1>5. n' \in Node /\ SameSession(n', n)
  BY <1>1, <1>2, <1>4, OnDataType
<1>6. CASE ~InStep
  BY <1>1, <1>5, <1>6 DEF Reception, SessionOfStream, CrcCountsEachPageOnce,
     CommittedPagesInFlash, ErasedSectorIsCurrent, InStep, SameSession
<1>7. CASE InStep
  <2>1. /\ n.page_0_erased /\ n.current_file_size = stream.image.size
        /\ slot = stream.target
        /\ Len(n.running_fw_crc) <= last + 1
        /\ last < stream.image.size.pages
        /\ last <= n.current_rx_page_offset
        /\ Len(n.running_fw_crc) = last + 1 =>
             \A q \in 0 .. last : Prefix(n.flash[slot][q], PageLen(stream.image.size, q))
                                    = ImagePage(stream.image, q)
        /\ SectorPages = 2 => n.erased_sector_addr =
                                <<slot, SectorBase(FirstPage(n.current_rx_page_offset))>>
    BY <1>1, <1>7 DEF Reception, SessionOfStream, CrcCountsEachPageOnce,
       CommittedPagesInFlash, ErasedSectorIsCurrent
  <2>a. SectorPages = 2 => Backend = "dual" /\ erase_ok
    BY <1>1, EraseSucceedsInSector
  <2>2. /\ n.current_rx_page_offset <= n'.current_rx_page_offset
        /\ n'.page_0_erased
        /\ SectorPages = 2 => n'.erased_sector_addr =
                                <<slot, SectorBase(FirstPage(n'.current_rx_page_offset))>>
    BY <1>1, <1>2, <1>4, <2>1, <2>a, OnDataEffect
  <2>3. /\ last \in Page \cup {NoPage}
        /\ n.current_rx_page_offset \in Page \cup {NoPage}
        /\ n'.current_rx_page_offset \in Page \cup {NoPage}
    BY <1>1, <1>5 DEF Node
  <2>4. last <= n'.current_rx_page_offset
    BY <2>1, <2>2, <2>3, WireAssumption DEF Page, NoPage
  <2>5. ASSUME Len(n.running_fw_crc) = last + 1, NEW q \in 0 .. last
        PROVE  Prefix(n'.flash[slot][q], PageLen(stream.image.size, q))
                 = ImagePage(stream.image, q)
    <3>1. q \in Page /\ q <= n.current_rx_page_offset
      BY <2>1, <2>3, <2>5, WireAssumption DEF Page, NoPage
    <3>2. HasPage(n, stream.image, q)
      BY <2>1, <2>5 DEF HasPage
    <3>3. stream.image \in Image
      BY <1>1, SensorAssumption
    <3>4. HasPage(n', stream.image, q)
      BY <1>1, <1>2, <1>3, <1>4, <2>1, <2>a, <3>1, <3>2, <3>3, OnDataKeepsPages
    <3> QED
      BY <1>5, <3>4 DEF HasPage, SameSession
  <2>6. SessionOfStream' /\ CrcCountsEachPageOnce' /\ ErasedSectorIsCurrent'
    BY <1>1, <1>5, <1>7, <2>1, <2>2
       DEF SessionOfStream, CrcCountsEachPageOnce, ErasedSectorIsCurrent, InStep, SameSession
  <2>7. CommittedPagesInFlash'
    BY <1>1, <1>5, <1>7, <2>1, <2>4, <2>5
       DEF CommittedPagesInFlash, InStep, SameSession
  <2> QED
    BY <2>6, <2>7 DEF Reception
<1> QED
  BY <1>6, <1>7

LEMMA ReceptionPageEnd ==
  ASSUME TypeOK, Reception, NEW p \in Page, NEW ok \in IoOutcomes, HearPageEnd(p, ok)
  PROVE  Reception'
<1> DEFINE pkt == PageEndPkt(p, ImagePage(stream.image, p), stream.target)
           slot == n.ota_target_slot
           last == n.last_crc_committed_page_offset
<1>1. /\ ok \in BOOLEAN /\ 0 \in Chunk
      /\ n \in Node /\ SlotOk(n) /\ stream.image \in Images /\ stream.target \in SentTargets
      /\ stream.sec_ver \in SecVers
      /\ stream' = stream /\ missed' = missed /\ stream.phase = "data"
      /\ p < stream.image.size.pages
  BY SensorAssumption, WireAssumption DEF TypeOK, Stream, HearPageEnd, SlotOk, Chunk
<1>2. pkt \in PageEndPkts
  BY <1>1, StreamPackets
<1>3. pkt.page = p /\ pkt.crc = ImagePage(stream.image, p)
  BY DEF PageEndPkt
<1>4. n' = OnPageEnd(n, pkt, ok)
  BY DEF HearPageEnd
<1> HIDE DEF pkt
<1>5. \/ SameReception(n', n)
      \/ /\ InSession(n, pkt) /\ n.current_rx_page_offset = p
         /\ FlashPage(n, p) = ImagePage(stream.image, p)
         /\ SameReception(n', Commit(n))
  BY <1>1, <1>2, <1>3, <1>4, OnPageEndEffect
<1>6. CASE SameReception(n', n)
  BY <1>1, <1>6, ReceptionUnchanged
<1>7. CASE /\ InSession(n, pkt) /\ n.current_rx_page_offset = p
           /\ FlashPage(n, p) = ImagePage(stream.image, p)
           /\ SameReception(n', Commit(n))
  <2>1. n.ota_session_active /\ slot \in Slots
    BY <1>1, <1>7 DEF InSession, SlotOk
  <2>2. /\ n'.ota_session_active = n.ota_session_active
        /\ n'.current_file_size = n.current_file_size
        /\ n'.ota_target_slot = slot
        /\ n'.flash = n.flash
        /\ n'.erased_sector_addr = n.erased_sector_addr
        /\ n'.page_0_erased = n.page_0_erased
        /\ n'.current_rx_page_offset = p
        /\ last = p => SameReception(n', n)
        /\ last # p => /\ n'.last_crc_committed_page_offset = p
                       /\ n'.running_fw_crc = Append(n.running_fw_crc, FlashPage(n, p))
    BY <1>1, <1>7, <2>1, CommitEffect DEF SameReception, SameSession
  <2>3. CASE last = p
    BY <1>1, <2>2, <2>3, ReceptionUnchanged
  <2>4. CASE ~InStep
    BY <1>1, <2>2, <2>4 DEF Reception, SessionOfStream, CrcCountsEachPageOnce,
       CommittedPagesInFlash, ErasedSectorIsCurrent, InStep
  <2>5. CASE InStep /\ last # p
    <3>1. /\ n.page_0_erased /\ n.current_file_size = stream.image.size
          /\ slot = stream.target
          /\ Len(n.running_fw_crc) <= last + 1
          /\ last <= n.current_rx_page_offset
          /\ Len(n.running_fw_crc) = last + 1 =>
               \A q \in 0 .. last : Prefix(n.flash[slot][q], PageLen(stream.image.size, q))
                                      = ImagePage(stream.image, q)
          /\ SectorPages = 2 => n.erased_sector_addr =
                                  <<slot, SectorBase(FirstPage(n.current_rx_page_offset))>>
      BY <1>1, <2>5 DEF Reception, SessionOfStream, CrcCountsEachPageOnce,
         CommittedPagesInFlash, ErasedSectorIsCurrent
    <3>2. /\ last \in Page \cup {NoPage} /\ p \in Nat /\ n.running_fw_crc \in Seq(PageContent)
          /\ last \in Int
      BY <1>1, WireAssumption DEF Node, Page, NoPage
    <3>3. last + 1 <= p
      BY <1>7, <2>5, <3>1, <3>2
    <3>4. Len(n'.running_fw_crc) = Len(n.running_fw_crc) + 1
      BY <1>1, <2>1, <2>2, <2>5, <3>2, FlashPageType
    <3>5. Len(n'.running_fw_crc) <= p + 1
      BY <3>1, <3>2, <3>3, <3>4
    <3>6. ASSUME Len(n'.running_fw_crc) = p + 1, NEW q \in 0 .. p
          PROVE  Prefix(n'.flash[slot][q], PageLen(stream.image.size, q))
                   = ImagePage(stream.image, q)
      <4>1. last + 1 = p /\ Len(n.running_fw_crc) = last + 1
        BY <3>1, <3>2, <3>3, <3>4, <3>6
      <4>2. CASE q = p
        BY <1>7, <2>2, <3>1, <4>2 DEF FlashPage
      <4>3. CASE q # p
        <5>1. q \in 0 .. last
          BY <3>2, <3>6, <4>1, <4>3
        <5> QED
          BY <2>2, <3>1, <4>1, <5>1
      <4> QED
        BY <4>2, <4>3
    <3>7. SessionOfStream' /\ CrcCountsEachPageOnce' /\ ErasedSectorIsCurrent'
      BY <1>1, <1>7, <2>2, <2>5, <3>1, <3>5
         DEF SessionOfStream, CrcCountsEachPageOnce, ErasedSectorIsCurrent, InStep
    <3>8. CommittedPagesInFlash'
      <4>1. p <= p
        BY <3>2
      <4> QED
        BY <1>1, <2>2, <2>5, <3>6, <4>1 DEF CommittedPagesInFlash
    <3> QED
      BY <3>7, <3>8 DEF Reception
  <2> QED
    BY <2>3, <2>4, <2>5
<1> QED
  BY <1>5, <1>6, <1>7

LEMMA ReceptionVerify ==
  ASSUME TypeOK, Reception, NEW out \in StageOutcomes, HearVerify(out)
  PROVE  Reception'
<1>1. /\ n \in Node /\ SlotOk(n) /\ is_leaf \in BOOLEAN
      /\ stream.image \in Images /\ stream.target \in SentTargets /\ stream.sec_ver \in SecVers
      /\ 0 \in Page /\ 0 \in Chunk
  BY WireAssumption DEF TypeOK, Stream, SlotOk, Page, Chunk
<1>2. VerifyPkt(ImageCrc(stream.image), stream.target) \in VerifyPkts
  BY <1>1, StreamPackets
<1>3. n'.ota_session_active =>
        SameSession(n', n) /\ n'.flash = n.flash /\ n'.page_0_erased = n.page_0_erased
  BY <1>1, <1>2, OnVerifyEffect DEF HearVerify
<1>4. /\ missed' = missed /\ stream'.phase = "verify"
      /\ stream'.image = stream.image /\ stream'.target = stream.target
  BY DEF HearVerify, TypeOK, Stream
<1> QED
  BY <1>3, <1>4 DEF Reception, SessionOfStream, CrcCountsEachPageOnce,
     CommittedPagesInFlash, ErasedSectorIsCurrent, InStep, SameSession

LEMMA ReceptionStep ==
  ASSUME ReliableErase, TypeOK, Reception, [Next]_vars
  PROVE  Reception'
<1>1. n \in Node
  BY DEF TypeOK
<1>2. ASSUME NEW img \in Images, NEW target \in SentTargets, NEW sec_ver \in SecVers,
             MissStart(img, target, sec_ver)
      PROVE  Reception'
  <2>1. missed' # 0
    BY <1>2 DEF MissStart, TypeOK
  <2> QED
    BY <2>1 DEF Reception, SessionOfStream, CrcCountsEachPageOnce,
       CommittedPagesInFlash, ErasedSectorIsCurrent, InStep
<1>3. CASE SendReport
  BY <1>1, <1>3, TimersEffect, ReceptionUnchanged DEF SendReport
<1>4. CASE LeafStabilityExpires
  <2>1. is_leaf \in BOOLEAN
    BY DEF TypeOK
  <2>2. SameReception(n', n)
    BY <1>1, <1>4, <2>1, TimersEffect DEF LeafStabilityExpires
  <2> QED
    BY <1>4, <2>2, ReceptionUnchanged DEF LeafStabilityExpires
<1>5. CASE StagedRebootExpires
  <2>1. n'.ota_session_active = FALSE
    BY <1>1, <1>5, TimersEffect DEF StagedRebootExpires
  <2> QED
    BY <1>5, <2>1, ReceptionUnchanged DEF StagedRebootExpires
<1>6. CASE RouteChanges \/ UNCHANGED vars
  <2>1. n' = n /\ stream' = stream /\ missed' = missed
    BY <1>6 DEF RouteChanges, vars
  <2>2. SameReception(n', n)
    BY <2>1 DEF SameReception, SameSession
  <2> QED
    BY <2>1, <2>2, ReceptionUnchanged
<1> QED
  BY <1>2, <1>3, <1>4, <1>5, <1>6, ReceptionStart, ReceptionData, ReceptionPageEnd,
     ReceptionVerify DEF Next

\* A complete CRC was accumulated over every page, each of them once and in order.
LEMMA CompleteCrc ==
  ASSUME TypeOK, Reception
  PROVE  VerifyImpliesIntact
<1> SUFFICES ASSUME InStep, stream.target = n.ota_target_slot,
                    n.running_fw_crc = ImageCrc(stream.image)
             PROVE  FlashHolds(stream.image, n.ota_target_slot)
  BY DEF VerifyImpliesIntact
<1> DEFINE pages == stream.image.size.pages
           last == n.last_crc_committed_page_offset
<1>1. pages \in Nat
  BY SensorAssumption, WireAssumption DEF TypeOK, Stream, Image, FileSize, Size
<1>2. Len(n.running_fw_crc) = pages
  BY <1>1 DEF ImageCrc
<1>3. last \in Int
  BY WireAssumption DEF TypeOK, Node, Page, NoPage
<1>4. pages <= last + 1 /\ last < pages
  BY <1>2 DEF Reception, CrcCountsEachPageOnce, CommittedPagesInFlash
<1>5. last + 1 = pages /\ 0 .. last = 0 .. pages - 1
  BY <1>1, <1>3, <1>4
<1> QED
  BY <1>2, <1>5 DEF Reception, CommittedPagesInFlash, FlashHolds

\* What every step of a node keeps: an open session is the session of the stream,
\* a page enters the CRC once, the committed pages stay in flash, and the erased
\* sector is the one being filled.
LEMMA InductiveInvariant == ReliableErase => (Spec => []IInv)
<1>1. Init => TypeOK /\ Reception
  <2> SUFFICES ASSUME Init PROVE TypeOK /\ Reception
    OBVIOUS
  <2>1. ~n.ota_session_active
    BY DEF Init, Boot
  <2> QED
    BY <2>1, TypeInit DEF Reception, SessionOfStream, CrcCountsEachPageOnce,
       CommittedPagesInFlash, ErasedSectorIsCurrent, InStep
<1>2. ReliableErase /\ TypeOK /\ Reception /\ [Next]_vars => TypeOK' /\ Reception'
  BY TypeStep, ReceptionStep
<1>3. IInv <=> TypeOK /\ Reception
  BY DEF IInv, Reception
<1>4. ReliableErase => (Spec => [](TypeOK /\ Reception))
  <2> SUFFICES ASSUME ReliableErase PROVE Spec => [](TypeOK /\ Reception)
    OBVIOUS
  <2>1. (TypeOK /\ Reception) /\ [Next]_vars => (TypeOK /\ Reception)'
    BY <1>2
  <2> QED
    BY <1>1, <2>1, PTL DEF Spec
<1> QED
  BY <1>3, <1>4, PTL

\* Where every erase succeeds, or a sector is one page, a node that would pass
\* VERIFY holds the whole image in its slot: no lost, repeated or reordered DATA
\* or PAGE_END, and no failed write, can make the CRC comparison succeed over a
\* page that is not, or no longer, in flash.
THEOREM VerifyCorrect == ReliableErase => (Spec => []VerifyImpliesIntact)
<1>1. IInv => VerifyImpliesIntact
  BY CompleteCrc DEF IInv, Reception
<1> QED
  BY <1>1, InductiveInvariant, PTL

\* However often a PAGE_END is repeated, no page enters the CRC twice.
THEOREM CrcOnceCorrect == ReliableErase => (Spec => []CrcCountsEachPageOnce)
<1>1. IInv => CrcCountsEachPageOnce
  BY DEF IInv
<1> QED
  BY <1>1, InductiveInvariant, PTL

-----------------------------------------------------------------------------
(* The steps. *)

\* What every step keeps: an open session stays one in the other slot, and the
\* slot the node runs from keeps its contents.
RunningSlotSafe ==
  /\ SlotSafe(n)'
  /\ n.current_slot \in Slots => n'.flash[n.current_slot] = n.flash[n.current_slot]

\* An operation that writes nothing, or only to the slot of the open session,
\* is such a step.
LEMMA WritesSafely ==
  ASSUME SlotSafe(n),
         \/ WritesNothing(n', n)
         \/ /\ n.ota_session_active /\ WritesOnly(n', n, n.ota_target_slot)
            /\ n'.ota_target_slot = n.ota_target_slot
  PROVE  RunningSlotSafe
BY DEF RunningSlotSafe, SlotSafe, WritesNothing, WritesOnly

LEMMA StepSafe ==
  ASSUME Backend = "dual", TypeOK, SlotSafe(n), [Next]_vars
  PROVE  RunningSlotSafe
<1>1. n \in Node /\ SlotOk(n)
  BY DEF TypeOK, SlotOk
<1>2. stream \in Stream /\ is_leaf \in BOOLEAN
  BY DEF TypeOK
<1>3. /\ stream.image \in Images /\ stream.target \in SentTargets
      /\ stream.sec_ver \in SecVers
  BY <1>2 DEF Stream
<1>4. ASSUME NEW img \in Images, NEW target \in SentTargets, NEW sec_ver \in SecVers,
             NEW ok \in EraseOutcomes, HearStart(img, target, sec_ver, ok)
      PROVE  RunningSlotSafe
  <2>1. 0 \in Page /\ 0 \in Chunk /\ ok \in BOOLEAN
    BY WireAssumption, SensorAssumption DEF Page, Chunk
  <2>2. StartPkt(img.size, sec_ver, target) \in StartPkts
    BY <2>1, StreamPackets
  <2> QED
    BY <1>1, <1>4, <2>1, <2>2, OnStartWrites DEF HearStart, RunningSlotSafe
<1>5. ASSUME NEW img \in Images, NEW target \in SentTargets, NEW sec_ver \in SecVers,
             MissStart(img, target, sec_ver)
      PROVE  RunningSlotSafe
  BY <1>5 DEF MissStart, RunningSlotSafe, SlotSafe
<1>6. ASSUME NEW p \in Page, NEW c \in Chunk, NEW erase_ok \in EraseOutcomes,
             NEW write_ok \in IoOutcomes, NEW programmed \in BOOLEAN,
             HearData(p, c, erase_ok, write_ok, programmed)
      PROVE  RunningSlotSafe
  <2> DEFINE pkt == DataPkt(p, c, stream.image.data[p][c], stream.target)
  <2>1. pkt \in DataPkts /\ erase_ok \in BOOLEAN /\ write_ok \in BOOLEAN
    BY <1>3, StreamPackets, SensorAssumption
  <2>2. n' = OnData(n, pkt, erase_ok, write_ok, programmed)
    BY <1>6 DEF HearData
  <2> HIDE DEF pkt
  <2>3. n' = n \/ (n.ota_session_active /\ WritesOnly(n', n, n.ota_target_slot))
    BY <1>1, <2>1, <2>2, OnDataWrites
  <2>4. n'.ota_target_slot = n.ota_target_slot
    BY <1>1, <2>1, <2>2, OnDataType DEF SameSession
  <2>5. n' = n => WritesNothing(n', n)
    BY DEF WritesNothing
  <2> QED
    BY <2>3, <2>4, <2>5, WritesSafely
<1>7. ASSUME NEW p \in Page, NEW ok \in IoOutcomes, HearPageEnd(p, ok)
      PROVE  RunningSlotSafe
  <2> DEFINE pkt == PageEndPkt(p, ImagePage(stream.image, p), stream.target)
  <2>1. pkt \in PageEndPkts /\ ok \in BOOLEAN
    <3>1. 0 \in Chunk
      BY WireAssumption DEF Chunk
    <3> QED
      BY <1>3, <3>1, StreamPackets, SensorAssumption
  <2>2. n' = OnPageEnd(n, pkt, ok)
    BY <1>7 DEF HearPageEnd
  <2> HIDE DEF pkt
  <2> QED
    BY <1>1, <2>1, <2>2, OnPageEndWrites, WritesSafely
<1>8. ASSUME NEW out \in StageOutcomes, HearVerify(out)
      PROVE  RunningSlotSafe
  <2> DEFINE pkt == VerifyPkt(ImageCrc(stream.image), stream.target)
  <2>1. pkt \in VerifyPkts
    <3>1. 0 \in Page /\ 0 \in Chunk
      BY WireAssumption DEF Page, Chunk
    <3> QED
      BY <1>3, <3>1, StreamPackets
  <2>2. n' = OnVerify(n, pkt, out, is_leaf)
    BY <1>8 DEF HearVerify
  <2> HIDE DEF pkt
  <2> QED
    BY <1>1, <1>2, <2>1, <2>2, OnVerifyWrites, WritesSafely
<1>9. CASE SendReport
  BY <1>1, <1>2, <1>9, TimersWrite, WritesSafely DEF SendReport
<1>10. CASE LeafStabilityExpires
  BY <1>1, <1>2, <1>10, TimersWrite, WritesSafely DEF LeafStabilityExpires
<1>11. CASE StagedRebootExpires
  BY <1>1, <1>2, <1>11, TimersWrite, WritesSafely DEF StagedRebootExpires
<1>12. CASE RouteChanges
  BY <1>12 DEF RouteChanges, RunningSlotSafe, SlotSafe
<1>13. CASE UNCHANGED vars
  BY <1>13 DEF vars, RunningSlotSafe, SlotSafe
<1> QED
  BY <1>4, <1>5, <1>6, <1>7, <1>8, <1>9, <1>10, <1>11, <1>12, <1>13 DEF Next

LEMMA InitSafe == Init => SlotSafe(n)
<1> SUFFICES ASSUME Init PROVE SlotSafe(n)
  OBVIOUS
<1>1. PICK f \in InitialFlash : n = Boot(f, CurrentSlot, RunningSecVer)
  BY DEF Init
<1>2. n.ota_session_active = FALSE
  BY <1>1 DEF Boot
<1> QED
  BY <1>2 DEF SlotSafe

\* A dual-onchip node never erases or programs the slot it runs from, whatever
\* START names and whatever the flash driver answers: no step of any handler or
\* timer writes there.
THEOREM RunningSlotCorrect == Backend = "dual" => (Spec => RunningSlotUntouched)
<1> SUFFICES ASSUME Backend = "dual"
             PROVE  Spec => RunningSlotUntouched
  OBVIOUS
<1>1. Init => SlotSafe(n)
  BY InitSafe
<1>2. TypeOK /\ SlotSafe(n) /\ [Next]_vars
        => /\ SlotSafe(n)'
           /\ [n.current_slot \in Slots
                 => n'.flash[n.current_slot] = n.flash[n.current_slot]]_vars
  BY StepSafe DEF RunningSlotSafe
<1> QED
  BY <1>1, <1>2, TypeCorrect, PTL DEF Spec, RunningSlotUntouched

-----------------------------------------------------------------------------
(* Reports. *)

\* The report a step leaves: the one that was there, none, one taken by PAGE_END,
\* or one that VERIFY takes.
ReportStep ==
  \/ n'.report_to_send = n.report_to_send
  \/ n'.report_to_send = NoReport
  \/ stream'.phase = "verify"
  \/ \E p \in Page :
       /\ p < stream.image.size.pages
       /\ \/ n'.report_to_send = [page |-> p, bitmap |-> {}]
          \/ /\ n'.report_to_send.page = p
             /\ n'.last_crc_committed_page_offset = p
             /\ FlashPage(n', p) = ImagePage(stream.image, p)

LEMMA StepReports ==
  ASSUME TypeOK, [Next]_vars
  PROVE  ReportStep
<1>1. n \in Node /\ SlotOk(n)
  BY DEF TypeOK, SlotOk
<1>2. stream \in Stream /\ is_leaf \in BOOLEAN
  BY DEF TypeOK
<1>3. /\ stream.image \in Images /\ stream.target \in SentTargets
      /\ stream.sec_ver \in SecVers
  BY <1>2 DEF Stream
<1>4. ASSUME NEW img \in Images, NEW target \in SentTargets, NEW sec_ver \in SecVers,
             NEW ok \in EraseOutcomes, HearStart(img, target, sec_ver, ok)
      PROVE  ReportStep
  <2>1. 0 \in Page /\ 0 \in Chunk /\ ok \in BOOLEAN
    BY WireAssumption, SensorAssumption DEF Page, Chunk
  <2>2. StartPkt(img.size, sec_ver, target) \in StartPkts
    BY <2>1, StreamPackets
  <2> QED
    BY <1>1, <1>4, <2>1, <2>2, OnStartWrites DEF HearStart, ReportStep
<1>5. ASSUME NEW img \in Images, NEW target \in SentTargets, NEW sec_ver \in SecVers,
             MissStart(img, target, sec_ver)
      PROVE  ReportStep
  BY <1>5 DEF MissStart, ReportStep
<1>6. ASSUME NEW p \in Page, NEW c \in Chunk, NEW erase_ok \in EraseOutcomes,
             NEW write_ok \in IoOutcomes, NEW programmed \in BOOLEAN,
             HearData(p, c, erase_ok, write_ok, programmed)
      PROVE  ReportStep
  <2> DEFINE pkt == DataPkt(p, c, stream.image.data[p][c], stream.target)
  <2>1. pkt \in DataPkts /\ erase_ok \in BOOLEAN /\ write_ok \in BOOLEAN
    BY <1>3, StreamPackets, SensorAssumption
  <2>2. n' = OnData(n, pkt, erase_ok, write_ok, programmed)
    BY <1>6 DEF HearData
  <2> HIDE DEF pkt
  <2>3. n' = n \/ WritesOnly(n', n, n.ota_target_slot)
    BY <1>1, <2>1, <2>2, OnDataWrites
  <2> QED
    BY <2>3 DEF WritesOnly, ReportStep
<1>7. ASSUME NEW p \in Page, NEW ok \in IoOutcomes, HearPageEnd(p, ok)
      PROVE  ReportStep
  <2> DEFINE pkt == PageEndPkt(p, ImagePage(stream.image, p), stream.target)
  <2>1. pkt \in PageEndPkts /\ ok \in BOOLEAN
    <3>1. 0 \in Chunk
      BY WireAssumption DEF Chunk
    <3> QED
      BY <1>3, <3>1, StreamPackets, SensorAssumption
  <2>2. n' = OnPageEnd(n, pkt, ok) /\ p < stream.image.size.pages
    BY <1>7 DEF HearPageEnd
  <2>3. pkt.page = p /\ pkt.crc = ImagePage(stream.image, p)
    BY DEF PageEndPkt
  <2> HIDE DEF pkt
  <2>4. \/ n'.report_to_send = n.report_to_send
        \/ n'.report_to_send = [page |-> p, bitmap |-> {}]
        \/ /\ n'.report_to_send.page = p
           /\ n'.last_crc_committed_page_offset = p
           /\ FlashPage(n', p) = ImagePage(stream.image, p)
    BY <1>1, <2>1, <2>2, <2>3, OnPageEndReports
  <2> QED
    BY <2>2, <2>4 DEF ReportStep
<1>8. ASSUME NEW out \in StageOutcomes, HearVerify(out)
      PROVE  ReportStep
  BY <1>2, <1>8 DEF HearVerify, Stream, ReportStep
<1>9. CASE SendReport
  BY <1>1, <1>9 DEF SendReport, ReportSent, Node, ReportStep
<1>10. CASE LeafStabilityExpires
  <2> DEFINE t == n.staged_reboot_ctimer \/ is_leaf
             r == [n EXCEPT !.leaf_stability_ctimer = FALSE, !.staged_reboot_ctimer = t]
  <2>1. n' = r
    BY <1>1, <1>10, Zenon DEF LeafStabilityExpires, LeafStability, Node
  <2> HIDE DEF t
  <2>2. r.report_to_send = n.report_to_send
    BY <1>1 DEF Node
  <2> QED
    BY <2>1, <2>2 DEF ReportStep
<1>11. CASE StagedRebootExpires
  <2> DEFINE b == Boot(n.flash, n.current_slot, n.running_sec_ver)
             staged == n.staged
             r == [b EXCEPT !.staged = staged, !.reset = TRUE]
  <2>1. n' = r
    BY <1>11, Zenon DEF StagedRebootExpires, StagedReboot
  <2>2. /\ n.flash \in [Slots -> [Page -> [Chunk -> Cell]]]
        /\ n.current_slot \in Target \cup {NoTarget} /\ n.running_sec_ver \in Nat
    BY <1>1 DEF Node
  <2>3. b \in Node /\ b.report_to_send = NoReport
    BY <2>2, BootType DEF Boot
  <2> HIDE DEF b, staged
  <2>4. r.report_to_send = b.report_to_send
    BY <2>3 DEF Node
  <2> QED
    BY <2>1, <2>3, <2>4 DEF ReportStep
<1>12. CASE RouteChanges
  BY <1>12 DEF RouteChanges, ReportStep
<1>13. CASE UNCHANGED vars
  BY <1>13 DEF vars, ReportStep
<1> QED
  BY <1>4, <1>5, <1>6, <1>7, <1>8, <1>9, <1>10, <1>11, <1>12, <1>13 DEF Next

\* A page of a file has chunks, so an empty bitmap is not full.
LEMMA PageHasChunks ==
  ASSUME NEW size \in FileSize, NEW p \in Page, p < size.pages
  PROVE  0 \in 0 .. PageLen(size, p) - 1
BY WireAssumption DEF FileSize, Size, PageLen, Page

LEMMA StepReportsCommitted ==
  ASSUME TypeOK, [Next]_vars, n'.report_to_send # n.report_to_send,
         stream'.phase = "data", FullReport(n', stream.image.size)
  PROVE  /\ n'.last_crc_committed_page_offset = n'.report_to_send.page
         /\ FlashPage(n', n'.report_to_send.page)
              = ImagePage(stream.image, n'.report_to_send.page)
<1>1. ReportStep
  BY StepReports
<1>2. PICK p \in Page :
        /\ p < stream.image.size.pages
        /\ \/ n'.report_to_send = [page |-> p, bitmap |-> {}]
           \/ /\ n'.report_to_send.page = p
              /\ n'.last_crc_committed_page_offset = p
              /\ FlashPage(n', p) = ImagePage(stream.image, p)
  BY <1>1 DEF ReportStep, FullReport
<1>3. n'.report_to_send # [page |-> p, bitmap |-> {}]
  <2>1. SUFFICES ASSUME n'.report_to_send = [page |-> p, bitmap |-> {}]
                 PROVE  FALSE
    OBVIOUS
  <2>2. stream.image.size \in FileSize
    BY SensorAssumption DEF TypeOK, Stream, Image
  <2>3. 0 \in 0 .. PageLen(stream.image.size, p) - 1
    BY <1>2, <2>2, PageHasChunks
  <2>4. 0 .. PageLen(stream.image.size, p) - 1 \subseteq {}
    BY <2>1 DEF FullReport
  <2> QED
    BY <2>3, <2>4
<1> QED
  BY <1>2, <1>3

\* While pages are sent, a node reports a page as complete only from a PAGE_END
\* that read the page back, found the CRC the coordinator sent, and left the page
\* the last one in the CRC of the image: the coordinator, which goes to the next
\* page on such reports alone, never leaves a page behind that flash does not hold.
THEOREM ReportsCorrect == Spec => ReportsOnlyCommittedPages
<1>1. TypeOK /\ [Next]_vars
        => [/\ n'.report_to_send # n.report_to_send
            /\ stream'.phase = "data"
            /\ FullReport(n', stream.image.size)
            => LET p == n'.report_to_send.page
               IN /\ n'.last_crc_committed_page_offset = p
                  /\ FlashPage(n', p) = ImagePage(stream.image, p)]_vars
  BY StepReportsCommitted
<1> QED
  BY <1>1, TypeCorrect, PTL DEF Spec, ReportsOnlyCommittedPages

-----------------------------------------------------------------------------
(* The bitmap. *)

\* A failed erase leaves the page selected, and its next chunk is programmed over what
\* is there: ota_ensure_sector_erased is not asked again (ota-sensor.c:410).
ErasesSucceed == FALSE \notin EraseOutcomes

\* The pages of the current sector that are still to come are erased, and the node
\* knows which sector it erased.
Ahead(m) ==
  LET slot == m.ota_target_slot
      base == SectorBase(FirstPage(m.current_rx_page_offset))
  IN /\ Backend = "dual" => m.erased_sector_addr = <<slot, base>>
     /\ \A p \in Page : p > m.current_rx_page_offset /\ SectorBase(p) = base =>
          m.flash[slot][p] = ErasedPage

\* BitmapSound, of the page being received.
CellsSound(m, img) ==
  LET rx == m.current_rx_page_offset
  IN rx # NoPage =>
       \A c \in 0 .. PageLen(img.size, rx) - 1 :
         /\ m.flash[m.ota_target_slot][rx][c] \in {ErasedCell, img.data[rx][c]}
         /\ c \in m.page_bitmap => m.flash[m.ota_target_slot][rx][c] = img.data[rx][c]

BitmapInv ==
  /\ InStep /\ stream.phase = "data" => Ahead(n)
  /\ InStep => CellsSound(n, stream.image)

-----------------------------------------------------------------------------
(* Each handler keeps the bitmap sound. *)

LEMMA OnDataBitmap ==
  ASSUME ErasesSucceed, NEW m \in Node, SlotOk(m), NEW pkt \in DataPkts,
         NEW erase_ok \in EraseOutcomes, NEW write_ok \in BOOLEAN, NEW programmed \in BOOLEAN,
         NEW img \in Image, pkt.data = img.data[pkt.page][pkt.chunk],
         Ahead(m), CellsSound(m, img)
  PROVE  LET r == OnData(m, pkt, erase_ok, write_ok, programmed)
         IN Ahead(r) /\ CellsSound(r, img)
<1> DEFINE slot == m.ota_target_slot
           rx == m.current_rx_page_offset
           page == pkt.page
           base == SectorBase(page)
           s == IF SelectsPage(m, pkt) THEN SelectPage(m, pkt, erase_ok) ELSE m
           t == StoreChunk(s, pkt, write_ok, programmed)
           ignored == \/ ~InSession(m, pkt)
                      \/ ~BoundsOk(m, m.ota_target_slot, pkt.page, pkt.chunk)
                      \/ pkt.page < m.current_rx_page_offset
<1>1. /\ rx \in Page \cup {NoPage} /\ page \in Page /\ page \in Nat /\ pkt.chunk \in Chunk
      /\ \A p \in Page : p \in Nat
  BY WireAssumption DEF Node, DataPkts, Page
<1>2. erase_ok = TRUE
  <2>1. erase_ok \in BOOLEAN /\ FALSE \notin EraseOutcomes
    BY SensorAssumption DEF ErasesSucceed
  <2>2. erase_ok # FALSE
    BY <2>1, Zenon
  <2> QED
    BY <2>1, <2>2
<1>3. FirstPage(page) = page /\ page # NoPage
  BY <1>1 DEF FirstPage, NoPage
<1>4. \A c \in 0 .. PageLen(img.size, page) - 1 : c \in Chunk
  <2>1. PageLen(img.size, page) \in 0 .. PageChunks
    BY <1>1, OffsetPageLen DEF Image, FileSize
  <2> QED
    BY <2>1, WireAssumption DEF Chunk
<1>5. img.data[page] \in [Chunk -> Cell]
  BY <1>1 DEF Image
<1>6. CASE ignored
  BY <1>6, Zenon DEF OnData
<1>7. CASE ~ignored
  <2>1. slot \in Slots /\ page >= rx
    BY <1>1, <1>7 DEF InSession, SlotOk, NoPage
  <2>2. /\ s \in Node /\ s.ota_target_slot = slot /\ s.current_rx_page_offset = page
        /\ Backend = "dual" => s.erased_sector_addr = <<slot, base>>
        /\ \A p \in Page : p > page /\ SectorBase(p) = base => s.flash[slot][p] = ErasedPage
        /\ \A c \in 0 .. PageLen(img.size, page) - 1 :
             /\ s.flash[slot][page][c] \in {ErasedCell, img.data[page][c]}
             /\ c \in s.page_bitmap => s.flash[slot][page][c] = img.data[page][c]
    <3>1. CASE ~SelectsPage(m, pkt)
      <4>1. page = rx
        BY <1>1, <2>1, <3>1 DEF SelectsPage, NoPage
      <4> QED
        BY <1>3, <3>1, <4>1 DEF Ahead, CellsSound
    <3>2. CASE SelectsPage(m, pkt)
      <4>1. rx < page
        BY <3>2 DEF SelectsPage
      <4> DEFINE e == SelectPage(m, pkt, TRUE)
      <4>2. /\ e \in Node /\ SameSession(e, m) /\ e.current_rx_page_offset = page
            /\ ~NeedsErase(m, pkt) \/ AlreadyErased(m, slot, base) =>
                 e.flash = m.flash /\ e.erased_sector_addr = m.erased_sector_addr
            /\ NeedsErase(m, pkt) /\ Backend = "dual" => e.erased_sector_addr = <<slot, base>>
        BY <2>1, SelectPageEffect
      <4>3. /\ e.page_bitmap = {}
            /\ NeedsErase(m, pkt) /\ ~AlreadyErased(m, slot, base) =>
                 \A p \in Page : SectorBase(p) = base => e.flash[slot][p] = ErasedPage
        BY <2>1, SelectPageErases
      <4> HIDE DEF e
      <4>4. s = e
        BY <1>2, <3>2 DEF e
      <4>5. ~NeedsErase(m, pkt) => base = SectorBase(FirstPage(rx))
        BY DEF NeedsErase, FirstPage
      <4>6. AlreadyErased(m, slot, base) => base = SectorBase(FirstPage(rx))
        BY DEF Ahead, AlreadyErased
      <4>7. \A p \in Page : p >= page /\ SectorBase(p) = base => e.flash[slot][p] = ErasedPage
        <5>1. CASE ~NeedsErase(m, pkt) \/ AlreadyErased(m, slot, base)
          <6>1. \A p \in Page : p >= page => p > rx
            BY <1>1, <4>1 DEF NoPage
          <6>2. e.flash = m.flash /\ base = SectorBase(FirstPage(rx))
            BY <4>2, <4>5, <4>6, <5>1
          <6> QED
            BY <6>1, <6>2 DEF Ahead
        <5>2. CASE NeedsErase(m, pkt) /\ ~AlreadyErased(m, slot, base)
          BY <4>3, <5>2
        <5> QED
          BY <5>1, <5>2
      <4>8. Backend = "dual" => e.erased_sector_addr = <<slot, base>>
        BY <4>2, <4>5 DEF Ahead
      <4>9. \A c \in Chunk : e.flash[slot][page][c] = ErasedCell
        <5>1. e.flash[slot][page] = ErasedPage
          BY <1>1, <4>7
        <5> QED
          BY <5>1 DEF ErasedPage
      <4>10. \A p \in Page : p > page => p >= page
        BY <1>1
      <4> QED
        BY <1>4, <4>2, <4>3, <4>4, <4>7, <4>8, <4>9, <4>10 DEF SameSession
    <3> QED
      BY <3>1, <3>2
  <2>3. OnData(m, pkt, erase_ok, write_ok, programmed)
          = IF PageSelected(m, pkt, erase_ok) THEN t ELSE s
    BY <1>7, Zenon DEF OnData, s, t
  <2>4. Ahead(s) /\ CellsSound(s, img)
    <3> HIDE DEF s
    <3> QED
      BY <1>3, <2>2 DEF Ahead, CellsSound
  <2>5. Ahead(t) /\ CellsSound(t, img)
    <3> HIDE DEF s
    <3>1. /\ SameSession(t, s) /\ t.current_rx_page_offset = page
          /\ t.erased_sector_addr = s.erased_sector_addr
          /\ \A p \in Page : p # page => t.flash[slot][p] = s.flash[slot][p]
      BY <2>1, <2>2, StoreChunkEffect DEF Stores
    <3>2. /\ \A c \in Chunk \ {pkt.chunk} : t.flash[slot][page][c] = s.flash[slot][page][c]
          /\ t.flash[slot][page][pkt.chunk]
               \in {s.flash[slot][page][pkt.chunk],
                    s.flash[slot][page][pkt.chunk] \cap pkt.data}
          /\ \/ t = s
             \/ t.page_bitmap = s.page_bitmap
             \/ /\ t.page_bitmap = s.page_bitmap \cup {pkt.chunk}
                /\ t.flash[slot][page][pkt.chunk] = s.flash[slot][page][pkt.chunk] \cap pkt.data
      <4>1. s \in Node /\ s.ota_target_slot = slot /\ slot \in Slots
        BY <2>1, <2>2
      <4>2. ChunkStored(t, s, slot, pkt)
        BY <4>1, StoreChunkCells
      <4> QED
        BY <4>2 DEF ChunkStored
    <3> HIDE DEF t
    <3>3. Ahead(t)
      <4>1. \A p \in Page : p > page => p # page
        BY <1>1
      <4> QED
        BY <1>3, <2>2, <3>1, <4>1 DEF Ahead, SameSession
    <3>4. ASSUME NEW c \in 0 .. PageLen(img.size, page) - 1
          PROVE  /\ t.flash[slot][page][c] \in {ErasedCell, img.data[page][c]}
                 /\ c \in t.page_bitmap => t.flash[slot][page][c] = img.data[page][c]
      <4>1. c \in Chunk
        BY <1>4
      <4>2. CASE t = s
        BY <2>2, <4>2
      <4>3. CASE t # s /\ c # pkt.chunk
        BY <2>2, <3>2, <4>1, <4>3
      <4>4. CASE t # s /\ c = pkt.chunk
        <5> DEFINE old == s.flash[slot][page][c]
                   new == t.flash[slot][page][c]
                   data == img.data[page][c]
        <5>1. old \in {ErasedCell, data} /\ (c \in s.page_bitmap => old = data)
          BY <2>2
        <5>2. data \subseteq ErasedCell
          BY <1>5, <4>1 DEF Cell, ErasedCell
        <5>3. old \cap data = data
          BY <5>1, <5>2
        <5>4. new \in {old, old \cap data} /\ pkt.data = data
          BY <3>2, <4>4
        <5>5. \/ t.page_bitmap = s.page_bitmap
              \/ new = old \cap data
          BY <3>2, <4>4, <5>4
        <5> HIDE DEF old, new, data
        <5>6. new \in {ErasedCell, data} /\ (c \in t.page_bitmap => new = data)
          BY <5>1, <5>3, <5>4, <5>5
        <5> QED
          BY <5>6 DEF new, data
      <4> QED
        BY <4>2, <4>3, <4>4
    <3>5. t.ota_target_slot = slot
      BY <2>2, <3>1 DEF SameSession
    <3>6. CellsSound(t, img)
      BY <3>1, <3>4, <3>5 DEF CellsSound
    <3> QED
      BY <3>3, <3>6
  <2> HIDE DEF s, t
  <2> QED
    BY <2>3, <2>4, <2>5
<1> QED
  BY <1>6, <1>7

-----------------------------------------------------------------------------
(* Each action keeps BitmapInv. *)

\* A step that leaves the reception of pages alone, and adds no bit, preserves it.
LEMMA BitmapUnchanged ==
  ASSUME BitmapInv,
         n'.ota_session_active => SameReception(n', n) /\ n'.page_bitmap \subseteq n.page_bitmap,
         stream' = stream, missed' = missed
  PROVE  BitmapInv'
<1> SUFFICES ASSUME InStep' PROVE BitmapInv'
  BY DEF BitmapInv
<1>1. /\ InStep
      /\ n'.ota_target_slot = n.ota_target_slot /\ n'.flash = n.flash
      /\ n'.erased_sector_addr = n.erased_sector_addr
      /\ n'.current_rx_page_offset = n.current_rx_page_offset
      /\ n'.page_bitmap \subseteq n.page_bitmap
  BY DEF InStep, SameReception, SameSession
<1>2. stream.phase = "data" => Ahead(n')
  BY <1>1 DEF BitmapInv, Ahead
<1>3. CellsSound(n', stream.image)
  BY <1>1 DEF BitmapInv, CellsSound
<1> QED
  BY <1>2, <1>3 DEF BitmapInv

LEMMA BitmapStart ==
  ASSUME TypeOK,
         NEW img \in Images, NEW target \in SentTargets, NEW sec_ver \in SecVers,
         NEW ok \in EraseOutcomes, HearStart(img, target, sec_ver, ok)
  PROVE  BitmapInv'
<1> SUFFICES ASSUME InStep' PROVE BitmapInv'
  BY DEF BitmapInv
<1> DEFINE pkt == StartPkt(img.size, sec_ver, target)
<1>1. ok \in BOOLEAN /\ 0 \in Page /\ 0 \in Chunk
  BY SensorAssumption, WireAssumption DEF Page, Chunk
<1>2. pkt \in StartPkts /\ pkt.target = target
  BY <1>1, StreamPackets DEF StartPkt
<1>3. n \in Node /\ n' = OnStart(n, pkt, ok) /\ n'.ota_session_active
  BY DEF TypeOK, HearStart, InStep
<1> HIDE DEF pkt
<1>4. /\ ok /\ n'.ota_target_slot = target /\ n'.current_rx_page_offset = NoPage
      /\ Backend = "dual" => n'.erased_sector_addr = <<target, 0>>
      /\ \A p \in Page : SectorBase(p) = 0 => n'.flash[target][p] = ErasedPage
  BY <1>1, <1>2, <1>3, OnStartEffect, OnStartErases
<1>5. SectorBase(FirstPage(NoPage)) = 0
  BY BackendAssumption DEF SectorBase, FirstPage
<1> QED
  BY <1>4, <1>5 DEF BitmapInv, Ahead, CellsSound

LEMMA BitmapData ==
  ASSUME ErasesSucceed, TypeOK, SessionOfStream, BitmapInv,
         NEW p \in Page, NEW c \in Chunk, NEW erase_ok \in EraseOutcomes,
         NEW write_ok \in IoOutcomes, NEW programmed \in BOOLEAN,
         HearData(p, c, erase_ok, write_ok, programmed)
  PROVE  BitmapInv'
<1> SUFFICES ASSUME InStep' PROVE BitmapInv'
  BY DEF BitmapInv
<1> DEFINE pkt == DataPkt(p, c, stream.image.data[p][c], stream.target)
<1>1. /\ erase_ok \in BOOLEAN /\ write_ok \in BOOLEAN
      /\ n \in Node /\ SlotOk(n) /\ stream.image \in Images /\ stream.target \in SentTargets
      /\ stream.sec_ver \in SecVers /\ stream.image \in Image
      /\ stream' = stream /\ missed' = missed /\ stream.phase = "data"
  BY SensorAssumption DEF TypeOK, Stream, HearData, SlotOk
<1>2. pkt \in DataPkts
  BY <1>1, StreamPackets
<1>3. pkt.data = stream.image.data[pkt.page][pkt.chunk]
  BY DEF DataPkt
<1>4. n' = OnData(n, pkt, erase_ok, write_ok, programmed)
  BY DEF HearData
<1> HIDE DEF pkt
<1>5. n'.ota_session_active = n.ota_session_active
  BY <1>1, <1>2, <1>4, OnDataType DEF SameSession
<1>6. InStep /\ Ahead(n) /\ CellsSound(n, stream.image)
  BY <1>1, <1>5 DEF InStep, BitmapInv
<1>7. Ahead(n') /\ CellsSound(n', stream.image)
  BY <1>1, <1>2, <1>3, <1>4, <1>6, OnDataBitmap
<1> QED
  BY <1>1, <1>7 DEF BitmapInv

LEMMA BitmapPageEnd ==
  ASSUME TypeOK, BitmapInv, NEW p \in Page, NEW ok \in IoOutcomes, HearPageEnd(p, ok)
  PROVE  BitmapInv'
<1> SUFFICES ASSUME InStep' PROVE BitmapInv'
  BY DEF BitmapInv
<1> DEFINE pkt == PageEndPkt(p, ImagePage(stream.image, p), stream.target)
<1>1. /\ ok \in BOOLEAN /\ 0 \in Chunk
      /\ n \in Node /\ SlotOk(n) /\ stream.image \in Images /\ stream.target \in SentTargets
      /\ stream.sec_ver \in SecVers
      /\ stream' = stream /\ missed' = missed
  BY SensorAssumption, WireAssumption DEF TypeOK, Stream, HearPageEnd, SlotOk, Chunk
<1>2. pkt \in PageEndPkts /\ pkt.page = p
  BY <1>1, StreamPackets DEF PageEndPkt
<1>3. n' = OnPageEnd(n, pkt, ok)
  BY DEF HearPageEnd
<1> HIDE DEF pkt
<1>4. n'.page_bitmap \subseteq n.page_bitmap
  BY <1>1, <1>3, OnPageEndBits
<1>5. \/ SameReception(n', n)
      \/ /\ InSession(n, pkt) /\ n.current_rx_page_offset = p
         /\ SameReception(n', Commit(n))
  BY <1>1, <1>2, <1>3, OnPageEndEffect
<1>6. /\ n'.ota_session_active = n.ota_session_active
      /\ n'.ota_target_slot = n.ota_target_slot /\ n'.flash = n.flash
      /\ n'.erased_sector_addr = n.erased_sector_addr
      /\ n'.current_rx_page_offset = n.current_rx_page_offset
  <2>1. CASE SameReception(n', n)
    BY <2>1 DEF SameReception, SameSession
  <2>2. CASE /\ InSession(n, pkt) /\ n.current_rx_page_offset = p
             /\ SameReception(n', Commit(n))
    <3>1. n.ota_target_slot \in Slots
      BY <1>1, <2>2 DEF InSession, SlotOk
    <3> QED
      BY <1>1, <2>2, <3>1, CommitEffect DEF SameReception, SameSession
  <2> QED
    BY <1>5, <2>1, <2>2
<1>7. InStep
  BY <1>1, <1>6 DEF InStep
<1>8. stream.phase = "data" => Ahead(n')
  BY <1>6, <1>7 DEF BitmapInv, Ahead
<1>9. CellsSound(n', stream.image)
  BY <1>4, <1>6, <1>7 DEF BitmapInv, CellsSound
<1> QED
  BY <1>1, <1>8, <1>9 DEF BitmapInv

LEMMA BitmapVerify ==
  ASSUME TypeOK, SessionOfStream, BitmapInv, NEW out \in StageOutcomes, HearVerify(out)
  PROVE  BitmapInv'
<1> SUFFICES ASSUME InStep' PROVE BitmapInv'
  BY DEF BitmapInv
<1> DEFINE pkt == VerifyPkt(ImageCrc(stream.image), stream.target)
<1>1. /\ n \in Node /\ SlotOk(n) /\ is_leaf \in BOOLEAN
      /\ stream.image \in Images /\ stream.target \in SentTargets /\ stream.sec_ver \in SecVers
      /\ 0 \in Page /\ 0 \in Chunk /\ missed' = missed /\ stream'.phase = "verify"
  BY WireAssumption DEF TypeOK, Stream, SlotOk, Page, Chunk, HearVerify
<1>2. pkt \in VerifyPkts /\ pkt.target = stream.target
  BY <1>1, StreamPackets DEF VerifyPkt
<1>3. n' = OnVerify(n, pkt, out, is_leaf)
  BY DEF HearVerify
<1> HIDE DEF pkt
<1>4. n'.ota_session_active
  BY DEF InStep
<1>5. n.ota_session_active
  <2>1. CASE InSession(n, pkt)
    BY <2>1 DEF InSession
  <2>2. CASE ~InSession(n, pkt)
    <3>1. n' = n
      BY <1>3, <2>2, Zenon DEF OnVerify
    <3> QED
      BY <1>4, <3>1
  <2> QED
    BY <2>1, <2>2
<1>6. InSession(n, pkt)
  BY <1>1, <1>2, <1>5 DEF SessionOfStream, InStep, InSession
<1>7. n'.current_rx_page_offset = NoPage
  BY <1>1, <1>2, <1>3, <1>4, <1>6, VerifyDeselects
<1> QED
  BY <1>1, <1>7 DEF BitmapInv, CellsSound

LEMMA BitmapStep ==
  ASSUME ErasesSucceed, TypeOK, SessionOfStream, BitmapInv, [Next]_vars
  PROVE  BitmapInv'
<1>1. n \in Node /\ is_leaf \in BOOLEAN
  BY DEF TypeOK
<1>2. ASSUME NEW img \in Images, NEW target \in SentTargets, NEW sec_ver \in SecVers,
             MissStart(img, target, sec_ver)
      PROVE  BitmapInv'
  <2>1. missed' # 0
    BY <1>2 DEF MissStart, TypeOK
  <2> QED
    BY <2>1 DEF BitmapInv, InStep
<1>3. CASE SendReport
  <2>1. n'.page_bitmap = n.page_bitmap
    BY <1>1, <1>3 DEF SendReport, ReportSent, Node
  <2> QED
    BY <1>1, <1>3, <2>1, TimersEffect, BitmapUnchanged DEF SendReport
<1>4. CASE LeafStabilityExpires
  <2>1. n'.page_bitmap = n.page_bitmap
    BY <1>1, <1>4 DEF LeafStabilityExpires, LeafStability, Node
  <2>2. SameReception(n', n)
    BY <1>1, <1>4, TimersEffect DEF LeafStabilityExpires
  <2> QED
    BY <1>4, <2>1, <2>2, BitmapUnchanged DEF LeafStabilityExpires
<1>5. CASE StagedRebootExpires
  <2>1. n'.ota_session_active = FALSE
    BY <1>1, <1>5, TimersEffect DEF StagedRebootExpires
  <2> QED
    BY <1>5, <2>1, BitmapUnchanged DEF StagedRebootExpires
<1>6. CASE RouteChanges \/ UNCHANGED vars
  <2>1. n' = n /\ stream' = stream /\ missed' = missed
    BY <1>6 DEF RouteChanges, vars
  <2>2. SameReception(n', n) /\ n'.page_bitmap \subseteq n.page_bitmap
    BY <2>1 DEF SameReception, SameSession
  <2> QED
    BY <2>1, <2>2, BitmapUnchanged
<1> QED
  BY <1>2, <1>3, <1>4, <1>5, <1>6, BitmapStart, BitmapData, BitmapPageEnd, BitmapVerify
     DEF Next

LEMMA BitmapInvImplies ==
  ASSUME BitmapInv
  PROVE  BitmapSound
BY DEF BitmapInv, CellsSound, BitmapSound

\* Where no erase fails, every bit a node reports stands for a chunk that is in flash,
\* and a chunk it asks for again can be programmed: whatever DATA was lost, repeated or
\* reordered, whatever write failed, and whatever sector rule the slot's pages fall under.
THEOREM BitmapCorrect == ReliableErase /\ ErasesSucceed => (Spec => []BitmapSound)
<1> SUFFICES ASSUME ReliableErase, ErasesSucceed PROVE Spec => []BitmapSound
  OBVIOUS
<1>1. Init => BitmapInv
  <2> SUFFICES ASSUME Init PROVE BitmapInv
    OBVIOUS
  <2>1. ~n.ota_session_active
    BY DEF Init, Boot
  <2> QED
    BY <2>1 DEF BitmapInv, InStep
<1>2. IInv /\ BitmapInv /\ [Next]_vars => BitmapInv'
  BY BitmapStep DEF IInv
<1>3. BitmapInv => BitmapSound
  BY BitmapInvImplies
<1>4. Spec => []IInv
  BY InductiveInvariant
<1> QED
  BY <1>1, <1>2, <1>3, <1>4, PTL DEF Spec

-----------------------------------------------------------------------------
(* Every step of a sensor node is a step of PageReceiver, or none of its business. *)

Metadata == [slot : Target \cup {NoTarget}, sec_ver : Nat]

\* What is mapped of a node without a session of the stream it hears.
Nothing == Pages = 0 /\ Stored = {} /\ Committed = 0 /\ Last = -1

LEMMA Mapping ==
  /\ ~n.ota_session_active => Session = "closed"
  /\ n.ota_session_active /\ missed # 0 => Session = "stray"
  /\ InStep => /\ Session = "open" /\ Pages = stream.image.size.pages /\ Stored = HeldPages
               /\ Committed = Len(n.running_fw_crc)
               /\ Last = n.last_crc_committed_page_offset
  /\ ~InStep => Nothing
BY DEF Session, Pages, Stored, Committed, Last, Nothing, InStep

LEMMA MappingNext ==
  /\ ~n'.ota_session_active => Session' = "closed"
  /\ n'.ota_session_active /\ missed' # 0 => Session' = "stray"
  /\ InStep' => /\ Session' = "open" /\ Pages' = stream'.image.size.pages /\ Stored' = HeldPages'
                /\ Committed' = Len(n'.running_fw_crc)
                /\ Last' = n'.last_crc_committed_page_offset
  /\ ~InStep' => Nothing'
BY DEF Session, Pages, Stored, Committed, Last, Nothing, InStep

\* The end of a session: a Close, or nothing.
LEMMA EndsSession ==
  ASSUME ~n'.ota_session_active, n'.staged = n.staged
  PROVE  Receiver!Close
<1>1. ~InStep'
  BY DEF InStep
<1> QED
  BY <1>1, MappingNext DEF Receiver!Close, Receiver!Forget, Nothing

\* A step that keeps what is mapped.
KeepsReception == SameSession(n', n) /\ n'.flash = n.flash

LEMMA LeavesReception ==
  ASSUME n'.ota_session_active => KeepsReception, n'.staged = n.staged,
         stream'.image = stream.image, missed' = missed
  PROVE  Receiver!Close \/ UNCHANGED Receiver!vars
<1>1. CASE ~n'.ota_session_active
  BY <1>1, EndsSession
<1>2. CASE n'.ota_session_active
  <2>1. /\ n'.ota_session_active = n.ota_session_active
        /\ n'.flash = n.flash /\ n'.ota_target_slot = n.ota_target_slot
        /\ n'.running_fw_crc = n.running_fw_crc
        /\ n'.last_crc_committed_page_offset = n.last_crc_committed_page_offset
    BY <1>2 DEF KeepsReception, SameSession
  <2>2. InStep' = InStep /\ Session' = Session
    BY <2>1 DEF InStep, Session
  <2>3. HeldPages' = HeldPages
    BY <2>1 DEF HeldPages
  <2> QED
    BY <2>1, <2>2, <2>3 DEF Receiver!vars, Pages, Stored, Committed, Last
<1> QED
  BY <1>1, <1>2

\* Outside the session of the stream, a step that keeps the session keeps the
\* mapping.
LEMMA LeavesStray ==
  ASSUME ~InStep, n'.ota_session_active = n.ota_session_active,
         n'.staged = n.staged, missed' = missed \/ (missed # 0 /\ missed' # 0)
  PROVE  UNCHANGED Receiver!vars
<1>1. ~InStep'
  BY DEF InStep
<1>2. Session' = Session
  BY DEF Session, InStep
<1> QED
  BY <1>1, <1>2 DEF Receiver!vars, Pages, Stored, Committed, Last

-----------------------------------------------------------------------------
(* One lemma per action of the node that is not a stutter of PageReceiver. *)

\* START opens a session or closes the one there was.
LEMMA StartReceives ==
  ASSUME TypeOK, NEW img \in Images, NEW target \in SentTargets, NEW sec_ver \in SecVers,
         NEW ok \in EraseOutcomes, HearStart(img, target, sec_ver, ok)
  PROVE  Receiver!Next
<1> DEFINE pkt == StartPkt(img.size, sec_ver, target)
<1>1. /\ ok \in BOOLEAN /\ n \in Node /\ 0 \in Page /\ 0 \in Chunk
  BY SensorAssumption, WireAssumption DEF TypeOK, Page, Chunk
<1>2. pkt \in StartPkts /\ img.size.pages \in 1 .. MaxPages
  BY <1>1, StreamPackets, WireAssumption DEF Image, FileSize, Size
<1>3. n' = OnStart(n, pkt, ok) /\ stream'.image = img /\ missed' = 0
  BY DEF HearStart, NextStream
<1> HIDE DEF pkt
<1>4. /\ n'.staged = n.staged
      /\ n'.ota_session_active =>
           n'.running_fw_crc = <<>> /\ n'.last_crc_committed_page_offset = NoPage
  BY <1>1, <1>2, <1>3, OnStartEffect
<1>5. CASE ~n'.ota_session_active
  BY <1>4, <1>5, EndsSession DEF Receiver!Next
<1>6. CASE n'.ota_session_active
  <2>1. InStep'
    BY <1>3, <1>6 DEF InStep
  <2>2. Stored' \in SUBSET (0 .. img.size.pages - 1)
    BY <1>3, <2>1, MappingNext DEF HeldPages
  <2>3. Committed' = 0 /\ Last' = -1 /\ Pages' = img.size.pages /\ Session' = "open"
    BY <1>3, <1>4, <1>6, <2>1, MappingNext DEF NoPage
  <2>4. Receiver!Open(img.size.pages)
    BY <1>4, <2>2, <2>3 DEF Receiver!Open
  <2> QED
    BY <1>2, <2>4 DEF Receiver!Next
<1> QED
  BY <1>5, <1>6

\* A START that is not heard makes an open session stray.
LEMMA MissReceives ==
  ASSUME TypeOK, NEW img \in Images, NEW target \in SentTargets, NEW sec_ver \in SecVers,
         MissStart(img, target, sec_ver)
  PROVE  Receiver!Next \/ UNCHANGED Receiver!vars
<1>1. n' = n /\ missed' # 0 /\ missed \in Nat
  BY SensorAssumption DEF MissStart, TypeOK
<1>2. CASE InStep
  <2>1. ~InStep' /\ n'.ota_session_active
    BY <1>1, <1>2 DEF InStep
  <2>2. Receiver!Miss
    BY <1>1, <1>2, <2>1, Mapping, MappingNext DEF Receiver!Miss, Receiver!Forget, Nothing
  <2> QED
    BY <2>2 DEF Receiver!Next
<1>3. CASE ~InStep
  <2>1. CASE n.ota_session_active
    BY <1>1, <1>3, <2>1, LeavesStray DEF InStep
  <2>2. CASE ~n.ota_session_active
    <3>1. ~n'.ota_session_active /\ n'.staged = n.staged
      BY <1>1, <2>2
    <3> QED
      BY <3>1, EndsSession DEF Receiver!Next
  <2> QED
    BY <2>1, <2>2
<1> QED
  BY <1>2, <1>3

\* DATA only stores: the pages already counted stay where they were.
LEMMA DataReceives ==
  ASSUME TypeOK, Reception', NEW p \in Page, NEW c \in Chunk,
         NEW erase_ok \in EraseOutcomes, NEW write_ok \in IoOutcomes, NEW programmed \in BOOLEAN,
         HearData(p, c, erase_ok, write_ok, programmed)
  PROVE  Receiver!Next \/ UNCHANGED Receiver!vars
<1> DEFINE pkt == DataPkt(p, c, stream.image.data[p][c], stream.target)
<1>1. /\ erase_ok \in BOOLEAN /\ write_ok \in BOOLEAN
      /\ n \in Node /\ SlotOk(n) /\ stream.image \in Images /\ stream.target \in SentTargets
      /\ stream.sec_ver \in SecVers
      /\ stream' = stream /\ missed' = missed
  BY SensorAssumption DEF TypeOK, Stream, HearData, SlotOk
<1>2. pkt \in DataPkts
  BY <1>1, StreamPackets
<1>3. n' = OnData(n, pkt, erase_ok, write_ok, programmed)
  BY DEF HearData
<1> HIDE DEF pkt
<1>4. SameSession(n', n)
  BY <1>1, <1>2, <1>3, OnDataType
<1>5. CASE ~InStep
  BY <1>1, <1>4, <1>5, LeavesStray DEF SameSession
<1>6. CASE InStep
  <2>1. InStep'
    BY <1>1, <1>4, <1>6 DEF InStep, SameSession
  <2>2. /\ Session' = Session /\ Session = "open" /\ Pages' = Pages
        /\ Committed' = Committed /\ Last' = Last /\ n'.staged = n.staged
        /\ Stored' = HeldPages' /\ Pages = stream.image.size.pages
        /\ Committed = Len(n'.running_fw_crc) /\ Last = n'.last_crc_committed_page_offset
    BY <1>1, <1>4, <1>6, <2>1, Mapping, MappingNext DEF SameSession
  <2>3. HeldPages' \in SUBSET (0 .. Pages - 1)
    BY <1>1, <2>2 DEF HeldPages
  <2>4. Committed = Last + 1 => 0 .. Last \subseteq HeldPages'
    <3> SUFFICES ASSUME Committed = Last + 1, NEW q \in 0 .. Last
                 PROVE  q \in HeldPages'
      OBVIOUS
    <3>1. /\ Last < Pages
          /\ Prefix(n'.flash[n'.ota_target_slot][q], PageLen(stream.image.size, q))
               = ImagePage(stream.image, q)
      BY <1>1, <2>1, <2>2 DEF Reception, CommittedPagesInFlash
    <3>2. Last \in Int /\ Pages \in Nat
      <4>1. Last = n.last_crc_committed_page_offset /\ Pages = stream.image.size.pages
        BY <1>1, <1>4, <2>2 DEF SameSession
      <4>2. n.last_crc_committed_page_offset \in Int
        BY <1>1, WireAssumption DEF Node, Page, NoPage
      <4>3. stream.image.size.pages \in Nat
        BY <1>1, SensorAssumption, WireAssumption DEF Image, FileSize, Size
      <4> QED
        BY <4>1, <4>2, <4>3
    <3>3. q \in 0 .. Pages - 1
      BY <3>1, <3>2
    <3> QED
      BY <1>1, <2>2, <3>1, <3>3 DEF HeldPages
  <2>5. Receiver!Store
    BY <2>2, <2>3, <2>4 DEF Receiver!Store
  <2> QED
    BY <2>5 DEF Receiver!Next
<1> QED
  BY <1>5, <1>6

\* PAGE_END counts the page it finds in flash, unless it was the last one counted.
LEMMA PageEndReceives ==
  ASSUME TypeOK, Reception, NEW p \in Page, NEW ok \in IoOutcomes, HearPageEnd(p, ok)
  PROVE  Receiver!Next \/ UNCHANGED Receiver!vars
<1> DEFINE pkt == PageEndPkt(p, ImagePage(stream.image, p), stream.target)
           last == n.last_crc_committed_page_offset
<1>1. /\ ok \in BOOLEAN /\ 0 \in Chunk
      /\ n \in Node /\ SlotOk(n) /\ stream.image \in Images /\ stream.target \in SentTargets
      /\ stream.sec_ver \in SecVers
      /\ stream' = stream /\ missed' = missed /\ stream.phase = "data"
      /\ p < stream.image.size.pages
  BY SensorAssumption, WireAssumption DEF TypeOK, Stream, HearPageEnd, SlotOk, Chunk
<1>2. pkt \in PageEndPkts
  BY <1>1, StreamPackets
<1>3. pkt.page = p /\ pkt.crc = ImagePage(stream.image, p)
  BY DEF PageEndPkt
<1>4. n' = OnPageEnd(n, pkt, ok)
  BY DEF HearPageEnd
<1> HIDE DEF pkt
<1>5. \/ SameReception(n', n)
      \/ /\ InSession(n, pkt) /\ n.current_rx_page_offset = p
         /\ FlashPage(n, p) = ImagePage(stream.image, p)
         /\ SameReception(n', Commit(n))
  BY <1>1, <1>2, <1>3, <1>4, OnPageEndEffect
<1>6. CASE SameReception(n', n)
  BY <1>1, <1>6, LeavesReception
     DEF Receiver!Next, KeepsReception, SameReception, SameSession
<1>7. CASE /\ InSession(n, pkt) /\ n.current_rx_page_offset = p
           /\ FlashPage(n, p) = ImagePage(stream.image, p)
           /\ SameReception(n', Commit(n))
  <2>1. n.ota_session_active /\ n.ota_target_slot \in Slots
    BY <1>1, <1>7 DEF InSession, SlotOk
  <2>2. /\ n'.ota_session_active = n.ota_session_active
        /\ n'.ota_target_slot = n.ota_target_slot
        /\ n'.flash = n.flash /\ n'.staged = n.staged
        /\ last = p => SameReception(n', n)
        /\ last # p => /\ n'.last_crc_committed_page_offset = p
                       /\ n'.running_fw_crc = Append(n.running_fw_crc, FlashPage(n, p))
    BY <1>1, <1>7, <2>1, CommitEffect DEF SameReception, SameSession
  <2>3. CASE last = p
    BY <1>1, <2>2, <2>3, LeavesReception
       DEF Receiver!Next, KeepsReception, SameReception
  <2>4. CASE ~InStep
    BY <1>1, <2>2, <2>4, LeavesStray
  <2>5. CASE InStep /\ last # p
    <3>1. InStep' /\ HeldPages' = HeldPages
      BY <1>1, <2>2, <2>5 DEF InStep, HeldPages
    <3>2. /\ Session = "open" /\ Session' = "open" /\ Pages' = Pages /\ Stored' = Stored
          /\ Stored = HeldPages /\ Last = last /\ Last' = p
          /\ Committed = Len(n.running_fw_crc) /\ Committed' = Len(n'.running_fw_crc)
      BY <1>1, <2>2, <2>5, <3>1, Mapping, MappingNext
    <3>3. Committed' = Committed + 1
      <4>1. n.running_fw_crc \in Seq(PageContent) /\ FlashPage(n, p) \in PageContent
        BY <1>1, <2>1, FlashPageType DEF Node
      <4> QED
        BY <2>2, <2>5, <3>2, <4>1
    <3>4. p \in HeldPages
      <4>1. p \in 0 .. stream.image.size.pages - 1
        BY <1>1, SensorAssumption, WireAssumption DEF Page, Image, FileSize, Size
      <4>2. n.current_file_size = stream.image.size
        BY <2>5 DEF Reception, SessionOfStream
      <4> QED
        BY <1>7, <4>1, <4>2 DEF HeldPages, FlashPage
    <3>5. p > Last
      <4>1. last <= p
        BY <1>1, <1>7, <2>5 DEF Reception, CommittedPagesInFlash
      <4>2. last \in Int /\ p \in Int
        BY <1>1, WireAssumption DEF Node, Page, NoPage
      <4> QED
        BY <2>5, <3>2, <4>1, <4>2
    <3>6. Receiver!Count(p)
      BY <2>2, <3>2, <3>3, <3>4, <3>5 DEF Receiver!Count
    <3> QED
      BY <3>6, WireAssumption DEF Receiver!Next, Page
  <2> QED
    BY <2>3, <2>4, <2>5
<1> QED
  BY <1>5, <1>6, <1>7

\* VERIFY stages only over a CRC with a page of the image for each of its pages.
LEMMA VerifyReceives ==
  ASSUME TypeOK, TypeOK', NEW out \in StageOutcomes, HearVerify(out)
  PROVE  Receiver!Next \/ UNCHANGED Receiver!vars
<1> DEFINE pkt == VerifyPkt(ImageCrc(stream.image), stream.target)
<1>1. /\ n \in Node /\ SlotOk(n) /\ is_leaf \in BOOLEAN
      /\ stream.image \in Images /\ stream.target \in SentTargets /\ stream.sec_ver \in SecVers
      /\ 0 \in Page /\ 0 \in Chunk
  BY WireAssumption DEF TypeOK, Stream, SlotOk, Page, Chunk
<1>2. pkt \in VerifyPkts /\ pkt.crc = ImageCrc(stream.image)
  BY <1>1, StreamPackets DEF VerifyPkt
<1>3. /\ n' = OnVerify(n, pkt, out, is_leaf) /\ missed' = missed
      /\ stream'.image = stream.image /\ n'.staged \in Metadata
  BY DEF HearVerify, TypeOK, Stream, Node, Metadata
<1> HIDE DEF pkt
<1>4. /\ n'.ota_session_active => KeepsReception
      /\ n'.staged # n.staged => InSession(n, pkt) /\ VerifyMatches(n, pkt)
                                  /\ n'.ota_session_active = FALSE
  BY <1>1, <1>2, <1>3, OnVerifyEffect DEF KeepsReception
<1>5. CASE n'.staged = n.staged
  BY <1>3, <1>4, <1>5, LeavesReception DEF Receiver!Next
<1>6. CASE n'.staged # n.staged
  <2>1. /\ n.ota_session_active /\ n.running_fw_crc = ImageCrc(stream.image)
        /\ ~n'.ota_session_active /\ ~InStep'
    BY <1>2, <1>4, <1>6 DEF InSession, VerifyMatches, InStep
  <2>2. CASE InStep
    <3>1. Len(n.running_fw_crc) = stream.image.size.pages
      BY <1>1, <2>1, SensorAssumption, WireAssumption DEF ImageCrc, Image, FileSize, Size
    <3>2. Receiver!StageImage
      BY <1>3, <2>1, <2>2, <3>1, Mapping, MappingNext
         DEF Receiver!StageImage, Receiver!Forget, Nothing, Metadata
    <3> QED
      BY <3>2 DEF Receiver!Next
  <2>3. CASE ~InStep
    <3>1. missed # 0
      BY <2>1, <2>3 DEF InStep
    <3>2. Receiver!Stray
      BY <1>3, <2>1, <2>3, <3>1, Mapping, MappingNext
         DEF Receiver!Stray, Nothing, Metadata
    <3> QED
      BY <3>2 DEF Receiver!Next
  <2> QED
    BY <2>2, <2>3
<1> QED
  BY <1>5, <1>6

LEMMA StepReceives ==
  ASSUME TypeOK, Reception, TypeOK', Reception', [Next]_vars
  PROVE  [Receiver!Next]_(Receiver!vars)
<1>1. n \in Node
  BY DEF TypeOK
<1>2. CASE SendReport
  BY <1>1, <1>2, TimersEffect, LeavesReception
     DEF SendReport, Receiver!Next, KeepsReception, SameReception, SameSession
<1>3. CASE LeafStabilityExpires
  <2>1. is_leaf \in BOOLEAN
    BY DEF TypeOK
  <2>2. SameReception(n', n) /\ stream' = stream /\ missed' = missed
    BY <1>1, <1>3, <2>1, TimersEffect DEF LeafStabilityExpires
  <2> QED
    BY <2>2, LeavesReception DEF Receiver!Next, KeepsReception, SameReception, SameSession
<1>4. CASE StagedRebootExpires
  <2>1. ~n'.ota_session_active /\ n'.staged = n.staged
    BY <1>1, <1>4, TimersEffect DEF StagedRebootExpires
  <2> QED
    BY <2>1, EndsSession DEF Receiver!Next
<1>5. CASE RouteChanges \/ UNCHANGED vars
  <2>1. n' = n /\ stream' = stream /\ missed' = missed
    BY <1>5 DEF RouteChanges, vars
  <2> QED
    BY <2>1, LeavesReception DEF Receiver!Next, KeepsReception, SameSession
<1> QED
  BY <1>2, <1>3, <1>4, <1>5, StartReceives, MissReceives, DataReceives, PageEndReceives,
     VerifyReceives DEF Next

LEMMA InitReceives == Init => Receiver!Init
<1> SUFFICES ASSUME Init PROVE Receiver!Init
  OBVIOUS
<1>1. ~n.ota_session_active /\ ~InStep
  BY DEF Init, Boot, InStep
<1>2. n.staged \in Metadata
  BY TypeInit DEF TypeOK, Node, Metadata
<1> QED
  BY <1>1, <1>2, Mapping DEF Receiver!Init, Nothing, Metadata

\* Where every erase succeeds, or a sector is one page, whatever a node hears or
\* misses is a behaviour of PageReceiver.
THEOREM ReceivesPagesCorrect == ReliableErase => (Spec => ReceivesPages)
<1> SUFFICES ASSUME ReliableErase PROVE Spec => ReceivesPages
  OBVIOUS
<1>1. Spec => []IInv
  BY InductiveInvariant
<1>2. IInv /\ IInv' /\ [Next]_vars => [Receiver!Next]_(Receiver!vars)
  BY StepReceives DEF IInv, Reception
<1> QED
  BY <1>1, <1>2, InitReceives, PTL DEF Spec, ReceivesPages, Receiver!Spec
-----------------------------------------------------------------------------
(* What the refinement is worth: counting pages that are stored is enough  *)
(* to stage whole images only.                                             *)

Counts == Receiver!TypeOK /\ Receiver!CountedPagesStored

LEMMA ForgetCounts == ASSUME NEW next \in {"closed", "stray"}, Receiver!Forget(next) PROVE Counts'
BY DEF Receiver!Forget, Counts, Receiver!TypeOK, Receiver!CountedPagesStored

LEMMA StepCounts == Counts /\ [Receiver!Next]_(Receiver!vars) => Counts'
<1> SUFFICES ASSUME Counts, [Receiver!Next]_(Receiver!vars) PROVE Counts'
  OBVIOUS
<1> USE DEF Counts, Receiver!TypeOK, Receiver!CountedPagesStored
<1>1. ASSUME NEW size \in 1 .. MaxPages, Receiver!Open(size) PROVE Counts'
  BY <1>1 DEF Receiver!Open
<1>2. CASE Receiver!Close \/ Receiver!Miss \/ Receiver!StageImage
  BY <1>2, ForgetCounts DEF Receiver!Close, Receiver!Miss, Receiver!StageImage
<1>3. CASE Receiver!Stray
  BY <1>3 DEF Receiver!Stray
<1>4. CASE Receiver!Store
  BY <1>4 DEF Receiver!Store
<1>5. ASSUME NEW p \in 0 .. MaxPages - 1, Receiver!Count(p) PROVE Counts'
  <2>1. p \in 0 .. Pages - 1 /\ p > Last
    BY <1>5 DEF Receiver!Count
  <2>2. Receiver!TypeOK'
    BY <1>5, <2>1 DEF Receiver!Count
  <2>3. Committed' <= Last' + 1
    BY <1>5, <2>1 DEF Receiver!Count
  <2>4. ASSUME Committed' = Last' + 1 PROVE 0 .. Last' \subseteq Stored'
    <3>1. Last' = Last + 1 /\ Committed = Last + 1
      BY <1>5, <2>1, <2>4 DEF Receiver!Count
    <3>2. 0 .. Last' = (0 .. Last) \cup {p}
      BY <1>5, <2>1, <3>1 DEF Receiver!Count
    <3> QED
      BY <1>5, <3>1, <3>2 DEF Receiver!Count
  <2> QED
    BY <2>2, <2>3, <2>4
<1>6. CASE UNCHANGED Receiver!vars
  BY <1>6 DEF Receiver!vars
<1> QED
  BY <1>1, <1>2, <1>3, <1>4, <1>5, <1>6 DEF Receiver!Next

\* All counted means all stored: pages are counted in order, so as many counts as
\* there are pages leave none out.
LEMMA StageWhole == Counts /\ Receiver!StageImage => Pages > 0 /\ Stored = 0 .. Pages - 1
<1> SUFFICES ASSUME Counts, Receiver!StageImage PROVE Pages > 0 /\ Stored = 0 .. Pages - 1
  OBVIOUS
<1>1. /\ Pages \in Nat /\ Pages > 0 /\ Last \in -1 .. Pages - 1 /\ Committed = Pages
      /\ Stored \subseteq 0 .. Pages - 1
      /\ Committed <= Last + 1 /\ (Committed = Last + 1 => 0 .. Last \subseteq Stored)
  BY DEF Counts, Receiver!TypeOK, Receiver!CountedPagesStored, Receiver!StageImage
<1>2. Last = Pages - 1 /\ Committed = Last + 1
  BY <1>1
<1>3. 0 .. Pages - 1 \subseteq Stored
  BY <1>1, <1>2
<1> QED
  BY <1>1, <1>3

\* Whatever is written, erased, reset or missed: the boot metadata of a node in step with
\* its host changes only when its slot holds the whole image (ota-sensor.c:285-331).
THEOREM StagesWholeCorrect == ReliableErase => (Spec => Receiver!StagesOnlyWhole)
<1> SUFFICES ASSUME ReliableErase PROVE Spec => Receiver!StagesOnlyWhole
  OBVIOUS
<1>1. Receiver!Init => Counts
  BY DEF Receiver!Init, Counts, Receiver!TypeOK, Receiver!CountedPagesStored
<1>2. Counts /\ [Receiver!Next]_(Receiver!vars) =>
        [(n.staged)' # n.staged => Session = "stray" \/ (Pages > 0 /\ Stored = 0 .. Pages - 1)]_(Receiver!vars)
  <2> SUFFICES ASSUME Counts, Receiver!Next, n'.staged # n.staged, Session # "stray"
               PROVE  Pages > 0 /\ Stored = 0 .. Pages - 1
    BY DEF Receiver!vars
  <2>1. Receiver!StageImage
    BY DEF Receiver!Next, Receiver!Open, Receiver!Close, Receiver!Miss, Receiver!Stray,
           Receiver!Store, Receiver!Count
  <2> QED
    BY <2>1, StageWhole
<1>3. Spec => Receiver!Spec
  BY ReceivesPagesCorrect DEF ReceivesPages
<1> QED
  BY <1>1, <1>2, <1>3, StepCounts, PTL DEF Receiver!Spec, Receiver!StagesOnlyWhole
=============================================================================
