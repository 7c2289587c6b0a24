-------------------------- MODULE OtaRecoveryProofs --------------------------
(***************************************************************************)
(* Proof that a transfer recovers nothing that was not lost: without       *)
(* losses every page takes one round of reports, which finds all of it at  *)
(* every node.                                                             *)
(***************************************************************************)
EXTENDS OtaDeliveryProofs

-----------------------------------------------------------------------------
(* What is assumed besides. *)

\* The command line declares a secVer, the one of its only run.
DeclaresSecVer ==
  \A sec_ver \in SecVers :
    sec_ver # OTA_START_SEC_VER_UNKNOWN /\ \A other \in SecVers : other = sec_ver

Recovers == Delivers /\ DeclaresSecVer

-----------------------------------------------------------------------------
(* What a node answers, on its record. *)

LEMMA AcceptedIsOlder ==
  ASSUME DeclaresSecVer, NEW node \in Nodes, NEW m, m.running_sec_ver = RunningSecVer[node],
         NEW pkt, pkt.sec_ver \in SecVers, NEW ok, StartStatus(m, pkt, ok) = "ACCEPTED"
  PROVE  Older(node)
<1>1. ~TooOld(m, pkt.sec_ver)
  BY DEF StartStatus
<1>2. pkt.sec_ver \in Nat /\ RunningSecVer[node] \in Nat
  BY SenderAssumption, SystemAssumption
<1>3. pkt.sec_ver > RunningSecVer[node]
  BY <1>1, <1>2 DEF TooOld, DeclaresSecVer
<1> QED
  BY <1>3 DEF Older, DeclaresSecVer

\* A page that matches is reported as it is.
LEMMA MatchingPageReported ==
  ASSUME NEW m \in Node, SlotOk(m), NEW pkt \in PageEndPkts, InSession(m, pkt),
         pkt.page = m.current_rx_page_offset, PageMatches(m, pkt, TRUE)
  PROVE  OnPageEnd(m, pkt, TRUE).report_to_send = [page |-> pkt.page, bitmap |-> m.page_bitmap]
<1> DEFINE c == Commit(m)
           rep == [page |-> c.current_rx_page_offset, bitmap |-> c.page_bitmap]
           r == [c EXCEPT !.report_to_send = rep]
<1>1. OnPageEnd(m, pkt, TRUE) = SendPageReport(c)
  BY Zenon DEF OnPageEnd
<1>2. c \in Node /\ c.current_rx_page_offset = pkt.page
  BY CommitEffect DEF InSession, SlotOk, PageEndPkts
<1>3. c.page_bitmap = m.page_bitmap
  <2> DEFINE rx == m.current_rx_page_offset
             crc == Append(m.running_fw_crc, FlashPage(m, rx))
             q == [m EXCEPT !.running_fw_crc = crc, !.last_crc_committed_page_offset = rx]
  <2>1. c = m \/ c = q
    BY Zenon DEF Commit, Node
  <2> HIDE DEF crc, c
  <2>2. q.page_bitmap = m.page_bitmap
    BY DEF Node
  <2> HIDE DEF q
  <2> QED
    BY <2>1, <2>2
<1>4. pkt.page # NoPage
  BY DEF PageEndPkts, Page, NoPage
<1>5. SendPageReport(c) = r
  BY <1>2, <1>4, Zenon DEF SendPageReport
<1> HIDE DEF c, rep
<1>6. r.report_to_send = rep
  BY <1>2 DEF Node
<1> HIDE DEF r
<1> QED
  BY <1>1, <1>2, <1>3, <1>5, <1>6 DEF rep

\* A node without a session answers nothing.
LEMMA ClosedNodeSilent ==
  ASSUME NEW m \in Node, SlotOk(m), NEW pkt \in Packets, NEW leaf \in BOOLEAN,
         ~m.ota_session_active
  PROVE  Handled(m, pkt, leaf).report_to_send = m.report_to_send
<1>1. CASE pkt \in StartPkts
  BY <1>1, HandledKeeps DEF HandledLeaves, StartPkts
<1>2. CASE pkt \in DataPkts
  BY <1>2 DEF DataPkts, Handled, OnData, InSession
<1>3. CASE pkt \in PageEndPkts
  BY <1>3 DEF PageEndPkts, Handled, OnPageEnd, InSession
<1>4. CASE pkt \in VerifyPkts
  BY <1>4 DEF VerifyPkts, Handled, OnVerify, InSession
<1> QED
  BY <1>1, <1>2, <1>3, <1>4 DEF Packets

\* Only an accepted START opens a session.
LEMMA OpensByStart ==
  ASSUME NEW m \in Node, SlotOk(m), NEW pkt \in Packets, NEW leaf \in BOOLEAN,
         Handled(m, pkt, leaf).ota_session_active
  PROVE  \/ m.ota_session_active
         \/ pkt.type = "START" /\ StartStatus(m, pkt, TRUE) = "ACCEPTED"
<1>1. CASE pkt \in StartPkts
  <2>1. pkt.type = "START" /\ Handled(m, pkt, leaf) = OnStart(m, pkt, TRUE)
    BY <1>1 DEF StartPkts, Handled
  <2> QED
    BY <1>1, <2>1, OnStartEffect
<1>2. CASE pkt \in DataPkts
  <2>1. Handled(m, pkt, leaf) = OnData(m, pkt, TRUE, TRUE, TRUE)
    BY <1>2 DEF DataPkts, Handled
  <2>2. OnData(m, pkt, TRUE, TRUE, TRUE).ota_session_active = m.ota_session_active
    BY <1>2, OnDataType DEF SameSession
  <2> QED
    BY <2>1, <2>2
<1>3. CASE pkt \in PageEndPkts
  <2>1. Handled(m, pkt, leaf) = OnPageEnd(m, pkt, TRUE)
    BY <1>3 DEF PageEndPkts, Handled
  <2>2. OnPageEnd(m, pkt, TRUE).ota_session_active => m.ota_session_active
    BY <1>3, OnPageEndWrites DEF WritesNothing
  <2> QED
    BY <2>1, <2>2
<1>4. CASE pkt \in VerifyPkts
  <2>1. Handled(m, pkt, leaf) = OnVerify(m, pkt, "ok", leaf)
    BY <1>4 DEF VerifyPkts, Handled
  <2>2. OnVerify(m, pkt, "ok", leaf).ota_session_active => m.ota_session_active
    BY <1>4, OnVerifyWrites DEF WritesNothing
  <2> QED
    BY <2>1, <2>2
<1> QED
  BY <1>1, <1>2, <1>3, <1>4 DEF Packets

\* Neither START nor DATA makes a node report, and PAGE_END only of its page.
LEMMA ReportsItsPage ==
  ASSUME NEW m \in Node, SlotOk(m), NEW pkt \in Packets, NEW leaf \in BOOLEAN,
         pkt.type # "VERIFY"
  PROVE  LET r == Handled(m, pkt, leaf)
         IN \/ r.report_to_send = m.report_to_send
            \/ /\ pkt.type = "PAGE_END" /\ InSession(m, pkt)
               /\ pkt.page = m.current_rx_page_offset /\ r.report_to_send.page = pkt.page
<1>1. CASE pkt \in StartPkts
  BY <1>1, HandledKeeps DEF HandledLeaves, StartPkts
<1>2. CASE pkt \in DataPkts
  <2>1. Handled(m, pkt, leaf) = OnData(m, pkt, TRUE, TRUE, TRUE)
    BY <1>2 DEF DataPkts, Handled
  <2>2. OnData(m, pkt, TRUE, TRUE, TRUE).report_to_send = m.report_to_send
    BY <1>2, OnDataWrites DEF WritesOnly
  <2> QED
    BY <2>1, <2>2
<1>3. CASE pkt \in PageEndPkts
  <2>1. pkt.type = "PAGE_END" /\ Handled(m, pkt, leaf) = OnPageEnd(m, pkt, TRUE)
    BY <1>3 DEF PageEndPkts, Handled
  <2>2. CASE ~InSession(m, pkt) \/ pkt.page # m.current_rx_page_offset
    BY <2>1, <2>2 DEF OnPageEnd
  <2>3. CASE InSession(m, pkt) /\ pkt.page = m.current_rx_page_offset
    <3> PICK r : r = OnPageEnd(m, pkt, TRUE)
      OBVIOUS
    <3>1. \/ r.report_to_send = m.report_to_send
          \/ r.report_to_send = [page |-> pkt.page, bitmap |-> {}]
          \/ r.report_to_send.page = pkt.page
      BY <1>3, OnPageEndReports
    <3>2. r.report_to_send = m.report_to_send \/ r.report_to_send.page = pkt.page
      <4>1. PICK e : e = [page |-> pkt.page, bitmap |-> {}]
        OBVIOUS
      <4>2. e.page = pkt.page
        BY <4>1
      <4> QED
        BY <3>1, <4>1, <4>2, Zenon
    <3>3. Handled(m, pkt, leaf) = r
      BY <2>1
    <3> QED
      BY <2>1, <2>3, <3>2, <3>3
  <2> QED
    BY <2>2, <2>3
<1>4. CASE pkt \in VerifyPkts
  BY <1>4 DEF VerifyPkts
<1> QED
  BY <1>1, <1>2, <1>3, <1>4 DEF Packets

\* DATA adds to the page of the node, or begins a later one.
LEMMA DataAdds ==
  ASSUME NEW m \in Node, SlotOk(m), NEW pkt \in DataPkts
  PROVE  LET r == OnData(m, pkt, TRUE, TRUE, TRUE)
         IN \/ r.current_rx_page_offset > m.current_rx_page_offset
            \/ /\ r.current_rx_page_offset = m.current_rx_page_offset
               /\ m.page_bitmap \subseteq r.page_bitmap
<1> PICK r : r = OnData(m, pkt, TRUE, TRUE, TRUE)
  OBVIOUS
<1> DEFINE s == IF SelectsPage(m, pkt) THEN SelectPage(m, pkt, TRUE) ELSE m
           ignored == \/ ~InSession(m, pkt)
                      \/ ~BoundsOk(m, m.ota_target_slot, pkt.page, pkt.chunk)
                      \/ pkt.page < m.current_rx_page_offset
<1>1. CASE ignored
  <2>1. r = m
    BY <1>1, Zenon DEF OnData
  <2> QED
    BY <2>1
<1>2. CASE ~ignored
  <2>1. PageSelected(m, pkt, TRUE)
    BY DEF PageSelected, EraseSucceeds
  <2>2. r = StoreChunk(s, pkt, TRUE, TRUE)
    BY <1>2, <2>1, Zenon DEF OnData
  <2>3. m.ota_target_slot \in Slots
    BY <1>2 DEF InSession, SlotOk
  <2>4. /\ s \in Node /\ s.ota_target_slot = m.ota_target_slot
        /\ \/ s.current_rx_page_offset > m.current_rx_page_offset
           \/ s = m
    <3>1. CASE SelectsPage(m, pkt)
      <4>1. s \in Node /\ SameSession(s, m) /\ s.current_rx_page_offset = pkt.page
        BY <2>3, <3>1, SelectPageEffect
      <4> QED
        BY <3>1, <4>1 DEF SelectsPage, SameSession
    <3>2. CASE ~SelectsPage(m, pkt)
      BY <3>2
    <3> QED
      BY <3>1, <3>2
  <2> HIDE DEF s
  <2>5. ChunkWritten(r, s, m.ota_target_slot, pkt)
    BY <2>2, <2>3, <2>4, StoreChunkSucceeds
  <2>6. Stores(r, s, pkt)
    BY <2>2, <2>3, <2>4, StoreChunkEffect
  <2>7. r.page_bitmap = s.page_bitmap \cup {pkt.chunk}
    BY <2>5 DEF ChunkWritten
  <2>8. r.current_rx_page_offset = s.current_rx_page_offset
    BY <2>4, <2>6 DEF Stores
  <2> QED
    BY <2>4, <2>7, <2>8
<1> QED
  BY <1>1, <1>2

-----------------------------------------------------------------------------
(* What an older node makes of a packet of the stream. *)

\* What it reports is a whole page, and it asks for nothing of a page it committed.
AnswersFull(m, pkt, r) ==
  /\ CommittedFull(r)
  /\ \/ r.report_to_send = m.report_to_send
     \/ r.report_to_send.page = pkt.page /\ ChunksOf(pkt.page) \subseteq r.report_to_send.bitmap
  /\ pkt.type = "PAGE_END" /\ pkt.page = page_start_offset /\ m.staged = NoStage =>
       r.report_to_send.page = pkt.page

LEMMA PageEndAnswered ==
  ASSUME Base, NEW m \in Node, SlotOk(m), NEW pkt \in PageEndPkts, OfStream(pkt),
         OfHost(m, FALSE), KeepsPages(m), NodeDelivers(m), HasNeeds(m, pkt), CommittedFull(m)
  PROVE  AnswersFull(m, pkt, OnPageEnd(m, pkt, TRUE))
<1> PICK r : r = OnPageEnd(m, pkt, TRUE)
  OBVIOUS
<1>1. PICK p \in Page : p = pkt.page
  BY DEF PageEndPkts
<1>2. /\ pkt.type = "PAGE_END" /\ pkt.target = host.target /\ p \in Nat
      /\ p < host.file.size.pages /\ pkt.crc = ImagePage(host.file, p)
  BY <1>1, WireAssumption DEF OfStream, PageEndPkts, Page
<1>3. Event(pkt) = EndOf(p)
  BY <1>1, <1>2 DEF Event, PageEvents, EndOf
<1>4. PICK len \in 1 .. PageChunks : len = PageLen(host.file.size, p)
  BY <1>2, FilePageLen, FileFacts
<1>5. 0 .. len - 1 \subseteq Chunk /\ 0 \in 0 .. len - 1
  BY WireAssumption DEF Chunk
<1>6. \A c \in 0 .. len - 1 : Arrived(m, DataOf(p, c))
  <2>1. PICK e : e = EndOf(p)
    OBVIOUS
  <2>2. e.type = "PAGE_END" /\ e.page = p
    BY <2>1, EventFields
  <2>3. \A c \in 0 .. len - 1 : Needs(e, DataOf(p, c))
    BY <1>4, <2>2 DEF Needs
  <2> QED
    BY <1>3, <1>5, <2>1, <2>3, EventsOf DEF HasNeeds
<1>7. CASE m.staged # NoStage
  <2>1. r = m
    BY <1>7 DEF OnPageEnd, InSession, KeepsPages
  <2> QED
    BY <1>7, <2>1 DEF AnswersFull
<1>8. CASE m.staged = NoStage
  <2>1. PICK rx \in Int : rx = m.current_rx_page_offset
    BY RecordFacts
  <2>2. PICK last \in Int : last = m.last_crc_committed_page_offset /\ -1 <= last
    BY RecordFacts DEF Page, NoPage
  <2>3. \A c \in 0 .. len - 1 :
          m.ota_session_active /\ (p <= last \/ (rx = p /\ c \in m.page_bitmap))
    <3> SUFFICES ASSUME NEW c \in 0 .. len - 1
                 PROVE  m.ota_session_active /\ (p <= last \/ (rx = p /\ c \in m.page_bitmap))
      OBVIOUS
    <3>1. PICK e : e = DataOf(p, c)
      OBVIOUS
    <3>2. e.type = "DATA" /\ e.page = p /\ e.chunk = c
      BY <3>1, EventFields
    <3> QED
      BY <1>6, <1>8, <2>1, <2>2, <3>1, <3>2 DEF Arrived
  <2>4. /\ m.ota_session_active /\ m.ota_target_slot = host.target
        /\ host.target \in Slots /\ m.current_file_size = host.file.size
    BY <1>5, <2>3 DEF SlotOk, OfHost
  <2>5. InSession(m, pkt)
    BY <1>2, <2>4 DEF InSession
  <2>6. rx - 1 <= last /\ last <= rx /\ rx <= page_start_offset /\ page_start_offset \in Int
    BY <2>1, <2>2, <2>4, FileFacts DEF NodeDelivers, KeepsPages
  <2>7. CASE rx # p
    <3>1. r = m
      BY <1>1, <2>1, <2>7 DEF OnPageEnd
    <3>2. p <= last
      BY <1>5, <2>3, <2>7
    <3>3. p # page_start_offset
      BY <1>2, <2>6, <2>7, <3>2
    <3> QED
      BY <1>1, <3>1, <3>3 DEF AnswersFull
  <2>8. CASE rx = p
    <3>1. 0 .. len - 1 \subseteq m.page_bitmap
      <4>1. CASE p <= last
        <5>1. p = last /\ last # NoPage
          BY <1>2, <2>6, <2>8, <4>1 DEF NoPage
        <5> QED
          BY <1>4, <2>1, <2>2, <2>4, <2>8, <5>1 DEF CommittedFull, ChunksOf
      <4>2. CASE ~(p <= last)
        BY <2>3, <4>2
      <4> QED
        BY <4>1, <4>2
    <3>2. FlashPage(m, p) = ImagePage(host.file, p)
      <4>1. PageStored(m, p)
        BY <1>4, <2>1, <2>4, <2>8, <3>1, AllChunksStore
      <4> QED
        BY <2>4, <4>1 DEF FlashPage, PageStored
    <3>3. PageMatches(m, pkt, TRUE)
      BY <1>1, <1>2, <1>4, <2>4, <3>2 DEF PageMatches
    <3>4. pkt.page = m.current_rx_page_offset
      BY <1>1, <2>1, <2>8
    <3>5. r.report_to_send = [page |-> pkt.page, bitmap |-> m.page_bitmap]
      BY <2>5, <3>3, <3>4, MatchingPageReported
    <3>6. r.page_bitmap = m.page_bitmap /\ r.current_rx_page_offset = p
      <4> DEFINE s == Commit(m)
      <4>1. m.ota_target_slot \in Slots /\ m.current_rx_page_offset \in Page
        BY <1>1, <2>4, <3>4
      <4>2. s.current_rx_page_offset = m.current_rx_page_offset
        BY <4>1, CommitEffect
      <4> HIDE DEF s
      <4>3. SameReception(r, s) /\ r.page_bitmap = m.page_bitmap
        BY <2>5, <3>3, <3>4, OnPageEndMatches DEF s
      <4> QED
        BY <1>1, <3>4, <4>2, <4>3 DEF SameReception
    <3>7. ChunksOf(p) \subseteq m.page_bitmap
      BY <1>4, <3>1 DEF ChunksOf
    <3>8. CommittedFull(r)
      BY <3>6, <3>7 DEF CommittedFull
    <3>9. PICK rep : rep = r.report_to_send
      OBVIOUS
    <3>10. rep.page = pkt.page /\ rep.bitmap = m.page_bitmap
      BY <3>5, <3>9
    <3> QED
      BY <1>1, <3>7, <3>8, <3>9, <3>10, Zenon DEF AnswersFull
  <2> QED
    BY <2>7, <2>8
<1> QED
  BY <1>7, <1>8

LEMMA FirstHasNeeds ==
  ASSUME SystemTypeOK, InSequence, NEW i \in DOMAIN Line, Older(Line[i]), 1 \in DOMAIN Inbox(i)
  PROVE  HasNeeds(nodes[Line[i]], Inbox(i)[1])
<1>1. i \in Nat /\ i \in 1 .. i
  BY LineType
<1> SUFFICES ASSUME NEW d \in Events, Needs(Event(Inbox(i)[1]), d)
             PROVE  Arrived(nodes[Line[i]], d)
  BY DEF HasNeeds
<1>2. Arrived(nodes[Line[i]], d) \/ Ahead(i, 1, i, d)
  BY <1>1 DEF InSequence
<1>3. \A h \in i .. i : \A l \in DOMAIN Inbox(h) : ~InFront(h, l, i, 1)
  <2>1. \A h \in i .. i : h = i
    BY <1>1
  <2>2. \A l \in DOMAIN Inbox(i) : l \in Nat /\ l >= 1
    BY InboxType DEF SystemTypeOK
  <2> QED
    BY <1>1, <2>1, <2>2 DEF InFront
<1> QED
  BY <1>2, <1>3 DEF Ahead

\* A node that takes all of the stream reports whole pages only.
LEMMA HeadAnswered ==
  ASSUME TransferInv, DeliveryInv, lost = 0,
         NEW i \in DOMAIN Line, Inbox(i) # <<>>, Older(Line[i]),
         NEW m, m = nodes[Line[i]], CommittedFull(m),
         NEW pkt, pkt = Head(Inbox(i)), pkt.type # "VERIFY"
  PROVE  AnswersFull(m, pkt, Handled(m, pkt, i = Len(Line)))
<1>1. /\ StreamInOrder /\ NodesInv /\ Base /\ SystemTypeOK
  BY InvParts DEF TransferInv
<1>2. Line[i] \in Nodes /\ i \in Nat /\ i \in 1 .. i /\ 1 .. i \subseteq DOMAIN Line
  BY LineType
<1>3. m \in Node /\ SlotOk(m) /\ KeepsPages(m)
  <2>1. NodeKeepsPages(Line[i])
    BY <1>1, <1>2 DEF NodesInv
  <2> QED
    BY <1>1, <1>2, <2>1, NodeFacts DEF NodeKeepsPages, KeepsPages, Holds, PageStored,
       LastCommitted, CommittedToLast
<1>4. pkt \in Packets /\ 1 \in DOMAIN Inbox(i) /\ Inbox(i)[1] = pkt
  BY <1>1, InboxType DEF SystemTypeOK
<1>5. OfStream(pkt)
  BY <1>1, <1>4 DEF StreamInOrder
<1>6. OfHost(m, FALSE)
  <2>1. ~AfterVerify(i)
    BY <1>2, <1>4 DEF AfterVerify, OnlyVerify
  <2> QED
    BY <1>1, <2>1 DEF NodesInv, NodeInSession, OfHost
<1>7. NodeDelivers(m)
  <2>1. Line[i] \in ToSet(Line)
    BY DEF ToSet
  <2> QED
    BY <1>2, <2>1 DEF DeliveryInv
<1>8. CASE pkt \in StartPkts
  <2>1. pkt.type = "START" /\ Handled(m, pkt, i = Len(Line)) = OnStart(m, pkt, TRUE)
    BY <1>8 DEF StartPkts, Handled
  <2> PICK r : r = OnStart(m, pkt, TRUE)
    OBVIOUS
  <2>2. r.current_rx_page_offset = NoPage
    BY <1>3, <1>8, OnStartEffect
  <2>3. r.report_to_send = m.report_to_send
    BY <1>3, <1>8, OnStartWrites
  <2> QED
    BY <2>1, <2>2, <2>3 DEF AnswersFull, CommittedFull
<1>9. CASE pkt \in DataPkts
  <2>1. pkt.type = "DATA" /\ Handled(m, pkt, i = Len(Line)) = OnData(m, pkt, TRUE, TRUE, TRUE)
    BY <1>9 DEF DataPkts, Handled
  <2> PICK r : r = OnData(m, pkt, TRUE, TRUE, TRUE)
    OBVIOUS
  <2>2. SameSession(r, m) /\ r \in Node
    BY <1>3, <1>9, OnDataType
  <2>3. r.report_to_send = m.report_to_send
    <3>1. r = m \/ (m.ota_session_active /\ WritesOnly(r, m, m.ota_target_slot))
      BY <1>3, <1>9, OnDataWrites
    <3> QED
      BY <3>1 DEF WritesOnly
  <2>4. \/ r.current_rx_page_offset > m.current_rx_page_offset
        \/ /\ r.current_rx_page_offset = m.current_rx_page_offset
           /\ m.page_bitmap \subseteq r.page_bitmap
    BY <1>3, <1>9, DataAdds
  <2>5. CommittedFull(r)
    <3> SUFFICES ASSUME r.ota_session_active,
                        r.last_crc_committed_page_offset = r.current_rx_page_offset,
                        r.current_rx_page_offset # NoPage
                 PROVE  ChunksOf(r.current_rx_page_offset) \subseteq r.page_bitmap
      BY DEF CommittedFull
    <3>1. /\ m.ota_session_active
          /\ m.last_crc_committed_page_offset = r.last_crc_committed_page_offset
      BY <2>2 DEF SameSession
    <3>2. PICK rx \in Int, last \in Int :
            /\ rx = m.current_rx_page_offset /\ last = m.last_crc_committed_page_offset
      BY <1>3, RecordFacts
    <3>3. last <= rx
      BY <1>7, <3>1, <3>2 DEF NodeDelivers
    <3>4. /\ r.current_rx_page_offset = m.current_rx_page_offset
          /\ m.page_bitmap \subseteq r.page_bitmap
      <4>1. r.current_rx_page_offset = last
        BY <3>1, <3>2
      <4>2. ~(last > rx)
        BY <3>2, <3>3
      <4> QED
        BY <2>4, <3>2, <4>1, <4>2, Zenon
    <3> QED
      BY <3>1, <3>4 DEF CommittedFull
  <2> QED
    BY <2>1, <2>3, <2>5 DEF AnswersFull
<1>10. CASE pkt \in PageEndPkts
  <2>1. pkt.type = "PAGE_END" /\ Handled(m, pkt, i = Len(Line)) = OnPageEnd(m, pkt, TRUE)
    BY <1>10 DEF PageEndPkts, Handled
  <2>2. HasNeeds(m, pkt)
    BY <1>1, <1>2, <1>4, FirstHasNeeds DEF DeliveryInv
  <2> QED
    BY <1>1, <1>3, <1>5, <1>6, <1>7, <1>10, <2>1, <2>2, PageEndAnswered
<1> QED
  BY <1>4, <1>8, <1>9, <1>10 DEF Packets, VerifyPkts

-----------------------------------------------------------------------------
(* What of the invariant rests. *)

LEMMA OlderOnlyRests ==
  ASSUME OlderOnly, nodes' = nodes, reports' \subseteq reports,
         \A node \in Nodes : first_answer'[node] = "accept" => first_answer[node] = "accept"
  PROVE  OlderOnly'
BY DEF OlderOnly

\* A packet of the stream is of the transfer that is going on.
LEMMA NotVerify ==
  ASSUME TransferInv, ~Finished, NEW i \in DOMAIN Line, Inbox(i) # <<>>
  PROVE  Head(Inbox(i)).type # "VERIFY" /\ OfStream(Head(Inbox(i)))
<1>1. StreamInOrder /\ QueuesTypeOK
  BY InvParts DEF TransferInv, SystemTypeOK
<1>2. 1 \in DOMAIN Inbox(i) /\ Inbox(i)[1] = Head(Inbox(i))
  <2>1. Inbox(i) \in Seq(Packets)
    BY <1>1, InboxType
  <2> QED
    BY <2>1
<1>3. OfStream(Inbox(i)[1])
  BY <1>1, <1>2 DEF StreamInOrder
<1> QED
  BY <1>2, <1>3 DEF OfStream

\* A node of a running session is an older one, at its place, which has not staged.
LEMMA SessionIsOlder ==
  ASSUME TransferInv, OlderOnly, pc # "idle", NEW node \in SessionNodes
  PROVE  /\ node \in Nodes /\ Older(node)
         /\ nodes[node].ota_session_active /\ nodes[node].staged = NoStage
<1>1. node \in Nodes /\ nodes[node].ota_session_active
  BY SessionNode
<1>2. NodeKeepsPages(node)
  BY <1>1, InvParts DEF TransferInv, NodesInv
<1> QED
  BY <1>1, <1>2 DEF OlderOnly, NodeKeepsPages

\* A page somebody reported was committed there.
LEMMA ReportedCommitted ==
  ASSUME TransferInv, ~Finished
  PROVE  /\ \A node \in Nodes :
              Full(nodes[node].report_to_send) /\ nodes[node].report_to_send # NoReport
                => nodes[node].report_to_send.page <= LastCommitted(node)
         /\ \A r \in reports :
              r.type = "BITMAP_REPORT" /\ Full(r.report) /\ r.report # NoReport
                => r.report.page <= LastCommitted(r.node)
<1>1. ReportsTrue
  BY InvParts DEF TransferInv, NodesInv
<1> QED
  BY <1>1 DEF ReportsTrue, TrueReport, Full, ChunksOf

\* What every step of a round but those of the process leaves.
RoundStays ==
  UNCHANGED <<pc, recovery_round, retry_count, abandoned, session_nodes, page_start_offset>>
    /\ host'.file = host.file

LEMMA RoundGoesOn ==
  ASSUME OneRound, RoundStays,
         pc = "pageEnd" => Unasked' /\ node_replied' = node_replied,
         pc = "wait" =>
           /\ \A i \in DOMAIN session_nodes : ReportOrComing(i)'
           /\ AllReplied(session_nodes, node_replied') => bitmap_event'
  PROVE  OneRound'
<1>1. /\ retry_count' = 0 /\ abandoned' = {} /\ pc' # "resend"
      /\ pc' \in {"idle", "chunk"} => recovery_round' = 0
      /\ pc' \in {"pageEnd", "wait"} => recovery_round' = 1
  BY DEF OneRound, RoundStays
<1>2. pc' = "pageEnd" => Unasked' /\ \A i \in DOMAIN session_nodes' : ~node_replied'[i]
  BY DEF OneRound, RoundStays
<1>3. pc' = "wait" =>
        /\ \A i \in DOMAIN session_nodes' : ReportOrComing(i)'
        /\ AllReplied(session_nodes', node_replied') => bitmap_event'
  BY DEF RoundStays
<1> QED
  BY <1>1, <1>2, <1>3 DEF OneRound

-----------------------------------------------------------------------------
(* A node receives a packet. *)

Received(i, n, m, pkt, r) ==
  /\ n \in Nodes /\ m \in Node /\ SlotOk(m) /\ pkt \in Packets
  /\ Inbox(i) # <<>> /\ Passes(i, TRUE) /\ QueuesTypeOK
  /\ 1 \in DOMAIN Inbox(i) /\ Inbox(i)[1] = pkt
  /\ nodes'[n] = r /\ \A node \in Nodes \ {n} : nodes'[node] = nodes[node]
  /\ reports' = IF pkt.type = "START" THEN reports \cup {StartReportOf(n, pkt)} ELSE reports
  /\ UNCHANGED <<lost, host, first_answer, node_replied, session_bitmaps, bitmap_event>>
  /\ RoundStays /\ (Finished' <=> Finished)

LEMMA ReceiveFacts ==
  ASSUME TransferInv, SystemTypeOK', NEW i \in DOMAIN Line, Receive(i),
         NEW n, n = Line[i], NEW m, m = nodes[n], NEW pkt, pkt = Head(Inbox(i)),
         NEW r, r = Handled(m, pkt, i = Len(Line))
  PROVE  Received(i, n, m, pkt, r)
<1>1. QueuesTypeOK /\ QueuesTypeOK' /\ SystemTypeOK
  BY DEF TransferInv, SystemTypeOK
<1>2. n \in Nodes /\ m \in Node /\ SlotOk(m)
  BY <1>1, LineType DEF SystemTypeOK
<1>3. /\ Inbox(i) # <<>> /\ PassedOn(i, TRUE)
      /\ nodes' = [nodes EXCEPT ![n] = r]
      /\ reports' = IF pkt.type = "START" THEN reports \cup {StartReportOf(n, pkt)} ELSE reports
      /\ UNCHANGED <<lost, first_answer, abandoned>>
  BY DEF Receive, Forwards
<1>4. nodes'[n] = r /\ \A node \in Nodes \ {n} : nodes'[node] = nodes[node]
  BY <1>1, <1>2, <1>3 DEF SystemTypeOK
<1>5. /\ UNCHANGED <<host, node_replied, session_bitmaps, bitmap_event, pc, recovery_round,
                     retry_count, session_nodes, page_start_offset>>
  BY DEF Receive, hostAndCoordinatorVars, transferVars, processVars, senderVars, sessionVars
<1>6. Passes(i, TRUE)
  BY <1>1, <1>3, PassedOnPasses
<1>7. pkt \in Packets /\ 1 \in DOMAIN Inbox(i) /\ Inbox(i)[1] = pkt
  BY <1>1, <1>3, InboxType
<1>8. RoundStays /\ (Finished' <=> Finished)
  BY <1>3, <1>5 DEF RoundStays, Finished
<1> QED
  BY <1>1, <1>2, <1>3, <1>4, <1>5, <1>6, <1>7, <1>8 DEF Received

\* Only an older node opens a session, or is heard to.
LEMMA ReceiveOlder ==
  ASSUME DeclaresSecVer, TransferInv, DeliveryInv, SystemTypeOK', OlderOnly,
         NEW i \in DOMAIN Line, Receive(i)
  PROVE  OlderOnly'
<1> PICK n : n = Line[i]
  OBVIOUS
<1> PICK m : m = nodes[n]
  OBVIOUS
<1> PICK pkt : pkt = Head(Inbox(i))
  OBVIOUS
<1> PICK r : r = Handled(m, pkt, i = Len(Line))
  OBVIOUS
<1>1. /\ n \in Nodes /\ m \in Node /\ SlotOk(m) /\ pkt \in Packets
      /\ 1 \in DOMAIN Inbox(i) /\ Inbox(i)[1] = pkt
      /\ nodes'[n] = r /\ \A node \in Nodes \ {n} : nodes'[node] = nodes[node]
      /\ reports' = IF pkt.type = "START" THEN reports \cup {StartReportOf(n, pkt)} ELSE reports
      /\ first_answer' = first_answer
  <2>1. Received(i, n, m, pkt, r)
    BY ReceiveFacts
  <2> QED
    BY <2>1 DEF Received
<1>2. m.running_sec_ver = RunningSecVer[n]
  BY <1>1 DEF DeliveryInv
<1>3. pkt.type = "START" => pkt.sec_ver \in SecVers
  BY <1>1 DEF DeliveryInv, Declared
<1>4. pkt.type = "START" /\ StartStatus(m, pkt, TRUE) = "ACCEPTED" => Older(n)
  BY <1>1, <1>2, <1>3, AcceptedIsOlder, ZenonT(60)
<1>5. r.ota_session_active => Older(n)
  <2>1. r.ota_session_active =>
          m.ota_session_active \/ (pkt.type = "START" /\ StartStatus(m, pkt, TRUE) = "ACCEPTED")
    BY <1>1, OpensByStart
  <2> QED
    BY <1>1, <1>4, <2>1 DEF OlderOnly
<1>6. ASSUME NEW node \in Nodes, nodes'[node].ota_session_active \/ first_answer'[node] = "accept"
      PROVE  Older(node)
  <2>1. CASE node = n /\ nodes'[node].ota_session_active
    BY <1>1, <1>5, <2>1
  <2>2. CASE ~(node = n /\ nodes'[node].ota_session_active)
    <3>1. nodes[node].ota_session_active \/ first_answer[node] = "accept"
      BY <1>1, <1>6, <2>2
    <3> QED
      BY <3>1 DEF OlderOnly
  <2> QED
    BY <2>1, <2>2
<1>7. ASSUME NEW q \in reports', q.type = "START_REPORT" /\ q.accepted
      PROVE  Older(q.node)
  <2>1. CASE q \in reports
    BY <1>7, <2>1 DEF OlderOnly
  <2>2. CASE pkt.type = "START" /\ q = StartReportOf(n, pkt)
    <3>1. q.node = n /\ q.accepted = (StartStatus(m, pkt, TRUE) = "ACCEPTED")
      BY <2>2 DEF StartReportOf
    <3> QED
      BY <1>4, <1>7, <2>2, <3>1
  <2> QED
    BY <1>1, <2>1, <2>2
<1> QED
  BY <1>6, <1>7 DEF OlderOnly

\* Only whole pages are reported, and what a node committed it has in full.
LEMMA ReceiveFull ==
  ASSUME DeclaresSecVer, TransferInv, DeliveryInv, SystemTypeOK', OlderOnly, PagesFull, lost = 0,
         NEW i \in DOMAIN Line, Receive(i)
  PROVE  PagesFull'
<1> SUFFICES ASSUME ~Finished'
             PROVE  /\ \A node \in Nodes :
                         Full(nodes[node].report_to_send)' /\ CommittedFull(nodes[node])'
                    /\ \A q \in reports' : q.type = "BITMAP_REPORT" => Full(q.report)'
  BY DEF PagesFull
<1> PICK n : n = Line[i]
  OBVIOUS
<1> PICK m : m = nodes[n]
  OBVIOUS
<1> PICK pkt : pkt = Head(Inbox(i))
  OBVIOUS
<1> PICK r : r = Handled(m, pkt, i = Len(Line))
  OBVIOUS
<1>1. Received(i, n, m, pkt, r)
  BY ReceiveFacts
<1>2. ~Finished /\ host' = host
  BY <1>1 DEF Received
<1>3. /\ n \in Nodes /\ m \in Node /\ SlotOk(m) /\ pkt \in Packets /\ Inbox(i) # <<>>
      /\ nodes'[n] = r /\ \A node \in Nodes \ {n} : nodes'[node] = nodes[node]
      /\ reports' = IF pkt.type = "START" THEN reports \cup {StartReportOf(n, pkt)} ELSE reports
  BY <1>1 DEF Received
<1>4. /\ \A node \in Nodes : Full(nodes[node].report_to_send) /\ CommittedFull(nodes[node])
      /\ \A q \in reports : q.type = "BITMAP_REPORT" => Full(q.report)
  BY <1>2 DEF PagesFull
<1>5. Full(r.report_to_send) /\ CommittedFull(r)
  <2>1. CASE Older(n)
    <3>1. pkt.type # "VERIFY"
      BY <1>2, <1>3, NotVerify
    <3>2. CommittedFull(m) /\ Full(m.report_to_send)
      BY <1>3, <1>4
    <3>3. AnswersFull(m, pkt, r)
      BY <1>3, <2>1, <3>1, <3>2, HeadAnswered
    <3> QED
      BY <3>2, <3>3 DEF AnswersFull, Full
  <2>2. CASE ~Older(n)
    <3>1. ~m.ota_session_active
      BY <1>3, <2>2 DEF OlderOnly
    <3>2. r.report_to_send = m.report_to_send
      BY <1>3, <3>1, ClosedNodeSilent, ZenonT(60)
    <3>3. ~r.ota_session_active
      BY <1>3, <2>2, ReceiveOlder DEF OlderOnly
    <3> QED
      BY <1>3, <1>4, <3>2, <3>3 DEF CommittedFull
  <2> QED
    BY <2>1, <2>2
<1>6. \A node \in Nodes : Full(nodes'[node].report_to_send) /\ CommittedFull(nodes'[node])
  BY <1>3, <1>4, <1>5
<1>7. \A q \in reports' : q.type = "BITMAP_REPORT" => Full(q.report)
  <2>1. StartReportOf(n, pkt).type = "START_REPORT"
    BY DEF StartReportOf
  <2>2. \A q \in reports' : q \in reports \/ q.type = "START_REPORT"
    BY <1>3, <2>1
  <2> QED
    BY <1>4, <2>2
<1> QED
  BY <1>2, <1>6, <1>7 DEF Full, CommittedFull, ChunksOf

\* Nobody commits a page of which no PAGE_END was sent.
LEMMA ReceiveUnasked ==
  ASSUME TransferInv, SystemTypeOK', Unasked, NEW i \in DOMAIN Line, Receive(i)
  PROVE  Unasked'
<1> PICK n : n = Line[i]
  OBVIOUS
<1> PICK m : m = nodes[n]
  OBVIOUS
<1> PICK pkt : pkt = Head(Inbox(i))
  OBVIOUS
<1> PICK r : r = Handled(m, pkt, i = Len(Line))
  OBVIOUS
<1>1. Received(i, n, m, pkt, r)
  BY ReceiveFacts
<1>2. /\ n \in Nodes /\ m \in Node /\ SlotOk(m) /\ pkt \in Packets /\ Inbox(i) # <<>>
      /\ 1 \in DOMAIN Inbox(i) /\ Inbox(i)[1] = pkt /\ Passes(i, TRUE) /\ QueuesTypeOK
      /\ nodes'[n] = r /\ \A node \in Nodes \ {n} : nodes'[node] = nodes[node]
  BY <1>1 DEF Received
<1>3. page_start_offset' = page_start_offset /\ page_start_offset \in Nat
  BY <1>1, FileFacts DEF Received, RoundStays, TransferInv
<1>4. (i = Len(Line)) \in BOOLEAN
  OBVIOUS
<1>5. HandledLeaves(m, pkt, r)
  BY <1>2, <1>4, HandledKeeps
<1>6. LastCommitted(n) < page_start_offset
  BY <1>2 DEF Unasked
<1>7. r.last_crc_committed_page_offset < page_start_offset
  <2>1. pkt.type = "PAGE_END" => pkt.page < page_start_offset
    BY <1>2 DEF Unasked
  <2> QED
    BY <1>2, <1>3, <1>5, <1>6, <2>1 DEF HandledLeaves, NoPage, LastCommitted
<1>8. ASSUME NEW node \in Nodes
      PROVE  LastCommitted(node)' < page_start_offset'
  <2>1. CASE node = n
    BY <1>2, <1>3, <1>7, <2>1 DEF LastCommitted
  <2>2. CASE node # n
    BY <1>2, <1>3, <2>2 DEF Unasked, LastCommitted
  <2> QED
    BY <2>1, <2>2
<1>9. ASSUME NEW j \in DOMAIN Line, NEW k \in DOMAIN (Inbox(j)'),
             Inbox(j)'[k].type = "PAGE_END"
      PROVE  Inbox(j)'[k].page < page_start_offset'
  <2>1. \E h \in DOMAIN Line : \E l \in DOMAIN Inbox(h) : Inbox(j)'[k] = Inbox(h)[l]
    BY <1>2, PassedFrom
  <2> QED
    BY <1>3, <1>9, <2>1 DEF Unasked
<1> QED
  BY <1>8, <1>9 DEF Unasked

\* Who has PAGE_END on its way takes it, and answers; an answer is not withdrawn.
LEMMA ReceiveAnswers ==
  ASSUME TransferInv, DeliveryInv, SystemTypeOK', OlderOnly, PagesFull, lost = 0,
         NEW i \in DOMAIN Line, Receive(i), pc # "idle", NEW s \in SessionNodes,
         Asked(s) \/ Answers(s)
  PROVE  Asked(s)' \/ Answers(s)'
<1> PICK n : n = Line[i]
  OBVIOUS
<1> PICK m : m = nodes[n]
  OBVIOUS
<1> PICK pkt : pkt = Head(Inbox(i))
  OBVIOUS
<1> PICK r : r = Handled(m, pkt, i = Len(Line))
  OBVIOUS
<1> PICK p : p = page_start_offset
  OBVIOUS
<1>1. Received(i, n, m, pkt, r)
  BY ReceiveFacts
<1>2. /\ n \in Nodes /\ m \in Node /\ SlotOk(m) /\ pkt \in Packets /\ Inbox(i) # <<>>
      /\ Passes(i, TRUE) /\ QueuesTypeOK
      /\ nodes'[n] = r /\ \A node \in Nodes \ {n} : nodes'[node] = nodes[node]
      /\ reports \subseteq reports' /\ page_start_offset' = p
  BY <1>1 DEF Received, RoundStays
<1>3. s \in Nodes /\ Older(s) /\ nodes[s].staged = NoStage /\ ~Finished
  BY SessionIsOlder, SessionNode
<1>4. pkt.type # "VERIFY" /\ OfStream(pkt)
  BY <1>2, <1>3, NotVerify
<1>5. ASSUME s = n
      PROVE  AnswersFull(m, pkt, r) /\ Full(m.report_to_send)
  <2>1. CommittedFull(m) /\ Full(m.report_to_send)
    BY <1>3, <1>5 DEF PagesFull
  <2> QED
    BY <1>2, <1>3, <1>4, <1>5, <2>1, HeadAnswered
<1>6. CASE Asked(s)
  <2>1. PICK j \in DOMAIN Line : Line[j] = s /\ Coming(j, EndOf(p))
    BY <1>6 DEF Asked
  <2>2. CASE Coming(j, EndOf(p))'
    BY <1>2, <2>1, <2>2 DEF Asked
  <2>3. CASE j = i /\ EndOf(p) = Event(pkt)
    <3>1. pkt.type = "PAGE_END" /\ pkt.page = p
      BY <1>2, <2>3, EventOfType, EventFields DEF Event, EndOf, PageEvents
    <3>2. r.report_to_send.page = pkt.page
      BY <1>3, <1>5, <2>1, <2>3, <3>1 DEF AnswersFull
    <3> QED
      BY <1>2, <2>1, <2>3, <3>1, <3>2 DEF Answers
  <2> QED
    BY <1>2, <2>1, <2>2, <2>3, ComingPasses
<1>7. CASE \E q \in reports :
             q.type = "BITMAP_REPORT" /\ q.node = s /\ q.report.page = page_start_offset
  BY <1>2, <1>7 DEF Answers
<1>8. CASE nodes[s].report_to_send.page = page_start_offset
  <2>1. CASE s # n
    BY <1>2, <1>3, <1>8, <2>1 DEF Answers
  <2>2. CASE s = n
    <3>1. p \in Nat /\ p # NoPage
      BY FileFacts DEF TransferInv, NoPage
    <3>2. m.report_to_send # NoReport /\ p <= LastCommitted(n)
      <4>1. m.report_to_send # NoReport
        BY <1>8, <2>2, <3>1 DEF NoReport
      <4> QED
        BY <1>3, <1>5, <1>8, <2>2, <4>1, ReportedCommitted
    <3>3. CASE r.report_to_send = m.report_to_send
      BY <1>2, <1>8, <2>2, <3>3 DEF Answers
    <3>4. CASE /\ pkt.type = "PAGE_END" /\ InSession(m, pkt)
               /\ pkt.page = m.current_rx_page_offset /\ r.report_to_send.page = pkt.page
      <4>1. LastCommitted(n) <= m.current_rx_page_offset
        <5>1. NodeDelivers(m)
          BY <1>2, <1>3, <2>2 DEF DeliveryInv, ToSet
        <5> QED
          BY <3>4, <5>1 DEF NodeDelivers, InSession, LastCommitted
      <4>2. pkt.page <= p
        BY <1>4, <3>4 DEF OfStream
      <4>3. /\ LastCommitted(n) \in Int /\ m.current_rx_page_offset \in Int
        BY <1>2, NodeFacts DEF TransferInv
      <4>4. pkt.page = p
        BY <3>1, <3>2, <3>4, <4>1, <4>2, <4>3
      <4> QED
        BY <1>2, <2>2, <3>4, <4>4 DEF Answers
    <3> QED
      BY <1>2, <1>4, <3>3, <3>4, ReportsItsPage, ZenonT(60)
  <2> QED
    BY <2>1, <2>2
<1> QED
  BY <1>6, <1>7, <1>8 DEF Answers

LEMMA ReceiveRounds ==
  ASSUME DeclaresSecVer, TransferInv, DeliveryInv, SystemTypeOK', RoundInv,
         NEW i \in DOMAIN Line, Receive(i)
  PROVE  RoundInv'
<1>1. OlderOnly'
  BY ReceiveOlder DEF RoundInv
<1>2. ASSUME lost' = 0
      PROVE  OneRound' /\ PagesFull'
  <2>1. Received(i, Line[i], nodes[Line[i]], Head(Inbox(i)),
                 Handled(nodes[Line[i]], Head(Inbox(i)), i = Len(Line)))
    BY ReceiveFacts
  <2>2. /\ UNCHANGED <<lost, node_replied, session_bitmaps, bitmap_event, host>> /\ RoundStays
    BY <2>1 DEF Received
  <2>3. lost = 0 /\ OlderOnly /\ OneRound /\ PagesFull
    BY <1>2, <2>2 DEF RoundInv
  <2>4. PagesFull'
    BY <2>3, ReceiveFull
  <2>5. pc = "pageEnd" => Unasked' /\ node_replied' = node_replied
    BY <2>2, <2>3, ReceiveUnasked DEF OneRound
  <2>6. ASSUME pc = "wait", NEW w \in DOMAIN session_nodes
        PROVE  ReportOrComing(w)'
    <3>1. session_nodes[w] \in SessionNodes
      BY DEF SessionNodes, ToSet
    <3>2. ReportOrComing(w)
      BY <2>3, <2>6 DEF OneRound
    <3>3. CASE node_replied[w]
      BY <2>2, <3>2, <3>3 DEF ReportOrComing, RoundStays, ChunksOf
    <3>4. CASE ~node_replied[w]
      <4>1. Asked(session_nodes[w]) \/ Answers(session_nodes[w])
        BY <3>2, <3>4 DEF ReportOrComing
      <4> PICK s : s = session_nodes[w]
        OBVIOUS
      <4>2. Asked(s)' \/ Answers(s)'
        BY <2>3, <2>6, <3>1, <4>1, ReceiveAnswers
      <4>3. session_nodes'[w] = s /\ ~node_replied'[w]
        BY <2>2, <3>4 DEF RoundStays
      <4> QED
        BY <4>2, <4>3 DEF ReportOrComing, Asked, Answers
    <3> QED
      BY <3>3, <3>4
  <2>7. pc = "wait" => (AllReplied(session_nodes, node_replied') => bitmap_event')
    BY <2>2, <2>3 DEF OneRound
  <2> QED
    BY <2>2, <2>3, <2>4, <2>5, <2>6, <2>7, RoundGoesOn
<1> QED
  BY <1>1, <1>2 DEF RoundInv

-----------------------------------------------------------------------------
(* A report leaves, and is heard. *)

LEMMA SendReportRounds ==
  ASSUME TransferInv, RoundInv, NEW n \in Nodes, SendReport(n)
  PROVE  RoundInv'
<1> PICK m : m = nodes[n]
  OBVIOUS
<1> PICK r : r = ReportSent(m)
  OBVIOUS
<1> PICK b : b = BitmapReportOf(n, m.report_to_send)
  OBVIOUS
<1>1. /\ reports' = reports \cup {b} /\ UNCHANGED <<line, hop, lost, first_answer>>
      /\ nodes' = [nodes EXCEPT ![n] = r]
  BY DEF SendReport
<1>2. nodes'[n] = r /\ \A node \in Nodes \ {n} : nodes'[node] = nodes[node]
  BY <1>1 DEF TransferInv, SystemTypeOK
<1>3. RoundStays /\ UNCHANGED <<host, node_replied, session_bitmaps, bitmap_event>>
  BY DEF SendReport, RoundStays, hostAndCoordinatorVars, transferVars, processVars, senderVars,
     sessionVars
<1>4. /\ r.report_to_send = NoReport /\ r.ota_session_active = m.ota_session_active
      /\ r.current_rx_page_offset = m.current_rx_page_offset /\ r.page_bitmap = m.page_bitmap
      /\ r.last_crc_committed_page_offset = m.last_crc_committed_page_offset
  <2>1. m \in Node
    BY NodeFacts DEF TransferInv
  <2> QED
    BY <2>1 DEF ReportSent, Node
<1>5. b.type = "BITMAP_REPORT" /\ b.node = n /\ b.report = m.report_to_send
  BY DEF BitmapReportOf
<1>6. OlderOnly'
  <2>1. \A node \in Nodes : nodes'[node].ota_session_active => nodes[node].ota_session_active
    BY <1>2, <1>4
  <2>2. \A q \in reports' : q.type = "START_REPORT" => q \in reports
    BY <1>1, <1>5
  <2> QED
    BY <1>1, <2>1, <2>2 DEF RoundInv, OlderOnly
<1>7. ASSUME lost' = 0
      PROVE  OneRound' /\ PagesFull'
  <2>1. lost = 0 /\ OneRound /\ PagesFull
    BY <1>1, <1>7 DEF RoundInv
  <2>2. PagesFull'
    <3> SUFFICES ASSUME ~Finished'
                 PROVE  /\ \A node \in Nodes :
                             Full(nodes[node].report_to_send)' /\ CommittedFull(nodes[node])'
                        /\ \A q \in reports' : q.type = "BITMAP_REPORT" => Full(q.report)'
      BY DEF PagesFull
    <3>1. /\ \A node \in Nodes : Full(nodes[node].report_to_send) /\ CommittedFull(nodes[node])
          /\ \A q \in reports : q.type = "BITMAP_REPORT" => Full(q.report)
      BY <1>3, <2>1 DEF PagesFull, Finished, RoundStays
    <3>2. Full(r.report_to_send) /\ CommittedFull(r)
      BY <1>4, <3>1 DEF Full, CommittedFull
    <3>3. \A node \in Nodes : Full(nodes'[node].report_to_send) /\ CommittedFull(nodes'[node])
      BY <1>2, <3>1, <3>2
    <3>4. \A q \in reports' : q.type = "BITMAP_REPORT" => Full(q.report)
      BY <1>1, <1>5, <3>1
    <3> QED
      BY <1>3, <3>3, <3>4 DEF Full, CommittedFull, ChunksOf
  <2>3. \A i \in DOMAIN Line : Inbox(i)' = Inbox(i)
    BY <1>1 DEF Inbox
  <2>4. Unasked => Unasked'
    <3>1. \A node \in Nodes : LastCommitted(node)' = LastCommitted(node)
      BY <1>2, <1>4 DEF LastCommitted
    <3> QED
      BY <1>3, <2>3, <3>1 DEF Unasked, RoundStays
  <2>5. ASSUME NEW s, s \in Nodes, Asked(s) \/ Answers(s)
        PROVE  Asked(s)' \/ Answers(s)'
    <3>1. page_start_offset' = page_start_offset
      BY <1>3 DEF RoundStays
    <3>2. Asked(s) => Asked(s)'
      BY <1>1, <3>1 DEF Asked, Coming, Inbox
    <3>3. Answers(s) => Answers(s)'
      BY <1>1, <1>2, <1>5, <3>1 DEF Answers
    <3> QED
      BY <2>5, <3>2, <3>3
  <2>6. ASSUME pc = "wait", NEW w \in DOMAIN session_nodes
        PROVE  ReportOrComing(w)'
    <3>1. session_nodes[w] \in Nodes
      BY DEF TransferInv, Base, CoordinatorTypeOK
    <3>2. ReportOrComing(w)
      BY <2>1, <2>6 DEF OneRound
    <3>3. CASE node_replied[w]
      BY <1>3, <3>2, <3>3 DEF ReportOrComing, RoundStays, ChunksOf
    <3>4. CASE ~node_replied[w]
      <4> PICK s : s = session_nodes[w]
        OBVIOUS
      <4>1. Asked(s) \/ Answers(s)
        BY <3>2, <3>4 DEF ReportOrComing
      <4>2. Asked(s)' \/ Answers(s)'
        BY <2>5, <3>1, <4>1
      <4>3. session_nodes'[w] = s /\ ~node_replied'[w]
        BY <1>3, <3>4 DEF RoundStays
      <4> QED
        BY <4>2, <4>3 DEF ReportOrComing, Asked, Answers
    <3> QED
      BY <3>3, <3>4
  <2>7. pc = "pageEnd" => Unasked' /\ node_replied' = node_replied
    BY <1>3, <2>1, <2>4 DEF OneRound
  <2>8. pc = "wait" => (AllReplied(session_nodes, node_replied') => bitmap_event')
    BY <1>3, <2>1 DEF OneRound
  <2> QED
    BY <1>3, <2>1, <2>2, <2>6, <2>7, <2>8, RoundGoesOn
<1> QED
  BY <1>6, <1>7 DEF RoundInv

LEMMA PagesFullRests ==
  ASSUME PagesFull, nodes' = nodes, reports' \subseteq reports, host'.file = host.file,
         Finished => Finished'
  PROVE  PagesFull'
BY DEF PagesFull, Full, CommittedFull, ChunksOf

\* The transfer is not over while nodes are admitted to it.
LEMMA AdmissionUnfinished == TransferInv /\ start_admission_in_progress => ~Finished
<1> SUFFICES ASSUME TransferInv, start_admission_in_progress
             PROVE  ~Finished
  OBVIOUS
<1>1. host.at = "start"
  BY DEF TransferInv, Base, LinkInv, OneExchange
<1>2. page_start_offset = 0
  BY <1>1 DEF TransferInv, InSync, StartInSync
<1> QED
  BY <1>2, FileFacts DEF TransferInv, Finished

\* No round is under way before the page is sent.
LEMMA IdleRounds ==
  ASSUME OneRound, pc = "idle", pc' \in {"idle", "chunk"},
         UNCHANGED <<recovery_round, retry_count, abandoned>>
  PROVE  OneRound'
BY DEF OneRound

\* Nobody was heard.
LEMMA AnsweredRounds ==
  ASSUME OneRound, RoundStays, UNCHANGED <<line, hop, nodes>>,
         UNCHANGED <<node_replied, session_bitmaps, bitmap_event>>,
         \A q \in reports : q.type = "BITMAP_REPORT" => q \in reports'
  PROVE  OneRound'
<1>1. page_start_offset' = page_start_offset /\ host'.file = host.file
      /\ session_nodes' = session_nodes
  BY DEF RoundStays
<1>2. Unasked => Unasked'
  BY <1>1 DEF Unasked, LastCommitted, Inbox
<1>3. ASSUME NEW s
      PROVE  (Asked(s) => Asked(s)') /\ (Answers(s) => Answers(s)')
  BY <1>1 DEF Asked, Coming, Inbox, Answers
<1>4. ASSUME pc = "wait", NEW w \in DOMAIN session_nodes
      PROVE  ReportOrComing(w)'
  <2>1. ReportOrComing(w)
    BY <1>4 DEF OneRound
  <2>2. CASE node_replied[w]
    BY <1>1, <2>1, <2>2 DEF ReportOrComing, ChunksOf
  <2>3. CASE ~node_replied[w]
    <3> PICK s : s = session_nodes[w]
      OBVIOUS
    <3>1. Asked(s)' \/ Answers(s)'
      BY <1>3, <2>1, <2>3 DEF ReportOrComing
    <3>2. session_nodes'[w] = s /\ ~node_replied'[w]
      BY <1>1, <2>3
    <3> QED
      BY <3>1, <3>2 DEF ReportOrComing, Asked, Answers
  <2> QED
    BY <2>2, <2>3
<1>5. pc = "pageEnd" => Unasked' /\ node_replied' = node_replied
  BY <1>2 DEF OneRound
<1>6. pc = "wait" => (AllReplied(session_nodes, node_replied') => bitmap_event')
  BY DEF OneRound
<1> QED
  BY <1>4, <1>5, <1>6, RoundGoesOn

LEMMA BitmapHeard ==
  ASSUME TransferInv, OneRound, PagesFull, RoundStays, NEW r \in reports,
         r.type = "BITMAP_REPORT", HandleBitmapReport(r.node, r.report.page, r.report.bitmap),
         reports' = reports \ {r}, UNCHANGED <<line, hop, nodes, host>>
  PROVE  OneRound'
<1>1. /\ CoordinatorTypeOK /\ CoordinatorInv /\ Base /\ SystemTypeOK
  BY DEF TransferInv, Base
<1>2. page_start_offset' = page_start_offset /\ session_nodes' = session_nodes
  BY DEF RoundStays
<1>3. CASE pc \in {"idle", "chunk"}
  BY <1>3 DEF OneRound, RoundStays
<1>4. CASE pc \in {"pageEnd", "wait"}
  <2>1. ~Finished
    BY <1>4 DEF Finished
  <2>2. r.report.page = page_start_offset =>
          ChunksOf(page_start_offset) \subseteq r.report.bitmap
    <3>1. Full(r.report)
      BY <2>1 DEF PagesFull
    <3>2. page_start_offset # NoPage
      BY <1>1, FileFacts DEF NoPage
    <3> QED
      BY <3>1, <3>2 DEF Full, NoReport
  <2>3. CASE IgnoresBitmapReport(r.node, r.report.page)
    <3>1. UNCHANGED <<node_replied, session_bitmaps, bitmap_event>>
      BY <2>3 DEF HandleBitmapReport, sessionVars
    <3>2. Unasked => Unasked'
      BY <1>2 DEF Unasked, LastCommitted, Inbox
    <3>3. ASSUME pc = "wait", NEW w \in DOMAIN session_nodes
          PROVE  ReportOrComing(w)'
      <4>1. ReportOrComing(w)
        BY <3>3 DEF OneRound
      <4>2. CASE node_replied[w]
        BY <1>2, <3>1, <4>1, <4>2 DEF ReportOrComing, ChunksOf
      <4>3. CASE ~node_replied[w]
        <5> PICK s : s = session_nodes[w]
          OBVIOUS
        <5>1. ~(r.node = s /\ r.report.page = page_start_offset)
          BY <2>3, <3>3, <4>3 DEF IgnoresBitmapReport, FindSessionNode
        <5>2. Answers(s) => Answers(s)'
          BY <1>2, <5>1 DEF Answers
        <5>3. Asked(s) => Asked(s)'
          BY <1>2 DEF Asked, Coming, Inbox
        <5>4. session_nodes'[w] = s /\ ~node_replied'[w]
          BY <1>2, <3>1, <4>3
        <5>5. Asked(s)' \/ Answers(s)'
          BY <4>1, <4>3, <5>2, <5>3 DEF ReportOrComing
        <5> QED
          BY <5>4, <5>5 DEF ReportOrComing, Asked, Answers
      <4> QED
        BY <4>2, <4>3
    <3>4. pc = "pageEnd" => Unasked' /\ node_replied' = node_replied
      BY <3>1, <3>2 DEF OneRound
    <3>5. pc = "wait" => (AllReplied(session_nodes, node_replied') => bitmap_event')
      BY <3>1 DEF OneRound
    <3> QED
      BY <3>3, <3>4, <3>5, RoundGoesOn
  <2>4. CASE ~IgnoresBitmapReport(r.node, r.report.page)
    <3>1. PICK v \in FindSessionNode(r.node) :
            /\ node_replied' = [node_replied EXCEPT ![v] = TRUE]
            /\ session_bitmaps' = [session_bitmaps EXCEPT ![v] = r.report.bitmap]
            /\ bitmap_event' = (bitmap_event \/ (AllReplied(session_nodes, node_replied') /\ pc # "idle"))
      BY <2>4 DEF HandleBitmapReport
    <3>2. v \in DOMAIN session_nodes /\ session_nodes[v] = r.node /\ v \in Index
      <4>1. v \in DOMAIN session_nodes /\ session_nodes[v] = r.node
        BY DEF FindSessionNode
      <4>2. session_nodes \in Seq(Nodes) /\ Len(session_nodes) <= MAX_NODES
        BY <1>1 DEF CoordinatorTypeOK
      <4> QED
        BY <4>1, <4>2, CoordinatorAssumption DEF Index
    <3>3. r.report.page = page_start_offset
      BY <2>4 DEF IgnoresBitmapReport
    <3>4. /\ node_replied'[v] /\ session_bitmaps'[v] = r.report.bitmap
          /\ \A w \in Index : w # v => node_replied'[w] = node_replied[w]
                                       /\ session_bitmaps'[w] = session_bitmaps[w]
      BY <1>1, <3>1, <3>2 DEF CoordinatorTypeOK
    <3>5. pc # "pageEnd"
      <4> SUFFICES ASSUME pc = "pageEnd" PROVE FALSE
        OBVIOUS
      <4>1. r.report # NoReport /\ Full(r.report)
        <5>1. page_start_offset # NoPage
          BY <1>1, FileFacts DEF NoPage
        <5> QED
          BY <2>1, <3>3, <5>1 DEF PagesFull, NoReport
      <4>2. page_start_offset <= LastCommitted(r.node) /\ r.node \in Nodes
        BY <1>1, <2>1, <3>3, <4>1, ReportedCommitted DEF SystemTypeOK, Reports
      <4>3. LastCommitted(r.node) < page_start_offset
        BY <4>2 DEF OneRound, Unasked
      <4> QED
        BY <1>1, <4>2, <4>3, FileFacts, NodeFacts
    <3>6. ASSUME pc = "wait", NEW w \in DOMAIN session_nodes
          PROVE  ReportOrComing(w)'
      <4>1. ReportOrComing(w)
        BY <3>6 DEF OneRound
      <4>2. w \in Index
        <5>1. session_nodes \in Seq(Nodes) /\ Len(session_nodes) <= MAX_NODES
          BY <1>1 DEF CoordinatorTypeOK
        <5> QED
          BY <5>1, CoordinatorAssumption DEF Index
      <4>3. CASE w = v
        BY <2>2, <3>3, <3>4, <4>3, <1>2 DEF ReportOrComing, ChunksOf
      <4>4. CASE w # v /\ node_replied[w]
        BY <1>2, <3>4, <4>1, <4>2, <4>4 DEF ReportOrComing, ChunksOf
      <4>5. CASE w # v /\ ~node_replied[w]
        <5> PICK s : s = session_nodes[w]
          OBVIOUS
        <5>1. s # r.node
          BY <1>1, <3>2, <4>5 DEF CoordinatorInv, AdmissionTracked, IsInjective
        <5>2. Answers(s) => Answers(s)'
          BY <1>2, <5>1 DEF Answers
        <5>3. Asked(s) => Asked(s)'
          BY <1>2 DEF Asked, Coming, Inbox
        <5>4. session_nodes'[w] = s /\ ~node_replied'[w]
          BY <1>2, <3>4, <4>2, <4>5
        <5>5. Asked(s)' \/ Answers(s)'
          BY <4>1, <4>5, <5>2, <5>3 DEF ReportOrComing
        <5> QED
          BY <5>4, <5>5 DEF ReportOrComing, Asked, Answers
      <4> QED
        BY <4>3, <4>4, <4>5
    <3>7. pc = "wait" => (AllReplied(session_nodes, node_replied') => bitmap_event')
      BY <3>1
    <3> QED
      BY <3>5, <3>6, <3>7, RoundGoesOn
  <2> QED
    BY <2>3, <2>4
<1> QED
  BY <1>1, <1>3, <1>4 DEF OneRound, CoordinatorTypeOK

\* The report of a node of the session, which is not heard twice, has all of the page.
LEMMA DeliverReportRounds ==
  ASSUME TransferInv, RoundInv, NEW r \in reports, DeliverReport(r)
  PROVE  RoundInv'
<1>1. /\ reports' = reports \ {r} /\ nodes' = nodes /\ hop' = hop /\ lost' = lost
      /\ abandoned' = abandoned
      /\ \/ r.type = "START_REPORT" /\ StartReport(r.node, r.accepted)
         \/ r.type = "BITMAP_REPORT" /\ BitmapReport(r.node, r.report.page, r.report.bitmap)
  BY DEF DeliverReport
<1>2. /\ CoordinatorTypeOK /\ CoordinatorInv /\ Base /\ SystemTypeOK
  BY DEF TransferInv, Base
<1>3. /\ UNCHANGED <<line, processVars, host>>
      /\ first_answer' = first_answer \/ r.type = "START_REPORT"
  BY <1>1 DEF StartReport, BitmapReport, HandleStartReport, HandleBitmapReport, senderVars
<1>4. OlderOnly'
  <2>1. ASSUME NEW node \in Nodes, first_answer'[node] = "accept"
        PROVE  Older(node)
    <3>1. CASE first_answer[node] = "accept"
      BY <3>1 DEF RoundInv, OlderOnly
    <3>2. CASE first_answer[node] # "accept"
      <4>1. r.type = "START_REPORT" /\ StartReport(r.node, r.accepted)
        BY <1>1, <2>1, <3>2 DEF BitmapReport
      <4>2. node = r.node /\ r.accepted
        <5>1. first_answer \in [Nodes -> {"none", "accept", "reject"}]
          BY <1>2 DEF Base, LinkInv, LinkTypeOK
        <5> QED
          BY <2>1, <3>2, <4>1, <5>1 DEF StartReport
      <4> QED
        BY <4>1, <4>2 DEF RoundInv, OlderOnly
    <3> QED
      BY <3>1, <3>2
  <2> QED
    BY <1>1, <2>1 DEF RoundInv, OlderOnly
<1>5. ASSUME lost' = 0
      PROVE  OneRound' /\ PagesFull'
  <2>1. lost = 0 /\ OneRound /\ PagesFull /\ OlderOnly
    BY <1>1, <1>5 DEF RoundInv
  <2>2. CASE r.type = "START_REPORT" /\ StartReport(r.node, r.accepted)
    <3>1. /\ UNCHANGED bitmap_event
          /\ ~start_admission_in_progress => UNCHANGED <<sessionVars, transferVars>>
      BY <2>2 DEF StartReport, HandleStartReport, IgnoresStartReport
    <3>2. Finished => Finished'
      BY <1>2, <1>3, <3>1, AdmissionUnfinished DEF Finished, transferVars, processVars
    <3>3. PagesFull'
      BY <1>1, <1>3, <2>1, <3>2, PagesFullRests
    <3>4. CASE pc = "idle"
      BY <1>1, <1>3, <2>1, <3>3, <3>4, IdleRounds DEF processVars
    <3>5. CASE pc # "idle"
      <4>1. ~start_admission_in_progress
        BY <1>2, <3>5 DEF CoordinatorInv, FlagGuardsProcess
      <4>2. RoundStays /\ UNCHANGED <<node_replied, session_bitmaps, bitmap_event>>
        BY <1>1, <1>3, <3>1, <4>1 DEF RoundStays, sessionVars, transferVars, processVars
      <4>3. \A q \in reports : q.type = "BITMAP_REPORT" => q \in reports'
        BY <1>1, <2>2
      <4> QED
        BY <1>1, <1>3, <2>1, <3>3, <4>2, <4>3, AnsweredRounds
    <3> QED
      BY <3>3, <3>4, <3>5
  <2>3. CASE r.type = "BITMAP_REPORT" /\ BitmapReport(r.node, r.report.page, r.report.bitmap)
    <3>1. HandleBitmapReport(r.node, r.report.page, r.report.bitmap)
      BY <2>3 DEF BitmapReport
    <3>2. RoundStays /\ (Finished' <=> Finished)
      BY <1>1, <1>3, <3>1
         DEF HandleBitmapReport, RoundStays, Finished, transferVars, processVars, sessionVars
    <3>3. PagesFull'
      BY <1>1, <1>3, <2>1, <3>2, PagesFullRests
    <3> QED
      BY <1>1, <1>3, <2>1, <2>3, <3>1, <3>2, <3>3, BitmapHeard
  <2> QED
    BY <1>1, <2>2, <2>3
<1> QED
  BY <1>4, <1>5 DEF RoundInv

-----------------------------------------------------------------------------
(* The network loses, the script goes on, a command arrives. *)

LEMMA NetworkLosesRounds ==
  ASSUME DeliveryInv, RoundInv, NetworkLoses
  PROVE  RoundInv'
<1>1. /\ nodes' = nodes /\ first_answer' = first_answer
      /\ reports' \subseteq reports /\ lost' = lost + 1
  BY DEF NetworkLoses, Losses, LosePacket, LoseReport, Fault
<1>2. OlderOnly'
  BY <1>1, OlderOnlyRests DEF RoundInv
<1>3. lost' # 0
  BY <1>1 DEF DeliveryInv
<1> QED
  BY <1>2, <1>3 DEF RoundInv

\* As long as nothing was said nothing is claimed.
LEMMA UntouchedPages ==
  ASSUME Base, Untouched, nodes' = nodes, reports' = reports
  PROVE  PagesFull'
<1>1. \A node \in Nodes : /\ nodes'[node].report_to_send = NoReport
                          /\ nodes'[node].ota_session_active = FALSE
  <2>1. \A node \in Nodes : /\ nodes[node].report_to_send = NoReport
                            /\ nodes[node].ota_session_active = FALSE
    BY RebootedNode DEF Untouched
  <2> QED
    BY <2>1
<1>2. reports' = {}
  BY DEF Untouched
<1> QED
  BY <1>1, <1>2 DEF PagesFull, Full, CommittedFull

\* A step that leaves coordinator, network and nodes alone.
LEMMA RoundsRest ==
  ASSUME RoundInv, PagesFull => PagesFull', host'.file = host.file \/ pc = "idle",
         UNCHANGED <<lost, line, hop, nodes, reports, first_answer, pc, recovery_round, retry_count,
                     abandoned, session_nodes, page_start_offset, node_replied, session_bitmaps,
                     bitmap_event>>
  PROVE  RoundInv'
<1>1. OlderOnly'
  BY OlderOnlyRests DEF RoundInv
<1>2. ASSUME lost' = 0
      PROVE  OneRound' /\ PagesFull'
  <2>1. OneRound /\ PagesFull
    BY <1>2 DEF RoundInv
  <2>2. CASE pc = "idle"
    BY <2>1, <2>2, IdleRounds
  <2>3. CASE host'.file = host.file
    <3>1. RoundStays
      BY <2>3 DEF RoundStays
    <3> QED
      BY <2>1, <3>1, AnsweredRounds
  <2> QED
    BY <2>1, <2>2, <2>3
<1> QED
  BY <1>1, <1>2 DEF RoundInv

LEMMA HostActsRounds ==
  ASSUME OneTransfer, TransferInv, RoundInv, HostActs
  PROVE  RoundInv'
<1>1. /\ SenderOnly /\ UNCHANGED <<coordinatorOnlyVars, systemVars, abandoned, first_answer>>
      /\ LinkInv /\ StartedOnce /\ host \in HostState /\ uart \in Seq(Texts)
  BY InvParts, HostFile DEF HostActs, HostStep, SenderStep, TransferInv, Base, LinkInv
<1>2. UNCHANGED <<lost, line, hop, nodes, reports, first_answer, pc, recovery_round, retry_count,
                  abandoned, session_nodes, page_start_offset, node_replied, session_bitmaps,
                  bitmap_event>>
  BY <1>1 DEF coordinatorOnlyVars, sessionVars, transferVars, processVars, systemVars, networkVars
<1>3. CASE \E img \in Images, sec_ver \in SecVers, target \in SentTargets :
             RunScript(img, sec_ver, target)
  <2>1. starts < MaxStarts
    BY <1>3 DEF RunScript
  <2>2. Untouched
    BY <1>1, <2>1, SenderAssumption DEF OneTransfer, StartedOnce
  <2>3. PagesFull'
    BY <1>2, <2>2, UntouchedPages DEF TransferInv
  <2>4. pc = "idle"
    BY <2>2 DEF Untouched
  <2> QED
    BY <1>2, <2>3, <2>4, RoundsRest
<1>4. CASE host'.file = host.file
  <2>1. PagesFull => PagesFull'
    BY <1>2, <1>4, PagesFullRests DEF Finished
  <2> QED
    BY <1>2, <1>4, <2>1, RoundsRest
<1>5. CASE ReadLine \/ CommandTimeout \/ StartTimeout \/ PageTimeout \/ LinkLoses
  <2>1. host'.file = host.file
    <3>1. CASE ReadLine
      BY <1>1, <3>1 DEF ReadLine, ReadInStart, ReadInData, ReadInPage, ReadInVerify, Send, Become,
         DataAt, HostState
    <3>2. CASE CommandTimeout \/ StartTimeout \/ PageTimeout
      BY <1>1, <3>2 DEF CommandTimeout, StartTimeout, PageTimeout, Send, Become, HostState
    <3>3. CASE LinkLoses
      BY <3>3 DEF LinkLoses
    <3> QED
      BY <1>5, <3>1, <3>2, <3>3
  <2> QED
    BY <1>4, <2>1
<1> QED
  BY <1>1, <1>3, <1>5 DEF SenderOnly

LEMMA CommandArrivesRounds ==
  ASSUME TransferInv, RoundInv, CommandArrives
  PROVE  RoundInv'
<1>1. /\ CoordinatorTypeOK /\ CoordinatorInv /\ LinkInv /\ Base /\ InSync /\ StartsIdle
      /\ StartedOnce /\ SessionOfHost
  BY InvParts DEF TransferInv, Base
<1>2. /\ UNCHANGED <<nodes, hop, reports, lost, abandoned, host>> /\ Command /\ commands # <<>>
  BY DEF CommandArrives, systemVars, networkVars, Command, TakeCommand
<1>3. OlderOnly'
  <2>1. \A node \in Nodes : first_answer'[node] = "accept" => first_answer[node] = "accept"
    BY <1>2 DEF Command
  <2> QED
    BY <1>2, <2>1, OlderOnlyRests DEF RoundInv
<1>4. /\ pc = "idle" /\ pc' \in {"idle", "chunk"} /\ UNCHANGED <<recovery_round, retry_count>>
      /\ PagesFull => PagesFull'
  <2>1. ASSUME NEW sec_ver \in SecVers, NEW table \in RouteTables, host.at = "start",
               Head(commands).type = "S",
               UartStart(table, host.file.size, sec_ver, host.target)
        PROVE  <1>4!:
    <3>1. UNCHANGED processVars
      BY <2>1 DEF UartStart
    <3>2. Untouched
      BY <1>1, <1>2, <2>1 DEF StartedOnce
    <3>3. PagesFull'
      BY <1>1, <1>2, <3>2, UntouchedPages
    <3> QED
      BY <3>1, <3>2, <3>3 DEF Untouched, processVars
  <2>2. CASE /\ host.at = "data"
             /\ UartData(host.page, host.chunk, host.file.data[host.page][host.chunk])
    <3>1. Receiving(host.chunk)
      BY <1>1, <1>2, <2>2 DEF InSync, DataInSync, LinkInv, OneExchange, CommandOfHost
    <3>2. pc' \in {"idle", "chunk"} /\ UNCHANGED <<recovery_round, retry_count>>
      BY <2>2, <3>1 DEF UartData, StartDistribution, Receiving, processVars
    <3>3. ~Finished
      <4>1. host.chunk < PageLen(host.file.size, host.page) /\ host.chunk \in Nat
            /\ host.page \in Nat
        BY <1>1, <2>2, HostFile, WireAssumption
           DEF LinkInv, OneExchange, HostState, Page, Chunk
      <4>2. host.page < host.file.size.pages
        BY <1>1, <4>1, FileFacts, PageLenType
      <4> QED
        BY <1>1, <3>1, <4>1, <4>2, FileFacts DEF Finished, Receiving
    <3>4. PagesFull => PagesFull'
      BY <1>2, <3>3, PagesFullRests
    <3> QED
      BY <3>1, <3>2, <3>4 DEF Receiving
  <2>3. CASE host.at = "verify" /\ UartVerify(ImageCrc(host.file))
    <3>1. UNCHANGED <<processVars, transferVars>>
      BY <2>3 DEF UartVerify
    <3>2. pc = "idle" /\ (Finished => Finished')
      BY <1>1, <1>2, <2>3, <3>1 DEF SessionOfHost, Finished, processVars, transferVars
    <3>3. PagesFull => PagesFull'
      BY <1>2, <3>2, PagesFullRests
    <3> QED
      BY <3>1, <3>2, <3>3 DEF processVars
  <2> QED
    BY <1>1, <1>2, <2>1, <2>2, <2>3, CommandKinds
<1>5. lost' = 0 => OneRound' /\ PagesFull'
  BY <1>2, <1>4, IdleRounds DEF RoundInv
<1> QED
  BY <1>3, <1>5 DEF RoundInv

\* Admission ends before the first round.
LEMMA AdmissionTimesOutRounds ==
  ASSUME TransferInv, RoundInv, AdmissionTimesOut
  PROVE  RoundInv'
<1>1. /\ UNCHANGED <<nodes, reports, lost, abandoned, host, first_answer, processVars>>
      /\ start_admission_in_progress
  BY DEF AdmissionTimesOut, AdmissionEnds, AdmissionTimeout, systemVars, networkVars, senderVars
<1>2. pc = "idle" /\ ~Finished
  BY <1>1, AdmissionUnfinished DEF TransferInv, Base, CoordinatorInv, FlagGuardsProcess
<1>3. OlderOnly'
  BY <1>1, OlderOnlyRests DEF RoundInv
<1>4. lost' = 0 => OneRound' /\ PagesFull'
  BY <1>1, <1>2, IdleRounds, PagesFullRests DEF RoundInv, processVars
<1> QED
  BY <1>3, <1>4 DEF RoundInv

-----------------------------------------------------------------------------
(* The process runs. *)

\* PAGE_END is on its way to every node of the session when it is queued.
LEMMA PageEndAsks ==
  ASSUME TransferInv, pc # "idle", NEW node \in SessionNodes,
         NEW pkt \in Packets, pkt.type = "PAGE_END", pkt.page = page_start_offset,
         line' = Append(line, pkt), page_start_offset' = page_start_offset
  PROVE  Asked(node)'
<1>1. PICK j \in DOMAIN Line : node = Line[j]
  BY SessionNode
<1>2. line \in Seq(Packets) /\ 1 \in 1 .. j /\ j \in Nat
  <2>1. QueuesTypeOK
    BY DEF TransferInv, SystemTypeOK
  <2> QED
    BY <1>1, <2>1, LineType DEF QueuesTypeOK
<1> DEFINE k == Len(line) + 1
<1>3. k \in DOMAIN line' /\ line'[k] = pkt
  BY <1>2
<1>4. Event(pkt) = EndOf(page_start_offset)
  BY DEF Event, PageEvents, EndOf
<1> HIDE DEF k
<1>5. Inbox(1)' = line'
  BY DEF Inbox
<1>6. Coming(j, EndOf(page_start_offset))'
  <2>1. Coming(j, EndOf(page_start_offset))' <=>
          \E i \in 1 .. j : \E l \in DOMAIN Inbox(i)' :
            Event(Inbox(i)'[l]) = EndOf(page_start_offset')
    BY DEF Coming, Event, EndOf, Inbox
  <2> QED
    BY <1>2, <1>3, <1>4, <1>5, <2>1
<1> QED
  BY <1>1, <1>6 DEF Asked

\* The round opens, and waits for the queue or for the reports.
LEMMA RoundOpens ==
  ASSUME TransferInv, OneRound, pc # "idle", session_nodes # <<>>, Unasked,
         recovery_round' = 1, retry_count' = 0,
         UNCHANGED <<abandoned, hop, nodes, page_start_offset, session_nodes>>,
         \A i \in DOMAIN session_nodes : ~node_replied'[i],
         NEW pkt \in Packets, pkt.type = "PAGE_END", pkt.page = page_start_offset,
         \/ pc' = "pageEnd" /\ line' = line
         \/ pc' = "wait" /\ line' = Append(line, pkt)
  PROVE  OneRound'
<1>1. retry_count' = 0 /\ abandoned' = {} /\ pc' \in {"pageEnd", "wait"} /\ recovery_round' = 1
  BY DEF OneRound
<1>2. pc' = "pageEnd" => Unasked' /\ \A i \in DOMAIN session_nodes' : ~node_replied'[i]
  BY DEF Unasked, LastCommitted, Inbox
<1>3. ASSUME pc' = "wait"
      PROVE  \A i \in DOMAIN session_nodes' : ReportOrComing(i)'
  <2>1. ASSUME NEW i \in DOMAIN session_nodes
        PROVE  ReportOrComing(i)'
    <3> PICK s : s = session_nodes[i]
      OBVIOUS
    <3>1. s \in SessionNodes
      BY <2>1 DEF SessionNodes, ToSet
    <3>2. Asked(s)'
      BY <1>3, <3>1, PageEndAsks
    <3>3. session_nodes'[i] = s /\ ~node_replied'[i]
      BY <2>1
    <3> QED
      BY <3>2, <3>3 DEF ReportOrComing, Asked
  <2> QED
    BY <2>1
<1>4. ~AllReplied(session_nodes, node_replied)'
  <2>1. 1 \in DOMAIN session_nodes
    BY DEF TransferInv, Base, CoordinatorTypeOK
  <2> QED
    BY <2>1 DEF AllReplied
<1> QED
  BY <1>1, <1>2, <1>3, <1>4 DEF OneRound

\* Reports of all nodes are reports of all chunks.
LEMMA RepliedIsComplete ==
  ASSUME OneRound, pc = "wait", AllReplied(session_nodes, node_replied),
         total_chunks = PageLen(host.file.size, page_start_offset)
  PROVE  PageIsComplete(session_nodes, session_bitmaps)
<1>1. \A i \in DOMAIN session_nodes : ReportOrComing(i) /\ node_replied[i]
  BY DEF OneRound, AllReplied
<1> QED
  BY <1>1 DEF ReportOrComing, ChunksOf, PageIsComplete

\* The timer waits for reports that are on their way.
LEMMA QuietIsReplied ==
  ASSUME TransferInv, OneRound, pc = "wait", NetworkQuiet
  PROVE  bitmap_event
<1>1. QueuesTypeOK /\ session_nodes \in Seq(Nodes) /\ page_start_offset \in Nat
  BY DEF TransferInv, Base, CoordinatorTypeOK, SystemTypeOK
<1>2. /\ reports = {} /\ \A node \in Nodes : nodes[node].report_to_send = NoReport
      /\ \A i \in DOMAIN Line : Inbox(i) = <<>>
  BY LineType DEF NetworkQuiet, NothingInFlight, Inbox
<1>3. ASSUME NEW i \in DOMAIN session_nodes
      PROVE  node_replied[i]
  <2> PICK s \in Nodes : s = session_nodes[i]
    BY <1>1
  <2>1. ~Asked(s)
    <3>1. \A j \in DOMAIN Line : \A l \in 1 .. j : Inbox(l) = <<>>
      BY <1>2, LineType
    <3>2. \A j \in DOMAIN Line : ~Coming(j, EndOf(page_start_offset))
      BY <3>1 DEF Coming
    <3> QED
      BY <3>2 DEF Asked
  <2>2. ~Answers(s)
    BY <1>1, <1>2 DEF Answers, NoReport, NoPage
  <2>3. ReportOrComing(i)
    BY DEF OneRound
  <2> QED
    BY <2>1, <2>2, <2>3 DEF ReportOrComing
<1> QED
  BY <1>3 DEF OneRound, AllReplied

\* A step of the process in its round.
LEMMA ProcessOneRound ==
  ASSUME TransferInv, DeliveryInv, OneRound, ProcessRuns, Process
  PROVE  OneRound'
<1>1. /\ pc # "idle" /\ session_nodes # <<>> /\ UNCHANGED <<hop, nodes, lost, reports, host>>
      /\ total_chunks = PageLen(host.file.size, page_start_offset)
      /\ pc' = "idle" => pc \in {"wait", "resend"}
  BY ProcessFinds
<1>2. /\ CoordinatorTypeOK /\ SessionOfHost /\ Base /\ CoordinatorInv /\ QueuesTypeOK
      /\ Distribute
  BY InvParts DEF TransferInv, Base, SystemTypeOK, ProcessRuns, Distribute
<1>3. pc # "resend" /\ retry_count = 0 /\ abandoned = {} /\ abandoned' = {}
  BY DEF OneRound, ProcessRuns, GivesUpPage
<1>4. CASE SendChunk
  <2>1. pc = "chunk" /\ UNCHANGED <<pc, recovery_round, retry_count>>
    BY <1>4 DEF SendChunk
  <2> QED
    BY <1>3, <2>1 DEF OneRound
<1>5. CASE ChunksSent
  <2>1. pc = "chunk" /\ RoundHead(0) /\ session_nodes' = session_nodes
    BY <1>5 DEF ChunksSent
  <2>2. pc' # "idle"
    BY <1>1, <2>1
  <2>3. /\ recovery_round' = 1 /\ node_replied' = [i \in Index |-> FALSE] /\ retry_count' = 0
        /\ end_pkt' = PageEndPkt(page_start_offset, end_pkt.crc, ota_target_slot)
        /\ PageEndOrWait(end_pkt') /\ page_start_offset' = page_start_offset
    <3>1. ~AdvancePage
      BY <2>2 DEF AdvancePage
    <3>2. ~(PageIsComplete(session_nodes, session_bitmaps) \/ 0 >= MaxRounds)
      BY <2>1, <3>1 DEF RoundHead
    <3> QED
      BY <2>1, <3>2 DEF RoundHead, transferVars
  <2>4. PICK pkt \in Packets : pkt = end_pkt'
    BY <1>2, ProcessPackets
  <2>5. pkt.type = "PAGE_END" /\ pkt.page = page_start_offset
    BY <2>3, <2>4 DEF PageEndPkt
  <2>6. \/ pc' = "pageEnd" /\ line' = line
        \/ pc' = "wait" /\ line' = Append(line, pkt)
    BY <2>3, <2>4 DEF PageEndOrWait, SendToAll
  <2>7. \A i \in DOMAIN session_nodes : ~node_replied'[i]
    <3>1. DOMAIN session_nodes \subseteq Index
      <4>1. session_nodes \in Seq(Nodes) /\ Len(session_nodes) <= MAX_NODES
        BY <1>2 DEF CoordinatorTypeOK
      <4> QED
        BY <4>1, CoordinatorAssumption DEF Index
    <3> QED
      BY <2>3, <3>1
  <2>8. Unasked
    BY <2>1 DEF DeliveryInv, NotEnded
  <2> QED
    BY <1>1, <1>3, <2>1, <2>3, <2>5, <2>6, <2>7, <2>8, RoundOpens
<1>6. CASE SendPageEnd
  <2>1. /\ pc = "pageEnd" /\ pc' = "wait" /\ line' = Append(line, end_pkt)
        /\ UNCHANGED <<session_nodes, node_replied, page_start_offset, recovery_round,
                       retry_count, end_pkt>>
    BY <1>6 DEF SendPageEnd, SendToAll, sessionVars, transferVars
  <2>2. PICK pkt \in Packets : pkt = end_pkt'
    BY <1>2, ProcessPackets
  <2>3. pkt.type = "PAGE_END" /\ pkt.page = page_start_offset
    BY <1>1, <1>2, <2>1, <2>2 DEF SessionOfHost, CoordinatorTypeOK
  <2>4. /\ Unasked /\ recovery_round' = 1
        /\ \A i \in DOMAIN session_nodes : ~node_replied'[i]
    BY <2>1 DEF OneRound
  <2> QED
    BY <1>1, <1>3, <2>1, <2>2, <2>3, <2>4, RoundOpens
<1>7. CASE AllRepliedEvent
  <2>1. CASE pc = "wait" /\ AllReplied(session_nodes, node_replied)
    <3>1. PageIsComplete(session_nodes, session_bitmaps)
      BY <1>1, <2>1, RepliedIsComplete
    <3>2. AdvancePage
      BY <1>7, <2>1, <3>1 DEF AllRepliedEvent, LeaveWait
    <3> QED
      BY <1>3, <3>2 DEF AdvancePage, OneRound
  <2>2. CASE ~(pc = "wait" /\ AllReplied(session_nodes, node_replied))
    <3>1. /\ UNCHANGED <<pc, recovery_round, retry_count, line, page_start_offset>>
          /\ UNCHANGED <<session_nodes, node_replied, session_bitmaps>>
      BY <1>7, <2>2 DEF AllRepliedEvent, transferVars, processVars
    <3>2. RoundStays
      BY <1>1, <1>3, <3>1 DEF RoundStays
    <3>3. Unasked => Unasked'
      BY <1>1, <3>1 DEF Unasked, LastCommitted, Inbox
    <3>4. ASSUME pc = "wait", NEW i \in DOMAIN session_nodes
          PROVE  ReportOrComing(i)'
      <4>1. ReportOrComing(i)
        BY <3>4 DEF OneRound
      <4> QED
        BY <1>1, <3>1, <4>1 DEF ReportOrComing, ChunksOf, Asked, Coming, Inbox, Answers
    <3>5. pc = "pageEnd" => Unasked' /\ node_replied' = node_replied
      BY <3>1, <3>3 DEF OneRound
    <3>6. pc = "wait" => (AllReplied(session_nodes, node_replied') => bitmap_event')
      BY <2>2, <3>1
    <3> QED
      BY <3>2, <3>4, <3>5, <3>6, RoundGoesOn
  <2> QED
    BY <2>1, <2>2
<1>8. CASE NetworkQuiet /\ ~bitmap_event /\ ReportTimeout
  <2>1. pc = "wait"
    BY <1>8 DEF ReportTimeout
  <2> QED
    BY <1>8, <2>1, QuietIsReplied
<1>9. CASE Resend
  BY <1>3, <1>9 DEF Resend
<1> QED
  BY <1>4, <1>5, <1>6, <1>7, <1>8, <1>9 DEF ProcessRuns

LEMMA ProcessRunsRounds ==
  ASSUME TransferInv, DeliveryInv, RoundInv, ProcessRuns
  PROVE  RoundInv'
<1>1. /\ UNCHANGED <<nodes, reports, lost, host, first_answer, hop>> /\ Distribute
      /\ CoordinatorTypeOK /\ CoordinatorInv
  BY DEF ProcessRuns, Distribute, systemVars, networkVars, senderVars, TransferInv, Base
<1>2. OlderOnly'
  BY <1>1, OlderOnlyRests DEF RoundInv
<1>3. CASE Process
  <2>1. ~Finished
    BY <1>3 DEF Finished, Process
  <2>2. PagesFull => PagesFull'
    BY <1>1, <2>1, PagesFullRests
  <2> QED
    BY <1>1, <1>2, <1>3, <2>2, ProcessOneRound DEF RoundInv
<1>4. CASE ~Process
  <2>1. Rests
    <3>1. ProcessEffect
      BY <1>1, DistributeEffect DEF CoordinatorInv, AdmissionTracked
    <3> QED
      BY <1>4, <3>1 DEF ProcessEffect, Continues, Ends
  <2>2. /\ pc = "idle" /\ UNCHANGED <<pc, recovery_round, retry_count, page_start_offset>>
    BY <1>1, <1>4, <2>1 DEF Rests, KeepsPlace, processVars, Process, CoordinatorTypeOK
  <2>3. abandoned' = abandoned
    BY <2>2 DEF ProcessRuns, GivesUpPage
  <2>4. PagesFull => PagesFull'
    BY <1>1, <2>2, PagesFullRests DEF Finished
  <2> QED
    BY <1>1, <1>2, <2>2, <2>3, <2>4, IdleRounds DEF RoundInv
<1> QED
  BY <1>3, <1>4

-----------------------------------------------------------------------------
(* The transfer. *)

LEMMA StutterRounds ==
  ASSUME RoundInv, UNCHANGED allVars
  PROVE  RoundInv'
<1>1. UNCHANGED <<lost, line, hop, nodes, reports, first_answer, pc, recovery_round, retry_count,
                  abandoned, session_nodes, page_start_offset, node_replied, session_bitmaps,
                  bitmap_event, host>>
  BY DEF allVars, vars, coordinatorVars, senderVars, sessionVars, transferVars, processVars,
     systemVars, networkVars
<1>2. PagesFull => PagesFull'
  BY <1>1, PagesFullRests DEF Finished
<1> QED
  BY <1>1, <1>2, RoundsRest

LEMMA RoundStep ==
  ASSUME Recovers, TransferInv, DeliveryInv, RoundInv, [SystemNext]_allVars
  PROVE  RoundInv'
<1>1. SystemTypeOK'
  BY TransferStep DEF Recovers, Delivers, TransferInv
<1>2. CASE HostActs
  BY <1>2, HostActsRounds DEF Recovers, Delivers, OneFile
<1>3. CASE CommandArrives
  BY <1>3, CommandArrivesRounds
<1>4. CASE AdmissionTimesOut
  BY <1>4, AdmissionTimesOutRounds
<1>5. CASE ProcessRuns
  BY <1>5, ProcessRunsRounds
<1>6. ASSUME NEW i \in DOMAIN Line, Receive(i)
      PROVE  RoundInv'
  BY <1>1, <1>6, ReceiveRounds DEF Recovers
<1>7. ASSUME NEW node \in Nodes, SendReport(node)
      PROVE  RoundInv'
  BY <1>7, SendReportRounds
<1>8. ASSUME NEW r \in reports, DeliverReport(r)
      PROVE  RoundInv'
  BY <1>8, DeliverReportRounds
<1>9. CASE NetworkLoses
  BY <1>9, NetworkLosesRounds
<1>10. CASE UNCHANGED allVars
  BY <1>10, StutterRounds
<1> QED
  BY <1>2, <1>3, <1>4, <1>5, <1>6, <1>7, <1>8, <1>9, <1>10 DEF SystemNext, Network

LEMMA RoundInit ==
  ASSUME SystemInit
  PROVE  RoundInv
<1>1. /\ Base /\ reports = {} /\ pc = "idle" /\ recovery_round = 0 /\ retry_count = 0
      /\ abandoned = {} /\ first_answer = [node \in Nodes |-> "none"]
      /\ \A node \in Nodes : Rebooted(node)
  BY SystemInitType DEF SystemInit, NetworkInit, Init, CoordinatorInit, Rebooted
<1>2. \A node \in Nodes : /\ nodes[node].report_to_send = NoReport
                          /\ nodes[node].ota_session_active = FALSE
  BY <1>1, RebootedNode
<1>3. OlderOnly
  BY <1>1, <1>2 DEF OlderOnly
<1>4. OneRound
  BY <1>1 DEF OneRound
<1>5. PagesFull
  BY <1>1, <1>2 DEF PagesFull, Full, CommittedFull
<1> QED
  BY <1>3, <1>4, <1>5 DEF RoundInv

\* Without losses a node asked for its bitmap has the whole page, and its answer
\* reaches the coordinator before its timer: one round, one PAGE_END.
THEOREM RoundsCorrect == Recovers => (SystemSpec => []RoundInv)
<1> SUFFICES ASSUME Recovers
             PROVE  SystemSpec => []RoundInv
  OBVIOUS
<1>1. SystemInit => RoundInv
  BY RoundInit
<1>2. RoundInv /\ TransferInv /\ DeliveryInv /\ [SystemNext]_allVars => RoundInv'
  BY RoundStep
<1>3. SystemSpec => []TransferInv
  BY TransferInvariant DEF Recovers, Delivers
<1>4. SystemSpec => []DeliveryInv
  BY DeliveryCorrect DEF Recovers
<1> QED
  BY <1>1, <1>2, <1>3, <1>4, PTL DEF SystemSpec

\* Nothing is recovered that was not lost: no second round, no repeated PAGE_END, no
\* chunk sent again, no page given up (ota-coordinator.c:90-252).
THEOREM RecoveryFollowsLossCorrect == Recovers => (SystemSpec => []RecoveryFollowsLoss)
<1> SUFFICES ASSUME Recovers
             PROVE  SystemSpec => []RecoveryFollowsLoss
  OBVIOUS
<1>1. TransferInv /\ RoundInv => RecoveryFollowsLoss
  BY DEF TransferInv, Base, CoordinatorTypeOK, RoundInv, OneRound, RecoveryFollowsLoss
<1>2. SystemSpec => []TransferInv
  BY TransferInvariant DEF Recovers, Delivers
<1>3. SystemSpec => []RoundInv
  BY RoundsCorrect
<1> QED
  BY <1>1, <1>2, <1>3, PTL
=============================================================================
