-------------------------- MODULE OtaDeliveryProofs --------------------------
(***************************************************************************)
(* Proof that a transfer achieves something: if no packet was lost, every  *)
(* routed node that runs an older image has staged the file when the       *)
(* script is done.                                                         *)
(***************************************************************************)
EXTENDS OtaSystemProofs

-----------------------------------------------------------------------------
(* What is assumed of the file and the line. *)

\* The file fits the slot it is sent to, and its own header declares an image newer
\* than the nodes that any secVer of the command line would update.
Suited ==
  \A img \in Images, target \in SentTargets :
    /\ target \in Slots /\ Fits(img.size, target)
    /\ \A node \in Nodes : Older(node) => HeaderSecVer[img.data[0][0]] > RunningSecVer[node]

\* The session has room for one of the older nodes, if there is any.
OlderInSession ==
  (\E j \in DOMAIN Line : Older(Line[j]))
    => \E j \in DOMAIN Line : j <= MAX_NODES /\ Older(Line[j])

Delivers == OneFile /\ Suited /\ OlderInSession

-----------------------------------------------------------------------------
(* What an older node makes of a packet of the stream, on its record. *)

LEMMA EventOfType ==
  ASSUME NEW pkt \in Packets
  PROVE  /\ pkt.type = "START" => pkt \in StartPkts /\ Event(pkt) = Started
         /\ pkt.type = "DATA" => pkt \in DataPkts /\ Event(pkt) = DataOf(pkt.page, pkt.chunk)
         /\ pkt.type = "PAGE_END" => pkt \in PageEndPkts /\ Event(pkt) = EndOf(pkt.page)
         /\ pkt.type = "VERIFY" => pkt \in VerifyPkts /\ Event(pkt) = Verified
         /\ pkt.type \in {"START", "DATA", "PAGE_END", "VERIFY"}
BY DEF Packets, StartPkts, DataPkts, PageEndPkts, VerifyPkts, Event, PageEvents, Started,
   DataOf, EndOf, Verified

\* The node has what the packet needs, takes what it brings, and loses nothing.
Takes(m, pkt, r) ==
  /\ NodeDelivers(r)
  /\ Arrived(r, Event(pkt))
  /\ \A d \in Events : Arrived(m, d) => Arrived(r, d)

HasNeeds(m, pkt) == \A d \in Events : Needs(Event(pkt), d) => Arrived(m, d)

LEMMA EventFields ==
  /\ Started.type = "START"
  /\ \A p, c : DataOf(p, c).type = "DATA" /\ DataOf(p, c).page = p /\ DataOf(p, c).chunk = c
  /\ \A p : EndOf(p).type = "PAGE_END" /\ EndOf(p).page = p
  /\ Verified.type = "VERIFY"
BY DEF Started, DataOf, EndOf, Verified

LEMMA EventsOf ==
  /\ Started \in Events /\ Verified \in Events
  /\ \A p \in Page : EndOf(p) \in Events /\ \A c \in Chunk : DataOf(p, c) \in Events
BY WireAssumption DEF Events, Started, Verified, EndOf, DataOf, Page, Chunk

\* A node that has staged keeps all it had.
LEMMA StagedHasAll ==
  ASSUME NEW r, r.staged # NoStage, NEW d
  PROVE  Arrived(r, d)
BY DEF Arrived

LEMMA StartTaken ==
  ASSUME Base, SystemTypeOK, Suited, NEW node \in Nodes, Older(node), Rebooted(node),
         NEW pkt \in StartPkts, OfStream(pkt), pkt.sec_ver \in SecVers
  PROVE  /\ StartStatus(nodes[node], pkt, TRUE) = "ACCEPTED"
         /\ Takes(nodes[node], pkt, OnStart(nodes[node], pkt, TRUE))
<1> PICK m : m = nodes[node]
  OBVIOUS
<1> PICK r : r = OnStart(m, pkt, TRUE)
  OBVIOUS
<1>1. /\ m \in Node
      /\ m.flash = BlankFlash /\ m.current_slot = NoTarget
      /\ m.running_sec_ver = RunningSecVer[node]
      /\ m.staged = NoStage /\ ~m.ota_session_active
  BY NodeFacts DEF Rebooted, Boot
<1>2. /\ pkt.target = host.target /\ pkt.size = host.file.size /\ pkt.type = "START"
  BY DEF OfStream, StartPkts
<1>3. host.file \in Images /\ host.target \in SentTargets
  BY DEF Base, LinkInv, LinkTypeOK
<1>4. pkt.target \in Slots /\ Fits(pkt.size, pkt.target)
  BY <1>2, <1>3 DEF Suited
<1>5. StartStatus(m, pkt, TRUE) = "ACCEPTED"
  <2>1. ~TooOld(m, pkt.sec_ver)
    <3>1. pkt.sec_ver > RunningSecVer[node]
      BY DEF Older
    <3>2. pkt.sec_ver \in Nat /\ RunningSecVer[node] \in Nat
      BY SenderAssumption, SystemAssumption
    <3> QED
      BY <1>1, <3>1, <3>2 DEF TooOld
  <2>2. ~SameSlot(m, pkt.target)
    BY <1>1, <1>4, SlotsAreTargets DEF SameSlot, Target, NoTarget
  <2> QED
    BY <1>4, <2>1, <2>2 DEF StartStatus
<1>6. /\ r.staged = m.staged
      /\ r.ota_session_active
      /\ r.last_crc_committed_page_offset = NoPage
      /\ r.current_rx_page_offset = NoPage /\ r.running_fw_crc = <<>>
  BY <1>1, <1>5, OnStartEffect
<1>7. \A q \in Page : r.flash[host.target][q] = ErasedPage
  <2>1. ErasesOnly(r, m, pkt.target)
    BY <1>1, <1>5, OnStartFlash
  <2>2. \A q \in Page : m.flash[pkt.target][q] = ErasedPage
    BY <1>1, <1>4 DEF BlankFlash
  <2> QED
    BY <1>2, <2>1, <2>2 DEF ErasesOnly
<1>8. NodeDelivers(r)
  <2>1. [q \in 1 .. NoPage + 1 |-> ImagePage(host.file, q - 1)] = <<>>
    BY DEF NoPage
  <2>2. NoPage - 1 <= NoPage /\ NoPage <= NoPage
    BY DEF NoPage
  <2> QED
    BY <1>6, <1>7, <2>1, <2>2 DEF NodeDelivers
<1>9. Arrived(r, Event(pkt))
  <2>1. Event(pkt).type = "START"
    BY <1>2 DEF Event
  <2> QED
    BY <1>6, <2>1 DEF Arrived
<1>10. \A d \in Events : ~Arrived(m, d)
  BY <1>1 DEF Arrived
<1> QED
  BY <1>5, <1>8, <1>9, <1>10 DEF Takes

\* The file's chunks are cells of the modelled flash.
LEMMA FileCell ==
  ASSUME Base, NEW p \in Page, NEW c \in Chunk
  PROVE  host.file.data[p][c] \in Cell
BY FileFacts DEF Image

LEMMA DataTaken ==
  ASSUME Base, SystemTypeOK, Suited, NEW m \in Node, SlotOk(m), NEW pkt \in DataPkts,
         OfStream(pkt), OfHost(m, FALSE), KeepsPages(m), NodeDelivers(m), HasNeeds(m, pkt)
  PROVE  Takes(m, pkt, OnData(m, pkt, TRUE, TRUE, TRUE))
<1> PICK r : r = OnData(m, pkt, TRUE, TRUE, TRUE)
  OBVIOUS
<1>1. PICK p \in Page, c \in Chunk : p = pkt.page /\ c = pkt.chunk
  BY DEF DataPkts
<1>2. /\ pkt.type = "DATA" /\ pkt.target = host.target
      /\ c < PageLen(host.file.size, p) /\ pkt.data = host.file.data[p][c]
  BY <1>1 DEF OfStream, DataPkts
<1>3. Event(pkt) = DataOf(p, c)
  BY <1>1, <1>2 DEF Event, PageEvents, DataOf
<1>4. /\ Arrived(m, Started)
      /\ p > 0 => Arrived(m, EndOf(p - 1))
  <2>1. PICK e : e = DataOf(p, c)
    OBVIOUS
  <2>2. e.type = "DATA" /\ e.page = p
    BY <2>1, EventFields
  <2>3. Needs(e, Started) /\ (p > 0 => Needs(e, EndOf(p - 1)))
    BY <2>2 DEF Needs
  <2>4. p > 0 => p - 1 \in Page
    BY WireAssumption DEF Page
  <2> QED
    BY <1>3, <2>1, <2>3, <2>4, EventsOf DEF HasNeeds
<1>5. CASE m.staged # NoStage
  <2>1. r = m
    BY <1>5 DEF OnData, InSession, KeepsPages
  <2> QED
    BY <1>5, <2>1, StagedHasAll DEF Takes
<1>6. CASE m.staged = NoStage
  <2>1. /\ m.ota_session_active /\ m.ota_target_slot = host.target
        /\ host.target \in Slots /\ m.current_file_size = host.file.size
    BY <1>4, <1>6 DEF Arrived, SlotOk, OfHost
  <2>2. InSession(m, pkt)
    BY <1>2, <2>1 DEF InSession
  <2>3. BoundsOk(m, m.ota_target_slot, p, c)
    <3>1. Fits(host.file.size, host.target)
      BY DEF Suited, Base, LinkInv, LinkTypeOK
    <3>2. p < host.file.size.pages /\ p \in Nat
      BY <1>1, <1>2, PageLenType, FileFacts, WireAssumption DEF Page, Chunk
    <3>3. Backend = "dual" => host.file.size.pages <= SlotPages[host.target]
                              /\ SlotPages[host.target] \in Nat
      BY <2>1, <3>1, BackendAssumption DEF Fits
    <3> QED
      BY <1>2, <2>1, <3>2, <3>3, FileFacts DEF BoundsOk
  <2>4. PICK rx \in Int : rx = m.current_rx_page_offset
    BY RecordFacts
  <2>5. PICK last \in Int : last = m.last_crc_committed_page_offset /\ -1 <= last
    BY RecordFacts DEF Page, NoPage
  <2>6. rx - 1 <= last /\ last <= rx /\ NoPage <= rx
    BY <2>1, <2>4, <2>5, RecordFacts DEF NodeDelivers, Page, NoPage
  <2>7. p - 1 <= last /\ p \in Nat /\ 0 <= p
    <3>1. p > 0 => p - 1 <= last
      <4>1. PICK e : e = EndOf(p - 1)
        OBVIOUS
      <4>2. e.type = "PAGE_END" /\ e.page = p - 1
        BY <4>1, EventFields
      <4> QED
        BY <1>4, <1>6, <2>5, <4>1, <4>2 DEF Arrived, PageEvents
    <3>2. p \in Nat /\ 0 <= p
      BY DEF Page
    <3> QED
      BY <2>5, <3>1, <3>2
  <2>8. SameSession(r, m) /\ r \in Node
    BY OnDataType
  <2>9. CASE p < rx
    <3>1. r = m
      BY <1>1, <2>4, <2>9 DEF OnData
    <3>2. p <= last
      BY <2>6, <2>7, <2>9
    <3>3. Arrived(m, DataOf(p, c))
      BY <2>1, <2>5, <3>2, EventFields DEF Arrived, PageEvents
    <3> QED
      BY <1>3, <3>1, <3>3 DEF Takes
  <2>10. CASE p >= rx
    <3> DEFINE s == IF SelectsPage(m, pkt) THEN SelectPage(m, pkt, TRUE) ELSE m
    <3>1. r = StoreChunk(s, pkt, TRUE, TRUE)
      <4>1. ~(pkt.page < m.current_rx_page_offset)
        BY <1>1, <2>4, <2>7, <2>10
      <4>2. PageSelected(m, pkt, TRUE)
        BY DEF PageSelected, EraseSucceeds
      <4> QED
        BY <1>1, <2>2, <2>3, <4>1, <4>2, Zenon DEF OnData
    <3>2. /\ s \in Node /\ SameSession(s, m) /\ s.current_rx_page_offset = p
          /\ ErasesOnly(s, m, host.target)
          /\ \/ s.page_bitmap = {} /\ p > rx
             \/ s = m /\ p = rx
      <4>1. CASE SelectsPage(m, pkt)
        <5>1. p > rx
          BY <1>1, <2>4, <4>1 DEF SelectsPage
        <5>2. /\ s \in Node /\ SameSession(s, m) /\ s.current_rx_page_offset = p
              /\ s.page_bitmap = {}
          BY <1>1, <2>1, <4>1, SelectPageEffect, SelectPageErases
        <5>3. ErasesOnly(s, m, host.target)
          BY <2>1, <4>1, SelectPageFlash
        <5> QED
          BY <5>1, <5>2, <5>3
      <4>2. CASE ~SelectsPage(m, pkt)
        <5>1. s = m
          BY <4>2
        <5>2. p = rx
          BY <1>1, <2>4, <2>7, <2>10, <4>2 DEF SelectsPage
        <5> QED
          BY <2>4, <5>1, <5>2 DEF SameSession, ErasesOnly
      <4> QED
        BY <4>1, <4>2
    <3> HIDE DEF s
    <3>3. s.ota_target_slot = host.target
      BY <2>1, <3>2 DEF SameSession
    <3>4. /\ r.page_bitmap = s.page_bitmap \cup {c}
          /\ \A d \in Chunk \ {c} : r.flash[host.target][p][d] = s.flash[host.target][p][d]
          /\ c \in s.page_bitmap =>
               r.flash[host.target][p][c] = s.flash[host.target][p][c]
          /\ c \notin s.page_bitmap =>
               r.flash[host.target][p][c] = s.flash[host.target][p][c] \cap pkt.data
      <4>1. ChunkWritten(r, s, host.target, pkt)
        BY <2>1, <3>1, <3>2, <3>3, StoreChunkSucceeds
      <4> QED
        BY <1>1, <4>1 DEF ChunkWritten
    <3>5. /\ r.current_rx_page_offset = p
          /\ \A q \in Page : q # p => r.flash[host.target][q] = s.flash[host.target][q]
      <4>1. Stores(r, s, pkt)
        BY <2>1, <3>1, <3>2, <3>3, StoreChunkEffect
      <4> QED
        BY <1>1, <3>2, <3>3, <4>1 DEF Stores
    <3>6. \A q \in Page : q > p => r.flash[host.target][q] = ErasedPage
      <4> SUFFICES ASSUME NEW q \in Page, q > p PROVE r.flash[host.target][q] = ErasedPage
        OBVIOUS
      <4>1. q > rx /\ q # p
        BY <2>7, <2>10 DEF Page
      <4>2. m.flash[host.target][q] = ErasedPage
        BY <2>1, <2>4, <4>1 DEF NodeDelivers
      <4> QED
        BY <3>2, <3>5, <4>1, <4>2 DEF ErasesOnly
    <3>7. \A d \in Chunk : s.flash[host.target][p][d] =
            IF d \in s.page_bitmap THEN host.file.data[p][d] ELSE ErasedCell
      <4>1. CASE s.page_bitmap = {} /\ p > rx
        <5>1. m.flash[host.target][p] = ErasedPage
          BY <2>1, <2>4, <4>1 DEF NodeDelivers
        <5>2. s.flash[host.target][p] = ErasedPage
          BY <3>2, <5>1 DEF ErasesOnly
        <5> QED
          BY <4>1, <5>2 DEF ErasedPage
      <4>2. CASE s = m /\ p = rx
        <5>1. rx # NoPage
          BY <2>7, <4>2 DEF NoPage
        <5> QED
          BY <2>1, <2>4, <4>2, <5>1 DEF NodeDelivers
      <4> QED
        BY <3>2, <4>1, <4>2
    <3>8. \A d \in Chunk : r.flash[host.target][p][d] =
            IF d \in r.page_bitmap THEN host.file.data[p][d] ELSE ErasedCell
      <4> SUFFICES ASSUME NEW d \in Chunk
                   PROVE  r.flash[host.target][p][d] =
                            IF d \in r.page_bitmap THEN host.file.data[p][d] ELSE ErasedCell
        OBVIOUS
      <4>1. CASE d # c
        BY <3>4, <3>7, <4>1
      <4>2. CASE d = c
        <5>1. ErasedCell \cap pkt.data = pkt.data
          BY FileCell, <1>2 DEF Cell, ErasedCell
        <5> QED
          BY <1>2, <3>4, <3>7, <4>2, <5>1
      <4> QED
        BY <4>1, <4>2
    <3>9. p - 1 <= last /\ last <= p
      BY <2>6, <2>7, <2>10
    <3>10. /\ r.last_crc_committed_page_offset = last /\ r.running_fw_crc = m.running_fw_crc
           /\ r.ota_session_active /\ r.staged = m.staged
      BY <2>1, <2>5, <2>8 DEF SameSession
    <3>11. NodeDelivers(r)
      <4>1. m.running_fw_crc = [q \in 1 .. last + 1 |-> ImagePage(host.file, q - 1)]
        BY <2>1, <2>5 DEF NodeDelivers
      <4> QED
        BY <3>5, <3>6, <3>8, <3>9, <3>10, <4>1 DEF NodeDelivers
    <3>12. Arrived(r, DataOf(p, c))
      <4>1. c \in r.page_bitmap
        BY <3>4
      <4>2. PICK e : e = DataOf(p, c)
        OBVIOUS
      <4>3. e.type = "DATA" /\ e.page = p /\ e.chunk = c
        BY <4>2, EventFields
      <4> QED
        BY <3>5, <3>10, <4>1, <4>2, <4>3 DEF Arrived
    <3>13. ASSUME NEW d \in Events, Arrived(m, d)
           PROVE  Arrived(r, d)
      <4>1. CASE d.type = "START"
        BY <3>10, <4>1 DEF Arrived
      <4>2. CASE d.type \in PageEvents /\ d.page <= last
        BY <3>10, <4>2 DEF Arrived
      <4>3. CASE d.type = "DATA" /\ rx = d.page /\ d.chunk \in m.page_bitmap
        <5>1. CASE s = m /\ p = rx
          BY <3>4, <3>5, <3>10, <4>3, <5>1 DEF Arrived
        <5>2. CASE p > rx
          <6>1. d.page <= last /\ d.type \in PageEvents
            BY <2>4, <2>5, <2>7, <4>3, <5>2 DEF PageEvents
          <6> QED
            BY <3>10, <6>1 DEF Arrived
        <5> QED
          BY <3>2, <5>1, <5>2
      <4> QED
        BY <1>6, <2>4, <2>5, <3>13, <4>1, <4>2, <4>3 DEF Arrived
    <3> QED
      BY <1>3, <3>11, <3>12, <3>13 DEF Takes
  <2>11. p < rx \/ p >= rx
    BY <2>4, <2>7
  <2> QED
    BY <2>9, <2>10, <2>11
<1> QED
  BY <1>5, <1>6

\* The pages that were committed in order, with one more.
PagesUpTo(last) == [q \in 1 .. last + 1 |-> ImagePage(host.file, q - 1)]

LEMMA NextPage ==
  ASSUME NEW last \in Int, last >= -1
  PROVE  Append(PagesUpTo(last), ImagePage(host.file, last + 1)) = PagesUpTo(last + 1)
<1>1. last + 1 \in Nat /\ (last + 1) + 1 = last + 2
  OBVIOUS
<1> DEFINE page(q) == ImagePage(host.file, q - 1)
<1>2. page(last + 2) = ImagePage(host.file, last + 1)
  OBVIOUS
<1> HIDE DEF page
<1>3. ASSUME NEW n \in Nat
      PROVE  Append([q \in 1 .. n |-> page(q)], page(n + 1)) = [q \in 1 .. n + 1 |-> page(q)]
  OBVIOUS
<1>4. Append([q \in 1 .. last + 1 |-> page(q)], page(last + 2)) = [q \in 1 .. last + 2 |-> page(q)]
  <2>1. PICK n \in Nat : n = last + 1
    BY <1>1
  <2>2. n + 1 = last + 2
    BY <2>1
  <2> QED
    BY <1>3, <2>1, <2>2
<1> QED
  BY <1>1, <1>2, <1>4, Zenon DEF PagesUpTo, page

\* A page of which every chunk came is in flash.
LEMMA AllChunksStore ==
  ASSUME Base, NEW m \in Node, m.ota_session_active, NodeDelivers(m),
         NEW p \in Page, p = m.current_rx_page_offset,
         0 .. PageLen(host.file.size, p) - 1 \subseteq m.page_bitmap
  PROVE  PageStored(m, p)
<1>1. PageLen(host.file.size, p) \in 0 .. PageChunks
  BY FileFacts, OffsetPageLen
<1>2. PICK len \in 0 .. PageChunks : len = PageLen(host.file.size, p)
  BY <1>1
<1>3. 0 .. len - 1 \subseteq Chunk
  BY WireAssumption DEF Chunk
<1>4. p # NoPage
  BY DEF Page, NoPage
<1>5. \A c \in 0 .. len - 1 : m.flash[host.target][p][c] = host.file.data[p][c]
  BY <1>2, <1>3, <1>4 DEF NodeDelivers
<1> QED
  BY <1>2, <1>5 DEF PageStored, ImagePage, Prefix

LEMMA PageEndTaken ==
  ASSUME Base, SystemTypeOK, NEW m \in Node, SlotOk(m), NEW pkt \in PageEndPkts,
         OfStream(pkt), OfHost(m, FALSE), KeepsPages(m), NodeDelivers(m), HasNeeds(m, pkt)
  PROVE  Takes(m, pkt, OnPageEnd(m, pkt, TRUE))
<1> PICK r : r = OnPageEnd(m, pkt, TRUE)
  OBVIOUS
<1>1. PICK p \in Page : p = pkt.page
  BY DEF PageEndPkts
<1>2. /\ pkt.type = "PAGE_END" /\ pkt.target = host.target /\ p \in Nat
      /\ p < host.file.size.pages /\ pkt.crc = ImagePage(host.file, p)
  BY <1>1, WireAssumption DEF OfStream, PageEndPkts, Page
<1>3. Event(pkt) = EndOf(p)
  BY <1>1, <1>2 DEF Event, PageEvents, EndOf
<1>4. PICK len \in 1 .. PageChunks : len = PageLen(host.file.size, p)
  BY <1>2, FilePageLen, FileFacts
<1>5. 0 .. len - 1 \subseteq Chunk /\ 0 \in 0 .. len - 1
  BY WireAssumption DEF Chunk
<1>6. \A c \in 0 .. len - 1 : Arrived(m, DataOf(p, c))
  <2>1. PICK e : e = EndOf(p)
    OBVIOUS
  <2>2. e.type = "PAGE_END" /\ e.page = p
    BY <2>1, EventFields
  <2>3. \A c \in 0 .. len - 1 : Needs(e, DataOf(p, c))
    BY <1>4, <2>2 DEF Needs
  <2> QED
    BY <1>3, <1>5, <2>1, <2>3, EventsOf DEF HasNeeds
<1>7. CASE m.staged # NoStage
  <2>1. r = m
    BY <1>7 DEF OnPageEnd, InSession, KeepsPages
  <2> QED
    BY <1>7, <2>1, StagedHasAll DEF Takes
<1>8. CASE m.staged = NoStage
  <2>1. PICK rx \in Int : rx = m.current_rx_page_offset
    BY RecordFacts
  <2>2. PICK last \in Int : last = m.last_crc_committed_page_offset /\ -1 <= last
    BY RecordFacts DEF Page, NoPage
  <2>3. \A c \in 0 .. len - 1 :
          m.ota_session_active /\ (p <= last \/ (rx = p /\ c \in m.page_bitmap))
    <3> SUFFICES ASSUME NEW c \in 0 .. len - 1
                 PROVE  m.ota_session_active /\ (p <= last \/ (rx = p /\ c \in m.page_bitmap))
      OBVIOUS
    <3>1. PICK e : e = DataOf(p, c)
      OBVIOUS
    <3>2. e.type = "DATA" /\ e.page = p /\ e.chunk = c
      BY <3>1, EventFields
    <3> QED
      BY <1>6, <1>8, <2>1, <2>2, <3>1, <3>2 DEF Arrived
  <2>4. /\ m.ota_session_active /\ m.ota_target_slot = host.target
        /\ host.target \in Slots /\ m.current_file_size = host.file.size
    BY <1>5, <2>3 DEF SlotOk, OfHost
  <2>5. InSession(m, pkt)
    BY <1>2, <2>4 DEF InSession
  <2>6. rx - 1 <= last /\ last <= rx /\ m.running_fw_crc = PagesUpTo(last)
    BY <2>1, <2>2, <2>4 DEF NodeDelivers, PagesUpTo
  <2>7. CASE rx # p
    <3>1. r = m
      BY <1>1, <2>1, <2>7 DEF OnPageEnd
    <3>2. p <= last
      BY <1>5, <2>3, <2>7
    <3>3. PICK e : e = EndOf(p)
      OBVIOUS
    <3>4. e.type = "PAGE_END" /\ e.page = p
      BY <3>3, EventFields
    <3>5. Arrived(m, e)
      BY <2>2, <2>4, <3>2, <3>4 DEF Arrived, PageEvents
    <3> QED
      BY <1>3, <3>1, <3>3, <3>5 DEF Takes
  <2>8. CASE rx = p
    <3>1. PageStored(m, p)
      <4>1. CASE p <= last
        <5>1. p = last /\ last # NoPage
          BY <1>2, <2>6, <2>8, <4>1 DEF NoPage
        <5> QED
          BY <2>2, <5>1 DEF KeepsPages
      <4>2. CASE ~(p <= last)
        BY <1>4, <2>1, <2>3, <2>4, <2>8, <4>2, AllChunksStore
      <4> QED
        BY <4>1, <4>2
    <3>2. FlashPage(m, p) = ImagePage(host.file, p)
      BY <2>4, <3>1 DEF FlashPage, PageStored
    <3>3. PageMatches(m, pkt, TRUE)
      BY <1>1, <1>2, <1>4, <2>4, <3>2 DEF PageMatches
    <3>4. SameReception(r, Commit(m)) /\ r.page_bitmap = m.page_bitmap
      BY <1>1, <2>1, <2>5, <2>8, <3>3, OnPageEndMatches
    <3>5. /\ r.flash = m.flash /\ r.current_rx_page_offset = rx
          /\ r.ota_session_active /\ r.staged = m.staged
          /\ r.last_crc_committed_page_offset = p
          /\ r.running_fw_crc = PagesUpTo(p)
      <4> DEFINE s == Commit(m)
      <4>3. m.ota_target_slot \in Slots /\ m.current_rx_page_offset \in Page
        BY <2>1, <2>4, <2>8
      <4>4. /\ s.flash = m.flash /\ s.current_rx_page_offset = m.current_rx_page_offset
            /\ s.ota_session_active = m.ota_session_active /\ s.staged = m.staged
            /\ m.last_crc_committed_page_offset = m.current_rx_page_offset => s = m
            /\ m.last_crc_committed_page_offset # m.current_rx_page_offset =>
                 /\ s.last_crc_committed_page_offset = m.current_rx_page_offset
                 /\ s.running_fw_crc =
                      Append(m.running_fw_crc, FlashPage(m, m.current_rx_page_offset))
        BY <4>3, CommitEffect
      <4> HIDE DEF s
      <4>5. SameReception(r, s)
        BY <3>4 DEF s
      <4>1. CASE last = p
        <5>1. s = m
          BY <2>1, <2>2, <2>8, <4>1, <4>4
        <5> QED
          BY <2>1, <2>2, <2>4, <2>6, <4>1, <4>5, <5>1 DEF SameReception, SameSession
      <4>2. CASE last # p
        <5>1. last + 1 = p
          BY <1>2, <2>6, <2>8, <4>2
        <5>2. /\ r.flash = m.flash /\ r.current_rx_page_offset = rx
              /\ r.ota_session_active = m.ota_session_active /\ r.staged = m.staged
              /\ r.last_crc_committed_page_offset = p
              /\ r.running_fw_crc = Append(m.running_fw_crc, FlashPage(m, p))
          <6>1. /\ r.flash = s.flash /\ r.current_rx_page_offset = s.current_rx_page_offset
                /\ r.ota_session_active = s.ota_session_active /\ r.staged = s.staged
                /\ r.last_crc_committed_page_offset = s.last_crc_committed_page_offset
                /\ r.running_fw_crc = s.running_fw_crc
            BY <4>5 DEF SameReception, SameSession
          <6> QED
            BY <2>1, <2>2, <2>8, <4>2, <4>4, <6>1
        <5>3. Append(PagesUpTo(last), ImagePage(host.file, last + 1)) = PagesUpTo(last + 1)
          BY <2>2, NextPage
        <5> QED
          BY <2>4, <2>6, <3>2, <5>1, <5>2, <5>3
      <4> QED
        BY <4>1, <4>2
    <3>6. NodeDelivers(r)
      <4>1. p - 1 <= p /\ p <= p
        BY <1>2
      <4>2. /\ \A q \in Page : q > p => m.flash[host.target][q] = ErasedPage
            /\ p # NoPage => \A c \in Chunk :
                 m.flash[host.target][p][c] =
                   IF c \in m.page_bitmap THEN host.file.data[p][c] ELSE ErasedCell
        BY <2>1, <2>4, <2>8 DEF NodeDelivers
      <4> QED
        BY ZenonT(60), <2>8, <3>4, <3>5, <4>1, <4>2 DEF NodeDelivers, PagesUpTo
    <3>7. Arrived(r, EndOf(p))
      <4>1. PICK e : e = EndOf(p)
        OBVIOUS
      <4>2. e.type = "PAGE_END" /\ e.page = p /\ p <= p
        BY <1>2, <4>1, EventFields
      <4> QED
        BY <3>5, <4>1, <4>2 DEF Arrived, PageEvents
    <3>8. ASSUME NEW d \in Events, Arrived(m, d)
          PROVE  Arrived(r, d)
      <4>1. d.page \in Int
        BY DEF Events, Page
      <4>2. d.page <= last => d.page <= p
        BY <1>2, <2>6, <2>8, <4>1
      <4> QED
        BY <1>8, <2>1, <2>2, <3>4, <3>5, <3>8, <4>2 DEF Arrived
    <3> QED
      BY <1>3, <3>6, <3>7, <3>8 DEF Takes
  <2> QED
    BY <2>7, <2>8
<1> QED
  BY <1>7, <1>8

LEMMA VerifyTaken ==
  ASSUME Base, Suited, NEW node \in Nodes, Older(node), NEW m \in Node, SlotOk(m),
         m.running_sec_ver = RunningSecVer[node], NEW pkt \in VerifyPkts,
         OfStream(pkt), OfHost(m, TRUE), KeepsPages(m), NodeDelivers(m), HasNeeds(m, pkt),
         NEW leaf \in BOOLEAN
  PROVE  Takes(m, pkt, OnVerify(m, pkt, "ok", leaf))
<1> PICK r : r = OnVerify(m, pkt, "ok", leaf)
  OBVIOUS
<1>1. /\ pkt.type = "VERIFY" /\ pkt.target = host.target /\ pkt.crc = ImageCrc(host.file)
  BY DEF OfStream, VerifyPkts
<1>2. PICK pages \in Nat : pages = host.file.size.pages /\ pages > 0 /\ pages - 1 \in Page
  BY FileFacts, WireAssumption DEF Page
<1>3. Arrived(m, EndOf(pages - 1))
  <2>1. Event(pkt).type = "VERIFY"
    BY <1>1 DEF Event
  <2>2. Needs(Event(pkt), EndOf(pages - 1))
    BY <1>2, <2>1 DEF Needs
  <2> QED
    BY <1>2, <2>2, EventsOf DEF HasNeeds
<1>4. CASE m.staged # NoStage
  <2>1. r = m
    BY <1>4 DEF OnVerify, InSession, KeepsPages
  <2> QED
    BY <1>4, <2>1, StagedHasAll DEF Takes
<1>5. CASE m.staged = NoStage
  <2>1. PICK last \in Int : last = m.last_crc_committed_page_offset
    BY RecordFacts
  <2>2. m.ota_session_active /\ pages - 1 <= last
    <3>1. PICK e : e = EndOf(pages - 1)
      OBVIOUS
    <3>2. e.type = "PAGE_END" /\ e.page = pages - 1
      BY <3>1, EventFields
    <3> QED
      BY <1>3, <1>5, <2>1, <3>1, <3>2 DEF Arrived
  <2>3. last = pages - 1
    BY <1>2, <2>1, <2>2 DEF KeepsPages
  <2>4. m.ota_target_slot = host.target /\ host.target \in Slots
    BY <2>2 DEF OfHost, SlotOk
  <2>5. m.running_fw_crc = ImageCrc(host.file)
    <3>1. m.running_fw_crc = [q \in 1 .. last + 1 |-> ImagePage(host.file, q - 1)]
      BY <2>1, <2>2 DEF NodeDelivers
    <3>2. last + 1 = host.file.size.pages
      BY <1>2, <2>3
    <3> QED
      BY <3>1, <3>2, Zenon DEF ImageCrc
  <2>6. PageStored(m, 0)
    <3>1. Len(m.running_fw_crc) = last + 1
      BY <1>2, <2>3, <2>5, ImageCrcType, FileFacts
    <3>2. 0 \in 0 .. last
      BY <1>2, <2>3
    <3> QED
      BY <2>1, <3>1, <3>2 DEF KeepsPages
  <2>7. m.flash[host.target][0][0] = host.file.data[0][0]
    <3>1. 0 \in 0 .. host.file.size.pages - 1
      BY <1>2
    <3>2. PICK len \in 1 .. PageChunks : len = PageLen(host.file.size, 0)
      BY <3>1, FilePageLen, FileFacts
    <3>3. 0 \in 0 .. len - 1
      OBVIOUS
    <3> QED
      BY <2>6, <3>2, <3>3 DEF PageStored, ImagePage, Prefix
  <2>8. ValidImage(m, m.ota_target_slot)
    <3>1. HeaderSecVer[host.file.data[0][0]] > RunningSecVer[node]
      BY DEF Suited, Base, LinkInv, LinkTypeOK
    <3> QED
      BY <2>4, <2>7, <3>1 DEF ValidImage, StagedSecVer
  <2>9. InSession(m, pkt) /\ VerifyMatches(m, pkt)
    BY <1>1, <2>2, <2>4, <2>5 DEF InSession, VerifyMatches
  <2>10. r.staged # NoStage
    BY <2>8, <2>9, OnVerifyStages
  <2>11. r.ota_session_active = FALSE
    BY <1>5, <2>10, OnVerifyEffect
  <2> QED
    BY <2>10, <2>11, StagedHasAll DEF Takes, NodeDelivers
<1> QED
  BY <1>4, <1>5

-----------------------------------------------------------------------------
(* The queues of a transfer without losses: what is on its way stays in sequence. *)

\* No older node loses what it has.
NodesKeep ==
  \A node \in Nodes : Older(node) =>
    \A d \in Events : Arrived(nodes[node], d) => Arrived(nodes'[node], d)

\* What was sent stays at the nodes or on its way to them, in sequence.
StreamKept == InSequence' /\ \A d \in Events : Sent(d) => Sent(d)'

LEMMA NeedsStay ==
  ASSUME host'.file = host.file, NEW e, NEW d
  PROVE  Needs(e, d)' <=> Needs(e, d)
BY DEF Needs

LEMMA KeptSame ==
  ASSUME InSequence, NodesKeep, UNCHANGED <<line, hop>>, host'.file = host.file
  PROVE  StreamKept
<1>1. \A i \in DOMAIN Line : Inbox(i)' = Inbox(i)
  BY DEF Inbox
<1>2. \A j \in DOMAIN Line : 1 .. j \subseteq DOMAIN Line /\ Line[j] \in Nodes
  BY LineType
<1>3. InSequence'
  <2> SUFFICES ASSUME NEW j \in DOMAIN Line, Older(Line[j]), NEW i \in 1 .. j,
                      NEW k \in DOMAIN (Inbox(i)'), NEW d \in Events,
                      Needs(Event(Inbox(i)[k]), d)'
               PROVE  (Arrived(nodes[Line[j]], d) \/ Ahead(i, k, j, d))'
    BY DEF InSequence
  <2>1. k \in DOMAIN Inbox(i) /\ Inbox(i)'[k] = Inbox(i)[k]
    BY <1>1, <1>2
  <2>2. Needs(Event(Inbox(i)[k]), d)
    BY <2>1, NeedsStay DEF Needs
  <2>3. Arrived(nodes[Line[j]], d) \/ Ahead(i, k, j, d)
    BY <2>1, <2>2 DEF InSequence
  <2>4. Ahead(i, k, j, d) => Ahead(i, k, j, d)'
    <3>1. i .. j \subseteq DOMAIN Line
      BY <1>2
    <3> QED
      BY <1>1, <3>1 DEF Ahead
  <2>5. Arrived(nodes[Line[j]], d) => Arrived(nodes[Line[j]], d)'
    BY <1>2 DEF NodesKeep, Arrived
  <2> QED
    BY <2>3, <2>4, <2>5
<1>4. ASSUME NEW d \in Events, Sent(d)
      PROVE  Sent(d)'
  <2> SUFFICES ASSUME NEW j \in DOMAIN Line, Older(Line[j])
               PROVE  (Arrived(nodes[Line[j]], d) \/ Coming(j, d))'
    BY DEF Sent
  <2>1. Coming(j, d) => Coming(j, d)'
    BY <1>1, <1>2 DEF Coming
  <2>2. Arrived(nodes[Line[j]], d) => Arrived(nodes[Line[j]], d)'
    BY <1>2 DEF NodesKeep, Arrived
  <2> QED
    BY <1>4, <2>1, <2>2 DEF Sent
<1> QED
  BY <1>3, <1>4 DEF StreamKept

\* The coordinator sends a packet; what it needs was sent before it.
LEMMA KeptAppends ==
  ASSUME QueuesTypeOK, InSequence, nodes' = nodes, hop' = hop, host'.file = host.file,
         NEW pkt \in Packets, line' = Append(line, pkt),
         \A d \in Events : Needs(Event(pkt), d) => Sent(d)
  PROVE  StreamKept /\ Sent(Event(pkt))'
<1>1. PICK n \in Nat : n = Len(line)
  BY DEF QueuesTypeOK
<1>2. /\ DOMAIN (Inbox(1)') = 1 .. n + 1 /\ DOMAIN Inbox(1) = 1 .. n
      /\ \A k \in 1 .. n : Inbox(1)'[k] = Inbox(1)[k]
      /\ Inbox(1)'[n + 1] = pkt
  <2>1. Inbox(1) = line /\ Inbox(1)' = Append(line, pkt) /\ line \in Seq(Packets)
    BY DEF Inbox, QueuesTypeOK
  <2> QED
    BY <1>1, <2>1
<1>3. \A i \in DOMAIN Line : i # 1 => Inbox(i)' = Inbox(i)
  BY DEF Inbox
<1>4. \A j \in DOMAIN Line : 1 .. j \subseteq DOMAIN Line /\ Line[j] \in Nodes /\ 1 \in 1 .. j
  BY LineType
<1>5. ASSUME NEW i \in DOMAIN Line, NEW k \in DOMAIN Inbox(i)
      PROVE  k \in DOMAIN (Inbox(i)') /\ Inbox(i)'[k] = Inbox(i)[k]
  <2>1. CASE i = 1
    BY <1>2, <2>1
  <2>2. CASE i # 1
    BY <1>3, <2>2
  <2> QED
    BY <2>1, <2>2
<1>6. ASSUME NEW j \in DOMAIN Line, NEW d, Coming(j, d)
      PROVE  Coming(j, d)' /\ Ahead(1, n + 1, j, d)'
  <2>1. PICK h \in 1 .. j : \E l \in DOMAIN Inbox(h) : Event(Inbox(h)[l]) = d
    BY <1>6 DEF Coming
  <2>2. PICK l \in DOMAIN Inbox(h) : Event(Inbox(h)[l]) = d
    BY <2>1
  <2>3. l \in DOMAIN (Inbox(h)') /\ Event(Inbox(h)'[l]) = d
    BY <1>4, <1>5, <2>2
  <2>4. InFront(h, l, 1, n + 1)
    BY <1>2, <2>2 DEF InFront
  <2> QED
    BY <2>3, <2>4 DEF Coming, Ahead
<1>7. InSequence'
  <2> SUFFICES ASSUME NEW j \in DOMAIN Line, Older(Line[j]), NEW i \in 1 .. j,
                      NEW k \in DOMAIN (Inbox(i)'), NEW d \in Events,
                      Needs(Event(Inbox(i)[k]), d)'
               PROVE  (Arrived(nodes[Line[j]], d) \/ Ahead(i, k, j, d))'
    BY DEF InSequence
  <2>1. PICK e : e = Event(Inbox(i)'[k])
    OBVIOUS
  <2>2. Needs(e, d)
    BY <2>1, NeedsStay DEF Needs
  <2>3. CASE i = 1 /\ k = n + 1
    <3>1. Sent(d)
      BY <1>2, <2>1, <2>2, <2>3
    <3> QED
      BY <1>6, <2>3, <3>1 DEF Sent, Arrived
  <2>4. CASE ~(i = 1 /\ k = n + 1)
    <3>1. k \in DOMAIN Inbox(i) /\ Inbox(i)'[k] = Inbox(i)[k]
      <4>1. CASE i = 1
        BY <1>2, <2>4, <4>1
      <4>2. CASE i # 1
        BY <1>3, <1>4, <4>2
      <4> QED
        BY <4>1, <4>2
    <3>2. Arrived(nodes[Line[j]], d) \/ Ahead(i, k, j, d)
      BY <2>1, <2>2, <3>1 DEF InSequence
    <3>3. Ahead(i, k, j, d) => Ahead(i, k, j, d)'
      <4>1. i .. j \subseteq DOMAIN Line
        BY <1>4
      <4> QED
        BY <1>5, <4>1 DEF Ahead
    <3> QED
      BY <3>2, <3>3 DEF Arrived
  <2> QED
    BY <2>3, <2>4
<1>8. \A d : Sent(d) => Sent(d)'
  BY <1>6 DEF Sent, Arrived
<1>9. Sent(Event(pkt))'
  <2>1. \A j \in DOMAIN Line : Coming(j, Event(pkt))'
    <3>1. n + 1 \in DOMAIN (Inbox(1)')
      BY <1>2
    <3> QED
      BY <1>2, <1>4, <3>1 DEF Coming
  <2> QED
    BY <2>1 DEF Sent
<1> QED
  BY <1>7, <1>8, <1>9 DEF StreamKept

\* Where a packet is when the i-th node has passed one on.
LEMMA PacketsKept ==
  ASSUME QueuesTypeOK, NEW i \in DOMAIN Line, Inbox(i) # <<>>, Passes(i, TRUE),
         NEW h \in DOMAIN Line, NEW l \in DOMAIN Inbox(h)
  PROVE  \/ h = i /\ l > 1 /\ l - 1 \in DOMAIN (Inbox(i)') /\ Inbox(i)'[l - 1] = Inbox(h)[l]
         \/ h = i /\ l = 1 /\ Inbox(h)[l] = Head(Inbox(i))
         \/ h # i /\ l \in DOMAIN (Inbox(h)') /\ Inbox(h)'[l] = Inbox(h)[l]
<1>1. h \in Nat /\ i \in Nat
  BY LineType
<1>2. CASE h = i
  <2>1. PICK q \in Seq(Packets) : q = Inbox(i)
    BY InboxType
  <2>2. Inbox(i)' = Tail(q) /\ q # <<>> /\ l \in 1 .. Len(q)
    BY <1>2, <2>1 DEF Passes
  <2>3. CASE l = 1
    BY <1>2, <2>1, <2>2, <2>3
  <2>4. CASE l > 1
    <3>1. l - 1 \in DOMAIN Tail(q) /\ Tail(q)[l - 1] = q[l]
      BY <2>2, <2>4
    <3> QED
      BY <1>2, <2>1, <2>2, <2>4, <3>1
  <2> QED
    BY <2>2, <2>3, <2>4
<1>3. CASE h = i + 1
  <2>1. PICK q \in Seq(Packets) : q = Inbox(h)
    BY InboxType
  <2>2. Inbox(h)' = Append(q, Head(Inbox(i))) /\ l \in 1 .. Len(q)
    BY <1>3, <2>1 DEF Passes
  <2>3. l \in DOMAIN Append(q, Head(Inbox(i))) /\ Append(q, Head(Inbox(i)))[l] = q[l]
    BY <2>2
  <2> QED
    BY <1>1, <1>3, <2>1, <2>2, <2>3
<1>4. CASE h # i /\ h # i + 1
  BY <1>4 DEF Passes
<1> QED
  BY <1>2, <1>3, <1>4

\* The packet it passed on is the last one of the next queue.
LEMMA PacketPassed ==
  ASSUME QueuesTypeOK, NEW i \in DOMAIN Line, Inbox(i) # <<>>, Passes(i, TRUE),
         i + 1 \in DOMAIN Line
  PROVE  LET n == Len(Inbox(i + 1)) + 1
         IN n \in DOMAIN (Inbox(i + 1)') /\ Inbox(i + 1)'[n] = Head(Inbox(i))
<1>1. PICK q \in Seq(Packets) : q = Inbox(i + 1)
  BY InboxType
<1>2. PICK pkt : pkt = Head(Inbox(i))
  OBVIOUS
<1>3. Inbox(i + 1)' = Append(q, pkt)
  BY <1>1, <1>2 DEF Passes
<1>4. Len(q) + 1 \in DOMAIN Append(q, pkt) /\ Append(q, pkt)[Len(q) + 1] = pkt
  OBVIOUS
<1> QED
  BY <1>1, <1>2, <1>3, <1>4

\* What was queued for a node still is, but for the packet it took.
LEMMA ComingPasses ==
  ASSUME QueuesTypeOK, NEW i \in DOMAIN Line, Inbox(i) # <<>>, Passes(i, TRUE),
         NEW j \in DOMAIN Line, NEW d, Coming(j, d)
  PROVE  Coming(j, d)' \/ (j = i /\ d = Event(Head(Inbox(i))))
<1>1. /\ 1 .. j \subseteq DOMAIN Line /\ i \in Nat /\ j \in Nat
      /\ \A g \in Nat : g >= 1 /\ g <= j => g \in 1 .. j
  BY LineType
<1>2. PICK h \in 1 .. j : \E l \in DOMAIN Inbox(h) : Event(Inbox(h)[l]) = d
  BY DEF Coming
<1>3. PICK l \in DOMAIN Inbox(h) : Event(Inbox(h)[l]) = d
  BY <1>2
<1>4. CASE h = i /\ l > 1 /\ l - 1 \in DOMAIN (Inbox(i)') /\ Inbox(i)'[l - 1] = Inbox(h)[l]
  BY <1>3, <1>4 DEF Coming
<1>5. CASE h = i /\ l = 1 /\ Inbox(h)[l] = Head(Inbox(i))
  <2>1. CASE j = i
    BY <1>3, <1>5, <2>1
  <2>2. CASE j # i
    <3>1. i + 1 \in 1 .. j
      BY <1>1, <1>5, <2>2
    <3>2. Inbox(i + 1)'[Len(Inbox(i + 1)) + 1] = Head(Inbox(i))
          /\ Len(Inbox(i + 1)) + 1 \in DOMAIN (Inbox(i + 1)')
      BY <1>1, <3>1, PacketPassed
    <3> QED
      BY <1>3, <1>5, <3>1, <3>2 DEF Coming
  <2> QED
    BY <2>1, <2>2
<1>6. CASE h # i /\ l \in DOMAIN (Inbox(h)') /\ Inbox(h)'[l] = Inbox(h)[l]
  BY <1>3, <1>6 DEF Coming
<1> QED
  BY <1>1, <1>4, <1>5, <1>6, PacketsKept

InboxesOK == \A i \in DOMAIN Line : Inbox(i) \in Seq(Packets)

LEMMA InboxTypes == QueuesTypeOK => InboxesOK
BY InboxType DEF InboxesOK

\* And what was in front of a packet still is.
LEMMA AheadPasses ==
  ASSUME QueuesTypeOK, QueuesTypeOK', NEW i0 \in DOMAIN Line, Inbox(i0) # <<>>, Passes(i0, TRUE),
         NEW j \in DOMAIN Line, NEW i \in 1 .. j, NEW k \in DOMAIN (Inbox(i)')
  PROVE  \E i1 \in 1 .. j : \E k1 \in DOMAIN Inbox(i1) :
           /\ Inbox(i1)[k1] = Inbox(i)'[k]
           /\ \A d : Ahead(i1, k1, j, d) =>
                Ahead(i, k, j, d)' \/ (j = i0 /\ d = Event(Head(Inbox(i0))))
<1>1. /\ 1 .. j \subseteq DOMAIN Line /\ i0 \in Nat /\ j \in Nat /\ i \in Nat
      /\ \A g \in DOMAIN Line : g \in Nat
  BY LineType
<1>2. \A g \in 1 .. j : \A l \in DOMAIN Inbox(g) : l \in Nat /\ l >= 1 /\ l <= Len(Inbox(g))
  BY <1>1, InboxType
<1>3. k \in Nat /\ k >= 1
  <2>1. (QueuesTypeOK => InboxesOK)'
    BY InboxTypes, PTL
  <2>2. i \in DOMAIN Line
    BY <1>1
  <2>3. Inbox(i)' \in Seq(Packets)
    BY <2>1, <2>2 DEF InboxesOK
  <2> QED
    BY <2>3
<1> PICK e : e = Event(Head(Inbox(i0)))
  OBVIOUS
<1>4. ASSUME NEW i1 \in 1 .. j, NEW k1 \in DOMAIN Inbox(i1), NEW d, Ahead(i1, k1, j, d),
             \/ i = i0 /\ i1 = i0 /\ k1 = k + 1
             \/ i = i0 + 1 /\ k = Len(Inbox(i)) + 1 /\ i1 = i0 /\ k1 = 1
             \/ i # i0 /\ i1 = i /\ k1 = k
      PROVE  Ahead(i, k, j, d)' \/ (j = i0 /\ d = e)
  <2>1. PICK h \in i1 .. j : \E l \in DOMAIN Inbox(h) :
               InFront(h, l, i1, k1) /\ Event(Inbox(h)[l]) = d
    BY <1>4 DEF Ahead
  <2>2. PICK l \in DOMAIN Inbox(h) : InFront(h, l, i1, k1) /\ Event(Inbox(h)[l]) = d
    BY <2>1
  <2>3. h \in Nat /\ h \in 1 .. j /\ i1 \in Nat /\ h >= i1
    BY <1>1
  <2>4. l \in Nat /\ l >= 1 /\ l <= Len(Inbox(h)) /\ k1 \in Nat
    BY <1>2, <2>3
  <2>5. CASE h = i0 /\ l > 1 /\ l - 1 \in DOMAIN (Inbox(i0)') /\ Inbox(i0)'[l - 1] = Inbox(h)[l]
    <3>1. h \in i .. j /\ InFront(h, l - 1, i, k)
      BY <1>1, <1>3, <1>4, <2>2, <2>3, <2>4, <2>5 DEF InFront
    <3> QED
      BY <2>2, <2>5, <3>1 DEF Ahead
  <2>6. CASE h = i0 /\ l = 1 /\ Inbox(h)[l] = Head(Inbox(i0))
    <3>1. CASE j = i0
      BY <2>2, <2>6, <3>1
    <3>2. CASE j # i0
      <4>1. i0 + 1 \in 1 .. j
        BY <1>1, <2>3, <2>6, <3>2
      <4>2. PICK n : n = Len(Inbox(i0 + 1)) + 1
        OBVIOUS
      <4>3. n \in DOMAIN (Inbox(i0 + 1)') /\ Inbox(i0 + 1)'[n] = Head(Inbox(i0))
        BY <1>1, <4>1, <4>2, PacketPassed
      <4>4. i0 + 1 \in i .. j /\ i0 + 1 > i
        BY <1>1, <1>3, <1>4, <2>2, <2>3, <2>4, <2>6, <4>1 DEF InFront
      <4>5. InFront(i0 + 1, n, i, k)
        BY <4>4 DEF InFront
      <4> QED
        BY <2>2, <2>6, <4>3, <4>4, <4>5 DEF Ahead
    <3> QED
      BY <3>1, <3>2
  <2>7. CASE h # i0 /\ l \in DOMAIN (Inbox(h)') /\ Inbox(h)'[l] = Inbox(h)[l]
    <3>1. h \in i .. j
      BY <1>1, <1>4, <2>3, <2>7
    <3>2. InFront(h, l, i, k)
      BY <1>1, <1>3, <1>4, <2>2, <2>3, <2>4, <2>7 DEF InFront
    <3> QED
      BY <2>2, <2>7, <3>1, <3>2 DEF Ahead
  <2> QED
    BY ZenonT(60), <1>1, <2>3, <2>5, <2>6, <2>7, PacketsKept
<1>5. CASE i = i0 /\ k + 1 \in DOMAIN Inbox(i0) /\ Inbox(i)'[k] = Inbox(i0)[k + 1]
  BY <1>4, <1>5
<1>6. CASE i = i0 + 1 /\ k = Len(Inbox(i)) + 1 /\ Inbox(i)'[k] = Head(Inbox(i0))
  <2>1. i0 \in 1 .. j /\ i0 # i
    BY <1>1, <1>6
  <2>2. 1 \in DOMAIN Inbox(i0) /\ Inbox(i0)[1] = Head(Inbox(i0))
    <3>1. Inbox(i0) \in Seq(Packets)
      BY InboxType
    <3> QED
      BY <3>1
  <2> QED
    BY <1>4, <1>6, <2>1, <2>2
<1>7. CASE i # i0 /\ k \in DOMAIN Inbox(i) /\ Inbox(i)'[k] = Inbox(i)[k]
  BY <1>4, <1>7
<1>8. \/ i = i0 /\ k + 1 \in DOMAIN Inbox(i0) /\ Inbox(i)'[k] = Inbox(i0)[k + 1]
      \/ i = i0 + 1 /\ k = Len(Inbox(i)) + 1 /\ Inbox(i)'[k] = Head(Inbox(i0))
      \/ i # i0 /\ k \in DOMAIN Inbox(i) /\ Inbox(i)'[k] = Inbox(i)[k]
  <2>1. i \in DOMAIN Line /\ TRUE \in BOOLEAN
    BY <1>1
  <2> QED
    BY ZenonT(60), <2>1, PassedPackets
<1> QED
  BY <1>5, <1>6, <1>7, <1>8

\* A node takes a packet, which gives the older ones what it brings.
LEMMA KeptPasses ==
  ASSUME QueuesTypeOK, QueuesTypeOK', InSequence, NodesKeep, host'.file = host.file,
         NEW i0 \in DOMAIN Line, Inbox(i0) # <<>>, Passes(i0, TRUE),
         Older(Line[i0]) => Arrived(nodes'[Line[i0]], Event(Head(Inbox(i0))))
  PROVE  StreamKept
<1> PICK e : e = Event(Head(Inbox(i0)))
  OBVIOUS
<1>1. \A j \in DOMAIN Line : Line[j] \in Nodes
  BY LineType
<1>2. ASSUME NEW j \in DOMAIN Line, Older(Line[j]), NEW d \in Events, Arrived(nodes[Line[j]], d)
      PROVE  Arrived(nodes[Line[j]], d)'
  BY <1>1, <1>2 DEF NodesKeep, Arrived
<1>3. Older(Line[i0]) => Arrived(nodes[Line[i0]], e)'
  BY DEF Arrived
<1>4. InSequence'
  <2> SUFFICES ASSUME NEW j \in DOMAIN Line, Older(Line[j]), NEW i \in 1 .. j,
                      NEW k \in DOMAIN (Inbox(i)'), NEW d \in Events,
                      Needs(Event(Inbox(i)[k]), d)'
               PROVE  (Arrived(nodes[Line[j]], d) \/ Ahead(i, k, j, d))'
    BY DEF InSequence
  <2>1. PICK i1 \in 1 .. j : \E k1 \in DOMAIN Inbox(i1) :
           /\ Inbox(i1)[k1] = Inbox(i)'[k]
           /\ \A f : Ahead(i1, k1, j, f) =>
                Ahead(i, k, j, f)' \/ (j = i0 /\ f = Event(Head(Inbox(i0))))
    BY AheadPasses, Zenon
  <2>2. PICK k1 \in DOMAIN Inbox(i1) :
           /\ Inbox(i1)[k1] = Inbox(i)'[k]
           /\ \A f : Ahead(i1, k1, j, f) =>
                Ahead(i, k, j, f)' \/ (j = i0 /\ f = Event(Head(Inbox(i0))))
    BY <2>1, Zenon
  <2>3. Needs(Event(Inbox(i1)[k1]), d)
    BY <2>2, NeedsStay DEF Needs
  <2>4. Arrived(nodes[Line[j]], d) \/ Ahead(i1, k1, j, d)
    BY <2>3 DEF InSequence
  <2> QED
    BY <1>2, <1>3, <2>2, <2>4
<1>5. ASSUME NEW d \in Events, Sent(d)
      PROVE  Sent(d)'
  <2> SUFFICES ASSUME NEW j \in DOMAIN Line, Older(Line[j])
               PROVE  (Arrived(nodes[Line[j]], d) \/ Coming(j, d))'
    BY DEF Sent
  <2>1. Arrived(nodes[Line[j]], d) \/ Coming(j, d)
    BY <1>5 DEF Sent
  <2>2. Coming(j, d) => Coming(j, d)' \/ (j = i0 /\ d = e)
    BY ComingPasses
  <2> QED
    BY <1>2, <1>3, <2>1, <2>2
<1> QED
  BY <1>4, <1>5 DEF StreamKept

-----------------------------------------------------------------------------
(* A node takes the packet at the head of its queue. *)

\* What a handler never changes, or only so.
HandledLeaves(m, pkt, r) ==
  /\ r.running_sec_ver = m.running_sec_ver
  /\ \/ r.last_crc_committed_page_offset \in {m.last_crc_committed_page_offset, NoPage}
     \/ pkt.type = "PAGE_END" /\ r.last_crc_committed_page_offset = pkt.page
  /\ pkt.type = "START" => r.report_to_send = m.report_to_send

LEMMA HandledKeeps ==
  ASSUME NEW m \in Node, SlotOk(m), NEW pkt \in Packets, NEW leaf \in BOOLEAN
  PROVE  HandledLeaves(m, pkt, Handled(m, pkt, leaf))
<1> PICK r : r = Handled(m, pkt, leaf)
  OBVIOUS
<1>1. CASE pkt \in StartPkts
  <2>1. pkt.type = "START" /\ r = OnStart(m, pkt, TRUE)
    BY <1>1 DEF StartPkts, Handled
  <2>2. r.last_crc_committed_page_offset = NoPage
    <3>1. OnStart(m, pkt, TRUE).last_crc_committed_page_offset = NoPage
      BY <1>1, OnStartEffect
    <3> QED
      BY <2>1, <3>1
  <2>3. r.running_sec_ver = m.running_sec_ver /\ r.report_to_send = m.report_to_send
    BY <1>1, <2>1, OnStartWrites
  <2> QED
    BY <2>1, <2>2, <2>3 DEF HandledLeaves
<1>2. CASE pkt \in DataPkts
  <2>1. pkt.type = "DATA" /\ r = OnData(m, pkt, TRUE, TRUE, TRUE)
    BY <1>2 DEF DataPkts, Handled
  <2>2. SameSession(r, m)
    BY <1>2, <2>1, OnDataType
  <2>3. r.running_sec_ver = m.running_sec_ver
    <3>1. r = m \/ (m.ota_session_active /\ WritesOnly(r, m, m.ota_target_slot))
      BY <1>2, <2>1, OnDataWrites
    <3> QED
      BY <3>1 DEF WritesOnly
  <2> QED
    BY <2>1, <2>2, <2>3 DEF HandledLeaves, SameSession
<1>3. CASE pkt \in PageEndPkts
  <2>1. pkt.type = "PAGE_END" /\ r = OnPageEnd(m, pkt, TRUE) /\ pkt.page \in Page
    BY <1>3 DEF PageEndPkts, Handled
  <2>2. r.running_sec_ver = m.running_sec_ver
    BY <1>3, <2>1, OnPageEndWrites DEF WritesNothing
  <2>3. \/ SameReception(r, m)
        \/ /\ InSession(m, pkt) /\ m.current_rx_page_offset = pkt.page
           /\ SameReception(r, Commit(m))
    BY <1>3, <2>1, OnPageEndEffect
  <2>4. CASE SameReception(r, m)
    BY <2>1, <2>2, <2>4 DEF HandledLeaves, SameReception, SameSession
  <2>5. CASE /\ InSession(m, pkt) /\ m.current_rx_page_offset = pkt.page
             /\ SameReception(r, Commit(m))
    <3>1. m.ota_target_slot \in Slots /\ m.current_rx_page_offset \in Page
      BY <2>1, <2>5 DEF InSession, SlotOk
    <3>2. Commit(m).last_crc_committed_page_offset \in
            {m.last_crc_committed_page_offset, m.current_rx_page_offset}
      BY <3>1, CommitEffect
    <3>3. r.last_crc_committed_page_offset = Commit(m).last_crc_committed_page_offset
      BY <2>5 DEF SameReception, SameSession
    <3> QED
      BY <2>1, <2>2, <2>5, <3>2, <3>3 DEF HandledLeaves
  <2> QED
    BY <2>3, <2>4, <2>5
<1>4. CASE pkt \in VerifyPkts
  <2>1. pkt.type = "VERIFY" /\ r = OnVerify(m, pkt, "ok", leaf)
    BY <1>4 DEF VerifyPkts, Handled
  <2>2. r.last_crc_committed_page_offset = m.last_crc_committed_page_offset
    <3>1. OnVerify(m, pkt, "ok", leaf).last_crc_committed_page_offset
            = m.last_crc_committed_page_offset
      BY <1>4, OnVerifyEffect
    <3> QED
      BY <2>1, <3>1
  <2>3. r.running_sec_ver = m.running_sec_ver
    BY <1>4, <2>1, OnVerifyWrites DEF WritesNothing
  <2> QED
    BY <2>1, <2>2, <2>3 DEF HandledLeaves
<1> QED
  BY <1>1, <1>2, <1>3, <1>4 DEF Packets

LEMMA HeadTaken ==
  ASSUME TransferInv, DeliveryInv, lost = 0, Suited,
         NEW i \in DOMAIN Line, Inbox(i) # <<>>, Older(Line[i]),
         NEW m, m = nodes[Line[i]], NEW pkt, pkt = Head(Inbox(i))
  PROVE  /\ Takes(m, pkt, Handled(m, pkt, i = Len(Line)))
         /\ pkt.type = "START" => StartStatus(m, pkt, TRUE) = "ACCEPTED"
<1>1. /\ StreamInOrder /\ NodesInv /\ Base /\ SystemTypeOK
  BY InvParts DEF TransferInv
<1>2. Line[i] \in Nodes /\ i \in Nat /\ i \in 1 .. i /\ 1 .. i \subseteq DOMAIN Line
  BY LineType
<1>3. m \in Node /\ SlotOk(m) /\ KeepsPages(m)
  <2>1. NodeKeepsPages(Line[i])
    BY <1>1, <1>2 DEF NodesInv
  <2> QED
    BY <1>1, <1>2, <2>1, NodeFacts DEF NodeKeepsPages, KeepsPages, Holds, PageStored,
       LastCommitted, CommittedToLast
<1>4. pkt \in Packets /\ 1 \in DOMAIN Inbox(i) /\ Inbox(i)[1] = pkt
  BY <1>1, InboxType DEF SystemTypeOK
<1>5. OfStream(pkt)
  BY <1>1, <1>4 DEF StreamInOrder
<1>6. ASSUME pkt.type # "VERIFY"
      PROVE  OfHost(m, FALSE)
  <2>1. ~AfterVerify(i)
    BY <1>2, <1>4, <1>6 DEF AfterVerify, OnlyVerify
  <2> QED
    BY <1>1, <2>1 DEF NodesInv, NodeInSession, OfHost
<1>7. NodeDelivers(m) /\ m.running_sec_ver = RunningSecVer[Line[i]]
  <2>1. Line[i] \in ToSet(Line)
    BY DEF ToSet
  <2> QED
    BY <1>2, <2>1 DEF DeliveryInv
<1>8. HasNeeds(m, pkt)
  <2> SUFFICES ASSUME NEW d \in Events, Needs(Event(pkt), d)
               PROVE  Arrived(m, d)
    BY DEF HasNeeds
  <2>1. Arrived(m, d) \/ Ahead(i, 1, i, d)
    BY <1>2, <1>4 DEF DeliveryInv, InSequence
  <2>2. ~Ahead(i, 1, i, d)
    <3>1. \A h \in i .. i : \A l \in DOMAIN Inbox(h) : ~InFront(h, l, i, 1)
      <4>1. \A h \in i .. i : h = i
        BY <1>2
      <4>2. \A l \in DOMAIN Inbox(i) : l \in Nat /\ l >= 1
        BY <1>1, InboxType DEF SystemTypeOK
      <4> QED
        BY <1>2, <4>1, <4>2 DEF InFront
    <3> QED
      BY <3>1 DEF Ahead
  <2> QED
    BY <2>1, <2>2
<1>9. CASE pkt \in StartPkts
  <2>1. pkt.type = "START"
    BY <1>9 DEF StartPkts
  <2>2. Handled(m, pkt, i = Len(Line)) = OnStart(m, pkt, TRUE)
    BY <2>1 DEF Handled
  <2>3. Rebooted(Line[i])
    <3>1. \A j \in DOMAIN Line : j >= i => Fresh(Line[j])
      BY <1>1, <1>4, <2>1 DEF StreamInOrder
    <3>2. i >= i
      BY <1>2
    <3> QED
      BY <3>1, <3>2 DEF Fresh
  <2>4. pkt.sec_ver \in SecVers
    BY <1>4, <2>1 DEF DeliveryInv, Declared
  <2> QED
    BY <1>1, <1>2, <1>5, <1>9, <2>2, <2>3, <2>4, StartTaken
<1>10. CASE pkt \in DataPkts
  <2>1. pkt.type = "DATA"
    BY <1>10 DEF DataPkts
  <2>2. Handled(m, pkt, i = Len(Line)) = OnData(m, pkt, TRUE, TRUE, TRUE)
    BY <2>1 DEF Handled
  <2> QED
    BY <1>1, <1>3, <1>5, <1>6, <1>7, <1>8, <1>10, <2>1, <2>2, DataTaken
<1>11. CASE pkt \in PageEndPkts
  <2>1. pkt.type = "PAGE_END"
    BY <1>11 DEF PageEndPkts
  <2>2. Handled(m, pkt, i = Len(Line)) = OnPageEnd(m, pkt, TRUE)
    BY <2>1 DEF Handled
  <2> QED
    BY <1>1, <1>3, <1>5, <1>6, <1>7, <1>8, <1>11, <2>1, <2>2, PageEndTaken
<1>12. CASE pkt \in VerifyPkts
  <2>1. pkt.type = "VERIFY"
    BY <1>12 DEF VerifyPkts
  <2>2. Handled(m, pkt, i = Len(Line)) = OnVerify(m, pkt, "ok", i = Len(Line))
    BY <2>1 DEF Handled
  <2>3. OfHost(m, TRUE)
    BY <1>1 DEF NodesInv, NodeInSession, OfHost
  <2>4. (i = Len(Line)) \in BOOLEAN
    OBVIOUS
  <2> QED
    BY <1>1, <1>2, <1>3, <1>5, <1>7, <1>8, <1>12, <2>1, <2>2, <2>3, <2>4, VerifyTaken
<1> QED
  BY <1>4, <1>9, <1>10, <1>11, <1>12 DEF Packets

-----------------------------------------------------------------------------
(* What was sent stays sent. *)

LEMMA SentStays ==
  ASSUME StreamSent, StreamKept, \A d \in Events : Due(d)' => Due(d) \/ Sent(d)'
  PROVE  StreamSent'
BY DEF StreamSent, StreamKept

-----------------------------------------------------------------------------
(* A node receives a packet. *)

\* Every packet was in a queue before.
LEMMA PassedFrom ==
  ASSUME QueuesTypeOK, NEW i \in DOMAIN Line, NEW forwarded \in BOOLEAN,
         Inbox(i) # <<>>, Passes(i, forwarded),
         NEW j \in DOMAIN Line, NEW k \in DOMAIN (Inbox(j)')
  PROVE  \E h \in DOMAIN Line : \E l \in DOMAIN Inbox(h) : Inbox(j)'[k] = Inbox(h)[l]
<1>1. 1 \in DOMAIN Inbox(i) /\ Inbox(i)[1] = Head(Inbox(i))
  <2>1. Inbox(i) \in Seq(Packets)
    BY InboxType
  <2> QED
    BY <2>1
<1> QED
  BY <1>1, PassedPackets

\* What the queues hold of the invariant, whether or not something was lost.
QueuedWell ==
  /\ Declared
  /\ pc \in {"idle", "chunk"} =>
       \A i \in DOMAIN Line : \A k \in DOMAIN Inbox(i) :
         Inbox(i)[k].type = "PAGE_END" => Inbox(i)[k].page < page_start_offset

LEMMA QueuedPasses ==
  ASSUME QueuesTypeOK, QueuedWell, NEW i \in DOMAIN Line, NEW forwarded \in BOOLEAN,
         Inbox(i) # <<>>, Passes(i, forwarded), UNCHANGED <<pc, page_start_offset>>
  PROVE  QueuedWell'
<1>1. ASSUME NEW j \in DOMAIN Line, NEW k \in DOMAIN (Inbox(j)')
      PROVE  \E h \in DOMAIN Line : \E l \in DOMAIN Inbox(h) : Inbox(j)'[k] = Inbox(h)[l]
  BY PassedFrom
<1>2. Declared'
  BY <1>1 DEF QueuedWell, Declared
<1>3. pc' \in {"idle", "chunk"} =>
        \A j \in DOMAIN Line : \A k \in DOMAIN (Inbox(j)') :
          Inbox(j)'[k].type = "PAGE_END" => Inbox(j)'[k].page < page_start_offset'
  BY <1>1 DEF QueuedWell
<1> QED
  BY <1>2, <1>3 DEF QueuedWell

\* The session is what fits of the line.
LEMMA SessionOfLine ==
  /\ DOMAIN PopulateSessionNodes(Line) \subseteq DOMAIN Line
  /\ DOMAIN PopulateSessionNodes(Line) \subseteq Index
  /\ \A j \in DOMAIN PopulateSessionNodes(Line) : PopulateSessionNodes(Line)[j] = Line[j]
  /\ \A j \in DOMAIN Line : j <= MAX_NODES => j \in DOMAIN PopulateSessionNodes(Line)
<1>1. PICK n \in Nat : n = Len(Line)
  BY LineAssumption
<1>2. Line \in Seq(Nodes) /\ DOMAIN Line = 1 .. n /\ MAX_NODES \in Nat
  BY <1>1, LineAssumption, CoordinatorAssumption
<1>3. \A k \in Nat : k <= MAX_NODES => 1 .. k \subseteq Index
  BY <1>2 DEF Index
<1>4. CASE n < MAX_NODES
  <2>1. PopulateSessionNodes(Line) = SubSeq(Line, 1, n)
    BY <1>1, <1>4 DEF PopulateSessionNodes
  <2>2. SubSeq(Line, 1, n) = Line
    BY <1>1, <1>2
  <2> QED
    BY <1>2, <1>4, <1>3, <2>1, <2>2
<1>5. CASE ~(n < MAX_NODES)
  <2>1. PopulateSessionNodes(Line) = SubSeq(Line, 1, MAX_NODES)
    BY <1>1, <1>5 DEF PopulateSessionNodes
  <2>2. /\ DOMAIN SubSeq(Line, 1, MAX_NODES) = 1 .. MAX_NODES
        /\ \A j \in 1 .. MAX_NODES : SubSeq(Line, 1, MAX_NODES)[j] = Line[j]
    BY <1>2, <1>5
  <2> QED
    BY <1>2, <1>5, <1>3, <2>1, <2>2
<1> QED
  BY <1>4, <1>5

\* While nodes are admitted, a node that takes the START reports.
LEMMA ReceiveAdmits ==
  ASSUME TransferInv, QueuesTypeOK, OlderAdmitted,
         NEW i \in DOMAIN Line, Inbox(i) # <<>>, Passes(i, TRUE),
         NEW pkt \in Packets, pkt = Head(Inbox(i)),
         Older(Line[i]) /\ pkt.type = "START"
           => StartStatus(nodes[Line[i]], pkt, TRUE) = "ACCEPTED",
         pkt.type = "START"
           => nodes'[Line[i]].report_to_send = nodes[Line[i]].report_to_send,
         \A node \in Nodes \ {Line[i]} : nodes'[node] = nodes[node],
         reports' = IF pkt.type = "START" THEN reports \cup {StartReportOf(Line[i], pkt)}
                    ELSE reports,
         UNCHANGED <<host, uart, session_nodes, node_replied, session_start_accepted,
                     start_admission_in_progress>>
  PROVE  OlderAdmitted'
<1> PICK q : q = StartReportOf(Line[i], pkt)
  OBVIOUS
<1>1. /\ q.type = "START_REPORT" /\ q.node = Line[i]
      /\ Older(Line[i]) /\ pkt.type = "START" => q.accepted
  BY DEF StartReportOf
<1>2. \A s \in reports' : s \in reports \/ (pkt.type = "START" /\ s = q)
  OBVIOUS
<1>3. \A s \in reports' : s.type = "START_REPORT" /\ Older(s.node) => s.accepted
  BY <1>1, <1>2 DEF OlderAdmitted
<1>4. Line[i] \in Nodes
  BY LineType
<1>5. 1 \in DOMAIN Inbox(i) /\ Inbox(i)[1] = pkt
  BY InboxType
<1>6. ASSUME start_admission_in_progress'
      PROVE  /\ StartOnly' /\ session_nodes' = PopulateSessionNodes(Line)
             /\ \A j \in DOMAIN (session_nodes') :
                  Older(session_nodes'[j]) => HeardOrComing(j)'
  <2>1. /\ StartOnly /\ session_nodes = PopulateSessionNodes(Line)
        /\ \A j \in DOMAIN session_nodes : Older(session_nodes[j]) => HeardOrComing(j)
    BY <1>6 DEF OlderAdmitted
  <2>2. pkt.type = "START"
    BY <1>5, <2>1 DEF StartOnly
  <2>3. StartOnly'
    <3>1. ASSUME NEW j \in DOMAIN Line, NEW k \in DOMAIN (Inbox(j)')
          PROVE  Inbox(j)'[k].type = "START"
      <4>1. \E h \in DOMAIN Line : \E l \in DOMAIN Inbox(h) : Inbox(j)'[k] = Inbox(h)[l]
        BY PassedFrom
      <4> QED
        BY <2>1, <4>1 DEF StartOnly
    <3>2. \A node \in Nodes : nodes'[node].report_to_send = NoReport
      BY <1>4, <2>1, <2>2 DEF StartOnly
    <3>3. \A s \in reports' : s.type = "START_REPORT"
      BY <1>1, <1>2, <2>1 DEF StartOnly
    <3> QED
      BY <3>1, <3>2, <3>3 DEF StartOnly
  <2>4. ASSUME NEW j \in DOMAIN session_nodes, Older(session_nodes[j])
        PROVE  HeardOrComing(j)'
    <3>1. j \in DOMAIN Line /\ session_nodes[j] = Line[j]
      BY <2>1, SessionOfLine
    <3>2. HeardOrComing(j)
      BY <2>1, <2>4
    <3>3. CASE Coming(j, Started)
      <4>1. Coming(j, Started)' \/ j = i
        BY <3>1, <3>3, ComingPasses
      <4>2. q \in reports'
        BY <2>2
      <4>3. j = i => \E s \in reports' : s.node = session_nodes'[j]
        BY <1>1, <3>1, <4>2
      <4>4. Coming(j, Started)' \/ \E s \in reports' : s.node = session_nodes'[j]
        BY <4>1, <4>3
      <4> QED
        BY <3>2, <4>4 DEF HeardOrComing
    <3>4. CASE \E s \in reports : s.node = session_nodes[j]
      BY <1>2, <3>2, <3>4 DEF HeardOrComing
    <3>5. CASE node_replied[j] /\ session_start_accepted[j]
      BY <3>5 DEF HeardOrComing
    <3> QED
      BY <3>2, <3>3, <3>4, <3>5 DEF HeardOrComing
  <2> QED
    BY <2>1, <2>3, <2>4
<1>7. host'.at = "start" /\ "NO_TARGETS" \in ToSet(uart') =>
        \A j \in DOMAIN Line : ~Older(Line[j])
  BY DEF OlderAdmitted
<1> QED
  BY <1>3, <1>6, <1>7 DEF OlderAdmitted

LEMMA ReceiveDelivers ==
  ASSUME Delivers, TransferInv, DeliveryInv, SystemTypeOK', NEW i \in DOMAIN Line, Receive(i)
  PROVE  DeliveryInv'
<1>1. /\ StreamInOrder /\ NodesInv /\ SystemTypeOK /\ Base /\ QueuesTypeOK /\ QueuesTypeOK'
      /\ CoordinatorTypeOK /\ LinkInv
  BY InvParts DEF TransferInv, SystemTypeOK, Base
<1> PICK n : n = Line[i]
  OBVIOUS
<1> PICK m : m = nodes[n]
  OBVIOUS
<1> PICK pkt : pkt = Head(Inbox(i))
  OBVIOUS
<1> PICK r : r = Handled(m, pkt, i = Len(Line))
  OBVIOUS
<1>2. /\ n \in Nodes /\ nodes \in [Nodes -> Node]
      /\ \A j \in DOMAIN Line : (j # i => Line[j] # n) /\ Line[j] \in Nodes
  BY <1>1, LineType DEF SystemTypeOK
<1>3. /\ Inbox(i) # <<>> /\ PassedOn(i, TRUE)
      /\ nodes' = [nodes EXCEPT ![n] = r]
      /\ reports' = IF pkt.type = "START" THEN reports \cup {StartReportOf(n, pkt)} ELSE reports
      /\ lost' = lost
  BY DEF Receive, Forwards
<1>4. nodes'[n] = r /\ \A node \in Nodes \ {n} : nodes'[node] = nodes[node]
  BY <1>2, <1>3
<1>5. /\ UNCHANGED <<host, uart, session_nodes, node_replied, session_start_accepted,
                     start_admission_in_progress, page_start_offset, pc, dist_chunk_idx,
                     total_chunks>>
  BY DEF Receive, hostAndCoordinatorVars, transferVars, processVars, senderVars, sessionVars
<1>6. Passes(i, TRUE)
  BY <1>1, <1>3, PassedOnPasses
<1>7. pkt \in Packets /\ 1 \in DOMAIN Inbox(i) /\ Inbox(i)[1] = pkt
  BY <1>1, <1>3, InboxType
<1>8. HandledLeaves(m, pkt, r)
  <2>1. m \in Node /\ SlotOk(m) /\ (i = Len(Line)) \in BOOLEAN
    BY <1>1, <1>2 DEF SystemTypeOK
  <2> QED
    BY <1>7, <2>1, HandledKeeps
<1>9. QueuedWell'
  <2>1. QueuedWell
    BY DEF DeliveryInv, NotEnded, Unasked, QueuedWell
  <2> QED
    BY <1>1, <1>3, <1>5, <1>6, <2>1, QueuedPasses
<1>10. NotEnded'
  <2> SUFFICES ASSUME pc' \in {"idle", "chunk"}, NEW node \in Nodes
               PROVE  LastCommitted(node)' < page_start_offset'
    BY <1>9 DEF NotEnded, Unasked, QueuedWell
  <2>1. LastCommitted(node) < page_start_offset /\ page_start_offset \in Nat
    BY <1>1, <1>5, FileFacts DEF DeliveryInv, NotEnded, Unasked
  <2>2. CASE node = n
    <3>1. pkt.type = "PAGE_END" => pkt.page < page_start_offset
      BY <1>5, <1>7 DEF DeliveryInv, NotEnded, Unasked
    <3>2. r.last_crc_committed_page_offset \in {m.last_crc_committed_page_offset, NoPage}
            \/ (pkt.type = "PAGE_END" /\ r.last_crc_committed_page_offset = pkt.page)
      BY <1>8 DEF HandledLeaves
    <3>3. r.last_crc_committed_page_offset < page_start_offset
      BY <2>1, <2>2, <3>1, <3>2 DEF NoPage, LastCommitted
    <3> QED
      BY <1>4, <1>5, <2>2, <3>3 DEF LastCommitted
  <2>3. CASE node # n
    BY <1>4, <1>5, <2>1, <2>3 DEF LastCommitted
  <2> QED
    BY <2>2, <2>3
<1>11. \A node \in Nodes : nodes'[node].running_sec_ver = RunningSecVer[node]
  BY <1>4, <1>8 DEF DeliveryInv, HandledLeaves
<1>12. ASSUME lost' = 0
       PROVE  InSequence' /\ StreamSent' /\ OlderAdmitted'
              /\ \A node \in ToSet(Line) : Older(node) => NodeDelivers(nodes[node])'
  <2>1. /\ lost = 0 /\ Suited /\ InSequence /\ StreamSent /\ OlderAdmitted
        /\ \A node \in ToSet(Line) : Older(node) => NodeDelivers(nodes[node])
    BY <1>3, <1>12 DEF Delivers, DeliveryInv
  <2>2. Older(n) => /\ Takes(m, pkt, r)
                    /\ pkt.type = "START" => StartStatus(m, pkt, TRUE) = "ACCEPTED"
    BY ZenonT(60), <1>3, <2>1, HeadTaken
  <2>3. NodesKeep
    BY <1>4, <2>2 DEF NodesKeep, Takes
  <2>4. StreamKept
    <3>1. Older(Line[i]) => Arrived(nodes'[Line[i]], Event(Head(Inbox(i))))
      BY <1>4, <2>2 DEF Takes
    <3> QED
      BY <1>1, <1>3, <1>5, <1>6, <2>1, <2>3, <3>1, KeptPasses
  <2>5. StreamSent'
    <3>1. \A d \in Events : Due(d)' => Due(d)
      BY <1>5 DEF Due, ChunksOut
    <3> QED
      BY <2>1, <2>4, <3>1, SentStays
  <2>6. ASSUME NEW node \in ToSet(Line), Older(node)
        PROVE  NodeDelivers(nodes[node])'
    <3>1. node \in Nodes /\ host' = host
      BY <1>2, <1>5 DEF ToSet
    <3>2. CASE node = n
      BY ZenonT(60), <1>4, <2>2, <2>6, <3>1, <3>2 DEF Takes, NodeDelivers
    <3>3. CASE node # n
      BY <1>4, <2>1, <2>6, <3>1, <3>3 DEF NodeDelivers
    <3> QED
      BY <3>2, <3>3
  <2>7. OlderAdmitted'
    <3>1. /\ Older(n) /\ pkt.type = "START" => StartStatus(nodes[n], pkt, TRUE) = "ACCEPTED"
          /\ pkt.type = "START" => nodes'[n].report_to_send = nodes[n].report_to_send
      BY <1>4, <1>8, <2>2 DEF HandledLeaves
    <3> QED
      BY <1>1, <1>3, <1>4, <1>5, <1>6, <1>7, <2>1, <3>1, ReceiveAdmits
  <2> QED
    BY <2>4, <2>5, <2>6, <2>7 DEF StreamKept
<1> QED
  BY <1>3, <1>9, <1>10, <1>11, <1>12 DEF DeliveryInv, QueuedWell

-----------------------------------------------------------------------------
(* The steps of the network that leave the coordinator alone. *)

\* What of the invariant depends on the nodes alone.
LEMMA NodesRest ==
  ASSUME DeliveryInv, nodes' = nodes, lost' = lost,
         host'.file = host.file, host'.target = host.target,
         NotEnded', Declared', lost = 0 => InSequence' /\ StreamSent' /\ OlderAdmitted'
  PROVE  DeliveryInv'
<1>1. \A node \in Nodes : nodes'[node].running_sec_ver = RunningSecVer[node]
  BY DEF DeliveryInv
<1>2. lost' = 0 => \A node \in ToSet(Line) : Older(node) => NodeDelivers(nodes[node])'
  BY DEF DeliveryInv, NodeDelivers
<1> QED
  BY <1>1, <1>2 DEF DeliveryInv

\* Nothing changed in the queues or at the nodes.
LEMMA QueuesRest ==
  ASSUME DeliveryInv, UNCHANGED <<line, hop, nodes>>, host'.file = host.file
  PROVE  /\ NodesKeep /\ Declared'
         /\ (\A node \in Nodes : LastCommitted(node)' = LastCommitted(node))
         /\ (\A i \in DOMAIN Line : Inbox(i)' = Inbox(i))
         /\ lost = 0 => StreamKept
<1>1. NodesKeep
  BY DEF NodesKeep
<1>2. \A i \in DOMAIN Line : Inbox(i)' = Inbox(i)
  BY DEF Inbox
<1>3. Declared'
  BY <1>2 DEF DeliveryInv, Declared
<1>4. lost = 0 => StreamKept
  BY <1>1, KeptSame DEF DeliveryInv
<1> QED
  BY <1>1, <1>2, <1>3, <1>4 DEF LastCommitted

LEMMA SendReportDelivers ==
  ASSUME TransferInv, DeliveryInv, NEW n \in Nodes, SendReport(n)
  PROVE  DeliveryInv'
<1>1. SystemTypeOK /\ Base
  BY DEF TransferInv
<1> PICK m : m = nodes[n]
  OBVIOUS
<1> PICK r : r = ReportSent(m)
  OBVIOUS
<1>2. /\ m.report_to_send # NoReport
      /\ nodes' = [nodes EXCEPT ![n] = r]
      /\ reports' = reports \cup {BitmapReportOf(n, m.report_to_send)}
      /\ UNCHANGED <<line, hop, lost>>
  BY DEF SendReport
<1>3. nodes'[n] = r /\ \A node \in Nodes \ {n} : nodes'[node] = nodes[node]
  BY <1>1, <1>2 DEF SystemTypeOK
<1>4. UNCHANGED <<host, uart, session_nodes, node_replied, session_start_accepted,
                  start_admission_in_progress, page_start_offset, pc, dist_chunk_idx,
                  total_chunks>>
  BY DEF SendReport, hostAndCoordinatorVars, transferVars, processVars, senderVars, sessionVars
<1>5. /\ SameReception(r, m) /\ r.page_bitmap = m.page_bitmap
      /\ r.running_sec_ver = m.running_sec_ver
  <2>1. m \in Node
    BY <1>1, NodeFacts
  <2>2. SameReception(r, m)
    BY <2>1, TimersEffect
  <2> QED
    BY <2>1, <2>2 DEF ReportSent, Node
<1>6. NodesKeep
  BY <1>3, <1>5 DEF NodesKeep, Arrived, SameReception, SameSession
<1>7. \A i \in DOMAIN Line : Inbox(i)' = Inbox(i)
  BY <1>2 DEF Inbox
<1>8. Declared'
  BY <1>7 DEF DeliveryInv, Declared
<1>9. NotEnded'
  <2>1. \A node \in Nodes : LastCommitted(node)' = LastCommitted(node)
    BY <1>3, <1>5 DEF LastCommitted, SameReception, SameSession
  <2> QED
    BY <1>4, <1>7, <2>1 DEF DeliveryInv, NotEnded, Unasked
<1>10. \A node \in Nodes : nodes'[node].running_sec_ver = RunningSecVer[node]
  BY <1>3, <1>5 DEF DeliveryInv
<1>11. ASSUME lost' = 0
       PROVE  InSequence' /\ StreamSent' /\ OlderAdmitted'
              /\ \A node \in ToSet(Line) : Older(node) => NodeDelivers(nodes[node])'
  <2>1. /\ InSequence /\ StreamSent /\ OlderAdmitted
        /\ \A node \in ToSet(Line) : Older(node) => NodeDelivers(nodes[node])
    BY <1>2, <1>11 DEF DeliveryInv
  <2>2. StreamKept
    BY <1>2, <1>4, <1>6, <2>1, KeptSame
  <2>3. StreamSent'
    <3>1. \A d \in Events : Due(d)' => Due(d)
      BY <1>4 DEF Due, ChunksOut
    <3> QED
      BY <2>1, <2>2, <3>1, SentStays
  <2>4. OlderAdmitted'
    <3>1. ~start_admission_in_progress
      BY <1>2, <2>1 DEF OlderAdmitted, StartOnly
    <3>2. \A q \in reports' : q \in reports \/ q.type = "BITMAP_REPORT"
      BY <1>2 DEF BitmapReportOf
    <3>3. \A q \in reports' : q.type = "START_REPORT" /\ Older(q.node) => q.accepted
      BY <2>1, <3>2 DEF OlderAdmitted
    <3> QED
      BY <1>4, <2>1, <3>1, <3>3 DEF OlderAdmitted
  <2>5. \A node \in ToSet(Line) : Older(node) => NodeDelivers(nodes[node])'
    <3> SUFFICES ASSUME NEW node \in ToSet(Line), Older(node)
                 PROVE  NodeDelivers(nodes[node])'
      OBVIOUS
    <3>1. node \in Nodes /\ host' = host /\ NodeDelivers(nodes[node])
      BY <1>4, <2>1, LineType DEF ToSet
    <3>2. CASE node = n
      <4>1. /\ r.ota_session_active = m.ota_session_active /\ r.flash = m.flash
            /\ r.current_rx_page_offset = m.current_rx_page_offset
            /\ r.last_crc_committed_page_offset = m.last_crc_committed_page_offset
            /\ r.running_fw_crc = m.running_fw_crc
        BY <1>5 DEF SameReception, SameSession
      <4>2. NodeDelivers(m)
        BY <3>1, <3>2
      <4>3. NodeDelivers(r)
        BY ZenonT(60), <1>5, <4>1, <4>2 DEF NodeDelivers
      <4>4. nodes'[node] = r /\ host' = host
        BY <1>3, <3>1, <3>2
      <4> QED
        BY <4>3, <4>4 DEF NodeDelivers
    <3>3. CASE node # n
      BY <1>3, <3>1, <3>3 DEF NodeDelivers
    <3> QED
      BY <3>2, <3>3
  <2> QED
    BY <2>2, <2>3, <2>4, <2>5 DEF StreamKept
<1> QED
  BY <1>2, <1>8, <1>9, <1>10, <1>11 DEF DeliveryInv

\* Nothing is claimed of a transfer that loses something.
LEMMA NetworkLosesDelivers ==
  ASSUME TransferInv, DeliveryInv, NetworkLoses
  PROVE  DeliveryInv'
<1>1. QueuesTypeOK
  BY DEF TransferInv, SystemTypeOK
<1>2. UNCHANGED <<nodes, pc, page_start_offset>>
  BY DEF NetworkLoses, Losses, LosePacket, LoseReport, hostAndCoordinatorVars, transferVars,
     processVars
<1>3. lost' \in Nat /\ lost' # 0
  <2>1. Fault
    BY DEF NetworkLoses, Losses, LosePacket, LoseReport
  <2>2. lost \in Nat
    BY DEF DeliveryInv
  <2> QED
    BY <2>1, <2>2 DEF Fault
<1>4. QueuedWell
  BY DEF DeliveryInv, NotEnded, Unasked, QueuedWell
<1>5. QueuedWell'
  <2>1. ASSUME NEW i \in DOMAIN Line, LosePacket(i)
        PROVE  QueuedWell'
    <3>1. Inbox(i) # <<>> /\ Passes(i, FALSE)
      BY <1>1, <2>1, PassedOnPasses DEF LosePacket
    <3> QED
      BY <1>1, <1>2, <1>4, <3>1, QueuedPasses
  <2>2. ASSUME NEW r \in reports, LoseReport(r)
        PROVE  QueuedWell'
    <3>1. \A i \in DOMAIN Line : Inbox(i)' = Inbox(i)
      BY <2>2 DEF LoseReport, Inbox
    <3> QED
      BY <1>2, <1>4, <3>1 DEF QueuedWell, Declared
  <2> QED
    BY <2>1, <2>2 DEF NetworkLoses, Losses
<1>6. NotEnded'
  BY <1>2, <1>5 DEF DeliveryInv, NotEnded, Unasked, QueuedWell, LastCommitted
<1>7. \A node \in Nodes : nodes'[node].running_sec_ver = RunningSecVer[node]
  BY <1>2 DEF DeliveryInv
<1> QED
  BY <1>3, <1>5, <1>6, <1>7 DEF DeliveryInv, QueuedWell

-----------------------------------------------------------------------------
(* Admission ends, or a report is counted. *)

\* The older nodes that were heard stay in the session: the host is told of no targets
\* only if there is none.
LEMMA FinishDelivers ==
  ASSUME TransferInv, DeliveryInv, OlderInSession, start_admission_in_progress,
         NEW replied, NEW accepted, FinishStartAdmission(replied, accepted),
         UNCHANGED <<processVars, line, hop, nodes, lost, host>>, reports' \subseteq reports,
         lost = 0 => \A i \in DOMAIN session_nodes :
                       Older(session_nodes[i]) => replied[i] /\ accepted[i]
  PROVE  DeliveryInv'
<1>1. /\ Base /\ SystemTypeOK /\ CoordinatorTypeOK /\ CoordinatorInv /\ LinkInv
      /\ InSync
  BY DEF TransferInv, Base
<1>2. /\ pc = "idle" /\ IsInjective(session_nodes) /\ host.at = "start" /\ NoReply(uart)
      /\ uart \in Seq(Texts)
  BY <1>1, HostFile DEF CoordinatorInv, FlagGuardsProcess, AdmissionTracked, LinkInv, OneExchange
<1>3. session_nodes # <<>> /\ page_start_offset = 0
  BY <1>1, <1>2 DEF InSync, StartInSync, SameFile
<1>4. /\ start_admission_in_progress' = FALSE
      /\ \/ session_nodes' = <<>> /\ page_start_offset' = 0 /\ uart' = Append(uart, "NO_TARGETS")
         \/ UNCHANGED transferVars /\ uart' = Append(uart, "ACK")
  BY DEF FinishStartAdmission, ResetTransferState, Answer
<1>5. page_start_offset' = 0 /\ pc' = pc
  BY <1>3, <1>4 DEF transferVars, processVars
<1>6. NotEnded'
  BY <1>3, <1>5, QueuesRest DEF DeliveryInv, NotEnded, Unasked
<1>7. ASSUME lost = 0
      PROVE  InSequence' /\ StreamSent' /\ OlderAdmitted'
  <2>1. InSequence /\ StreamSent /\ OlderAdmitted
    BY <1>7 DEF DeliveryInv
  <2>2. StreamKept
    BY <1>7, QueuesRest
  <2>3. StreamSent'
    <3>1. \A d \in Events : Due(d)' => Due(d)
      BY <1>2, <1>3, <1>5 DEF Due
    <3> QED
      BY <2>1, <2>2, <3>1, SentStays
  <2>4. ASSUME "NO_TARGETS" \in ToSet(uart'), NEW j \in DOMAIN Line, Older(Line[j])
        PROVE  FALSE
    <3>1. session_nodes' = <<>>
      <4>1. CASE uart' = Append(uart, "ACK")
        <5>1. \A k \in DOMAIN Append(uart, "ACK") :
                Append(uart, "ACK")[k] \in {"PAGE_OK", "ACK"}
          BY <1>2 DEF NoReply
        <5> QED
          BY <2>4, <4>1, <5>1 DEF ToSet
      <4> QED
        BY <1>4, <4>1
    <3>2. PICK i \in DOMAIN Line : i <= MAX_NODES /\ Older(Line[i])
      BY <2>4 DEF OlderInSession
    <3>3. i \in DOMAIN session_nodes /\ session_nodes[i] = Line[i]
      BY <2>1, <3>2, SessionOfLine DEF OlderAdmitted
    <3>4. replied[i] /\ accepted[i]
      BY <1>7, <3>2, <3>3
    <3>5. session_nodes[i] \in ToSet(session_nodes')
      BY <1>1, <1>2, <3>3, <3>4, FinishStays
    <3> QED
      BY <3>1, <3>5 DEF ToSet
  <2>5. OlderAdmitted'
    BY <1>4, <2>1, <2>4 DEF OlderAdmitted
  <2> QED
    BY <2>2, <2>3, <2>5 DEF StreamKept
<1> QED
  BY <1>6, <1>7, QueuesRest, NodesRest

LEMMA AdmissionTimesOutDelivers ==
  ASSUME Delivers, TransferInv, DeliveryInv, AdmissionTimesOut
  PROVE  DeliveryInv'
<1>1. /\ start_admission_in_progress
      /\ FinishStartAdmission(node_replied, session_start_accepted)
      /\ UNCHANGED <<processVars, line, hop, nodes, lost, host, reports>>
      /\ NetworkQuiet
  BY DEF AdmissionTimesOut, AdmissionEnds, AdmissionTimeout, systemVars, networkVars, senderVars
<1>2. ASSUME lost = 0, NEW i \in DOMAIN session_nodes, Older(session_nodes[i])
      PROVE  node_replied[i] /\ session_start_accepted[i]
  <2>1. HeardOrComing(i) /\ session_nodes = PopulateSessionNodes(Line)
    BY <1>1, <1>2 DEF DeliveryInv, OlderAdmitted
  <2>2. i \in DOMAIN Line
    BY <2>1, SessionOfLine
  <2>3. \A h \in DOMAIN Line : Inbox(h) = <<>>
    BY <1>1, LineType DEF NetworkQuiet, NothingInFlight, Inbox
  <2>4. ~Coming(i, Started)
    BY <2>2, <2>3, LineType DEF Coming
  <2>5. reports = {}
    BY <1>1 DEF NetworkQuiet, NothingInFlight
  <2> QED
    BY <2>1, <2>4, <2>5 DEF HeardOrComing
<1> QED
  BY <1>1, <1>2, FinishDelivers DEF Delivers

\* A START report that counts is of a node that was not heard before.
LEMMA DeliverStartDelivers ==
  ASSUME Delivers, TransferInv, DeliveryInv, NEW r \in reports, DeliverReport(r),
         r.type = "START_REPORT", StartReport(r.node, r.accepted)
  PROVE  DeliveryInv'
<1>1. /\ CoordinatorTypeOK /\ IsInjective(session_nodes) /\ Base
  BY DEF TransferInv, Base, CoordinatorInv, AdmissionTracked
<1>2. /\ HandleStartReport(r.node, r.accepted)
      /\ UNCHANGED <<processVars, line, hop, nodes, lost, host>>
      /\ reports' = reports \ {r}
  BY DEF DeliverReport, StartReport, HandleStartReport, senderVars
<1>3. lost = 0 => (Older(r.node) => r.accepted)
  BY DEF DeliveryInv, OlderAdmitted
<1>4. ASSUME UNCHANGED <<session_nodes, start_admission_in_progress, transferVars, uart>>,
             lost = 0 /\ start_admission_in_progress =>
               \A j \in DOMAIN session_nodes : Older(session_nodes[j]) => HeardOrComing(j)'
      PROVE  DeliveryInv'
  <2>1. UNCHANGED <<page_start_offset, pc, dist_chunk_idx, total_chunks>>
    BY <1>2, <1>4 DEF transferVars, processVars
  <2>2. NotEnded'
    BY <1>2, <2>1, QueuesRest DEF DeliveryInv, NotEnded, Unasked
  <2>3. ASSUME lost = 0
        PROVE  InSequence' /\ StreamSent' /\ OlderAdmitted'
    <3>1. StreamSent /\ OlderAdmitted /\ StreamKept
      BY <1>2, <2>3, QueuesRest DEF DeliveryInv
    <3>2. \A d \in Events : Due(d)' => Due(d)
      BY <1>2, <1>4, <2>1 DEF Due, ChunksOut
    <3>3. StartOnly => StartOnly'
      BY <1>2, QueuesRest DEF StartOnly
    <3>4. OlderAdmitted'
      BY <1>2, <1>4, <2>3, <3>1, <3>3 DEF OlderAdmitted
    <3> QED
      BY <3>1, <3>2, <3>4, SentStays DEF StreamKept
  <2> QED
    BY <1>2, <2>2, <2>3, QueuesRest, NodesRest
<1>5. CASE IgnoresStartReport(r.node)
  <2>1. UNCHANGED <<session_nodes, node_replied, session_start_accepted,
                    start_admission_in_progress, transferVars, uart>>
    BY <1>2, <1>5 DEF HandleStartReport, sessionVars
  <2>2. ASSUME lost = 0, start_admission_in_progress,
               NEW j \in DOMAIN session_nodes, Older(session_nodes[j])
        PROVE  HeardOrComing(j)'
    <3>1. HeardOrComing(j) /\ session_nodes = PopulateSessionNodes(Line)
      BY <2>2 DEF DeliveryInv, OlderAdmitted
    <3>2. j \in DOMAIN Line
      BY <3>1, SessionOfLine
    <3>3. Coming(j, Started) => Coming(j, Started)'
      BY <1>2, <3>2, QueuesRest, LineType DEF Coming
    <3>4. r.node = session_nodes[j] => node_replied[j]
      BY <1>5, <2>2 DEF IgnoresStartReport, FindSessionNode
    <3> QED
      BY <1>2, <2>1, <3>1, <3>3, <3>4 DEF HeardOrComing
  <2> QED
    BY <1>4, <2>1, <2>2
<1>6. CASE ~IgnoresStartReport(r.node)
  <2>1. start_admission_in_progress
    BY <1>6 DEF IgnoresStartReport
  <2>2. PICK i \in FindSessionNode(r.node) :
          /\ node_replied' = [node_replied EXCEPT ![i] = TRUE]
          /\ session_start_accepted' = [session_start_accepted EXCEPT ![i] = r.accepted]
          /\ IF AllReplied(session_nodes, node_replied')
             THEN FinishStartAdmission(node_replied', session_start_accepted')
             ELSE UNCHANGED <<session_nodes, session_bitmaps, start_admission_in_progress,
                              transferVars, uart>>
    BY <1>2, <1>6 DEF HandleStartReport
  <2>3. i \in DOMAIN session_nodes /\ session_nodes[i] = r.node
    BY DEF FindSessionNode
  <2>4. /\ DOMAIN session_nodes \subseteq Index
        /\ node_replied'[i] = TRUE /\ session_start_accepted'[i] = r.accepted
        /\ \A j \in DOMAIN session_nodes : j # i =>
             /\ node_replied'[j] = node_replied[j]
             /\ session_start_accepted'[j] = session_start_accepted[j]
    <3>1. DOMAIN session_nodes \subseteq Index
      <4>1. session_nodes \in Seq(Nodes) /\ Len(session_nodes) <= MAX_NODES
        BY <1>1 DEF CoordinatorTypeOK
      <4> QED
        BY <4>1, CoordinatorAssumption DEF Index
    <3> QED
      BY <1>1, <2>2, <2>3, <3>1 DEF CoordinatorTypeOK
  <2>5. ASSUME lost = 0, NEW j \in DOMAIN session_nodes, Older(session_nodes[j])
        PROVE  \/ node_replied'[j] /\ session_start_accepted'[j]
               \/ ~node_replied'[j] /\ (\/ Coming(j, Started)'
                                        \/ \E s \in reports' : s.node = session_nodes[j])
    <3>1. HeardOrComing(j) /\ session_nodes = PopulateSessionNodes(Line)
      BY <2>1, <2>5 DEF DeliveryInv, OlderAdmitted
    <3>2. j \in DOMAIN Line
      BY <3>1, SessionOfLine
    <3>3. Coming(j, Started) => Coming(j, Started)'
      BY <1>2, <3>2, QueuesRest, LineType DEF Coming
    <3>4. CASE j = i
      BY <1>3, <2>3, <2>4, <2>5, <3>4
    <3>5. CASE j # i
      <4>1. session_nodes[j] # r.node
        BY <1>1, <2>3, <3>5 DEF IsInjective
      <4> QED
        BY <1>2, <2>4, <3>1, <3>3, <3>5, <4>1 DEF HeardOrComing
    <3> QED
      BY <3>4, <3>5
  <2>6. CASE AllReplied(session_nodes, node_replied')
    <3>1. FinishStartAdmission(node_replied', session_start_accepted')
      BY <2>2, <2>6
    <3>2. lost = 0 => \A j \in DOMAIN session_nodes :
            Older(session_nodes[j]) => node_replied'[j] /\ session_start_accepted'[j]
      BY <2>5, <2>6 DEF AllReplied
    <3>3. reports' \subseteq reports
      BY <1>2
    <3> QED
      BY <1>2, <2>1, <3>1, <3>2, <3>3, FinishDelivers DEF Delivers
  <2>7. CASE ~AllReplied(session_nodes, node_replied')
    <3>1. UNCHANGED <<session_nodes, start_admission_in_progress, transferVars, uart>>
      BY <2>2, <2>7
    <3>2. lost = 0 => \A j \in DOMAIN session_nodes :
            Older(session_nodes[j]) => HeardOrComing(j)'
      BY <2>5, <3>1 DEF HeardOrComing
    <3> QED
      BY <1>4, <3>1, <3>2
  <2> QED
    BY <2>6, <2>7
<1> QED
  BY <1>5, <1>6

LEMMA DeliverBitmapDelivers ==
  ASSUME TransferInv, DeliveryInv, NEW r \in reports, DeliverReport(r),
         r.type = "BITMAP_REPORT", BitmapReport(r.node, r.report.page, r.report.bitmap)
  PROVE  DeliveryInv'
<1>1. /\ UNCHANGED <<line, hop, nodes, lost, host, session_nodes, start_admission_in_progress,
                     page_start_offset, pc, dist_chunk_idx, total_chunks, uart>>
      /\ reports' \subseteq reports
  BY DEF DeliverReport, BitmapReport, HandleBitmapReport, transferVars, processVars,
     senderVars, sessionVars
<1>2. NotEnded'
  BY <1>1, QueuesRest DEF DeliveryInv, NotEnded, Unasked
<1>3. ASSUME lost = 0
      PROVE  InSequence' /\ StreamSent' /\ OlderAdmitted'
  <2>1. StreamSent /\ OlderAdmitted /\ StreamKept
    BY <1>1, <1>3, QueuesRest DEF DeliveryInv
  <2>2. \A d \in Events : Due(d)' => Due(d)
    BY <1>1 DEF Due, ChunksOut
  <2>3. ~start_admission_in_progress
    BY <2>1 DEF OlderAdmitted, StartOnly
  <2>4. OlderAdmitted'
    BY <1>1, <2>1, <2>3 DEF OlderAdmitted
  <2> QED
    BY <2>1, <2>2, <2>4, SentStays DEF StreamKept
<1> QED
  BY <1>1, <1>2, <1>3, QueuesRest, NodesRest

LEMMA DeliverReportDelivers ==
  ASSUME Delivers, TransferInv, DeliveryInv, NEW r \in reports, DeliverReport(r)
  PROVE  DeliveryInv'
BY DeliverStartDelivers, DeliverBitmapDelivers DEF DeliverReport

-----------------------------------------------------------------------------
(* The script goes on, or is run. *)

NothingSaid ==
  /\ ~start_admission_in_progress /\ uart = <<>>
  /\ host.at \in {"off", "start"} /\ lost \in Nat

LEMMA UntouchedDelivers == Base /\ SystemTypeOK /\ Untouched /\ NothingSaid => DeliveryInv
<1> SUFFICES ASSUME Base, SystemTypeOK, Untouched, NothingSaid
             PROVE  DeliveryInv
  OBVIOUS
<1>1. /\ pc = "idle" /\ session_nodes = <<>> /\ page_start_offset = 0 /\ reports = {}
      /\ \A node \in Nodes : Rebooted(node)
  BY DEF Untouched
<1>2. \A i \in DOMAIN Line : Inbox(i) = <<>>
  BY InboxUntouched
<1>3. \A node \in Nodes : /\ LastCommitted(node) < page_start_offset
                          /\ nodes[node].ota_session_active = FALSE
                          /\ nodes[node].running_sec_ver = RunningSecVer[node]
  <2> SUFFICES ASSUME NEW node \in Nodes
               PROVE  /\ LastCommitted(node) < page_start_offset
                      /\ nodes[node].ota_session_active = FALSE
                      /\ nodes[node].running_sec_ver = RunningSecVer[node]
    OBVIOUS
  <2>1. LastCommitted(node) = NoPage /\ nodes[node].ota_session_active = FALSE
    BY <1>1, RebootedNode
  <2>2. nodes[node].running_sec_ver = RunningSecVer[node]
    <3>1. nodes[node] = Boot(BlankFlash, NoTarget, RunningSecVer[node])
      BY <1>1 DEF Rebooted
    <3> QED
      BY <3>1 DEF Boot
  <2> QED
    BY <1>1, <2>1, <2>2 DEF NoPage
<1>4. NotEnded
  BY <1>2, <1>3 DEF NotEnded, Unasked
<1>5. Declared
  BY <1>2 DEF Declared
<1>6. InSequence
  BY <1>2, LineType DEF InSequence
<1>7. StreamSent
  BY <1>1 DEF StreamSent, Due, NothingSaid
<1>8. OlderAdmitted
  BY <1>1 DEF OlderAdmitted, NothingSaid, ToSet
<1>9. \A node \in ToSet(Line) : Older(node) => NodeDelivers(nodes[node])
  BY <1>3, LineType DEF NodeDelivers, ToSet
<1> QED
  BY <1>3, <1>4, <1>5, <1>6, <1>7, <1>8, <1>9 DEF DeliveryInv, NothingSaid

LEMMA RunScriptDelivers ==
  ASSUME OneTransfer, TransferInv, TransferInv', DeliveryInv,
         NEW img \in Images, NEW sec_ver \in SecVers, NEW target \in SentTargets,
         RunScript(img, sec_ver, target), UNCHANGED <<coordinatorOnlyVars, systemVars>>,
         abandoned' = abandoned
  PROVE  DeliveryInv'
<1>1. StartedOnce /\ LinkInv
  BY InvParts DEF TransferInv, Base
<1>2. starts < MaxStarts /\ host' = [host EXCEPT !.at = "start", !.file = img, !.target = target,
                                     !.page = 0, !.chunk = 0, !.attempt = 1] /\ uart' = <<>>
  BY DEF RunScript
<1>3. starts = 0
  BY <1>1, <1>2, SenderAssumption DEF OneTransfer, StartedOnce
<1>4. Untouched /\ host.at = "off"
  BY <1>1, <1>3 DEF StartedOnce
<1>5. Untouched'
  BY <1>4 DEF Untouched, Rebooted, coordinatorOnlyVars, systemVars, networkVars, sessionVars,
     transferVars, processVars
<1>6. NothingSaid'
  <2>1. host'.at = "start"
    BY <1>1, <1>2, HostFile DEF LinkInv, HostState
  <2>2. ~start_admission_in_progress'
    BY <1>1, <1>4 DEF LinkInv, OneExchange, coordinatorOnlyVars, sessionVars
  <2>3. lost' \in Nat
    BY DEF DeliveryInv, systemVars, networkVars
  <2> QED
    BY <1>2, <2>1, <2>2, <2>3 DEF NothingSaid
<1>7. (Base /\ SystemTypeOK /\ Untouched /\ NothingSaid => DeliveryInv)'
  BY UntouchedDelivers, PTL
<1> QED
  BY <1>5, <1>6, <1>7 DEF TransferInv

\* What the other steps of the script do to what the coordinator is past.
HostListens ==
  /\ host'.file = host.file /\ host'.target = host.target
  /\ host'.at \in {"start", "verify"} /\ host.at = host'.at => ToSet(uart') \subseteq ToSet(uart)
  /\ host'.at = "verify" => host.at = "verify" \/ uart' = <<>>
  /\ host'.at = "start" => host.at = "start"
  /\ host'.at = "done" => \/ host.at = "done"
                          \/ host.at = "verify" /\ "ACK" \in ToSet(uart)
                          \/ host.at = "start" /\ "NO_TARGETS" \in ToSet(uart)

LEMMA HostListensDelivers ==
  ASSUME TransferInv, DeliveryInv, HostListens, UNCHANGED <<coordinatorOnlyVars, systemVars>>
  PROVE  DeliveryInv'
<1>1. UNCHANGED <<line, hop, nodes, lost, reports, session_nodes, node_replied,
                  session_start_accepted, start_admission_in_progress, page_start_offset, pc,
                  dist_chunk_idx, total_chunks>>
  BY DEF coordinatorOnlyVars, sessionVars, transferVars, processVars, systemVars, networkVars
<1>2. host'.file = host.file /\ host'.target = host.target
  BY DEF HostListens
<1>3. NotEnded'
  BY <1>1, <1>2, QueuesRest DEF DeliveryInv, NotEnded, Unasked
<1>4. ASSUME lost = 0
      PROVE  InSequence' /\ StreamSent' /\ OlderAdmitted'
  <2>1. StreamSent /\ OlderAdmitted /\ StreamKept
    BY <1>1, <1>2, <1>4, QueuesRest DEF DeliveryInv
  <2>2. \A d \in Events : Due(d)' => Due(d) \/ Sent(d)'
    <3>1. ASSUME host.at = "start", "NO_TARGETS" \in ToSet(uart), NEW d
          PROVE  Sent(d)'
      BY <2>1, <3>1 DEF OlderAdmitted, Sent
    <3>2. host'.at = "verify" /\ "ACK" \in ToSet(uart')
            => host.at = "verify" /\ "ACK" \in ToSet(uart)
      BY DEF HostListens, ToSet
    <3> QED
      BY <1>1, <3>1, <3>2 DEF Due, ChunksOut, HostListens
  <2>3. StreamSent'
    BY <2>1, <2>2, SentStays
  <2>4. OlderAdmitted'
    <3>1. StartOnly => StartOnly'
      BY <1>1, <1>2, QueuesRest DEF StartOnly
    <3>2. start_admission_in_progress => \A i \in DOMAIN session_nodes :
            HeardOrComing(i) => HeardOrComing(i)'
      <4>1. start_admission_in_progress => DOMAIN session_nodes \subseteq DOMAIN Line
        BY <2>1, SessionOfLine DEF OlderAdmitted
      <4>2. \A i \in DOMAIN Line : Coming(i, Started) => Coming(i, Started)'
        BY <1>1, <1>2, QueuesRest, LineType DEF Coming
      <4> QED
        BY <1>1, <4>1, <4>2 DEF HeardOrComing
    <3>3. host'.at = "start" /\ "NO_TARGETS" \in ToSet(uart')
            => host.at = "start" /\ "NO_TARGETS" \in ToSet(uart)
      BY DEF HostListens
    <3> QED
      BY <1>1, <2>1, <3>1, <3>2, <3>3 DEF OlderAdmitted
  <2> QED
    BY <2>1, <2>3, <2>4 DEF StreamKept
<1> QED
  BY <1>1, <1>2, <1>3, <1>4, QueuesRest, NodesRest

LEMMA HostActsDelivers ==
  ASSUME Delivers, TransferInv, TransferInv', DeliveryInv, HostActs
  PROVE  DeliveryInv'
<1>1. SenderOnly /\ UNCHANGED <<coordinatorOnlyVars, systemVars>> /\ abandoned' = abandoned
  BY DEF HostActs, HostStep, SenderStep
<1>2. /\ InSync /\ LinkInv /\ host \in HostState /\ uart \in Seq(Texts)
  BY HostFile DEF TransferInv, Base, LinkInv
<1>3. CASE ReadLine
  <2>1. uart # <<>> /\ uart' = Tail(uart)
    BY <1>3 DEF ReadLine
  <2>2. ToSet(uart') \subseteq ToSet(uart) /\ Head(uart) \in ToSet(uart)
    BY <1>2, <2>1 DEF ToSet
  <2>3. HostListens
    <3>1. CASE ReadInStart(Head(uart))
      BY <1>2, <2>2, <3>1 DEF ReadInStart, Send, Become, DataAt, HostListens, HostState
    <3>2. CASE ReadInData(Head(uart))
      BY <1>2, <3>2 DEF ReadInData, Send, Become, DataAt, HostListens, HostState
    <3>3. CASE ReadInPage(Head(uart))
      <4>1. /\ host'.file = host.file /\ host'.target = host.target
            /\ host.at = "page" /\ host'.at \in {"data", "verify"}
        BY <1>2, <3>3 DEF ReadInPage, Send, DataAt, HostState
      <4>2. uart = <<"PAGE_OK">>
        BY <1>2, <2>1, <4>1 DEF InSync, PageInSync
      <4>3. uart' = <<>>
        BY <2>1, <4>2
      <4> QED
        BY <4>1, <4>3 DEF HostListens
    <3>4. CASE ReadInVerify(Head(uart))
      BY <1>2, <2>2, <3>4 DEF ReadInVerify, Become, HostListens, HostState
    <3>5. CASE UNCHANGED <<host, commands>>
      <4>1. host' = host
        BY <3>5
      <4> QED
        BY <2>2, <4>1 DEF HostListens
    <3> QED
      BY <1>3, <3>1, <3>2, <3>3, <3>4, <3>5 DEF ReadLine
  <2> QED
    BY <1>1, <2>3, HostListensDelivers
<1>4. CASE CommandTimeout
  <2>1. HostListens
    BY <1>2, <1>4 DEF CommandTimeout, Send, Become, HostListens, HostState
  <2> QED
    BY <1>1, <2>1, HostListensDelivers
<1>5. CASE StartTimeout \/ PageTimeout
  <2>1. HostListens
    BY <1>2, <1>5 DEF StartTimeout, PageTimeout, Become, HostListens, HostState
  <2> QED
    BY <1>1, <2>1, HostListensDelivers
<1>6. CASE LinkLoses
  <2>1. host' = host
    BY <1>6 DEF LinkLoses
  <2>2. ToSet(uart') \subseteq ToSet(uart)
    BY <1>2, <1>6 DEF LinkLoses, ToSet
  <2>3. HostListens
    BY <2>1, <2>2 DEF HostListens
  <2> QED
    BY <1>1, <2>3, HostListensDelivers
<1>7. CASE \E img \in Images, sec_ver \in SecVers, target \in SentTargets :
             RunScript(img, sec_ver, target)
  BY <1>1, <1>7, RunScriptDelivers DEF Delivers, OneFile
<1> QED
  BY <1>1, <1>3, <1>4, <1>5, <1>6, <1>7 DEF SenderOnly

-----------------------------------------------------------------------------
(* A command arrives. *)

\* The coordinator sends a packet, and nothing happens at the nodes.
LEMMA QueuesGrow ==
  ASSUME QueuesTypeOK, DeliveryInv, UNCHANGED <<hop, nodes>>, host'.file = host.file,
         NEW pkt \in Packets, line' = Append(line, pkt),
         pkt.type = "START" => pkt.sec_ver \in SecVers
  PROVE  /\ Declared'
         /\ \A node \in Nodes : LastCommitted(node)' = LastCommitted(node)
         /\ \A i \in DOMAIN Line : \A k \in DOMAIN (Inbox(i)') :
              Inbox(i)'[k] = pkt \/ (k \in DOMAIN Inbox(i) /\ Inbox(i)'[k] = Inbox(i)[k])
         /\ lost = 0 /\ (\A d \in Events : Needs(Event(pkt), d) => Sent(d))
              => StreamKept /\ Sent(Event(pkt))'
<1>1. ASSUME NEW i \in DOMAIN Line, NEW k \in DOMAIN (Inbox(i)')
      PROVE  Inbox(i)'[k] = pkt \/ (k \in DOMAIN Inbox(i) /\ Inbox(i)'[k] = Inbox(i)[k])
  <2>1. CASE i = 1
    <3>1. Inbox(i) = line /\ Inbox(i)' = Append(line, pkt) /\ line \in Seq(Packets)
      BY <2>1 DEF Inbox, QueuesTypeOK
    <3> QED
      BY <3>1
  <2>2. CASE i # 1
    BY <2>2 DEF Inbox
  <2> QED
    BY <2>1, <2>2
<1>2. Declared'
  BY <1>1 DEF DeliveryInv, Declared
<1>3. lost = 0 /\ (\A d \in Events : Needs(Event(pkt), d) => Sent(d))
        => StreamKept /\ Sent(Event(pkt))'
  BY KeptAppends DEF DeliveryInv
<1> QED
  BY <1>1, <1>2, <1>3 DEF LastCommitted

LEMMA StartArrivesDelivers ==
  ASSUME TransferInv, TransferInv', DeliveryInv, CommandArrives, Head(commands).type = "S",
         host.at = "start", NEW sec_ver \in SecVers, NEW table \in RouteTables,
         UartStart(table, host.file.size, sec_ver, host.target)
  PROVE  DeliveryInv'
<1>1. /\ StartedOnce /\ LinkInv /\ Base /\ SystemTypeOK /\ QueuesTypeOK /\ QueuesTypeOK'
  BY InvParts DEF TransferInv, Base, SystemTypeOK
<1>2. UNCHANGED <<nodes, hop, reports, host, lost>> /\ commands # <<>>
  BY DEF CommandArrives, systemVars, networkVars, Command, TakeCommand
<1>3. Untouched
  BY <1>1, <1>2 DEF StartedOnce
<1>4. session_nodes' = PopulateSessionNodes(Line) /\ session_nodes' # <<>>
  <2>1. table = Line /\ Line \in Seq(Nodes) /\ Len(Line) >= 1
    BY LineAssumption, LineType
  <2>2. session_nodes' = PopulateSessionNodes(table)
    BY DEF UartStart
  <2>3. Len(PopulateSessionNodes(table)) >= 1
    BY <2>1, CoordinatorAssumption DEF PopulateSessionNodes
  <2> QED
    BY <2>1, <2>2, <2>3
<1> PICK pkt : pkt = StartPkt(host.file.size, sec_ver, host.target)
  OBVIOUS
<1>5. /\ line' = Append(line, pkt) /\ page_start_offset' = 0
      /\ start_admission_in_progress' = TRUE /\ pc' = pc /\ uart' = uart
      /\ node_replied' = [i \in Index |-> FALSE]
  BY <1>4 DEF UartStart, SendToAll, ResetTransferState, processVars
<1>6. /\ page_start_offset = 0 /\ pc = "idle" /\ line = <<>> /\ reports = {}
      /\ \A node \in Nodes : LastCommitted(node) = NoPage /\ nodes[node].report_to_send = NoReport
  BY <1>1, <1>3, RebootedNode DEF Untouched
<1>7. pkt.type = "START" /\ pkt.sec_ver = sec_ver /\ Event(pkt) = Started
  BY DEF StartPkt, Event, PageEvents, Started
<1>8. pkt \in Packets
  <2>1. line' = <<pkt>> /\ line' \in Seq(Packets)
    BY <1>1, <1>5, <1>6 DEF QueuesTypeOK
  <2> QED
    BY <2>1
<1>9. /\ Declared'
      /\ \A node \in Nodes : LastCommitted(node)' = LastCommitted(node)
      /\ \A i \in DOMAIN Line : \A k \in DOMAIN (Inbox(i)') : Inbox(i)'[k] = pkt
      /\ lost = 0 => StreamKept /\ Sent(Started)'
  <2>1. \A d \in Events : ~Needs(Event(pkt), d)
    BY <1>7, EventFields DEF Needs
  <2>2. \A i \in DOMAIN Line : Inbox(i) = <<>>
    BY <1>3, InboxUntouched
  <2> QED
    BY <1>1, <1>2, <1>5, <1>7, <1>8, <2>1, <2>2, QueuesGrow
<1>10. NotEnded'
  BY <1>5, <1>6, <1>7, <1>9 DEF NotEnded, Unasked, NoPage
<1>11. ASSUME lost = 0
       PROVE  InSequence' /\ StreamSent' /\ OlderAdmitted'
  <2>1. StreamKept /\ Sent(Started)'
    BY <1>9, <1>11
  <2>2. StreamSent'
    <3>1. \A d \in Events : Due(d)' => d = Started
      BY <1>2, <1>5, <1>6 DEF Due
    <3> QED
      BY <2>1, <3>1 DEF StreamSent
  <2>3. StartOnly'
    BY <1>2, <1>6, <1>7, <1>9 DEF StartOnly
  <2>4. ASSUME NEW i \in DOMAIN PopulateSessionNodes(Line)
        PROVE  HeardOrComing(i)'
    <3>1. i \in DOMAIN Line /\ i \in Index
      BY SessionOfLine
    <3>2. 1 \in DOMAIN (Inbox(1)') /\ Inbox(1)'[1] = pkt /\ 1 \in 1 .. i
      <4>1. Inbox(1)' = <<pkt>>
        BY <1>5, <1>6 DEF Inbox
      <4> QED
        BY <3>1, <4>1, LineType
    <3>3. Coming(i, Started)'
      BY <1>7, <3>2 DEF Coming
    <3> QED
      BY <1>5, <3>1, <3>3 DEF HeardOrComing
  <2>5. "NO_TARGETS" \notin ToSet(uart')
    <3>1. NoReply(uart)
      BY <1>1, <1>2 DEF LinkInv, OneExchange
    <3> QED
      BY <1>5, <3>1 DEF NoReply, ToSet
  <2>6. OlderAdmitted'
    BY <1>2, <1>4, <1>6, <2>3, <2>4, <2>5 DEF OlderAdmitted
  <2> QED
    BY <2>1, <2>2, <2>6 DEF StreamKept
<1> QED
  BY <1>2, <1>9, <1>10, <1>11, NodesRest

LEMMA DataArrivesDelivers ==
  ASSUME TransferInv, DeliveryInv, CommandArrives, Head(commands).type = "D", host.at = "data",
         UartData(host.page, host.chunk, host.file.data[host.page][host.chunk])
  PROVE  DeliveryInv'
<1>1. CoordinatorTypeOK /\ CoordinatorInv /\ LinkInv
  BY DEF TransferInv, Base
<1>2. UNCHANGED <<line, hop, nodes, lost, reports, host, session_nodes,
                  start_admission_in_progress, page_start_offset>>
  BY DEF UartData, CommandArrives, systemVars, networkVars, Command, TakeCommand
<1>3. \/ UNCHANGED <<pc, dist_chunk_idx, total_chunks>>
      \/ pc = "idle" /\ pc' = "chunk" /\ dist_chunk_idx' = 0
  <2> DEFINE data == host.file.data[host.page][host.chunk]
  <2>1. UartData(host.page, host.chunk, data)
    OBVIOUS
  <2> HIDE DEF data
  <2>2. CASE AcceptsData(host.page, host.chunk)
    BY <1>1, <2>1, <2>2, DataAccepted DEF processVars
  <2>3. CASE ~AcceptsData(host.page, host.chunk)
    BY <2>1, <2>3, DataRefused DEF processVars
  <2> QED
    BY <2>2, <2>3
<1>4. ~start_admission_in_progress
  BY <1>1 DEF LinkInv, OneExchange
<1>5. NotEnded'
  BY <1>2, <1>3, QueuesRest DEF DeliveryInv, NotEnded, Unasked
<1>6. ASSUME lost = 0
      PROVE  InSequence' /\ StreamSent' /\ OlderAdmitted'
  <2>1. StreamSent /\ OlderAdmitted /\ StreamKept
    BY <1>2, <1>6, QueuesRest DEF DeliveryInv
  <2>2. \A d \in Events : Due(d)' => Due(d)
    <3>1. CASE UNCHANGED <<pc, dist_chunk_idx, total_chunks>>
      BY <1>2, <3>1 DEF Due, ChunksOut
    <3>2. CASE pc = "idle" /\ pc' = "chunk" /\ dist_chunk_idx' = 0
      <4>1. ChunksOut' = 0 /\ 0 .. ChunksOut' - 1 = {}
        BY <3>2 DEF ChunksOut
      <4> QED
        BY <1>2, <3>2, <4>1 DEF Due
    <3> QED
      BY <1>3, <3>1, <3>2
  <2>3. OlderAdmitted'
    BY <1>2, <1>4, <2>1 DEF OlderAdmitted
  <2> QED
    BY <2>1, <2>2, <2>3, SentStays DEF StreamKept
<1> QED
  BY <1>2, <1>5, <1>6, QueuesRest, NodesRest

LEMMA VerifyArrivesDelivers ==
  ASSUME TransferInv, DeliveryInv, CommandArrives, Head(commands).type = "V",
         host.at = "verify", UartVerify(ImageCrc(host.file))
  PROVE  DeliveryInv'
<1>1. /\ SessionOfHost /\ LinkInv /\ Base /\ QueuesTypeOK
  BY InvParts DEF TransferInv, Base, SystemTypeOK
<1>2. /\ UNCHANGED <<hop, nodes, lost, reports, host, session_nodes,
                     start_admission_in_progress, page_start_offset, pc, dist_chunk_idx,
                     total_chunks>>
      /\ commands # <<>>
  BY DEF UartVerify, CommandArrives, systemVars, networkVars, sessionVars, transferVars,
     processVars, Command, TakeCommand
<1>3. Finished /\ ~start_admission_in_progress /\ NoReply(uart) /\ uart \in Seq(Texts)
  BY <1>1, <1>2, HostFile DEF SessionOfHost, LinkInv, OneExchange
<1>4. CASE session_nodes = <<>>
  <2>1. line' = line /\ uart' = Append(uart, "NO_TARGETS")
    BY <1>4 DEF UartVerify, Answer
  <2>2. "ACK" \notin ToSet(uart')
    <3>1. \A k \in DOMAIN Append(uart, "NO_TARGETS") :
            Append(uart, "NO_TARGETS")[k] \in {"PAGE_OK", "NO_TARGETS"}
      BY <1>3 DEF NoReply
    <3> QED
      BY <2>1, <3>1 DEF ToSet
  <2>3. NotEnded'
    BY <1>2, <2>1, QueuesRest DEF DeliveryInv, NotEnded, Unasked
  <2>4. ASSUME lost = 0
        PROVE  InSequence' /\ StreamSent' /\ OlderAdmitted'
    <3>1. StreamSent /\ OlderAdmitted /\ StreamKept
      BY <1>2, <2>1, <2>4, QueuesRest DEF DeliveryInv
    <3>2. \A d \in Events : Due(d)' => Due(d)
      BY <1>2, <2>2 DEF Due, ChunksOut
    <3>3. OlderAdmitted'
      BY <1>2, <1>3, <3>1 DEF OlderAdmitted
    <3> QED
      BY <3>1, <3>2, <3>3, SentStays DEF StreamKept
  <2> QED
    BY <1>2, <2>1, <2>3, <2>4, QueuesRest, NodesRest
<1>5. CASE session_nodes # <<>>
  <2> PICK pkt : pkt = VerifyPkt(ImageCrc(host.file), ota_target_slot)
    OBVIOUS
  <2>1. line' = Append(line, pkt)
    BY <1>5 DEF UartVerify, SendToAll
  <2>2. pkt.type = "VERIFY" /\ pkt \in Packets /\ Event(pkt) = Verified
    <3>1. ota_target_slot \in Target
      BY <1>1, <1>5, FileFacts DEF SessionOfHost
    <3>2. pkt \in VerifyPkts
      BY <1>1, <3>1, FileFacts, ImageCrcType DEF VerifyPkt, VerifyPkts
    <3> QED
      BY <3>2, EventOfType DEF VerifyPkts, Packets
  <2>3. NotEnded'
    BY <1>1, <1>2, <2>1, <2>2, QueuesGrow DEF DeliveryInv, NotEnded, Unasked
  <2>4. Declared'
    BY <1>1, <1>2, <2>1, <2>2, QueuesGrow
  <2>5. ASSUME lost = 0
        PROVE  InSequence' /\ StreamSent' /\ OlderAdmitted'
    <3>1. StreamSent /\ OlderAdmitted
      BY <2>5 DEF DeliveryInv
    <3>2. ASSUME NEW d \in Events, Needs(Event(pkt), d)
          PROVE  Sent(d)
      <4>1. d = EndOf(host.file.size.pages - 1)
        BY <2>2, <3>2, EventFields DEF Needs
      <4>2. page_start_offset > 0 /\ page_start_offset = host.file.size.pages
        BY <1>1, <1>3, FileFacts DEF Finished
      <4>3. Due(d)
        BY <4>1, <4>2 DEF Due
      <4> QED
        BY <3>1, <4>3 DEF StreamSent
    <3>3. StreamKept /\ Sent(Event(pkt))'
      BY <1>1, <1>2, <2>1, <2>2, <2>5, <3>2, QueuesGrow
    <3>4. \A d \in Events : Due(d)' => Due(d) \/ d = Verified
      BY <1>2 DEF Due, ChunksOut
    <3>5. StreamSent'
      BY <2>2, <3>1, <3>3, <3>4, SentStays
    <3>6. OlderAdmitted'
      BY <1>2, <1>3, <3>1 DEF OlderAdmitted
    <3> QED
      BY <3>3, <3>5, <3>6 DEF StreamKept
  <2> QED
    BY <1>2, <2>3, <2>4, <2>5, NodesRest
<1> QED
  BY <1>4, <1>5

LEMMA CommandArrivesDelivers ==
  ASSUME TransferInv, TransferInv', DeliveryInv, CommandArrives
  PROVE  DeliveryInv'
<1>1. LinkInv /\ Command
  BY DEF TransferInv, Base, CommandArrives
<1> QED
  BY <1>1, CommandKinds, StartArrivesDelivers, DataArrivesDelivers, VerifyArrivesDelivers

-----------------------------------------------------------------------------
(* The process runs. *)

\* What a step of the process sends, and where it is after it.
AllOut == pc = "chunk" => dist_chunk_idx = total_chunks

ChunkGoesOut(idx) ==
  /\ line' = Append(line, ChunkPkt(idx)) /\ pc' = pc
  /\ pc = "chunk" => idx = dist_chunk_idx /\ dist_chunk_idx' = idx + 1

PageEndGoesOut == line' = Append(line, end_pkt') /\ pc' = "wait" /\ AllOut

NothingGoesOut ==
  /\ line' = line /\ pc' # "idle"
  /\ pc' = "chunk" => pc = "chunk" /\ dist_chunk_idx' = dist_chunk_idx
  /\ pc' # "chunk" => AllOut
  /\ pc' \in {"wait", "resend"} => pc \in {"wait", "resend"}

PageLeaves ==
  /\ line' = line /\ pc' = "idle"
  /\ \/ pc \in {"wait", "resend"}
     \/ pc = "chunk" /\ PageIsComplete(session_nodes, session_bitmaps)

GoesOut ==
  \/ \E idx \in 0 .. total_chunks - 1 : ChunkGoesOut(idx)
  \/ PageEndGoesOut \/ NothingGoesOut \/ PageLeaves

LEMMA PageEndOut ==
  ASSUME PageEndOrWait(end_pkt'), pc \in {"wait", "resend"} \/ (pc = "chunk" /\ AllOut)
  PROVE  GoesOut
<1>1. CASE QueueReady
  BY <1>1 DEF PageEndOrWait, SendToAll, GoesOut, PageEndGoesOut, AllOut
<1>2. CASE ~QueueReady
  BY <1>2 DEF PageEndOrWait, GoesOut, NothingGoesOut, AllOut
<1> QED
  BY <1>1, <1>2

LEMMA RoundHeadOut ==
  ASSUME NEW round, RoundHead(round),
         pc = "resend" \/ (pc = "chunk" /\ AllOut /\ ~(round >= MaxRounds))
  PROVE  GoesOut
<1>1. CASE PageIsComplete(session_nodes, session_bitmaps) \/ round >= MaxRounds
  BY <1>1 DEF RoundHead, AdvancePage, GoesOut, PageLeaves
<1>2. CASE ~(PageIsComplete(session_nodes, session_bitmaps) \/ round >= MaxRounds)
  BY <1>2, PageEndOut DEF RoundHead
<1> QED
  BY <1>1, <1>2

LEMMA LeaveWaitOut ==
  ASSUME NEW members, NEW bitmaps, LeaveWait(members, bitmaps), pc = "wait"
  PROVE  GoesOut
<1>1. CASE PageIsComplete(members, bitmaps)
  BY <1>1 DEF LeaveWait, AdvancePage, GoesOut, PageLeaves
<1>2. CASE ~PageIsComplete(members, bitmaps)
  BY <1>2 DEF LeaveWait, GoesOut, NothingGoesOut, AllOut
<1> QED
  BY <1>1, <1>2

LEMMA DistributeOut ==
  ASSUME CoordinatorTypeOK, Process, Distribute
  PROVE  GoesOut
<1>1. CASE SendChunk
  <2>1. dist_chunk_idx \in 0 .. total_chunks - 1
    BY <1>1 DEF SendChunk, CoordinatorTypeOK
  <2>2. ChunkGoesOut(dist_chunk_idx)
    BY <1>1 DEF SendChunk, SendToAll, ChunkGoesOut
  <2> QED
    BY <2>1, <2>2 DEF GoesOut
<1>2. CASE ChunksSent
  <2>1. RoundHead(0) /\ pc = "chunk" /\ AllOut /\ ~(0 >= MaxRounds)
    BY <1>2, CoordinatorAssumption DEF ChunksSent, AllOut
  <2> QED
    BY <2>1, RoundHeadOut
<1>3. CASE SendPageEnd
  BY <1>3 DEF SendPageEnd, SendToAll, GoesOut, PageEndGoesOut, AllOut
<1>4. CASE AllRepliedEvent
  <2>1. CASE pc = "wait" /\ AllReplied(session_nodes, node_replied)
    BY <1>4, <2>1, LeaveWaitOut DEF AllRepliedEvent
  <2>2. CASE ~(pc = "wait" /\ AllReplied(session_nodes, node_replied))
    <3>1. UNCHANGED <<pc, dist_chunk_idx, line>>
      BY <1>4, <2>2 DEF AllRepliedEvent, processVars
    <3>2. CASE pc = "chunk"
      BY <3>1, <3>2 DEF GoesOut, NothingGoesOut
    <3>3. CASE pc # "chunk"
      BY <3>1, <3>3 DEF GoesOut, NothingGoesOut, AllOut, Process
    <3> QED
      BY <3>2, <3>3
  <2> QED
    BY <2>1, <2>2
<1>5. CASE ReportTimeout
  <2>1. CASE DropSilentNodes
    BY <1>5, <2>1, LeaveWaitOut DEF ReportTimeout, DropSilentNodes
  <2>2. CASE RepeatPageEnd
    BY <1>5, <2>2, PageEndOut DEF ReportTimeout, RepeatPageEnd
  <2> QED
    BY <1>5, <2>1, <2>2 DEF ReportTimeout
<1>6. CASE Resend
  <2>1. CASE MissingChunks = {}
    BY <1>6, <2>1, RoundHeadOut DEF Resend
  <2>2. CASE MissingChunks # {}
    <3>1. Min(MissingChunks) \in 0 .. total_chunks - 1
      BY <2>2, MissingHasMin DEF MissingChunks, CoordinatorTypeOK
    <3>2. ChunkGoesOut(Min(MissingChunks))
      BY <1>6, <2>2 DEF Resend, SendToAll, ChunkGoesOut
    <3> QED
      BY <3>1, <3>2 DEF GoesOut
  <2> QED
    BY <2>1, <2>2
<1> QED
  BY <1>1, <1>2, <1>3, <1>4, <1>5, <1>6 DEF Distribute
LEMMA ProcessRests ==
  ASSUME TransferInv, DeliveryInv, ProcessRuns, ~Process
  PROVE  DeliveryInv'
<1>1. CoordinatorTypeOK /\ CoordinatorInv
  BY DEF TransferInv, Base
<1>2. Distribute /\ UNCHANGED <<hop, nodes, lost, reports, host>>
  BY DEF ProcessRuns, Distribute, systemVars, networkVars, senderVars
<1>3. Rests /\ line' = line /\ ProcessLeaves
  <2>1. ProcessEffect /\ ProcessLeaves /\ ProcessSends
    BY <1>1, <1>2, DistributeEffect, DistributeSends DEF CoordinatorInv, AdmissionTracked
  <2> QED
    BY <2>1 DEF ProcessEffect, Continues, Ends, ProcessSends
<1>4. /\ UNCHANGED <<page_start_offset, uart, pc, dist_chunk_idx, total_chunks>>
      /\ UNCHANGED <<session_nodes, node_replied, session_start_accepted,
                     start_admission_in_progress>>
  BY <1>3 DEF Rests, KeepsPlace, sessionVars, processVars
<1>5. NotEnded'
  BY <1>2, <1>3, <1>4, QueuesRest DEF DeliveryInv, NotEnded, Unasked
<1>6. ASSUME lost = 0
      PROVE  InSequence' /\ StreamSent' /\ OlderAdmitted'
  <2>1. StreamSent /\ OlderAdmitted /\ StreamKept
    BY <1>2, <1>3, <1>6, QueuesRest DEF DeliveryInv
  <2>2. \A d \in Events : Due(d)' => Due(d)
    BY <1>2, <1>4 DEF Due, ChunksOut
  <2>3. UNCHANGED <<reports, host, uart, start_admission_in_progress, session_nodes, line, hop,
                    nodes, node_replied, session_start_accepted>>
    BY <1>2, <1>3, <1>4
  <2>4. OlderAdmitted'
    BY <2>1, <2>3 DEF OlderAdmitted, StartOnly, HeardOrComing, Coming, Inbox
  <2> QED
    BY <2>1, <2>2, <2>4, SentStays DEF StreamKept
<1> QED
  BY <1>2, <1>3, <1>5, <1>6, QueuesRest, NodesRest

\* What the step finds, and where it leaves the coordinator.
LEMMA ProcessFinds ==
  ASSUME TransferInv, DeliveryInv, ProcessRuns, Process
  PROVE  /\ pc # "idle" /\ session_nodes # <<>> /\ host.at \notin {"start", "verify"}
         /\ ~start_admission_in_progress' /\ total_chunks' = total_chunks
         /\ UNCHANGED <<hop, nodes, lost, reports, host>>
         /\ page_start_offset \in Page /\ page_start_offset < host.file.size.pages
         /\ total_chunks \in Nat
         /\ total_chunks = PageLen(host.file.size, page_start_offset)
         /\ \/ pc' # "idle" /\ page_start_offset' = page_start_offset
            \/ /\ pc' = "idle" /\ page_start_offset' = page_start_offset + 1
               /\ pc \in {"wait", "resend"} /\ line' = line
         /\ GoesOut
<1>1. /\ CoordinatorTypeOK /\ CoordinatorInv /\ Base /\ SystemTypeOK /\ SessionOfHost
      /\ AnswersTrue /\ StartsIdle
  BY InvParts DEF TransferInv, Base
<1>2. Distribute /\ UNCHANGED <<hop, nodes, lost, reports, host>>
  BY DEF ProcessRuns, Distribute, systemVars, networkVars, senderVars
<1>3. ProcessEffect /\ ProcessLeaves /\ GoesOut
  BY <1>1, <1>2, DistributeEffect, DistributeOut DEF CoordinatorInv, AdmissionTracked
<1>4. /\ pc # "idle" /\ session_nodes # <<>> /\ host.at \notin {"start", "verify"}
      /\ ~start_admission_in_progress /\ current_file_size = host.file.size
  BY <1>1 DEF Process, SessionOfHost, StartsIdle, CoordinatorInv, FlagGuardsProcess, Finished
<1>5. /\ page_start_offset \in Page /\ page_start_offset < host.file.size.pages
      /\ total_chunks = PageLen(host.file.size, page_start_offset) /\ total_chunks \in Nat
  <2>1. total_chunks = ExpectedPageSize /\ total_chunks > 0
    BY <1>1, <1>4 DEF CoordinatorInv, ProcessHasPage
  <2> QED
    BY <1>1, <1>4, <2>1, PlaceType DEF ExpectedPageSize
<1>6. ASSUME PageIsComplete(session_nodes, session_bitmaps)
      PROVE  pc # "chunk"
  <2>1. 1 \in DOMAIN session_nodes /\ session_nodes[1] \in Nodes
    BY <1>1, <1>4 DEF CoordinatorTypeOK
  <2>2. session_nodes[1] \in complete
    BY <1>1, <1>4, <1>6, <2>1 DEF PageIsComplete, CoordinatorInv, BitmapsOfNodes
  <2>3. LastCommitted(session_nodes[1]) = page_start_offset
    BY <1>1, <1>4, <2>2 DEF AnswersTrue
  <2> QED
    BY <1>5, <2>1, <2>3 DEF DeliveryInv, NotEnded, Unasked, Page
<1>7. PageLeaves => pc \in {"wait", "resend"} /\ line' = line
  BY <1>6 DEF PageLeaves
<1>8. /\ total_chunks' = total_chunks
      /\ \/ pc' # "idle" /\ page_start_offset' = page_start_offset
         \/ pc' = "idle" /\ page_start_offset' = page_start_offset + 1
  BY <1>3, <1>4 DEF ProcessEffect, Continues, Ends, Rests, KeepsPlace, processVars, Process
<1>9. pc' = "idle" => PageLeaves
  BY <1>3, <1>4 DEF GoesOut, ChunkGoesOut, PageEndGoesOut, NothingGoesOut
<1>10. ~start_admission_in_progress'
  BY <1>3, <1>4 DEF ProcessLeaves
<1> QED
  BY <1>2, <1>3, <1>4, <1>5, <1>7, <1>8, <1>9, <1>10
\* What the coordinator is past after the step, it was past before, or has just sent.
DueSends(e) == \A d \in Events : Due(d)' => Due(d) \/ d = e

LEMMA ProcessDue ==
  ASSUME TransferInv, DeliveryInv, ProcessRuns, Process
  PROVE  /\ \A idx \in 0 .. total_chunks - 1 :
              ChunkGoesOut(idx) => DueSends(DataOf(page_start_offset, idx))
         /\ PageEndGoesOut => DueSends(EndOf(page_start_offset))
         /\ (NothingGoesOut \/ PageLeaves) => \A d \in Events : Due(d)' => Due(d)
<1>1. /\ pc # "idle" /\ session_nodes # <<>> /\ host.at \notin {"start", "verify"} /\ host' = host
      /\ total_chunks' = total_chunks /\ total_chunks \in Nat
      /\ page_start_offset \in Page
      /\ pc' # "idle" => page_start_offset' = page_start_offset
      /\ pc' = "idle" => /\ page_start_offset' = page_start_offset + 1
                         /\ pc \in {"wait", "resend"}
  BY ProcessFinds
<1> PICK q \in Nat : q = page_start_offset
  BY <1>1 DEF Page
<1>2. CoordinatorTypeOK
  BY DEF TransferInv, Base
<1>3. ASSUME NEW d \in Events, Due(d)', pc' # "idle"
      PROVE  \/ Due(d)
             \/ \E c \in 0 .. ChunksOut' - 1 : d = DataOf(q, c)
             \/ pc' \in {"wait", "resend"} /\ d = EndOf(q)
  BY <1>1, <1>3 DEF Due
<1>4. ASSUME NEW idx \in 0 .. total_chunks - 1, ChunkGoesOut(idx)
      PROVE  DueSends(DataOf(page_start_offset, idx))
  <2>1. ASSUME NEW c \in 0 .. ChunksOut' - 1
        PROVE  c \in 0 .. ChunksOut - 1 \/ c = idx
    <3>1. CASE pc = "chunk"
      BY <1>1, <1>4, <3>1 DEF ChunksOut, ChunkGoesOut
    <3>2. CASE pc # "chunk"
      BY <1>1, <1>4, <3>2 DEF ChunksOut, ChunkGoesOut
    <3> QED
      BY <3>1, <3>2
  <2>2. ASSUME NEW d \in Events, Due(d)'
        PROVE  Due(d) \/ d = DataOf(q, idx)
    <3>1. pc' = pc
      BY <1>4 DEF ChunkGoesOut
    <3>2. pc' \in {"wait", "resend"} /\ d = EndOf(q) => Due(d)
      BY <3>1 DEF Due
    <3>3. \A c \in 0 .. ChunksOut - 1 : d = DataOf(q, c) => Due(d)
      BY <1>1 DEF Due
    <3> QED
      BY <1>1, <1>3, <2>1, <2>2, <3>1, <3>2, <3>3
  <2> QED
    BY <2>2 DEF DueSends
<1>5. AllOut => ChunksOut = total_chunks
  BY DEF AllOut, ChunksOut
<1>6. ASSUME NEW d \in Events, Due(d)', pc' # "idle", pc' # "chunk", AllOut
      PROVE  Due(d) \/ (pc' \in {"wait", "resend"} /\ d = EndOf(q))
  <2>1. ChunksOut' = ChunksOut
    BY <1>1, <1>5, <1>6 DEF ChunksOut
  <2>2. \A c \in 0 .. ChunksOut - 1 : d = DataOf(q, c) => Due(d)
    BY <1>1 DEF Due
  <2> QED
    BY <1>3, <1>6, <2>1, <2>2
<1>7. ASSUME PageEndGoesOut
      PROVE  DueSends(EndOf(page_start_offset))
  BY <1>6, <1>7 DEF PageEndGoesOut, DueSends
<1>8. ASSUME NothingGoesOut, NEW d \in Events, Due(d)'
      PROVE  Due(d)
  <2>1. CASE pc' = "chunk"
    <3>1. ChunksOut' = ChunksOut /\ pc = "chunk"
      BY <1>8, <2>1 DEF NothingGoesOut, ChunksOut
    <3>2. \A c \in 0 .. ChunksOut - 1 : d = DataOf(q, c) => Due(d)
      BY <1>1 DEF Due
    <3> QED
      BY <1>3, <1>8, <2>1, <3>1, <3>2
  <2>2. CASE pc' # "chunk"
    <3>1. pc' \in {"wait", "resend"} => pc \in {"wait", "resend"}
      BY <1>8 DEF NothingGoesOut
    <3>2. pc \in {"wait", "resend"} /\ d = EndOf(q) => Due(d)
      BY DEF Due
    <3> QED
      BY <1>6, <1>8, <2>2, <3>1, <3>2 DEF NothingGoesOut
  <2> QED
    BY <2>1, <2>2
<1>9. ASSUME PageLeaves, NEW d \in Events, Due(d)'
      PROVE  Due(d)
  <2>1. /\ pc' = "idle" /\ page_start_offset' = q + 1 /\ pc \in {"wait", "resend"}
    BY <1>1, <1>9 DEF PageLeaves
  <2>2. page_start_offset' - 1 = q
    BY <2>1
  <2>3. d = EndOf(q) => Due(d)
    BY <2>1 DEF Due
  <2> QED
    BY <1>1, <1>9, <2>1, <2>2, <2>3 DEF Due
<1> QED
  BY <1>4, <1>7, <1>8, <1>9
\* A packet of the process is queued.
LEMMA ProcessQueuesPacket ==
  ASSUME TransferInv, DeliveryInv, ProcessRuns, Process,
         NEW pkt \in Packets, line' = Append(line, pkt), pkt.type # "START",
         pkt.type = "PAGE_END" => pc' \notin {"idle", "chunk"},
         \A d \in Events : Needs(Event(pkt), d) => Due(d),
         DueSends(Event(pkt))
  PROVE  DeliveryInv'
<1>1. QueuesTypeOK
  BY DEF TransferInv, SystemTypeOK
<1>2. /\ UNCHANGED <<hop, nodes, lost, reports, host>>
      /\ pc # "idle" /\ host.at \notin {"start", "verify"} /\ ~start_admission_in_progress'
      /\ \/ pc' # "idle" /\ page_start_offset' = page_start_offset
         \/ pc' = "idle" /\ line' = line
  BY ProcessFinds
<1>3. pc' # "idle" /\ page_start_offset' = page_start_offset
  <2>1. line' # line
    <3>1. line \in Seq(Packets)
      BY <1>1 DEF QueuesTypeOK
    <3>2. Len(line) \in Nat /\ Len(Append(line, pkt)) = Len(line) + 1
      BY <3>1, AppendLength
    <3> QED
      BY <3>2
  <2> QED
    BY <1>2, <2>1
<1>4. /\ Declared'
      /\ \A node \in Nodes : LastCommitted(node)' = LastCommitted(node)
      /\ \A i \in DOMAIN Line : \A k \in DOMAIN (Inbox(i)') :
           Inbox(i)'[k] = pkt \/ (k \in DOMAIN Inbox(i) /\ Inbox(i)'[k] = Inbox(i)[k])
  BY <1>1, <1>2, QueuesGrow
<1>5. pc' = "chunk" => pc = "chunk"
  <2>1. GoesOut
    BY ProcessFinds
  <2> QED
    BY <1>2, <2>1 DEF GoesOut, ChunkGoesOut, PageEndGoesOut, NothingGoesOut, PageLeaves
<1>6. NotEnded'
  BY <1>3, <1>4, <1>5 DEF DeliveryInv, NotEnded, Unasked
<1>7. ASSUME lost = 0
      PROVE  InSequence' /\ StreamSent' /\ OlderAdmitted'
  <2>1. StreamSent /\ OlderAdmitted
    BY <1>7 DEF DeliveryInv
  <2>2. StreamKept /\ Sent(Event(pkt))'
    <3>1. \A d \in Events : Needs(Event(pkt), d) => Sent(d)
      BY <2>1 DEF StreamSent
    <3> QED
      BY <1>1, <1>2, <1>7, <3>1, QueuesGrow
  <2>3. StreamSent'
    BY <2>1, <2>2, SentStays DEF DueSends
  <2>4. OlderAdmitted'
    BY <1>2, <2>1 DEF OlderAdmitted
  <2> QED
    BY <2>2, <2>3, <2>4 DEF StreamKept
<1> QED
  BY <1>2, <1>4, <1>6, <1>7, NodesRest

LEMMA ProcessRunsDelivers ==
  ASSUME TransferInv, DeliveryInv, ProcessRuns
  PROVE  DeliveryInv'
<1>1. CASE ~Process
  BY <1>1, ProcessRests
<1>2. CASE Process
  <2>1. /\ Base /\ CoordinatorTypeOK /\ CoordinatorInv /\ SessionOfHost /\ Distribute
        /\ QueuesTypeOK
    BY InvParts DEF TransferInv, Base, SystemTypeOK, ProcessRuns, Distribute
  <2>2. /\ pc # "idle" /\ session_nodes # <<>> /\ host.at \notin {"start", "verify"}
        /\ ~start_admission_in_progress' /\ UNCHANGED <<hop, nodes, lost, reports, host>>
        /\ page_start_offset \in Page
        /\ total_chunks \in Nat /\ total_chunks = PageLen(host.file.size, page_start_offset)
        /\ \/ pc' # "idle" /\ page_start_offset' = page_start_offset
           \/ pc' = "idle" /\ page_start_offset' = page_start_offset + 1
        /\ GoesOut
    BY <1>2, ProcessFinds
  <2>3. ASSUME NEW idx \in 0 .. total_chunks - 1, ChunkGoesOut(idx)
        PROVE  DeliveryInv'
    <3>1. PICK pkt \in Packets : pkt = ChunkPkt(idx)
      BY <1>2, <2>1, ProcessPackets
    <3>2. pkt.type = "DATA" /\ Event(pkt) = DataOf(page_start_offset, idx)
      BY <3>1 DEF ChunkPkt, DataPkt, Event, PageEvents, DataOf
    <3>3. ASSUME NEW d \in Events, Needs(Event(pkt), d)
          PROVE  Due(d)
      <4>1. d = Started \/ (page_start_offset > 0 /\ d = EndOf(page_start_offset - 1))
        BY <3>2, <3>3, EventFields DEF Needs
      <4> QED
        BY <2>2, <4>1 DEF Due
    <3>4. DueSends(Event(pkt))
      BY <1>2, <2>3, <3>2, ProcessDue
    <3> QED
      BY <1>2, <2>3, <3>1, <3>2, <3>3, <3>4, ProcessQueuesPacket DEF ChunkGoesOut
  <2>4. CASE PageEndGoesOut
    <3>1. PICK pkt \in Packets : pkt = end_pkt'
      BY <2>1, ProcessPackets
    <3>2. pkt.type = "PAGE_END" /\ Event(pkt) = EndOf(page_start_offset)
      <4>1. end_pkt.type = "PAGE_END" /\ end_pkt.page = page_start_offset
        BY <2>1, <2>2 DEF CoordinatorTypeOK, SessionOfHost
      <4>2. end_pkt' = end_pkt \/ end_pkt' = PageEndPkt(page_start_offset, end_pkt.crc, ota_target_slot)
        BY <2>1, DistributeSends DEF ProcessSends
      <4> QED
        BY <3>1, <4>1, <4>2 DEF PageEndPkt, Event, PageEvents, EndOf
    <3>3. ASSUME NEW d \in Events, Needs(Event(pkt), d)
          PROVE  Due(d)
      <4>1. \E c \in 0 .. total_chunks - 1 : d = DataOf(page_start_offset, c)
        BY <2>2, <3>2, <3>3, EventFields DEF Needs
      <4>2. ChunksOut = total_chunks
        BY <2>4 DEF PageEndGoesOut, AllOut, ChunksOut
      <4> QED
        BY <2>2, <4>1, <4>2 DEF Due
    <3>4. DueSends(Event(pkt))
      BY <1>2, <2>4, <3>2, ProcessDue
    <3> QED
      BY <1>2, <2>4, <3>1, <3>2, <3>3, <3>4, ProcessQueuesPacket DEF PageEndGoesOut
  <2>5. CASE NothingGoesOut \/ PageLeaves
    <3>1. line' = line
      BY <2>5 DEF NothingGoesOut, PageLeaves
    <3>2. \A d \in Events : Due(d)' => Due(d)
      BY <1>2, <2>5, ProcessDue
    <3>3. NotEnded'
      <4>1. /\ \A node \in Nodes : LastCommitted(node)' = LastCommitted(node)
            /\ \A i \in DOMAIN Line : Inbox(i)' = Inbox(i)
        BY <2>2, <3>1, QueuesRest
      <4>2. CASE NothingGoesOut
        <5>1. pc' = "chunk" => pc = "chunk"
          BY <4>2 DEF NothingGoesOut
        <5>2. pc' # "idle"
          BY <4>2 DEF NothingGoesOut
        <5> QED
          BY <2>2, <4>1, <5>1, <5>2 DEF DeliveryInv, NotEnded, Unasked
      <4>3. CASE PageLeaves
        <5>1. page_start_offset' = page_start_offset + 1
          BY <2>2, <4>3 DEF PageLeaves
        <5>2. page_start_offset \in Int
          BY <2>2 DEF Page
        <5>3. ASSUME NEW node \in Nodes
              PROVE  LastCommitted(node) < page_start_offset + 1
          <6>1. LastCommitted(node) <= page_start_offset /\ LastCommitted(node) \in Int
            BY InvParts, NodeFacts DEF TransferInv, NodesInv, NodeKeepsPages
          <6> QED
            BY <5>2, <6>1
        <5>4. ASSUME NEW i \in DOMAIN Line, NEW k \in DOMAIN Inbox(i), Inbox(i)[k].type = "PAGE_END"
              PROVE  Inbox(i)[k].page < page_start_offset + 1
          <6>1. Inbox(i)[k].page <= page_start_offset
            BY <5>4, InvParts DEF TransferInv, StreamInOrder, OfStream
          <6>2. PICK pkt \in Packets : pkt = Inbox(i)[k]
            BY <2>1, InboxTypes DEF InboxesOK
          <6>3. pkt.page \in Int
            BY <5>4, <6>2, EventOfType DEF PageEndPkts, Page
          <6> QED
            BY <5>2, <6>1, <6>2, <6>3
        <5> QED
          BY <4>1, <5>1, <5>3, <5>4 DEF NotEnded, Unasked
      <4> QED
        BY <2>5, <4>2, <4>3
    <3>4. ASSUME lost = 0
          PROVE  InSequence' /\ StreamSent' /\ OlderAdmitted'
      <4>1. StreamSent /\ OlderAdmitted /\ StreamKept
        BY <2>2, <3>1, <3>4, QueuesRest DEF DeliveryInv
      <4>2. OlderAdmitted'
        BY <2>2, <4>1 DEF OlderAdmitted
      <4> QED
        BY <3>2, <4>1, <4>2, SentStays DEF StreamKept
    <3> QED
      BY <2>2, <3>1, <3>3, <3>4, QueuesRest, NodesRest
  <2> QED
    BY <2>2, <2>3, <2>4, <2>5 DEF GoesOut
<1> QED
  BY <1>1, <1>2

-----------------------------------------------------------------------------
(* The transfer. *)

LEMMA StutterDelivers ==
  ASSUME DeliveryInv, UNCHANGED allVars
  PROVE  DeliveryInv'
<1>1. UNCHANGED <<line, hop, lost, nodes, reports, host, uart, pc, dist_chunk_idx, total_chunks,
                  page_start_offset, session_nodes, node_replied, session_start_accepted,
                  start_admission_in_progress>>
  BY DEF allVars, vars, coordinatorVars, senderVars, sessionVars, transferVars, processVars,
     systemVars, networkVars
<1>2. NotEnded'
  BY <1>1, QueuesRest DEF DeliveryInv, NotEnded, Unasked
<1>3. ASSUME lost = 0
      PROVE  InSequence' /\ StreamSent' /\ OlderAdmitted'
  <2>1. StreamSent /\ OlderAdmitted /\ StreamKept
    BY <1>1, <1>3, QueuesRest DEF DeliveryInv
  <2>2. \A d \in Events : Due(d)' => Due(d)
    BY <1>1 DEF Due, ChunksOut
  <2>3. OlderAdmitted'
    BY <1>1, <2>1 DEF OlderAdmitted, StartOnly, HeardOrComing, Coming, Inbox
  <2> QED
    BY <2>1, <2>2, <2>3, SentStays DEF StreamKept
<1> QED
  BY <1>1, <1>2, <1>3, QueuesRest, NodesRest

LEMMA DeliveryStep ==
  ASSUME Delivers, TransferInv, DeliveryInv, [SystemNext]_allVars
  PROVE  DeliveryInv'
<1>1. TransferInv'
  BY TransferStep DEF Delivers
<1>2. SystemTypeOK'
  BY <1>1 DEF TransferInv
<1>3. CASE HostActs
  BY <1>1, <1>3, HostActsDelivers
<1>4. CASE CommandArrives
  BY <1>1, <1>4, CommandArrivesDelivers
<1>5. CASE AdmissionTimesOut
  BY <1>5, AdmissionTimesOutDelivers
<1>6. CASE ProcessRuns
  BY <1>6, ProcessRunsDelivers
<1>7. ASSUME NEW i \in DOMAIN Line, Receive(i)
      PROVE  DeliveryInv'
  BY <1>2, <1>7, ReceiveDelivers
<1>8. ASSUME NEW node \in Nodes, SendReport(node)
      PROVE  DeliveryInv'
  BY <1>8, SendReportDelivers
<1>9. ASSUME NEW r \in reports, DeliverReport(r)
      PROVE  DeliveryInv'
  BY <1>9, DeliverReportDelivers
<1>10. CASE NetworkLoses
  BY <1>10, NetworkLosesDelivers
<1>11. CASE UNCHANGED allVars
  BY <1>11, StutterDelivers
<1> QED
  BY <1>3, <1>4, <1>5, <1>6, <1>7, <1>8, <1>9, <1>10, <1>11 DEF SystemNext, Network

LEMMA DeliveryInit ==
  ASSUME SystemInit
  PROVE  DeliveryInv
<1>1. Base /\ SystemTypeOK
  BY SystemInitType
<1>2. Untouched
  BY DEF SystemInit, NetworkInit, Init, SenderInit, CoordinatorInit, Untouched, Rebooted
<1>3. NothingSaid
  BY DEF SystemInit, NetworkInit, Init, SenderInit, CoordinatorInit, NothingSaid
<1> QED
  BY <1>1, <1>2, <1>3, UntouchedDelivers

\* Nothing overtakes what it needs, what the coordinator is past was sent, and an older
\* node takes every packet as long as the network loses none.
THEOREM DeliveryCorrect == Delivers => (SystemSpec => []DeliveryInv)
<1> SUFFICES ASSUME Delivers
             PROVE  SystemSpec => []DeliveryInv
  OBVIOUS
<1>1. SystemInit => DeliveryInv
  BY DeliveryInit
<1>2. DeliveryInv /\ TransferInv /\ [SystemNext]_allVars => DeliveryInv'
  BY DeliveryStep
<1>3. SystemSpec => []TransferInv
  BY TransferInvariant DEF Delivers
<1> QED
  BY <1>1, <1>2, <1>3, PTL DEF SystemSpec

\* What DeliveryInv says when the script is done.
LEMMA DoneStaged ==
  ASSUME TransferInv, DeliveryInv
  PROVE  DoneMeansStaged
<1> SUFFICES ASSUME host.at = "done", lost = 0, NetworkQuiet,
                    NEW j \in DOMAIN Line, Older(Line[j])
             PROVE  nodes[Line[j]].staged # NoStage
  BY DEF DoneMeansStaged
<1>1. Due(Verified)
  BY DEF Due
<1>2. Sent(Verified)
  BY <1>1, EventsOf DEF DeliveryInv, StreamSent
<1>3. \A i \in DOMAIN Line : Inbox(i) = <<>>
  BY DEF NetworkQuiet, NothingInFlight, Inbox
<1>4. ~Coming(j, Verified)
  <2>1. 1 .. j \subseteq DOMAIN Line
    BY LineType
  <2> QED
    BY <1>3, <2>1 DEF Coming
<1>5. Arrived(nodes[Line[j]], Verified)
  BY <1>2, <1>4 DEF Sent
<1> QED
  BY <1>5, EventFields DEF Arrived, PageEvents

\* The transfer achieves something, whatever the file, the line of nodes and the order in
\* which things happen: done, with no packet lost, every older node has staged the file.
THEOREM DoneMeansStagedCorrect == Delivers => (SystemSpec => []DoneMeansStaged)
<1> SUFFICES ASSUME Delivers
             PROVE  SystemSpec => []DoneMeansStaged
  OBVIOUS
<1>1. SystemSpec => []TransferInv
  BY TransferInvariant DEF Delivers
<1>2. SystemSpec => []DeliveryInv
  BY DeliveryCorrect
<1>3. TransferInv /\ DeliveryInv => DoneMeansStaged
  BY DoneStaged
<1> QED
  BY <1>1, <1>2, <1>3, PTL
=============================================================================
