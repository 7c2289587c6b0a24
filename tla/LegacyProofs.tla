----------------------------- MODULE LegacyProofs -----------------------------
(***************************************************************************)
(* Proofs about the builds without a boot manager.  A page the legacy      *)
(* coordinator has finished stays in the flash of every node of its        *)
(* session, whatever the network, the flash drivers and the byte that is   *)
(* never sent do; and without a fault every node of the line verifies.     *)
(***************************************************************************)
EXTENDS LegacySystem, TLAPS, FiniteSetTheorems, WellFoundedInduction

-----------------------------------------------------------------------------
(* What is assumed. *)

\* The script is run once: a report of an earlier run names no run, and counts.
OneRun == MaxStarts <= 1

\* An acknowledged chunk is not sent again: the coordinator would count it twice.
ReliableAnswers == "answers" \notin LossyLinks

Transfers == OneRun /\ ReliableAnswers

-----------------------------------------------------------------------------
(* Types. *)

Node ==
  [flash : [Page -> [Chunk -> Cell]], current_file_size : Size,
   running_fw_crc : Seq(PageContent), current_rx_page_offset : Page \cup {NoPage},
   page_bitmap : SUBSET Chunk, page_0_erased : BOOLEAN,
   report_to_send : [page : Page \cup {NoPage}, bitmap : SUBSET Chunk],
   verified : {"no", "success", "failed"}]

Packet ==
  [type : {"START"}, size : Size, sec_ver : Nat, target : {NoTarget}]
    \cup [type : {"DATA"}, page : Page, chunk : Chunk, data : Cell, target : {NoTarget}]
    \cup [type : {"PAGE_END"}, page : Page, crc : PageContent, target : {NoTarget}]
    \cup [type : {"VERIFY"}, crc : Seq(PageContent), target : {NoTarget}]

\* The packets of the transfer of a file.
Carries(pkt, img) ==
  /\ pkt.type = "START" => pkt.size = img.size
  /\ pkt.type = "DATA" =>
       pkt.chunk < PageLen(img.size, pkt.page) /\ pkt.data = img.data[pkt.page][pkt.chunk]
  /\ pkt.type = "PAGE_END" =>
       pkt.page < img.size.pages /\ pkt.crc = ImagePage(img, pkt.page)
  /\ pkt.type = "VERIFY" => pkt.crc = ImageCrc(img)

PacketsOf(img) == {pkt \in Packet : Carries(pkt, img)}

Report == [type : {"BITMAP_REPORT"}, node : Nodes,
           report : [page : Page \cup {NoPage}, bitmap : SUBSET Chunk]]

QueuesTypeOK ==
  line \in Seq(PacketsOf(host.file)) /\ hop \in [DOMAIN Line -> Seq(PacketsOf(host.file))]

CoordinatorTypeOK ==
  /\ session_nodes \in Seq(Nodes) /\ Len(session_nodes) <= MAX_NODES
  /\ node_replied \in [Index -> BOOLEAN]
  /\ session_bitmaps \in [Index -> SUBSET Chunk]
  /\ current_file_size \in Size /\ ota_target_slot = NoTarget
  /\ page_buffer \in [Chunk -> Cell]
  /\ page_start_offset \in 0 .. current_file_size.pages
  /\ page_bytes_received \in 0 .. PageChunks
  /\ pc \in {"idle", "chunk", "pageEnd", "wait", "resend"}
  /\ dist_chunk_idx \in 0 .. total_chunks /\ total_chunks \in 0 .. PageChunks
  /\ end_pkt.target = NoTarget /\ end_pkt.type = "PAGE_END"
  /\ recovery_round \in 0 .. MaxRounds

TypeOK ==
  /\ CoordinatorTypeOK /\ QueuesTypeOK
  /\ host \in [at : {"off", "start", "data", "page", "verify", "done", "failed"}, file : Images,
               target : SentTargets, page : Page, chunk : Chunk, attempt : Nat]
  /\ nodes \in [Nodes -> Node]
  /\ reports \subseteq Report
  /\ starts \in Nat

-----------------------------------------------------------------------------
(* The script, the serial link and the coordinator. *)

\* Between two pages, with `received` chunks of the next one; or at work on a page.
At(page, received) ==
  /\ pc = "idle" /\ ~distribution_in_progress
  /\ page_start_offset = page /\ page_bytes_received = received
WorksOn(page) ==
  /\ pc # "idle" /\ distribution_in_progress
  /\ page_start_offset = page
  /\ page_bytes_received = ExpectedPageSize /\ ExpectedPageSize > 0

Sent == current_file_size = host.file.size

\* Nothing was sent to the nodes yet.
Untouched ==
  /\ current_file_size = NoFile /\ At(0, 0) /\ uart = <<>>
  /\ line = <<>> /\ \A i \in DOMAIN Line : hop[i] = <<>>
  /\ reports = {}
  /\ \A node \in Nodes : nodes[node] = Boot(OldFlash)

NotSent ==
  /\ Untouched
  /\ \/ host.at = "off" /\ commands = <<>>
     \/ host.at = "start" /\ starts > 0 /\
          (commands = <<>> \/ \E v \in SecVers, t \in SentTargets : commands = <<StartCmd(host.file, v, t)>>)
     \/ host.at = "failed" /\ starts > 0 /\ commands = <<>>

SendsData ==
  /\ host.at = "data" /\ host.chunk < PageLen(host.file.size, host.page)
  /\ LET last == host.chunk + 1 = PageLen(host.file.size, host.page)
         none == commands = <<>>
     IN \/ /\ none \/ commands = <<DataCmd(host.file, host.page, host.chunk)>>
           /\ uart = <<>> /\ At(host.page, host.chunk)
        \/ ~last /\ none /\ uart = <<"ACK">> /\ At(host.page, host.chunk + 1)
        \/ last /\ none /\ uart = <<"ACK">> /\ WorksOn(host.page)
        \/ last /\ none /\ uart = <<"ACK", "PAGE_OK">> /\ At(host.page + 1, 0)

WaitsForPage ==
  /\ host.at = "page" /\ commands = <<>>
  /\ \/ uart = <<>> /\ WorksOn(host.page)
     \/ uart = <<"PAGE_OK">> /\ At(host.page + 1, 0)

SendsVerify ==
  /\ host.at = "verify" /\ At(host.file.size.pages, 0)
  /\ \/ (commands = <<>> \/ commands = <<VerifyCmd(host.file)>>) /\ uart = <<>>
     \/ commands = <<>> /\ uart = <<"ACK">>

Stopped ==
  /\ host.at \in {"done", "failed"} /\ commands = <<>>
  /\ At(page_start_offset, page_bytes_received) \/ WorksOn(page_start_offset)
  /\ host.at = "done" => At(host.file.size.pages, 0)

InStep ==
  \/ NotSent
  \/ /\ Sent /\ starts > 0
     /\ \/ host.at = "start" /\ commands = <<>> /\ uart = <<"ACK">> /\ At(0, 0)
        \/ SendsData \/ WaitsForPage \/ SendsVerify \/ Stopped

\* What is buffered of the page is the file's, and what goes out.
BufferOfFile ==
  /\ page_bytes_received <= ExpectedPageSize
  /\ \A c \in 0 .. page_bytes_received - 1 :
       page_buffer[c] = host.file.data[page_start_offset][c]
ProcessOfFile ==
  pc # "idle" =>
    /\ total_chunks = ExpectedPageSize
    /\ end_pkt = PageEndPkt(page_start_offset, ImagePage(host.file, page_start_offset), NoTarget)

-----------------------------------------------------------------------------
(* The order of the packets. *)

\* START is the first packet a node gets.
StartFirst ==
  \A i \in DOMAIN Line : \A k \in DOMAIN Inbox(i) :
    Inbox(i)[k].type = "START" =>
      /\ k = 1
      /\ \A j \in DOMAIN Line :
           /\ j > i => Inbox(j) = <<>>
           /\ j >= i => nodes[Line[j]].current_rx_page_offset = NoPage

\* Only VERIFY follows VERIFY.
AllSent ==
  /\ Sent /\ pc = "idle" /\ page_start_offset = host.file.size.pages
  /\ host.at \in {"verify", "done", "failed"}

OnlyVerify(q) == \A k \in DOMAIN q : q[k].type = "VERIFY"

VerifyLast ==
  \A i \in DOMAIN Line : \A k \in DOMAIN Inbox(i) :
    Inbox(i)[k].type = "VERIFY" =>
      /\ AllSent
      /\ \A l \in DOMAIN Inbox(i) : l > k => Inbox(i)[l].type = "VERIFY"
      /\ \A j \in DOMAIN Line : j < i => OnlyVerify(Inbox(j))

-----------------------------------------------------------------------------
(* Pages that stay. *)

PageFull(img, p, bitmap) == 0 .. PageLen(img.size, p) - 1 \subseteq bitmap

HoldsPage(m, img, p) == Prefix(m.flash[p], PageLen(img.size, p)) = ImagePage(img, p)

\* No packet of the transfer changes page p of the node any more: it is at a later
\* page, or has every chunk of p and found the page to match.
Keeps(m, img, p) ==
  /\ HoldsPage(m, img, p)
  /\ \/ m.current_rx_page_offset > p
     \/ /\ m.current_rx_page_offset = p /\ m.current_file_size = img.size
        /\ PageFull(img, p, m.page_bitmap)

\* A full bitmap of a page not finished yet comes from a node that keeps the page.
FullMeansKept(m, img, report) ==
  report.page >= page_start_offset /\ report.page < img.size.pages
    /\ PageFull(img, report.page, report.bitmap)
      => Keeps(m, img, report.page)

ReportsKept ==
  /\ \A r \in reports : FullMeansKept(nodes[r.node], host.file, r.report)
  /\ \A node \in Nodes : FullMeansKept(nodes[node], host.file, nodes[node].report_to_send)

BitmapsKept ==
  pc # "idle" => \A i \in DOMAIN session_nodes :
    PageFull(host.file, page_start_offset, session_bitmaps[i])
      => Keeps(nodes[session_nodes[i]], host.file, page_start_offset)

\* VERIFY makes a node forget its page, but then only VERIFY follows.
Over(i) ==
  /\ AllSent /\ nodes[Line[i]].current_rx_page_offset = NoPage
  /\ \A j \in DOMAIN Line : j <= i => OnlyVerify(Inbox(j))

PageStays(i, p) ==
  \/ Keeps(nodes[Line[i]], host.file, p)
  \/ Over(i) /\ HoldsPage(nodes[Line[i]], host.file, p)

PagesKept ==
  \A p \in 0 .. page_start_offset - 1, i \in DOMAIN Line :
    p \notin abandoned /\ Line[i] \in ToSet(session_nodes) => PageStays(i, p)

SessionOfLine ==
  \A w \in DOMAIN session_nodes : \E i \in DOMAIN Line : session_nodes[w] = Line[i]

\* A node that missed START knows no file, and finds no page to match.
FilesOfNodes ==
  \A node \in Nodes : nodes[node].current_file_size \in {NoFile, host.file.size}

IInv ==
  /\ TypeOK /\ FilesOfNodes
  /\ InStep /\ BufferOfFile /\ ProcessOfFile
  /\ StartFirst /\ VerifyLast
  /\ SessionOfLine /\ ReportsKept /\ BitmapsKept /\ PagesKept

-----------------------------------------------------------------------------
(* What a node makes of a packet, on its record. *)

LEMMA PageLenType ==
  ASSUME NEW size \in Size, NEW p \in Nat
  PROVE  /\ PageLen(size, p) \in 0 .. PageChunks
         /\ PageLen(size, p) > 0 => p \in Page /\ p < size.pages
BY WireAssumption DEF Size, PageLen, Page

LEMMA PrefixType ==
  ASSUME NEW page \in [Chunk -> Cell], NEW len \in 0 .. PageChunks
  PROVE  Prefix(page, len) \in PageContent
<1>1. Prefix(page, len) \in [0 .. len - 1 -> Cell]
  BY WireAssumption DEF Prefix, Chunk
<1> QED
  BY <1>1 DEF PageContent

\* A page of a file has chunks.
LEMMA FilePage ==
  ASSUME NEW img \in Image, NEW p \in Nat, p < img.size.pages
  PROVE  /\ p \in Page /\ PageLen(img.size, p) \in 1 .. PageChunks
         /\ img.size \in Size /\ img.size.pages \in Nat
         /\ \A bitmap : PageFull(img, p, bitmap) => bitmap # {}
<1>1. img.size \in FileSize /\ img.size \in Size
  BY DEF Image, FileSize
<1>2. /\ img.size.pages \in 0 .. MaxPages /\ img.size.last \in 0 .. PageChunks
      /\ img.size.last > 0
  BY <1>1 DEF FileSize, Size
<1>3. p \in Page /\ PageLen(img.size, p) \in 1 .. PageChunks
  BY <1>2, WireAssumption DEF Page, PageLen
<1>4. 0 \in 0 .. PageLen(img.size, p) - 1
  BY <1>3
<1> QED
  BY <1>1, <1>2, <1>3, <1>4 DEF PageFull

LEMMA NodeFields ==
  ASSUME NEW m \in Node
  PROVE  /\ m.flash \in [Page -> [Chunk -> Cell]] /\ m.current_file_size \in Size
         /\ m.running_fw_crc \in Seq(PageContent)
         /\ m.current_rx_page_offset \in Page \cup {NoPage} /\ m.page_bitmap \in SUBSET Chunk
         /\ m.page_0_erased \in BOOLEAN
         /\ m.report_to_send \in [page : Page \cup {NoPage}, bitmap : SUBSET Chunk]
         /\ m.verified \in {"no", "success", "failed"}
         /\ m.current_rx_page_offset \in Int
BY WireAssumption DEF Node, Page, NoPage

LEMMA FlashPageType ==
  ASSUME NEW m \in Node, NEW p \in Page
  PROVE  FlashPage(m, p) \in PageContent
<1>1. m.flash[p] \in [Chunk -> Cell] /\ m.current_file_size \in Size
  BY NodeFields
<1>2. p \in Nat
  BY WireAssumption DEF Page
<1> QED
  BY <1>1, <1>2, PageLenType, PrefixType DEF FlashPage

\* The rest of the record, and of the flash.
SameExceptPage(r, m, p) ==
  /\ r \in Node
  /\ r.current_file_size = m.current_file_size /\ r.running_fw_crc = m.running_fw_crc
  /\ r.current_rx_page_offset = m.current_rx_page_offset
  /\ r.report_to_send = m.report_to_send /\ r.verified = m.verified
  /\ \A q \in Page : q # p => r.flash[q] = m.flash[q]

LEMMA ErasedPageType == ErasedPage \in [Chunk -> Cell]
BY DEF ErasedPage, ErasedCell, Cell

LEMMA ErasePageEffect ==
  ASSUME NEW m \in Node, NEW p \in Page, NEW ok \in BOOLEAN
  PROVE  /\ SameExceptPage(ErasePage(m, p, ok), m, p)
         /\ ErasePage(m, p, ok).page_bitmap = m.page_bitmap
         /\ ErasePage(m, p, ok).page_0_erased = m.page_0_erased
         /\ ok => ErasePage(m, p, ok).flash[p] = ErasedPage
BY ErasedPageType DEF ErasePage, SameExceptPage, Node

LEMMA StoreChunkEffect ==
  ASSUME NEW m \in Node, NEW pkt, pkt.page \in Page, pkt.chunk \in Chunk,
         NEW data \in Cell, NEW ok \in BOOLEAN
  PROVE  /\ SameExceptPage(StoreChunk(m, pkt, data, ok), m, pkt.page)
         /\ pkt.chunk \in m.page_bitmap => StoreChunk(m, pkt, data, ok) = m
<1>1. CASE pkt.chunk \in m.page_bitmap
  BY <1>1 DEF StoreChunk, SameExceptPage
<1>2. CASE pkt.chunk \notin m.page_bitmap
  <2> DEFINE cell == IF ok THEN m.flash[pkt.page][pkt.chunk] \cap data
                     ELSE m.flash[pkt.page][pkt.chunk]
             flash == [m.flash EXCEPT ![pkt.page][pkt.chunk] = cell]
  <2>1. m.flash \in [Page -> [Chunk -> Cell]] /\ m.page_bitmap \subseteq Chunk
    BY NodeFields
  <2>2. cell \in Cell
    BY <2>1 DEF Cell
  <2> HIDE DEF cell
  <2>3. flash \in [Page -> [Chunk -> Cell]] /\ \A q \in Page : q # pkt.page => flash[q] = m.flash[q]
    BY <2>1, <2>2
  <2>4. StoreChunk(m, pkt, data, ok) =
          [[m EXCEPT !.page_bitmap = m.page_bitmap \cup {pkt.chunk}] EXCEPT !.flash = flash]
    BY <1>2 DEF StoreChunk, cell, Node
  <2> HIDE DEF flash
  <2>5. m.page_bitmap \cup {pkt.chunk} \in SUBSET Chunk
    BY <2>1
  <2>6. SameExceptPage(StoreChunk(m, pkt, data, ok), m, pkt.page)
    BY <2>3, <2>4, <2>5 DEF SameExceptPage, Node
  <2> QED
    BY <1>2, <2>6
<1> QED
  BY <1>1, <1>2

\* Selecting a page may erase that page, nothing else.
LEMMA SelectPageEffect ==
  ASSUME NEW m \in Node, NEW p \in Page, NEW opened \in BOOLEAN, NEW ok \in BOOLEAN
  PROVE  /\ SameExceptPage(SelectPage(m, p, opened, ok),
                           [m EXCEPT !.current_rx_page_offset = p, !.page_bitmap = {}], p)
         /\ SelectPage(m, p, opened, ok).page_bitmap = {}
<1> DEFINE chosen == [m EXCEPT !.current_rx_page_offset = p, !.page_bitmap = {}]
           marked == [chosen EXCEPT !.page_0_erased = opened]
<1>1. chosen \in Node /\ chosen.page_bitmap = {}
  BY DEF Node
<1>2. marked \in Node /\ SameExceptPage(marked, chosen, p) /\ marked.page_bitmap = {}
  BY <1>1 DEF Node, SameExceptPage
<1> HIDE DEF chosen
<1>3. SameExceptPage(chosen, chosen, p)
  BY <1>1 DEF SameExceptPage
<1>4. CASE m.current_rx_page_offset = NoPage /\ p = 0 /\ m.page_0_erased
  <2>1. SelectPage(m, p, opened, ok) = chosen
    BY <1>4 DEF SelectPage, chosen
  <2> QED
    BY <1>1, <1>3, <2>1 DEF chosen
<1>5. CASE m.current_rx_page_offset = NoPage /\ p = 0 /\ ~m.page_0_erased
  <2>1. SelectPage(m, p, opened, ok) = ErasePage(marked, p, opened /\ ok)
    BY <1>5 DEF SelectPage, chosen
  <2>2. /\ SameExceptPage(ErasePage(marked, p, opened /\ ok), marked, p)
        /\ ErasePage(marked, p, opened /\ ok).page_bitmap = marked.page_bitmap
    BY <1>2, ErasePageEffect
  <2> HIDE DEF marked
  <2> QED
    BY <1>2, <2>1, <2>2 DEF SameExceptPage, chosen
<1>6. CASE ~(m.current_rx_page_offset = NoPage /\ p = 0)
  <2>1. SelectPage(m, p, opened, ok) = ErasePage(chosen, p, opened /\ ok)
    BY <1>6 DEF SelectPage, chosen
  <2>2. /\ SameExceptPage(ErasePage(chosen, p, opened /\ ok), chosen, p)
        /\ ErasePage(chosen, p, opened /\ ok).page_bitmap = {}
    BY <1>1, ErasePageEffect
  <2> QED
    BY <2>1, <2>2 DEF chosen
<1> QED
  BY <1>4, <1>5, <1>6

LEMMA OnDataEffect ==
  ASSUME NEW m \in Node, NEW pkt \in Packet, pkt.type = "DATA", NEW stale \in SUBSET LastByte,
         NEW opened \in BOOLEAN, NEW erased \in BOOLEAN, NEW written \in BOOLEAN,
         NEW r, r = OnData(m, pkt, stale, opened, erased, written)
  PROVE  /\ r \in Node
         /\ r.current_file_size = m.current_file_size /\ r.report_to_send = m.report_to_send
         /\ pkt.page < m.current_rx_page_offset => r = m
         /\ pkt.page >= m.current_rx_page_offset => r.current_rx_page_offset = pkt.page
         /\ \A q \in Page : q # pkt.page => r.flash[q] = m.flash[q]
         /\ pkt.page = m.current_rx_page_offset /\ pkt.chunk \in m.page_bitmap => r = m
<1>1. pkt.page \in Page /\ pkt.page \in Nat /\ pkt.chunk \in Chunk /\ pkt.data \in Cell
  BY DEF Packet, Page
<1>2. m.current_rx_page_offset \in Int
  BY NodeFields
<1> DEFINE data == Received(pkt.data, stale)
<1>3. data \in Cell
  BY <1>1, LastByteAssumption DEF Received, Cell
<1> HIDE DEF data
<1>4. CASE pkt.page < m.current_rx_page_offset
  BY <1>1, <1>2, <1>4 DEF OnData, OlderPage
<1>5. CASE pkt.page = m.current_rx_page_offset
  <2>1. r = StoreChunk(m, pkt, data, written)
    BY <1>1, <1>5 DEF OnData, OlderPage, data
  <2> QED
    BY <1>1, <1>3, <1>5, <2>1, StoreChunkEffect DEF SameExceptPage
<1>6. CASE pkt.page > m.current_rx_page_offset
  <2> DEFINE s == SelectPage(m, pkt.page, opened, erased)
             chosen == [m EXCEPT !.current_rx_page_offset = pkt.page, !.page_bitmap = {}]
  <2>1. r = StoreChunk(s, pkt, data, written)
    BY <1>1, <1>2, <1>6 DEF OnData, OlderPage, data
  <2>2. SameExceptPage(s, chosen, pkt.page)
    BY <1>1, SelectPageEffect
  <2>3. /\ chosen.current_file_size = m.current_file_size
        /\ chosen.report_to_send = m.report_to_send /\ chosen.flash = m.flash
        /\ chosen.current_rx_page_offset = pkt.page
    BY DEF Node
  <2> HIDE DEF s, chosen
  <2>4. s \in Node
    BY <2>2 DEF SameExceptPage
  <2>5. SameExceptPage(r, s, pkt.page)
    BY <1>1, <1>3, <2>1, <2>4, StoreChunkEffect
  <2> QED
    BY <1>1, <1>2, <1>6, <2>2, <2>3, <2>5 DEF SameExceptPage
<1> QED
  BY <1>1, <1>2, <1>4, <1>5, <1>6
LEMMA OnStartEffect ==
  ASSUME NEW m \in Node, NEW pkt \in Packet, pkt.type = "START",
         NEW opened \in BOOLEAN, NEW erased \in BOOLEAN,
         NEW r, r = OnStart(m, pkt, opened, erased)
  PROVE  /\ r \in Node
         /\ r.current_file_size = pkt.size /\ r.current_rx_page_offset = NoPage
         /\ r.report_to_send = m.report_to_send
<1> DEFINE fresh == [m EXCEPT !.current_file_size = pkt.size, !.running_fw_crc = <<>>,
                              !.current_rx_page_offset = NoPage, !.page_bitmap = {},
                              !.page_0_erased = opened]
<1>1. pkt.size \in Size /\ <<>> \in Seq(PageContent)
  BY DEF Packet
<1>2. /\ fresh \in Node /\ fresh.current_file_size = pkt.size
      /\ fresh.current_rx_page_offset = NoPage /\ fresh.report_to_send = m.report_to_send
  BY <1>1 DEF Node
<1>3. r = ErasePage(fresh, 0, opened /\ erased)
  BY DEF OnStart
<1>4. 0 \in Page
  BY WireAssumption DEF Page
<1> HIDE DEF fresh
<1>5. SameExceptPage(r, fresh, 0)
  BY <1>2, <1>3, <1>4, ErasePageEffect
<1> QED
  BY <1>2, <1>5 DEF SameExceptPage

\* PAGE_END of a page the node passed is ignored.  Otherwise the node is at that page,
\* and reports its bitmap if the page matches, and an empty one if not.
Ignores(m, r) == r = m
Matched(m, pkt, r) ==
  /\ PageLen(m.current_file_size, pkt.page) > 0 /\ FlashPage(m, pkt.page) = pkt.crc
  /\ r.page_bitmap = IF pkt.page = m.current_rx_page_offset THEN m.page_bitmap ELSE {}
Mismatched(m, pkt, r) ==
  /\ ~(PageLen(m.current_file_size, pkt.page) > 0 /\ FlashPage(m, pkt.page) = pkt.crc)
  /\ r.page_bitmap = {}

LEMMA CheckPageEffect ==
  ASSUME NEW m \in Node, NEW pkt \in Packet, pkt.type = "PAGE_END",
         m.current_rx_page_offset = pkt.page, NEW r, r = CheckPage(m, pkt, TRUE)
  PROVE  /\ r \in Node /\ r.flash = m.flash /\ r.current_file_size = m.current_file_size
         /\ r.current_rx_page_offset = pkt.page
         /\ r.report_to_send = [page |-> pkt.page, bitmap |-> r.page_bitmap]
         /\ Matched(m, pkt, r) \/ Mismatched(m, pkt, r)
<1>1. pkt.page \in Page
  BY DEF Packet
<1>2. m.running_fw_crc \in Seq(PageContent) /\ m.page_bitmap \in SUBSET Chunk
  BY NodeFields
<1>3. CASE PageMatches(m, pkt, TRUE)
  <2> DEFINE crc == Append(m.running_fw_crc, FlashPage(m, pkt.page))
             report == [page |-> pkt.page, bitmap |-> m.page_bitmap]
  <2>1. crc \in Seq(PageContent)
    BY <1>1, <1>2, FlashPageType
  <2>2. r = [[m EXCEPT !.running_fw_crc = crc] EXCEPT !.report_to_send = report]
    BY <1>3 DEF CheckPage, Reported, Node
  <2>3. report \in [page : Page \cup {NoPage}, bitmap : SUBSET Chunk]
    BY <1>1, <1>2
  <2> HIDE DEF crc
  <2>4. /\ r \in Node /\ r.flash = m.flash /\ r.current_file_size = m.current_file_size
        /\ r.current_rx_page_offset = m.current_rx_page_offset
        /\ r.report_to_send = report /\ r.page_bitmap = m.page_bitmap
    BY <2>1, <2>2, <2>3 DEF Node
  <2> QED
    BY <1>3, <2>4 DEF PageMatches, Matched
<1>4. CASE ~PageMatches(m, pkt, TRUE)
  <2> DEFINE report == [page |-> pkt.page, bitmap |-> {}]
  <2>1. r = [[m EXCEPT !.page_bitmap = {}] EXCEPT !.report_to_send = report]
    BY <1>4 DEF CheckPage, Reported, Node
  <2>2. report \in [page : Page \cup {NoPage}, bitmap : SUBSET Chunk]
    BY <1>1
  <2>3. /\ r \in Node /\ r.flash = m.flash /\ r.current_file_size = m.current_file_size
        /\ r.current_rx_page_offset = m.current_rx_page_offset
        /\ r.report_to_send = report /\ r.page_bitmap = {}
    BY <2>1, <2>2 DEF Node
  <2> QED
    BY <1>4, <2>3 DEF PageMatches, Mismatched
<1> QED
  BY <1>3, <1>4

LEMMA OnPageEndEffect ==
  ASSUME NEW m \in Node, NEW pkt \in Packet, pkt.type = "PAGE_END",
         NEW r, r = OnPageEnd(m, pkt, TRUE)
  PROVE  /\ r \in Node /\ r.flash = m.flash /\ r.current_file_size = m.current_file_size
         /\ \/ Ignores(m, r) /\ pkt.page # m.current_rx_page_offset
            \/ /\ r.current_rx_page_offset = pkt.page /\ pkt.page >= m.current_rx_page_offset
               /\ r.report_to_send = [page |-> pkt.page, bitmap |-> r.page_bitmap]
               /\ Matched(m, pkt, r) \/ Mismatched(m, pkt, r)
<1>1. pkt.page \in Page /\ pkt.page \in Nat
  BY DEF Packet, Page
<1>2. m.current_rx_page_offset \in Int
  BY NodeFields
<1>3. CASE pkt.page = m.current_rx_page_offset
  <2>1. r = CheckPage(m, pkt, TRUE)
    BY <1>3 DEF OnPageEnd
  <2>2. pkt.page >= m.current_rx_page_offset
    BY <1>1, <1>3
  <2>3. /\ r \in Node /\ r.flash = m.flash /\ r.current_file_size = m.current_file_size
        /\ r.current_rx_page_offset = pkt.page
        /\ r.report_to_send = [page |-> pkt.page, bitmap |-> r.page_bitmap]
        /\ Matched(m, pkt, r) \/ Mismatched(m, pkt, r)
    BY <1>3, <2>1, CheckPageEffect
  <2> QED
    BY <2>2, <2>3
<1>4. CASE pkt.page # m.current_rx_page_offset /\ Selects(m, pkt)
  <2> DEFINE s == [m EXCEPT !.current_rx_page_offset = pkt.page, !.page_bitmap = {}]
  <2>1. r = CheckPage(s, pkt, TRUE)
    BY <1>4 DEF OnPageEnd
  <2>2. /\ s \in Node /\ s.current_rx_page_offset = pkt.page /\ s.flash = m.flash
        /\ s.current_file_size = m.current_file_size /\ s.page_bitmap = {}
    BY <1>1 DEF Node
  <2>3. FlashPage(s, pkt.page) = FlashPage(m, pkt.page)
    BY <2>2 DEF FlashPage
  <2> HIDE DEF s
  <2>4. /\ r \in Node /\ r.flash = s.flash /\ r.current_file_size = s.current_file_size
        /\ r.current_rx_page_offset = pkt.page
        /\ r.report_to_send = [page |-> pkt.page, bitmap |-> r.page_bitmap]
        /\ Matched(s, pkt, r) \/ Mismatched(s, pkt, r)
    BY <2>1, <2>2, CheckPageEffect
  <2>5. Matched(m, pkt, r) \/ Mismatched(m, pkt, r)
    BY <1>4, <2>2, <2>3, <2>4 DEF Matched, Mismatched
  <2>6. pkt.page >= m.current_rx_page_offset
    BY <1>1, <1>2, <1>4 DEF Selects, NoPage
  <2> QED
    BY <2>2, <2>4, <2>5, <2>6
<1>5. CASE pkt.page # m.current_rx_page_offset /\ ~Selects(m, pkt)
  <2>1. r = m
    BY <1>5 DEF OnPageEnd
  <2> QED
    BY <1>5, <2>1 DEF Ignores
<1> QED
  BY <1>3, <1>4, <1>5

LEMMA OnVerifyEffect ==
  ASSUME NEW m \in Node, NEW pkt \in Packet, pkt.type = "VERIFY",
         NEW r, r = OnVerify(m, pkt)
  PROVE  /\ r \in Node /\ r.flash = m.flash /\ r.current_file_size = m.current_file_size
         /\ r.current_rx_page_offset = NoPage
         /\ r.verified = IF m.running_fw_crc = pkt.crc THEN "success" ELSE "failed"
<1> DEFINE said == IF m.current_rx_page_offset = NoPage THEN m ELSE Reported(m)
           outcome == IF m.running_fw_crc = pkt.crc THEN "success" ELSE "failed"
<1>1. /\ said \in Node /\ said.flash = m.flash /\ said.current_file_size = m.current_file_size
  <2>1. Reported(m) \in Node
    BY NodeFields DEF Reported, Node
  <2> QED
    BY <2>1 DEF Reported, Node
<1>2. r = [said EXCEPT !.current_rx_page_offset = NoPage, !.verified = outcome]
  BY DEF OnVerify, Verifies
<1>3. outcome \in {"success", "failed"}
  OBVIOUS
<1> HIDE DEF said, outcome
<1>4. /\ r \in Node /\ r.flash = said.flash /\ r.current_file_size = said.current_file_size
      /\ r.current_rx_page_offset = NoPage /\ r.verified = outcome
  BY <1>1, <1>2, <1>3 DEF Node
<1> QED
  BY <1>1, <1>4 DEF outcome
-----------------------------------------------------------------------------
(* No packet of the transfer changes a page a node keeps. *)

LEMMA DataKeeps ==
  ASSUME NEW img \in Image, NEW m \in Node, NEW pkt \in PacketsOf(img), pkt.type = "DATA",
         NEW stale \in SUBSET LastByte,
         NEW opened \in BOOLEAN, NEW erased \in BOOLEAN, NEW written \in BOOLEAN,
         NEW r, r = OnData(m, pkt, stale, opened, erased, written),
         NEW p \in Page, Keeps(m, img, p)
  PROVE  Keeps(r, img, p)
<1>1. /\ pkt \in Packet /\ pkt.page \in Int /\ pkt.chunk \in Nat
      /\ pkt.chunk < PageLen(img.size, pkt.page)
  BY DEF PacketsOf, Packet, Page, Chunk, Carries
<1>2. /\ r.current_file_size = m.current_file_size
      /\ pkt.page < m.current_rx_page_offset => r = m
      /\ pkt.page >= m.current_rx_page_offset => r.current_rx_page_offset = pkt.page
      /\ \A q \in Page : q # pkt.page => r.flash[q] = m.flash[q]
      /\ pkt.page = m.current_rx_page_offset /\ pkt.chunk \in m.page_bitmap => r = m
  BY <1>1, OnDataEffect
<1>3. m.current_rx_page_offset \in Int /\ p \in Int
  BY NodeFields DEF Page
<1>4. CASE pkt.page < m.current_rx_page_offset
  BY <1>2, <1>4
<1>5. CASE pkt.page >= m.current_rx_page_offset /\ p # pkt.page
  <2>1. r.flash[p] = m.flash[p] /\ r.current_rx_page_offset = pkt.page
    BY <1>2, <1>5
  <2>2. pkt.page > p
    BY <1>1, <1>3, <1>5 DEF Keeps
  <2> QED
    BY <2>1, <2>2 DEF Keeps, HoldsPage
<1>6. CASE pkt.page >= m.current_rx_page_offset /\ p = pkt.page
  <2>1. m.current_rx_page_offset = p /\ PageFull(img, p, m.page_bitmap)
    BY <1>1, <1>3, <1>6 DEF Keeps
  <2>2. PageLen(img.size, p) \in Int
    <3>1. img.size \in Size /\ p \in Nat
      BY WireAssumption DEF Image, FileSize, Page
    <3> QED
      BY <3>1, PageLenType, WireAssumption
  <2>3. pkt.chunk \in m.page_bitmap
    BY <1>1, <1>6, <2>1, <2>2 DEF PageFull
  <2> QED
    BY <1>2, <1>6, <2>1, <2>3
<1> QED
  BY <1>1, <1>3, <1>4, <1>5, <1>6

LEMMA PageEndKeeps ==
  ASSUME NEW img \in Image, NEW m \in Node, m.current_file_size \in {NoFile, img.size},
         NEW pkt \in PacketsOf(img), pkt.type = "PAGE_END",
         NEW r, r = OnPageEnd(m, pkt, TRUE)
  PROVE  /\ \A p \in Page : Keeps(m, img, p) => Keeps(r, img, p)
         /\ r.report_to_send # m.report_to_send =>
              /\ r.report_to_send.page = pkt.page
              /\ PageFull(img, pkt.page, r.report_to_send.bitmap) => Keeps(r, img, pkt.page)
<1>1. /\ pkt \in Packet /\ pkt.page \in Page /\ pkt.page \in Nat
      /\ pkt.page < img.size.pages /\ pkt.crc = ImagePage(img, pkt.page)
  BY DEF PacketsOf, Packet, Page, Carries
<1>2. /\ PageLen(img.size, pkt.page) \in 1 .. PageChunks
      /\ \A bitmap : PageFull(img, pkt.page, bitmap) => bitmap # {}
  BY <1>1, FilePage
<1>3. /\ r \in Node /\ r.flash = m.flash /\ r.current_file_size = m.current_file_size
      /\ \/ Ignores(m, r) /\ pkt.page # m.current_rx_page_offset
         \/ /\ r.current_rx_page_offset = pkt.page /\ pkt.page >= m.current_rx_page_offset
            /\ r.report_to_send = [page |-> pkt.page, bitmap |-> r.page_bitmap]
            /\ Matched(m, pkt, r) \/ Mismatched(m, pkt, r)
  BY <1>1, OnPageEndEffect
<1>4. PageLen(NoFile, pkt.page) = 0
  BY <1>1 DEF PageLen, NoFile
<1>5. m.current_rx_page_offset \in Int
  BY NodeFields
<1>6. ASSUME m.current_file_size = img.size
      PROVE  FlashPage(m, pkt.page) = pkt.crc <=> HoldsPage(m, img, pkt.page)
  BY <1>1, <1>6 DEF FlashPage, HoldsPage
<1>7. CASE Ignores(m, r)
  BY <1>7 DEF Ignores
<1>8. CASE /\ r.current_rx_page_offset = pkt.page /\ pkt.page >= m.current_rx_page_offset
           /\ r.report_to_send = [page |-> pkt.page, bitmap |-> r.page_bitmap]
           /\ Matched(m, pkt, r) \/ Mismatched(m, pkt, r)
  <2>1. ASSUME NEW p \in Page, Keeps(m, img, p) PROVE Keeps(r, img, p)
    <3>1. HoldsPage(r, img, p) /\ p \in Int
      <4>1. p \in Int
        BY DEF Page
      <4> QED
        BY <1>3, <2>1, <4>1 DEF Keeps, HoldsPage
    <3>2. CASE pkt.page > p
      BY <1>8, <3>1, <3>2 DEF Keeps
    <3>3. CASE ~(pkt.page > p)
      <4>1. /\ p = pkt.page /\ m.current_rx_page_offset = p /\ m.current_file_size = img.size
            /\ PageFull(img, p, m.page_bitmap) /\ HoldsPage(m, img, p)
        BY <1>1, <1>5, <1>8, <2>1, <3>1, <3>3 DEF Keeps
      <4>2. ~Mismatched(m, pkt, r)
        <5>1. PageLen(img.size, pkt.page) > 0
          BY <1>2
        <5> QED
          BY <1>6, <4>1, <5>1 DEF Mismatched
      <4>3. r.page_bitmap = m.page_bitmap
        BY <1>8, <4>1, <4>2 DEF Matched
      <4> QED
        BY <1>3, <1>8, <3>1, <4>1, <4>3 DEF Keeps
    <3> QED
      BY <3>2, <3>3
  <2>2. ASSUME PageFull(img, pkt.page, r.page_bitmap) PROVE Keeps(r, img, pkt.page)
    <3>1. r.page_bitmap # {}
      BY <1>2, <2>2
    <3>2. Matched(m, pkt, r)
      BY <1>8, <3>1 DEF Mismatched
    <3>3. m.current_file_size = img.size
      BY <1>4, <3>2 DEF Matched
    <3>4. HoldsPage(m, img, pkt.page)
      BY <1>6, <3>2, <3>3 DEF Matched
    <3> QED
      BY <1>3, <1>8, <2>2, <3>3, <3>4 DEF Keeps, HoldsPage
  <2>3. r.report_to_send.page = pkt.page /\ r.report_to_send.bitmap = r.page_bitmap
    <3>1. r.report_to_send = [page |-> pkt.page, bitmap |-> r.page_bitmap]
      BY <1>8, Zenon
    <3>2. \A report : report = [page |-> pkt.page, bitmap |-> r.page_bitmap]
            => report.page = pkt.page /\ report.bitmap = r.page_bitmap
      OBVIOUS
    <3> QED
      BY <3>1, <3>2, Zenon
  <2> QED
    BY <2>1, <2>2, <2>3
<1> QED
  BY <1>3, <1>7, <1>8
-----------------------------------------------------------------------------
(* The queues. *)

LEMMA LineType ==
  /\ Line \in Seq(Nodes) /\ Len(Line) \in Nat \ {0} /\ DOMAIN Line = 1 .. Len(Line)
  /\ \A i \in DOMAIN Line : Line[i] \in Nodes
  /\ \A i, j \in DOMAIN Line : Line[i] = Line[j] => i = j
BY LineAssumption DEF IsInjective

QueuesOf(P) == line \in Seq(P) /\ hop \in [DOMAIN Line -> Seq(P)]

LEMMA InboxType ==
  ASSUME NEW P, QueuesOf(P), NEW i \in DOMAIN Line
  PROVE  Inbox(i) \in Seq(P)
BY LineType DEF QueuesOf, Inbox

\* A node takes a packet off its queue, and may put it into that of the next node.
Passes(i, forwarded) ==
  /\ Inbox(i)' = Tail(Inbox(i))
  /\ i + 1 \in DOMAIN Line =>
       Inbox(i + 1)' = IF forwarded THEN Append(Inbox(i + 1), Head(Inbox(i))) ELSE Inbox(i + 1)
  /\ \A j \in DOMAIN Line : j # i /\ j # i + 1 => Inbox(j)' = Inbox(j)

LEMMA PassedOnPasses ==
  ASSUME NEW P, QueuesOf(P), NEW i \in DOMAIN Line, NEW forwarded \in BOOLEAN,
         Inbox(i) # <<>>, PassedOn(i, forwarded)
  PROVE  QueuesOf(P)' /\ Passes(i, forwarded)
<1> DEFINE popped == IF i = 1 THEN hop ELSE [hop EXCEPT ![i - 1] = Tail(hop[i - 1])]
           pkt == Head(Inbox(i))
           rest == Tail(Inbox(i))
<1>1. /\ i \in Nat /\ i >= 1 /\ i <= Len(Line) /\ Len(Line) \in Nat
      /\ DOMAIN Line = 1 .. Len(Line)
  BY LineType
<1>2. /\ Inbox(i) \in Seq(P) /\ pkt \in P /\ rest \in Seq(P)
      /\ line \in Seq(P) /\ hop \in [DOMAIN Line -> Seq(P)]
  BY InboxType DEF QueuesOf
<1>3. /\ line' = IF i = 1 THEN Tail(line) ELSE line
      /\ hop' = IF forwarded /\ i < Len(Line) THEN [popped EXCEPT ![i] = Append(popped[i], pkt)]
                ELSE popped
  BY DEF PassedOn
<1>4. /\ i = 1 => rest = Tail(line)
      /\ i # 1 => rest = Tail(hop[i - 1]) /\ i - 1 \in DOMAIN Line
  BY <1>1 DEF Inbox
<1>5. /\ popped \in [DOMAIN Line -> Seq(P)]
      /\ i # 1 => popped[i - 1] = rest
      /\ \A j \in DOMAIN Line : j # i - 1 => popped[j] = hop[j]
  BY <1>1, <1>2, <1>4
<1> HIDE DEF popped, pkt, rest
<1>6. /\ hop' \in [DOMAIN Line -> Seq(P)]
      /\ \A j \in DOMAIN Line : j # i => hop'[j] = popped[j]
      /\ i < Len(Line) => hop'[i] = IF forwarded THEN Append(hop[i], pkt) ELSE hop[i]
  <2>1. i # i - 1 /\ popped[i] = hop[i]
    BY <1>1, <1>5
  <2>2. Append(hop[i], pkt) \in Seq(P)
    BY <1>2
  <2>3. CASE forwarded /\ i < Len(Line)
    <3>1. hop' = [popped EXCEPT ![i] = Append(hop[i], pkt)]
      BY <1>3, <2>1, <2>3
    <3> QED
      BY <1>5, <2>2, <2>3, <3>1
  <2>4. CASE ~(forwarded /\ i < Len(Line))
    <3>1. hop' = popped
      BY <1>3, <2>4
    <3> QED
      BY <1>5, <2>1, <2>4, <3>1
  <2> QED
    BY <2>3, <2>4
<1>7. line' \in Seq(P)
  <2>1. line' = IF i = 1 THEN rest ELSE line
    BY <1>3, <1>4
  <2> QED
    BY <1>2, <2>1
<1>8. Inbox(i)' = rest
  <2>1. CASE i = 1
    BY <1>3, <1>4, <2>1 DEF Inbox
  <2>2. CASE i # 1
    <3>1. i - 1 # i /\ i - 1 \in DOMAIN Line
      BY <1>1, <2>2
    <3>2. hop'[i - 1] = rest
      BY <1>5, <1>6, <2>2, <3>1
    <3> QED
      BY <2>2, <3>2 DEF Inbox
  <2> QED
    BY <2>1, <2>2
<1>9. ASSUME i + 1 \in DOMAIN Line
      PROVE  Inbox(i + 1)' = IF forwarded THEN Append(Inbox(i + 1), pkt) ELSE Inbox(i + 1)
  <2>1. i < Len(Line) /\ i + 1 # 1 /\ (i + 1) - 1 = i
    BY <1>1, <1>9
  <2> QED
    BY <1>6, <2>1 DEF Inbox
<1>10. ASSUME NEW j \in DOMAIN Line, j # i, j # i + 1
       PROVE  Inbox(j)' = Inbox(j)
  <2>1. CASE j = 1
    BY <1>3, <1>10, <2>1 DEF Inbox
  <2>2. CASE j # 1
    <3>1. j - 1 \in DOMAIN Line /\ j - 1 # i /\ j - 1 # i - 1
      BY <1>1, <1>10, <2>2
    <3>2. hop'[j - 1] = hop[j - 1]
      BY <1>5, <1>6, <3>1
    <3> QED
      BY <2>2, <3>2 DEF Inbox
  <2> QED
    BY <2>1, <2>2
<1> QED
  BY <1>6, <1>7, <1>8, <1>9, <1>10 DEF Passes, QueuesOf, rest, pkt
\* Where the packets of the queues were before a node took one off its own.
Elements(i) ==
  /\ 1 \in DOMAIN Inbox(i)
  /\ \A k \in DOMAIN Inbox(i)' :
       k \in Nat \ {0} /\ k + 1 \in DOMAIN Inbox(i) /\ Inbox(i)'[k] = Inbox(i)[k + 1]
  /\ i + 1 \in DOMAIN Line => \A k \in DOMAIN Inbox(i + 1)' :
       \/ k \in DOMAIN Inbox(i + 1) /\ Inbox(i + 1)'[k] = Inbox(i + 1)[k]
       \/ k = Len(Inbox(i + 1)) + 1 /\ Inbox(i + 1)'[k] = Inbox(i)[1]
  /\ \A j \in DOMAIN Line : j # i /\ j # i + 1 => Inbox(j)' = Inbox(j)

LEMMA PassedElements ==
  ASSUME NEW P, QueuesOf(P), NEW i \in DOMAIN Line, NEW forwarded \in BOOLEAN,
         Inbox(i) # <<>>, Passes(i, forwarded)
  PROVE  Elements(i)
<1>1. Inbox(i) \in Seq(P)
  BY InboxType
<1>2. 1 \in DOMAIN Inbox(i) /\ Head(Inbox(i)) = Inbox(i)[1]
  BY <1>1
<1>3. \A k \in DOMAIN Inbox(i)' :
        k \in Nat \ {0} /\ k + 1 \in DOMAIN Inbox(i) /\ Inbox(i)'[k] = Inbox(i)[k + 1]
  <2>1. Inbox(i)' = Tail(Inbox(i))
    BY DEF Passes
  <2>2. PICK q \in Seq(P) : q = Inbox(i)
    BY <1>1
  <2>3. q # <<>>
    BY <2>2
  <2>4. \A k \in DOMAIN Tail(q) : k \in Nat \ {0} /\ k + 1 \in DOMAIN q /\ Tail(q)[k] = q[k + 1]
    BY <2>3
  <2> QED
    BY <2>1, <2>2, <2>4
<1>4. ASSUME i + 1 \in DOMAIN Line, NEW k \in DOMAIN Inbox(i + 1)'
      PROVE  \/ k \in DOMAIN Inbox(i + 1) /\ Inbox(i + 1)'[k] = Inbox(i + 1)[k]
             \/ k = Len(Inbox(i + 1)) + 1 /\ Inbox(i + 1)'[k] = Inbox(i)[1]
  <2>1. Inbox(i + 1)' = IF forwarded THEN Append(Inbox(i + 1), Head(Inbox(i))) ELSE Inbox(i + 1)
    BY <1>4 DEF Passes
  <2>2. PICK q \in Seq(P) : q = Inbox(i + 1)
    BY <1>4, InboxType
  <2>3. PICK e \in P : e = Inbox(i)[1]
    BY <1>1, <1>2
  <2>4. \A l \in DOMAIN Append(q, e) :
          \/ l \in DOMAIN q /\ Append(q, e)[l] = q[l]
          \/ l = Len(q) + 1 /\ Append(q, e)[l] = e
    OBVIOUS
  <2>5. CASE forwarded
    BY <1>2, <1>4, <2>1, <2>2, <2>3, <2>4, <2>5, Zenon
  <2>6. CASE ~forwarded
    BY <1>4, <2>1, <2>6, Zenon
  <2> QED
    BY <2>5, <2>6
<1> QED
  BY <1>2, <1>3, <1>4 DEF Passes, Elements

\* START stays in front while other packets go past the nodes behind it.
LEMMA StartFirstPasses ==
  ASSUME NEW P, QueuesOf(P), NEW i \in DOMAIN Line, Elements(i), StartFirst,
         \A j \in DOMAIN Line : j # i => nodes'[Line[j]] = nodes[Line[j]]
  PROVE  StartFirst'
<1> SUFFICES ASSUME NEW j \in DOMAIN Line, NEW k \in DOMAIN Inbox(j)',
                    Inbox(j)'[k].type = "START"
             PROVE  /\ k = 1
                    /\ \A l \in DOMAIN Line :
                         /\ l > j => Inbox(l)' = <<>>
                         /\ l >= j => nodes'[Line[l]].current_rx_page_offset = NoPage
  BY DEF StartFirst
<1>1. DOMAIN Line \subseteq Nat
  BY LineType
<1>2. \A l \in DOMAIN Line : Inbox(l) \in Seq(P)
  BY InboxType
<1>3. ASSUME NEW l \in DOMAIN Line, NEW n \in DOMAIN Inbox(l), Inbox(l)[n].type = "START"
      PROVE  /\ n = 1
             /\ \A x \in DOMAIN Line :
                  /\ x > l => Inbox(x) = <<>>
                  /\ x >= l => nodes[Line[x]].current_rx_page_offset = NoPage
  BY <1>3 DEF StartFirst
<1>4. Inbox(i) # <<>> /\ 1 \in DOMAIN Inbox(i)
  BY <1>2 DEF Elements
<1>5. CASE j = i
  <2>1. k \in Nat \ {0} /\ k + 1 \in DOMAIN Inbox(i) /\ Inbox(i)[k + 1].type = "START"
    BY <1>5 DEF Elements
  <2>2. k + 1 = 1
    BY <1>3, <2>1
  <2> QED
    BY <2>1, <2>2
<1>6. CASE j = i + 1
  <2>1. i # j /\ \A l \in DOMAIN Line : l >= j => nodes'[Line[l]] = nodes[Line[l]]
    BY <1>1, <1>6
  <2>2. \A l \in DOMAIN Line : l > j => Inbox(l)' = Inbox(l)
    <3> SUFFICES ASSUME NEW l \in DOMAIN Line, l > j PROVE Inbox(l)' = Inbox(l)
      OBVIOUS
    <3>1. l # i /\ l # i + 1
      BY <1>1, <1>6
    <3> QED
      BY <3>1 DEF Elements
  <2>3. CASE k \in DOMAIN Inbox(j) /\ Inbox(j)'[k] = Inbox(j)[k]
    BY <1>1, <1>3, <2>1, <2>2, <2>3
  <2>4. CASE k = Len(Inbox(j)) + 1 /\ Inbox(j)'[k] = Inbox(i)[1]
    <3>1. /\ \A x \in DOMAIN Line :
               /\ x > i => Inbox(x) = <<>>
               /\ x >= i => nodes[Line[x]].current_rx_page_offset = NoPage
      BY <1>3, <1>4, <2>4
    <3>2. Inbox(j) = <<>> /\ \A x \in DOMAIN Line : x >= j => x > i /\ x >= i
      BY <1>1, <1>6, <3>1
    <3>3. k = 1
      BY <2>4, <3>2
    <3> QED
      BY <1>1, <1>6, <2>1, <2>2, <3>1, <3>2, <3>3
  <2> QED
    BY <1>6, <2>3, <2>4 DEF Elements
<1>7. CASE j # i /\ j # i + 1
  <2>1. Inbox(j)' = Inbox(j)
    BY <1>7 DEF Elements
  <2>2. /\ k = 1
        /\ \A x \in DOMAIN Line :
             /\ x > j => Inbox(x) = <<>>
             /\ x >= j => nodes[Line[x]].current_rx_page_offset = NoPage
    BY <1>3, <2>1
  <2>3. j > i + 1
    BY <1>1, <1>4, <1>7, <2>2
  <2>4. ASSUME NEW x \in DOMAIN Line, x >= j
        PROVE  Inbox(x)' = Inbox(x) /\ nodes'[Line[x]] = nodes[Line[x]]
    <3>1. x # i /\ x # i + 1
      BY <1>1, <2>3, <2>4
    <3> QED
      BY <3>1 DEF Elements
  <2> QED
    BY <1>1, <2>2, <2>4
<1> QED
  BY <1>5, <1>6, <1>7

LEMMA OnlyVerifyPasses ==
  ASSUME NEW i \in DOMAIN Line, Elements(i),
         NEW x \in DOMAIN Line, OnlyVerify(Inbox(x)), x = i + 1 => Inbox(i)[1].type = "VERIFY"
  PROVE  OnlyVerify(Inbox(x)')
<1>1. CASE x = i
  BY <1>1 DEF Elements, OnlyVerify
<1>2. CASE x = i + 1
  BY <1>2 DEF Elements, OnlyVerify
<1>3. CASE x # i /\ x # i + 1
  <2>1. Inbox(x)' = Inbox(x)
    BY <1>3 DEF Elements
  <2> QED
    BY <2>1 DEF OnlyVerify
<1> QED
  BY <1>1, <1>2, <1>3

\* Nothing but VERIFY follows VERIFY to the next node.
LEMMA VerifyLastPasses ==
  ASSUME NEW P, QueuesOf(P), NEW i \in DOMAIN Line, Elements(i), VerifyLast, AllSent => AllSent'
  PROVE  VerifyLast'
<1>1. DOMAIN Line \subseteq Nat
  BY LineType
<1>2. \A l \in DOMAIN Line : Inbox(l) \in Seq(P)
  BY InboxType
<1>3. ASSUME NEW l \in DOMAIN Line, NEW n \in DOMAIN Inbox(l), Inbox(l)[n].type = "VERIFY"
      PROVE  /\ AllSent
             /\ \A x \in DOMAIN Inbox(l) : x > n => Inbox(l)[x].type = "VERIFY"
             /\ \A x \in DOMAIN Line : x < l => OnlyVerify(Inbox(x))
  BY <1>3 DEF VerifyLast
<1>4. 1 \in DOMAIN Inbox(i)
  BY DEF Elements
<1>5. \A x \in DOMAIN Line :
        OnlyVerify(Inbox(x)) /\ (x = i + 1 => Inbox(i)[1].type = "VERIFY") => OnlyVerify(Inbox(x)')
  BY OnlyVerifyPasses
<1> SUFFICES ASSUME NEW j \in DOMAIN Line, NEW k \in DOMAIN Inbox(j)',
                    Inbox(j)'[k].type = "VERIFY"
             PROVE  /\ AllSent
                    /\ \A l \in DOMAIN Inbox(j)' : l > k => Inbox(j)'[l].type = "VERIFY"
                    /\ \A x \in DOMAIN Line : x < j => OnlyVerify(Inbox(x)')
  BY DEF VerifyLast, OnlyVerify
<1>6. CASE j = i
  <2>1. k \in Nat /\ k + 1 \in DOMAIN Inbox(i) /\ Inbox(i)[k + 1].type = "VERIFY"
    BY <1>6 DEF Elements
  <2>2. ASSUME NEW l \in DOMAIN Inbox(i)', l > k PROVE Inbox(i)'[l].type = "VERIFY"
    <3>1. l \in Nat /\ l + 1 \in DOMAIN Inbox(i) /\ Inbox(i)'[l] = Inbox(i)[l + 1]
      BY DEF Elements
    <3>2. l + 1 > k + 1
      BY <2>1, <2>2, <3>1
    <3> QED
      BY <1>3, <2>1, <3>1, <3>2
  <2>3. \A x \in DOMAIN Line : x < i => OnlyVerify(Inbox(x)) /\ x # i + 1
    BY <1>1, <1>3, <2>1
  <2> QED
    BY <1>3, <1>5, <1>6, <2>1, <2>2, <2>3
<1>7. CASE j = i + 1
  <2>1. CASE k \in DOMAIN Inbox(j) /\ Inbox(j)'[k] = Inbox(j)[k]
    <3>1. /\ AllSent
          /\ \A x \in DOMAIN Inbox(j) : x > k => Inbox(j)[x].type = "VERIFY"
          /\ \A x \in DOMAIN Line : x < j => OnlyVerify(Inbox(x)) /\ x # i + 1
      BY <1>1, <1>3, <1>7, <2>1
    <3>2. Inbox(i)[1].type = "VERIFY"
      BY <1>1, <1>4, <1>7, <3>1 DEF OnlyVerify
    <3>3. ASSUME NEW l \in DOMAIN Inbox(j)', l > k PROVE Inbox(j)'[l].type = "VERIFY"
      BY <1>7, <3>1, <3>2, <3>3 DEF Elements
    <3> QED
      BY <1>5, <3>1, <3>3
  <2>2. CASE k = Len(Inbox(j)) + 1 /\ Inbox(j)'[k] = Inbox(i)[1]
    <3>1. /\ AllSent
          /\ \A x \in DOMAIN Inbox(i) : x > 1 => Inbox(i)[x].type = "VERIFY"
          /\ \A x \in DOMAIN Line : x < i => OnlyVerify(Inbox(x))
      BY <1>3, <1>4, <2>2
    <3>2. OnlyVerify(Inbox(i))
      <4>1. \A x \in DOMAIN Inbox(i) : x = 1 \/ x > 1
        BY <1>2
      <4> QED
        BY <2>2, <3>1, <4>1 DEF OnlyVerify
    <3>3. \A l \in DOMAIN Inbox(j)' : ~(l > k)
      <4>1. Len(Inbox(j)) \in Nat /\ DOMAIN Inbox(j) = 1 .. Len(Inbox(j))
        BY <1>2
      <4> QED
        BY <1>7, <2>2, <4>1 DEF Elements
    <3>4. \A x \in DOMAIN Line : x < j => (x = i \/ x < i) /\ x # i + 1
      BY <1>1, <1>7
    <3> QED
      BY <1>5, <3>1, <3>2, <3>3, <3>4
  <2> QED
    BY <1>7, <2>1, <2>2 DEF Elements
<1>8. CASE j # i /\ j # i + 1
  <2>1. Inbox(j)' = Inbox(j)
    BY <1>8 DEF Elements
  <2>2. /\ AllSent
        /\ \A x \in DOMAIN Inbox(j) : x > k => Inbox(j)[x].type = "VERIFY"
        /\ \A x \in DOMAIN Line : x < j => OnlyVerify(Inbox(x))
    BY <1>3, <2>1
  <2>3. ASSUME NEW x \in DOMAIN Line, x < j PROVE OnlyVerify(Inbox(x)')
    <3>1. x = i + 1 => i < j
      BY <1>1, <2>3
    <3>2. x = i + 1 => Inbox(i)[1].type = "VERIFY"
      BY <1>4, <2>2, <3>1 DEF OnlyVerify
    <3> QED
      BY <1>5, <2>2, <2>3, <3>2
  <2> QED
    BY <2>1, <2>2, <2>3
<1> QED
  BY <1>6, <1>7, <1>8
-----------------------------------------------------------------------------
(* A node receives a packet. *)

LEMMA FileFacts ==
  ASSUME TypeOK
  PROVE  host.file \in Image /\ host.file.size \in Size /\ host.file.size \in FileSize
BY SenderAssumption DEF TypeOK, Image, FileSize

\* What was sent was sent after START.
LEMMA QueuedIsSent ==
  ASSUME TypeOK, InStep, NEW i \in DOMAIN Line, Inbox(i) # <<>>
  PROVE  Sent /\ ~NotSent
<1>1. \A j \in DOMAIN Line : j = 1 \/ j - 1 \in DOMAIN Line
  BY LineType
<1>2. ~NotSent
  BY <1>1 DEF NotSent, Untouched, Inbox
<1> QED
  BY <1>2 DEF InStep

\* What may become of a node's record.
Makes(m, pkt, r) ==
  \E stale \in SUBSET LastByte, opened, erased, written \in BOOLEAN :
    r = Handled(m, pkt, stale, opened, erased, written)

LEMMA HandledEffect ==
  ASSUME NEW img \in Image, NEW m \in Node, m.current_file_size \in {NoFile, img.size},
         NEW pkt \in PacketsOf(img), NEW r, Makes(m, pkt, r)
  PROVE  /\ r \in Node /\ r.current_file_size \in {NoFile, img.size}
         /\ pkt.type \in {"START", "DATA", "PAGE_END", "VERIFY"}
         /\ pkt.type \in {"DATA", "PAGE_END"} =>
              \A p \in Page : Keeps(m, img, p) => Keeps(r, img, p)
         /\ pkt.type = "VERIFY" => r.flash = m.flash /\ r.current_rx_page_offset = NoPage
         /\ pkt.type # "VERIFY" /\ r.report_to_send # m.report_to_send =>
              (PageFull(img, r.report_to_send.page, r.report_to_send.bitmap)
                 => Keeps(r, img, r.report_to_send.page))
<1> PICK stale \in SUBSET LastByte, opened \in BOOLEAN, erased \in BOOLEAN, written \in BOOLEAN :
      r = Handled(m, pkt, stale, opened, erased, written)
  BY DEF Makes
<1>1. pkt \in Packet /\ Carries(pkt, img)
  BY DEF PacketsOf
<1>2. pkt.type \in {"START", "DATA", "PAGE_END", "VERIFY"}
  BY <1>1 DEF Packet
<1>3. CASE pkt.type = "START"
  <2>1. r = OnStart(m, pkt, opened, erased)
    BY <1>3 DEF Handled
  <2>2. pkt.size = img.size
    BY <1>1, <1>3 DEF Carries
  <2>3. r \in Node /\ r.current_file_size = pkt.size
    BY <1>1, <1>3, <2>1, OnStartEffect
  <2>4. r.report_to_send = m.report_to_send
    BY <1>1, <1>3, <2>1, OnStartEffect
  <2> QED
    BY <1>3, <2>2, <2>3, <2>4
<1>4. CASE pkt.type = "DATA"
  <2>1. r = OnData(m, pkt, stale, opened, erased, written)
    BY <1>4 DEF Handled
  <2>2. /\ r \in Node /\ r.current_file_size = m.current_file_size
        /\ r.report_to_send = m.report_to_send
    BY <1>1, <1>4, <2>1, OnDataEffect, SMTT(60)
  <2>3. \A p \in Page : Keeps(m, img, p) => Keeps(r, img, p)
    BY <1>4, <2>1, DataKeeps
  <2> QED
    BY <1>2, <1>4, <2>2, <2>3
<1>5. CASE pkt.type = "PAGE_END"
  <2>1. r = OnPageEnd(m, pkt, TRUE)
    BY <1>5 DEF Handled
  <2>2. r \in Node /\ r.current_file_size = m.current_file_size
    BY <1>1, <1>5, <2>1, OnPageEndEffect
  <2>3. /\ \A p \in Page : Keeps(m, img, p) => Keeps(r, img, p)
        /\ r.report_to_send # m.report_to_send =>
             /\ r.report_to_send.page = pkt.page
             /\ PageFull(img, pkt.page, r.report_to_send.bitmap) => Keeps(r, img, pkt.page)
    BY <1>5, <2>1, PageEndKeeps
  <2> QED
    BY <1>2, <1>5, <2>2, <2>3
<1>6. CASE pkt.type = "VERIFY"
  <2>1. r = OnVerify(m, pkt)
    BY <1>6 DEF Handled
  <2>2. /\ r \in Node /\ r.flash = m.flash /\ r.current_file_size = m.current_file_size
        /\ r.current_rx_page_offset = NoPage
    BY <1>1, <1>6, <2>1, OnVerifyEffect
  <2> QED
    BY <1>2, <1>6, <2>2
<1> QED
  BY <1>2, <1>3, <1>4, <1>5, <1>6

\* What Receive does, step by step.
Gets(i, pkt, r) ==
  /\ pkt = Inbox(i)[1] /\ Makes(nodes[Line[i]], pkt, r)
  /\ nodes' = [nodes EXCEPT ![Line[i]] = r]
  /\ UNCHANGED <<hostAndCoordinatorVars, reports, abandoned>>

LEMMA ReceiveGets ==
  ASSUME IInv, NEW i \in DOMAIN Line, Receive(i), NEW img, img = host.file
  PROVE  /\ QueuesOf(PacketsOf(img)) /\ QueuesOf(PacketsOf(img))' /\ Elements(i)
         /\ \E pkt \in PacketsOf(img), r \in Node : Gets(i, pkt, r)
<1> DEFINE m == nodes[Line[i]]
           pkt == Head(Inbox(i))
           fw == Forwards(m, pkt)
<1>1. /\ QueuesOf(PacketsOf(img)) /\ m \in Node /\ img \in Image
      /\ m.current_file_size \in {NoFile, img.size}
  BY FileFacts, LineType DEF IInv, TypeOK, QueuesTypeOK, QueuesOf, FilesOfNodes
<1>2. Inbox(i) # <<>> /\ PassedOn(i, fw) /\ fw \in BOOLEAN
  BY DEF Receive, Forwards
<1>3. QueuesOf(PacketsOf(img))' /\ Passes(i, fw)
  BY <1>1, <1>2, PassedOnPasses
<1>4. Elements(i)
  BY <1>1, <1>2, <1>3, PassedElements
<1>5. pkt \in PacketsOf(img) /\ pkt = Inbox(i)[1]
  BY <1>1, <1>2, InboxType
<1>6. PICK r : Makes(m, pkt, r) /\ nodes' = [nodes EXCEPT ![Line[i]] = r]
  BY DEF Receive, Makes
<1> HIDE DEF m, pkt
<1>8. r \in Node
  BY <1>1, <1>5, <1>6, HandledEffect
<1>9. Gets(i, pkt, r)
  BY <1>5, <1>6 DEF Gets, Receive, m
<1> QED
  BY <1>1, <1>3, <1>4, <1>5, <1>8, <1>9
LEMMA GetsEffect ==
  ASSUME IInv, NEW i \in DOMAIN Line, NEW img, img = host.file,
         NEW pkt \in PacketsOf(img), NEW r \in Node, Gets(i, pkt, r)
  PROVE  LET m == nodes[Line[i]]
         IN /\ nodes' \in [Nodes -> Node] /\ nodes'[Line[i]] = r
            /\ \A node \in Nodes : node # Line[i] => nodes'[node] = nodes[node]
            /\ r.current_file_size \in {NoFile, img.size}
            /\ pkt.type \in {"START", "DATA", "PAGE_END", "VERIFY"}
            /\ pkt.type \in {"DATA", "PAGE_END"} =>
                 \A p \in Page : Keeps(m, img, p) => Keeps(r, img, p)
            /\ pkt.type = "VERIFY" => r.flash = m.flash /\ r.current_rx_page_offset = NoPage
            /\ pkt.type # "VERIFY" /\ r.report_to_send # m.report_to_send =>
                 (PageFull(img, r.report_to_send.page, r.report_to_send.bitmap)
                    => Keeps(r, img, r.report_to_send.page))
<1>1. Line[i] \in Nodes /\ nodes \in [Nodes -> Node] /\ img \in Image
  BY LineType, FileFacts DEF IInv, TypeOK
<1> PICK m : m = nodes[Line[i]]
  OBVIOUS
<1>2. m \in Node /\ m.current_file_size \in {NoFile, img.size}
  BY <1>1 DEF IInv, FilesOfNodes
<1>3. Makes(m, pkt, r)
  BY DEF Gets
<1>4. /\ r.current_file_size \in {NoFile, img.size}
      /\ pkt.type \in {"START", "DATA", "PAGE_END", "VERIFY"}
      /\ pkt.type \in {"DATA", "PAGE_END"} =>
           \A p \in Page : Keeps(m, img, p) => Keeps(r, img, p)
      /\ pkt.type = "VERIFY" => r.flash = m.flash /\ r.current_rx_page_offset = NoPage
      /\ pkt.type # "VERIFY" /\ r.report_to_send # m.report_to_send =>
           (PageFull(img, r.report_to_send.page, r.report_to_send.bitmap)
              => Keeps(r, img, r.report_to_send.page))
  BY <1>1, <1>2, <1>3, HandledEffect
<1>5. /\ nodes' \in [Nodes -> Node] /\ nodes'[Line[i]] = r
      /\ \A node \in Nodes : node # Line[i] => nodes'[node] = nodes[node]
  BY <1>1 DEF Gets
<1> QED
  BY <1>4, <1>5

\* A node that keeps a page has got its START, and before the last page is finished
\* there is no VERIFY to get.
LEMMA KeptStaysKept ==
  ASSUME IInv, NEW i \in DOMAIN Line, NEW img, img = host.file,
         NEW pkt \in PacketsOf(img), NEW r \in Node, Gets(i, pkt, r), Elements(i),
         ~AllSent, NEW p \in Page, Keeps(nodes[Line[i]], img, p)
  PROVE  Keeps(r, img, p)
<1>1. nodes[Line[i]].current_rx_page_offset # NoPage
  <2>1. p \in Int /\ p >= 0
    BY DEF Page
  <2>2. nodes[Line[i]].current_rx_page_offset \in Int
    BY LineType, NodeFields DEF IInv, TypeOK
  <2> QED
    BY <2>1, <2>2 DEF Keeps, NoPage
<1>2. pkt = Inbox(i)[1] /\ 1 \in DOMAIN Inbox(i) /\ i >= i
  BY LineType DEF Gets, Elements
<1>3. pkt.type # "START"
  BY <1>1, <1>2 DEF IInv, StartFirst
<1>4. pkt.type # "VERIFY"
  BY <1>2 DEF IInv, VerifyLast
<1> QED
  BY <1>3, <1>4, GetsEffect

LEMMA ReceiveFrame ==
  ASSUME NEW i \in DOMAIN Line, NEW pkt, NEW r, Gets(i, pkt, r)
  PROVE  /\ UNCHANGED <<sessionVars, transferVars, processVars, ota_target_slot, page_buffer,
                        bitmap_event, uart, host, commands, starts, reports, abandoned>>
         /\ ExpectedPageSize' = ExpectedPageSize
         /\ AllSent' <=> AllSent
<1>1. UNCHANGED <<sessionVars, transferVars, processVars, ota_target_slot, page_buffer,
                  bitmap_event, uart, host, commands, starts, reports, abandoned>>
  BY DEF Gets, hostAndCoordinatorVars, senderVars
<1>2. UNCHANGED <<current_file_size, page_start_offset, pc, host>>
  BY <1>1 DEF transferVars, processVars
<1> QED
  BY <1>1, <1>2 DEF ExpectedPageSize, AllSent, Sent

LEMMA ReceivePages ==
  ASSUME IInv, NEW i \in DOMAIN Line, NEW img, img = host.file,
         QueuesOf(PacketsOf(img)), Elements(i),
         NEW pkt \in PacketsOf(img), NEW r \in Node, Gets(i, pkt, r)
  PROVE  PagesKept'
<1>1. UNCHANGED <<page_start_offset, session_nodes, abandoned, host>> /\ (AllSent' <=> AllSent)
  BY ReceiveFrame DEF transferVars, sessionVars
<1> SUFFICES ASSUME NEW p \in 0 .. page_start_offset - 1, NEW j \in DOMAIN Line,
                    PageStays(j, p)
             PROVE  PageStays(j, p)'
  BY <1>1 DEF IInv, PagesKept
<1>2. /\ nodes'[Line[i]] = r
      /\ \A node \in Nodes : node # Line[i] => nodes'[node] = nodes[node]
      /\ pkt.type \in {"START", "DATA", "PAGE_END", "VERIFY"}
      /\ pkt.type \in {"DATA", "PAGE_END"} =>
           \A q \in Page : Keeps(nodes[Line[i]], img, q) => Keeps(r, img, q)
      /\ pkt.type = "VERIFY" =>
           r.flash = nodes[Line[i]].flash /\ r.current_rx_page_offset = NoPage
  BY GetsEffect
<1>3. Line[j] \in Nodes /\ (Line[j] = Line[i] => j = i) /\ i \in Nat /\ j \in Nat
  BY LineType
<1>4. pkt = Inbox(i)[1] /\ 1 \in DOMAIN Inbox(i)
  BY DEF Gets, Elements
<1>5. ASSUME \A x \in DOMAIN Line : x <= j => OnlyVerify(Inbox(x))
      PROVE  \A x \in DOMAIN Line : x <= j => OnlyVerify(Inbox(x)')
  <2> SUFFICES ASSUME NEW x \in DOMAIN Line, x <= j PROVE OnlyVerify(Inbox(x)')
    OBVIOUS
  <2>1. x = i + 1 => Inbox(i)[1].type = "VERIFY"
    BY <1>3, <1>4, <1>5 DEF OnlyVerify
  <2> QED
    BY <1>5, <2>1, OnlyVerifyPasses
<1>6. CASE j # i
  <2>1. nodes'[Line[j]] = nodes[Line[j]]
    BY <1>2, <1>3, <1>6
  <2> QED
    BY <1>1, <1>5, <2>1 DEF PageStays, Over, OnlyVerify
<1>7. CASE j = i /\ Keeps(nodes[Line[i]], img, p)
  <2>1. p \in Page
    <3>1. page_start_offset \in 0 .. current_file_size.pages /\ current_file_size \in Size
      BY DEF IInv, TypeOK, CoordinatorTypeOK
    <3> QED
      BY <3>1, WireAssumption DEF Size, Page
  <2>2. CASE pkt.type = "VERIFY"
    <3>1. /\ AllSent
          /\ \A l \in DOMAIN Inbox(i) : l > 1 => Inbox(i)[l].type = "VERIFY"
          /\ \A x \in DOMAIN Line : x < i => OnlyVerify(Inbox(x))
      BY <1>4, <2>2 DEF IInv, VerifyLast
    <3>2. OnlyVerify(Inbox(i))
      <4>1. \A l \in DOMAIN Inbox(i) : l = 1 \/ l > 1
        BY InboxType
      <4> QED
        BY <1>4, <2>2, <3>1, <4>1 DEF OnlyVerify
    <3>3. \A x \in DOMAIN Line : x <= j => OnlyVerify(Inbox(x))
      <4>1. \A x \in DOMAIN Line : x <= j => x = i \/ x < i
        BY <1>7, LineType
      <4> QED
        BY <3>1, <3>2, <4>1
    <3>4. Over(j)'
      BY <1>1, <1>2, <1>5, <1>7, <2>2, <3>1, <3>3 DEF Over, OnlyVerify
    <3>5. HoldsPage(r, img, p)
      BY <1>2, <1>7, <2>2 DEF Keeps, HoldsPage
    <3> QED
      BY <1>1, <1>2, <1>7, <3>4, <3>5 DEF PageStays
  <2>3. CASE pkt.type # "VERIFY"
    <3>1. Keeps(r, img, p)
      <4>1. nodes[Line[i]].current_rx_page_offset # NoPage
        <5>1. p \in Int /\ p >= 0
          OBVIOUS
        <5>2. nodes[Line[i]].current_rx_page_offset \in Int
          BY LineType, NodeFields DEF IInv, TypeOK
        <5> QED
          BY <1>7, <5>1, <5>2 DEF Keeps, NoPage
      <4>2. pkt.type # "START"
        BY <1>3, <1>4, <4>1 DEF IInv, StartFirst
      <4> QED
        BY <1>2, <1>7, <2>1, <2>3, <4>2
    <3> QED
      BY <1>1, <1>2, <1>7, <3>1 DEF PageStays
  <2> QED
    BY <2>2, <2>3
<1>8. CASE j = i /\ Over(i) /\ HoldsPage(nodes[Line[i]], img, p)
  <2>1. \A x \in DOMAIN Line : x <= j => OnlyVerify(Inbox(x))
    BY <1>8 DEF Over
  <2>2. pkt.type = "VERIFY"
    BY <1>3, <1>4, <1>8, <2>1 DEF OnlyVerify
  <2>3. Over(j)'
    BY <1>1, <1>2, <1>5, <1>8, <2>1, <2>2 DEF Over, OnlyVerify
  <2>4. HoldsPage(r, img, p)
    BY <1>2, <1>8, <2>2 DEF HoldsPage
  <2> QED
    BY <1>1, <1>2, <1>8, <2>3, <2>4 DEF PageStays
<1> QED
  BY <1>6, <1>7, <1>8 DEF PageStays
LEMMA ReceiveReports ==
  ASSUME IInv, NEW i \in DOMAIN Line, NEW img, img = host.file,
         Elements(i), NEW pkt \in PacketsOf(img), NEW r \in Node, Gets(i, pkt, r), Sent
  PROVE  ReportsKept' /\ BitmapsKept'
<1>1. /\ UNCHANGED <<page_start_offset, session_nodes, session_bitmaps, pc, host, reports>>
      /\ Line[i] \in Nodes /\ nodes[Line[i]] \in Node
  BY ReceiveFrame, LineType DEF transferVars, sessionVars, processVars, IInv, TypeOK
<1>2. /\ nodes'[Line[i]] = r /\ nodes' \in [Nodes -> Node]
      /\ \A node \in Nodes : node # Line[i] => nodes'[node] = nodes[node]
      /\ pkt.type # "VERIFY" /\ r.report_to_send # nodes[Line[i]].report_to_send =>
           (PageFull(img, r.report_to_send.page, r.report_to_send.bitmap)
              => Keeps(r, img, r.report_to_send.page))
  BY GetsEffect
<1>3. img \in Image /\ page_start_offset \in Nat
  BY FileFacts DEF IInv, TypeOK, CoordinatorTypeOK, Size
<1>4. ASSUME NEW p \in Page \cup {NoPage}, p >= page_start_offset, p < img.size.pages
      PROVE  /\ ~AllSent /\ p \in Page
             /\ Keeps(nodes[Line[i]], img, p) => Keeps(r, img, p)
  <2>1. p # NoPage
    BY <1>3, <1>4 DEF NoPage
  <2>2. p \in Page
    BY <2>1
  <2>3. ~AllSent
    <3>1. p \in Int /\ img.size.pages \in Int
      BY <1>3, <2>2 DEF Page, Image, FileSize, Size
    <3> QED
      BY <1>3, <1>4, <3>1 DEF AllSent
  <2> QED
    BY <2>2, <2>3, KeptStaysKept
<1>5. pkt.type = "VERIFY" => AllSent
  BY DEF Gets, Elements, IInv, VerifyLast
<1>6. ASSUME NEW node \in Nodes, NEW report \in [page : Page \cup {NoPage}, bitmap : SUBSET Chunk],
             FullMeansKept(nodes[node], img, report)
      PROVE  FullMeansKept(nodes'[node], img, report)
  <2>1. CASE node # Line[i]
    BY <1>2, <1>6, <2>1
  <2>2. CASE node = Line[i]
    <3>1. report.page \in Page \cup {NoPage}
      OBVIOUS
    <3> QED
      BY <1>2, <1>4, <1>6, <2>2, <3>1 DEF FullMeansKept
  <2> QED
    BY <2>1, <2>2
<1>7. ASSUME NEW rep \in reports
      PROVE  FullMeansKept(nodes'[rep.node], img, rep.report)
  <2>1. rep \in Report /\ rep.node \in Nodes
        /\ rep.report \in [page : Page \cup {NoPage}, bitmap : SUBSET Chunk]
    BY <1>7 DEF IInv, TypeOK, Report
  <2>2. FullMeansKept(nodes[rep.node], img, rep.report)
    BY <1>7 DEF IInv, ReportsKept
  <2> QED
    BY <1>6, <2>1, <2>2
<1>8. ASSUME NEW node \in Nodes
      PROVE  FullMeansKept(nodes'[node], img, nodes'[node].report_to_send)
  <2>1. /\ nodes[node].report_to_send \in [page : Page \cup {NoPage}, bitmap : SUBSET Chunk]
        /\ r.report_to_send \in [page : Page \cup {NoPage}, bitmap : SUBSET Chunk]
    BY NodeFields DEF IInv, TypeOK
  <2>2. FullMeansKept(nodes'[node], img, nodes[node].report_to_send)
    BY <1>6, <2>1 DEF IInv, ReportsKept
  <2>3. CASE nodes'[node].report_to_send = nodes[node].report_to_send
    BY <2>2, <2>3
  <2>4. CASE nodes'[node].report_to_send # nodes[node].report_to_send
    <3>1. node = Line[i] /\ nodes'[node] = r
      BY <1>2, <2>4
    <3>2. r.report_to_send.page \in Page \cup {NoPage}
      BY <2>1
    <3> QED
      BY <1>2, <1>4, <1>5, <2>4, <3>1, <3>2 DEF FullMeansKept
  <2> QED
    BY <2>3, <2>4
<1>9. ReportsKept'
  BY <1>1, <1>7, <1>8 DEF ReportsKept, FullMeansKept
<1>10. ASSUME pc # "idle", NEW w \in DOMAIN session_nodes,
              PageFull(img, page_start_offset, session_bitmaps[w])
       PROVE  Keeps(nodes'[session_nodes[w]], img, page_start_offset)
  <2>1. Keeps(nodes[session_nodes[w]], img, page_start_offset)
    BY <1>10 DEF IInv, BitmapsKept
  <2>2. session_nodes[w] \in Nodes
    BY DEF IInv, TypeOK, CoordinatorTypeOK
  <2>3. page_start_offset \in Page /\ page_start_offset < img.size.pages
    <3>1. ExpectedPageSize > 0
      BY <1>10 DEF IInv, InStep, NotSent, Untouched, At, SendsData, WaitsForPage, SendsVerify,
         Stopped, WorksOn
    <3>2. PageLen(img.size, page_start_offset) > 0 /\ img.size \in Size
      BY <1>3, <3>1 DEF ExpectedPageSize, Sent, Image, FileSize
    <3> QED
      BY <1>3, <3>2, PageLenType
  <2>4. CASE session_nodes[w] = Line[i]
    <3>1. page_start_offset >= page_start_offset
      BY <1>3
    <3> QED
      BY <1>2, <1>4, <2>1, <2>3, <2>4, <3>1
  <2>5. CASE session_nodes[w] # Line[i]
    BY <1>2, <2>1, <2>2, <2>5
  <2> QED
    BY <2>4, <2>5
<1>11. BitmapsKept'
  BY <1>1, <1>10 DEF BitmapsKept
<1> QED
  BY <1>9, <1>11

\* The coordinator's and the host's part of the invariant only looks at the network
\* before START.
CoordinatorPart == InStep /\ BufferOfFile /\ ProcessOfFile /\ CoordinatorTypeOK /\ SessionOfLine

LEMMA NetworkLeavesStep ==
  ASSUME IInv, ~NotSent,
         UNCHANGED <<transferVars, processVars, page_buffer, uart, host, commands, starts>>
  PROVE  InStep' /\ BufferOfFile' /\ ProcessOfFile'
<1>1. UNCHANGED <<current_file_size, page_start_offset, page_bytes_received,
                  distribution_in_progress, pc, total_chunks, end_pkt,
                  page_buffer, uart, host, commands, starts>>
  BY DEF transferVars, processVars
<1>2. BufferOfFile' /\ ProcessOfFile'
  BY <1>1 DEF BufferOfFile, ProcessOfFile, ExpectedPageSize, IInv
<1>3. \A p : WorksOn(p)' <=> WorksOn(p)
  BY <1>1 DEF WorksOn, ExpectedPageSize
<1>4. \A p, n : At(p, n)' <=> At(p, n)
  BY <1>1 DEF At
<1>5. Sent' <=> Sent
  BY <1>1 DEF Sent
<1>6. SendsData => SendsData'
  BY <1>1, <1>3, <1>4 DEF SendsData
<1>7. WaitsForPage => WaitsForPage'
  BY <1>1, <1>3, <1>4 DEF WaitsForPage
<1>8. SendsVerify => SendsVerify'
  BY <1>1, <1>4 DEF SendsVerify
<1>9. Stopped => Stopped'
  BY <1>1, <1>3, <1>4 DEF Stopped
<1> QED
  BY <1>1, <1>2, <1>4, <1>5, <1>6, <1>7, <1>8, <1>9 DEF InStep, IInv

LEMMA NetworkLeavesCoordinator ==
  ASSUME IInv, ~NotSent,
         UNCHANGED <<sessionVars, transferVars, processVars, ota_target_slot, page_buffer,
                     uart, host, commands, starts>>
  PROVE  CoordinatorPart'
<1>1. UNCHANGED <<session_nodes, node_replied, session_bitmaps, current_file_size,
                  page_start_offset, page_bytes_received, pc, dist_chunk_idx, total_chunks,
                  end_pkt, recovery_round, ota_target_slot, page_buffer>>
  BY DEF sessionVars, transferVars, processVars
<1>2. CoordinatorTypeOK' /\ SessionOfLine'
  BY <1>1 DEF CoordinatorTypeOK, SessionOfLine, IInv, TypeOK
<1> QED
  BY <1>2, NetworkLeavesStep DEF CoordinatorPart

LEMMA ReceiveKeeps == ASSUME IInv, NEW i \in DOMAIN Line, Receive(i) PROVE IInv'
<1> PICK img : img = host.file
  OBVIOUS
<1>1. /\ QueuesOf(PacketsOf(img)) /\ QueuesOf(PacketsOf(img))' /\ Elements(i)
      /\ \E pkt \in PacketsOf(img), r \in Node : Gets(i, pkt, r)
  BY ReceiveGets
<1>2. PICK pkt \in PacketsOf(img), r \in Node : Gets(i, pkt, r)
  BY <1>1
<1>3. Sent /\ ~NotSent
  <2>1. Inbox(i) # <<>>
    BY DEF Receive
  <2> QED
    BY <2>1, QueuedIsSent DEF IInv
<1>4. /\ UNCHANGED <<sessionVars, transferVars, processVars, ota_target_slot, page_buffer,
                     uart, host, commands, starts, reports, abandoned>>
      /\ AllSent' <=> AllSent
  BY <1>2, ReceiveFrame
<1>5. /\ nodes' \in [Nodes -> Node] /\ r.current_file_size \in {NoFile, img.size}
      /\ nodes'[Line[i]] = r
      /\ \A node \in Nodes : node # Line[i] => nodes'[node] = nodes[node]
  BY <1>2, GetsEffect
<1>6. CoordinatorPart'
  BY <1>3, <1>4, NetworkLeavesCoordinator
<1>7. TypeOK'
  BY <1>1, <1>4, <1>5, <1>6 DEF IInv, TypeOK, QueuesOf, QueuesTypeOK, CoordinatorPart
<1>8. FilesOfNodes'
  BY <1>4, <1>5 DEF IInv, FilesOfNodes
<1>9. StartFirst'
  <2>1. \A j \in DOMAIN Line : j # i => nodes'[Line[j]] = nodes[Line[j]]
    BY <1>5, LineType
  <2> QED
    BY <1>1, <2>1, StartFirstPasses DEF IInv
<1>10. VerifyLast'
  BY <1>1, <1>4, VerifyLastPasses DEF IInv
<1>11. PagesKept'
  BY <1>1, <1>2, ReceivePages
<1>12. ReportsKept' /\ BitmapsKept'
  BY <1>1, <1>2, <1>3, ReceiveReports
<1> QED
  BY <1>6, <1>7, <1>8, <1>9, <1>10, <1>11, <1>12 DEF IInv, CoordinatorPart
-----------------------------------------------------------------------------
(* Reports leave and arrive; packets and reports are lost. *)

\* What the invariant says of the nodes looks at these fields of their records only.
SameToKeep(m, r) ==
  /\ r.flash = m.flash /\ r.current_file_size = m.current_file_size
  /\ r.current_rx_page_offset = m.current_rx_page_offset /\ r.page_bitmap = m.page_bitmap

LEMMA SameKeeps ==
  ASSUME NEW m, NEW r, SameToKeep(m, r), NEW img, NEW p, Keeps(m, img, p)
  PROVE  Keeps(r, img, p)
BY DEF SameToKeep, Keeps, HoldsPage

LEMMA QueuesRest ==
  ASSUME UNCHANGED <<line, hop>>
  PROVE  \A i : Inbox(i)' = Inbox(i)
BY DEF Inbox

LEMMA OrderRests ==
  ASSUME IInv, UNCHANGED <<line, hop>>, AllSent => AllSent',
         \A i \in DOMAIN Line :
           nodes'[Line[i]].current_rx_page_offset = nodes[Line[i]].current_rx_page_offset
  PROVE  StartFirst' /\ VerifyLast'
<1>1. \A i : Inbox(i)' = Inbox(i)
  BY QueuesRest
<1>2. StartFirst'
  BY <1>1 DEF IInv, StartFirst
<1>3. VerifyLast'
  BY <1>1 DEF IInv, VerifyLast, OnlyVerify
<1> QED
  BY <1>2, <1>3

LEMMA PagesRest ==
  ASSUME IInv, UNCHANGED <<line, hop, host, page_start_offset, abandoned>>, AllSent => AllSent',
         \A i \in DOMAIN Line : SameToKeep(nodes[Line[i]], nodes'[Line[i]]),
         ToSet(session_nodes') \subseteq ToSet(session_nodes)
  PROVE  PagesKept'
<1>1. \A i : Inbox(i)' = Inbox(i)
  BY QueuesRest
<1> SUFFICES ASSUME NEW p \in 0 .. page_start_offset - 1, NEW i \in DOMAIN Line, PageStays(i, p)
             PROVE  PageStays(i, p)'
  BY DEF IInv, PagesKept
<1>2. SameToKeep(nodes[Line[i]], nodes'[Line[i]])
  OBVIOUS
<1>3. CASE Keeps(nodes[Line[i]], host.file, p)
  BY <1>2, <1>3, SameKeeps DEF PageStays
<1>4. CASE Over(i) /\ HoldsPage(nodes[Line[i]], host.file, p)
  <2>1. Over(i)'
    BY <1>1, <1>2, <1>4 DEF Over, OnlyVerify, SameToKeep
  <2>2. HoldsPage(nodes'[Line[i]], host.file, p)
    BY <1>2, <1>4 DEF HoldsPage, SameToKeep
  <2> QED
    BY <2>1, <2>2 DEF PageStays
<1> QED
  BY <1>3, <1>4 DEF PageStays

LEMMA SendReportKeeps == ASSUME IInv, NEW node \in Nodes, SendReport(node) PROVE IInv'
<1> PICK m : m = nodes[node]
  OBVIOUS
<1> PICK r : r = ReportSent(m)
  OBVIOUS
<1>1. /\ UNCHANGED <<sessionVars, transferVars, processVars, ota_target_slot, page_buffer,
                     bitmap_event, uart, host, commands, starts>>
      /\ UNCHANGED <<line, hop, abandoned>>
      /\ reports' = reports \cup {BitmapReportOf(node, m.report_to_send)}
      /\ nodes' = [nodes EXCEPT ![node] = r] /\ m.report_to_send # NoReport
  BY DEF SendReport, hostAndCoordinatorVars, senderVars
<1>2. m \in Node /\ nodes \in [Nodes -> Node]
  BY DEF IInv, TypeOK
<1>3. r \in Node /\ SameToKeep(m, r) /\ r.report_to_send = NoReport
  <2>1. NoReport \in [page : Page \cup {NoPage}, bitmap : SUBSET Chunk]
    BY DEF NoReport
  <2> QED
    BY <1>2, <2>1 DEF ReportSent, Node, SameToKeep
<1>4. /\ nodes' \in [Nodes -> Node] /\ nodes'[node] = r
      /\ \A other \in Nodes : other # node => nodes'[other] = nodes[other]
  BY <1>1, <1>2, <1>3
<1>5. \A other \in Nodes : SameToKeep(nodes[other], nodes'[other])
  <2>1. \A x : SameToKeep(x, x)
    BY DEF SameToKeep
  <2> QED
    BY <1>3, <1>4, <2>1
<1>6. ~NotSent
  <2>1. Boot(OldFlash).report_to_send = NoReport
    BY DEF Boot
  <2> QED
    BY <1>1, <2>1 DEF NotSent, Untouched
<1>7. CoordinatorPart'
  BY <1>1, <1>6, NetworkLeavesCoordinator
<1>8. TypeOK'
  <2>1. BitmapReportOf(node, m.report_to_send) \in Report
    BY <1>2, NodeFields DEF BitmapReportOf, Report
  <2> QED
    BY <1>1, <1>4, <1>7, <2>1 DEF IInv, TypeOK, QueuesTypeOK, CoordinatorPart
<1>9. FilesOfNodes'
  BY <1>1, <1>5 DEF IInv, FilesOfNodes, SameToKeep
<1>10. UNCHANGED <<page_start_offset, current_file_size, pc, session_nodes, session_bitmaps>>
  BY <1>1 DEF transferVars, processVars, sessionVars
<1>11. AllSent' <=> AllSent
  BY <1>1, <1>10 DEF AllSent, Sent
<1>12. StartFirst' /\ VerifyLast'
  <2>1. \A i \in DOMAIN Line :
          nodes'[Line[i]].current_rx_page_offset = nodes[Line[i]].current_rx_page_offset
    BY <1>5, LineType DEF SameToKeep
  <2> QED
    BY <1>1, <1>11, <2>1, OrderRests
<1>13. PagesKept'
  BY <1>1, <1>5, <1>10, <1>11, LineType, PagesRest
<1>14. ASSUME NEW other \in Nodes, NEW report, FullMeansKept(nodes[other], host.file, report)
       PROVE  FullMeansKept(nodes'[other], host.file, report)
  BY <1>5, <1>14, SameKeeps DEF FullMeansKept
<1>15. ReportsKept'
  <2>1. ASSUME NEW rep \in reports' PROVE FullMeansKept(nodes'[rep.node], host.file, rep.report)
    <3>1. CASE rep \in reports
      <4>1. rep.node \in Nodes /\ FullMeansKept(nodes[rep.node], host.file, rep.report)
        BY <3>1 DEF IInv, TypeOK, Report, ReportsKept
      <4> QED
        BY <1>14, <4>1
    <3>2. CASE rep = BitmapReportOf(node, m.report_to_send)
      <4>1. rep.node = node /\ rep.report = m.report_to_send
        BY <3>2 DEF BitmapReportOf
      <4> QED
        BY <1>14, <4>1 DEF IInv, ReportsKept
    <3> QED
      BY <1>1, <2>1, <3>1, <3>2
  <2>2. ASSUME NEW other \in Nodes
        PROVE  FullMeansKept(nodes'[other], host.file, nodes'[other].report_to_send)
    <3>1. CASE other = node
      <4>1. NoReport.page = -1 /\ page_start_offset \in Nat
        BY DEF NoReport, NoPage, IInv, TypeOK, CoordinatorTypeOK, Size
      <4> QED
        BY <1>3, <1>4, <3>1, <4>1 DEF FullMeansKept
    <3>2. CASE other # node
      BY <1>4, <3>2 DEF IInv, ReportsKept
    <3> QED
      BY <3>1, <3>2
  <2> QED
    BY <1>1, <1>10, <2>1, <2>2 DEF ReportsKept, FullMeansKept
<1>16. BitmapsKept'
  <2>1. \A w \in DOMAIN session_nodes : session_nodes[w] \in Nodes
    BY DEF IInv, TypeOK, CoordinatorTypeOK
  <2> QED
    BY <1>1, <1>5, <1>10, <2>1, SameKeeps DEF IInv, BitmapsKept
<1> QED
  BY <1>7, <1>8, <1>9, <1>12, <1>13, <1>15, <1>16 DEF IInv, CoordinatorPart
\* Fewer reports, and the nodes as before.
LEMMA FewerReports ==
  ASSUME IInv, UNCHANGED <<nodes, host, page_start_offset>>, reports' \subseteq reports
  PROVE  ReportsKept'
BY DEF IInv, ReportsKept, FullMeansKept

LEMMA DeliverReportKeeps == ASSUME IInv, NEW rep \in reports, DeliverReport(rep) PROVE IInv'
<1>1. /\ UNCHANGED <<transferVars, processVars, ota_target_slot, page_buffer, uart, line>>
      /\ UNCHANGED <<host, commands, starts, nodes, hop, abandoned>>
      /\ UNCHANGED <<session_nodes>> /\ reports' \subseteq reports
  BY DEF DeliverReport, DeliverBitmapReport, HandleBitmapReport, senderVars, sessionVars
<1>2. rep.node \in Nodes /\ rep.report \in [page : Page \cup {NoPage}, bitmap : SUBSET Chunk]
  BY DEF IInv, TypeOK, Report
<1>3. UNCHANGED <<page_start_offset, current_file_size, page_bytes_received, pc, dist_chunk_idx,
                  total_chunks, end_pkt, recovery_round>>
  BY <1>1 DEF transferVars, processVars
<1>4. \/ UNCHANGED <<node_replied, session_bitmaps>>
      \/ \E i \in DOMAIN session_nodes :
           /\ session_nodes[i] = rep.node /\ rep.report.page = page_start_offset
           /\ node_replied' = [node_replied EXCEPT ![i] = TRUE]
           /\ session_bitmaps' = [session_bitmaps EXCEPT ![i] = rep.report.bitmap]
  <2>1. CASE IgnoresBitmapReport(rep.node, rep.report.page)
    BY <2>1 DEF DeliverReport, DeliverBitmapReport, HandleBitmapReport, sessionVars
  <2>2. CASE ~IgnoresBitmapReport(rep.node, rep.report.page)
    BY <2>2 DEF DeliverReport, DeliverBitmapReport, HandleBitmapReport, FindSessionNode,
       IgnoresBitmapReport
  <2> QED
    BY <2>1, <2>2
<1>5. CoordinatorTypeOK'
  <2>1. node_replied' \in [Index -> BOOLEAN] /\ session_bitmaps' \in [Index -> SUBSET Chunk]
    BY <1>2, <1>4 DEF IInv, TypeOK, CoordinatorTypeOK
  <2> QED
    BY <1>1, <1>3, <2>1 DEF IInv, TypeOK, CoordinatorTypeOK
<1>6. ~NotSent
  BY DEF NotSent, Untouched
<1>7. InStep' /\ BufferOfFile' /\ ProcessOfFile'
  BY <1>1, <1>6, NetworkLeavesStep
<1>8. TypeOK' /\ FilesOfNodes' /\ SessionOfLine'
  BY <1>1, <1>5 DEF IInv, TypeOK, FilesOfNodes, SessionOfLine, QueuesTypeOK
<1>9. AllSent' <=> AllSent
  BY <1>1, <1>3 DEF AllSent, Sent
<1>10. StartFirst' /\ VerifyLast'
  BY <1>1, <1>9, OrderRests
<1>11. PagesKept'
  <2>1. \A i \in DOMAIN Line : SameToKeep(nodes[Line[i]], nodes'[Line[i]])
    BY <1>1 DEF SameToKeep
  <2> QED
    BY <1>1, <1>3, <1>9, <2>1, PagesRest
<1>12. ReportsKept'
  BY <1>1, <1>3, FewerReports
<1>13. BitmapsKept'
  <2> SUFFICES ASSUME pc # "idle", NEW w \in DOMAIN session_nodes,
                      PageFull(host.file, page_start_offset, session_bitmaps'[w])
               PROVE  Keeps(nodes[session_nodes[w]], host.file, page_start_offset)
    BY <1>1, <1>3 DEF BitmapsKept
  <2>1. CASE session_bitmaps'[w] = session_bitmaps[w]
    BY <2>1 DEF IInv, BitmapsKept
  <2>2. CASE session_bitmaps'[w] # session_bitmaps[w]
    <3>1. /\ session_nodes[w] = rep.node /\ rep.report.page = page_start_offset
          /\ session_bitmaps'[w] = rep.report.bitmap
      <4>1. w \in Index /\ session_bitmaps \in [Index -> SUBSET Chunk]
        BY CoordinatorAssumption DEF IInv, TypeOK, CoordinatorTypeOK, Index
      <4> QED
        BY <1>4, <2>2, <4>1
    <3>2. page_start_offset < host.file.size.pages /\ page_start_offset >= page_start_offset
      <4>1. ExpectedPageSize > 0
        BY DEF IInv, InStep, NotSent, Untouched, At, SendsData, WaitsForPage, SendsVerify,
           Stopped, WorksOn
      <4>2. /\ host.file.size \in Size /\ page_start_offset \in Nat
            /\ current_file_size = host.file.size
        BY <1>6, FileFacts DEF IInv, InStep, TypeOK, CoordinatorTypeOK, Size, Sent
      <4> QED
        BY <4>1, <4>2, PageLenType DEF ExpectedPageSize
    <3>3. FullMeansKept(nodes[rep.node], host.file, rep.report)
      BY DEF IInv, ReportsKept
    <3> QED
      BY <3>1, <3>2, <3>3 DEF FullMeansKept
  <2> QED
    BY <2>1, <2>2
<1> QED
  BY <1>7, <1>8, <1>10, <1>11, <1>12, <1>13 DEF IInv

LEMMA LosePacketKeeps ==
  ASSUME IInv, NEW i \in DOMAIN Line, LosePacket(i), UNCHANGED <<nodes, abandoned>>
  PROVE  IInv'
<1> PICK img : img = host.file
  OBVIOUS
<1>1. /\ UNCHANGED <<sessionVars, transferVars, processVars, ota_target_slot, page_buffer,
                     uart, host, commands, starts, reports, nodes, abandoned>>
      /\ Inbox(i) # <<>> /\ PassedOn(i, FALSE)
  BY DEF LosePacket, hostAndCoordinatorVars, senderVars
<1>2. QueuesOf(PacketsOf(img))
  BY DEF IInv, TypeOK, QueuesTypeOK, QueuesOf
<1>3. QueuesOf(PacketsOf(img))' /\ Passes(i, FALSE)
  BY <1>1, <1>2, PassedOnPasses
<1>4. Elements(i)
  BY <1>1, <1>2, <1>3, PassedElements
<1>5. ~NotSent
  BY <1>1, QueuedIsSent DEF IInv
<1>6. CoordinatorPart'
  BY <1>1, <1>5, NetworkLeavesCoordinator
<1>7. UNCHANGED <<page_start_offset, current_file_size, pc, session_nodes, session_bitmaps>>
  BY <1>1 DEF transferVars, processVars, sessionVars
<1>8. AllSent' <=> AllSent
  BY <1>1, <1>7 DEF AllSent, Sent
<1>9. TypeOK' /\ FilesOfNodes'
  BY <1>1, <1>3, <1>6 DEF IInv, TypeOK, FilesOfNodes, QueuesOf, QueuesTypeOK, CoordinatorPart
<1>10. StartFirst' /\ VerifyLast'
  BY <1>1, <1>2, <1>4, <1>8, StartFirstPasses, VerifyLastPasses DEF IInv
<1>11. ReportsKept' /\ BitmapsKept'
  BY <1>1, <1>7, FewerReports DEF IInv, BitmapsKept
<1>12. PagesKept'
  <2> SUFFICES ASSUME NEW p \in 0 .. page_start_offset - 1, NEW j \in DOMAIN Line,
                      PageStays(j, p)
               PROVE  PageStays(j, p)'
    BY <1>1, <1>7 DEF IInv, PagesKept
  <2>1. ASSUME NEW x \in DOMAIN Line, OnlyVerify(Inbox(x)) PROVE OnlyVerify(Inbox(x)')
    <3>1. CASE x = i
      BY <1>4, <2>1, <3>1 DEF Elements, OnlyVerify
    <3>2. CASE x # i
      <4>1. Inbox(x)' = Inbox(x)
        BY <1>3, <3>2 DEF Passes
      <4> QED
        BY <2>1, <4>1 DEF OnlyVerify
    <3> QED
      BY <3>1, <3>2
  <2> QED
    BY <1>1, <1>8, <2>1 DEF PageStays, Over, OnlyVerify
<1> QED
  BY <1>6, <1>9, <1>10, <1>11, <1>12 DEF IInv, CoordinatorPart

LEMMA LoseReportKeeps ==
  ASSUME IInv, NEW rep \in reports, LoseReport(rep), UNCHANGED <<nodes, abandoned>>
  PROVE  IInv'
<1>1. /\ UNCHANGED <<sessionVars, transferVars, processVars, ota_target_slot, page_buffer,
                     uart, host, commands, starts, line, hop, nodes, abandoned>>
      /\ reports' \subseteq reports
  BY DEF LoseReport, hostAndCoordinatorVars, senderVars
<1>2. ~NotSent
  BY DEF NotSent, Untouched
<1>3. CoordinatorPart'
  BY <1>1, <1>2, NetworkLeavesCoordinator
<1>4. UNCHANGED <<page_start_offset, current_file_size, pc, session_nodes, session_bitmaps>>
  BY <1>1 DEF transferVars, processVars, sessionVars
<1>5. AllSent' <=> AllSent
  BY <1>1, <1>4 DEF AllSent, Sent
<1>6. TypeOK' /\ FilesOfNodes'
  BY <1>1, <1>3 DEF IInv, TypeOK, FilesOfNodes, QueuesTypeOK, CoordinatorPart
<1>7. StartFirst' /\ VerifyLast'
  BY <1>1, <1>5, OrderRests
<1>8. ReportsKept' /\ BitmapsKept'
  BY <1>1, <1>4, FewerReports DEF IInv, BitmapsKept
<1>9. PagesKept'
  <2>1. \A i \in DOMAIN Line : SameToKeep(nodes[Line[i]], nodes'[Line[i]])
    BY <1>1 DEF SameToKeep
  <2> QED
    BY <1>1, <1>4, <1>5, <2>1, PagesRest
<1> QED
  BY <1>3, <1>6, <1>7, <1>8, <1>9 DEF IInv, CoordinatorPart

LEMMA NetworkKeeps == ASSUME IInv, Network \/ NetworkLoses PROVE IInv'
BY ReceiveKeeps, SendReportKeeps, DeliverReportKeeps, LosePacketKeeps, LoseReportKeeps
   DEF Network, NetworkLoses, Losses
-----------------------------------------------------------------------------
(* A step of distribute_process: it goes on with its page, sending a       *)
(* packet of it or none, ends it, or was only told of reports it does not  *)
(* wait for.                                                               *)

\* A session compacted to some of its nodes: each of them with its bitmap.
Compacted(members, bitmaps) ==
  /\ members \in Seq(Nodes) /\ Len(members) <= MAX_NODES
  /\ bitmaps \in [Index -> SUBSET Chunk]
  /\ \A w \in DOMAIN members : \E i \in DOMAIN session_nodes :
       members[w] = session_nodes[i] /\ bitmaps[w] = session_bitmaps[i]

LEMMA Compaction ==
  ASSUME CoordinatorTypeOK, NEW S \in SUBSET DOMAIN session_nodes, NEW kept \in InOrder(S)
  PROVE  Compacted(CompactNodes(session_nodes, kept), CompactBitmaps(session_bitmaps, kept))
<1> DEFINE members == CompactNodes(session_nodes, kept)
           bitmaps == CompactBitmaps(session_bitmaps, kept)
           k == Cardinality(S)
<1>1. /\ session_nodes \in Seq(Nodes) /\ session_bitmaps \in [Index -> SUBSET Chunk]
      /\ Len(session_nodes) \in Nat /\ Len(session_nodes) <= MAX_NODES
      /\ DOMAIN session_nodes = 1 .. Len(session_nodes)
  BY DEF CoordinatorTypeOK
<1>2. k \in Nat /\ k <= MAX_NODES
  <2> DEFINE len == Len(session_nodes)
  <2>0. len \in Nat /\ S \in SUBSET (1 .. len) /\ 1 \in Int /\ len \in Int
    BY <1>1
  <2> HIDE DEF len
  <2>1. IsFiniteSet(1 .. len) /\ Cardinality(1 .. len) = IF 1 > len THEN 0 ELSE len - 1 + 1
    BY <2>0, FS_Interval, Zenon
  <2>2. IsFiniteSet(S) /\ k <= Cardinality(1 .. len)
    BY <2>0, <2>1, FS_Subset, Zenon
  <2>3. k <= len
    BY <2>0, <2>1, <2>2, FS_CardinalityType
  <2> QED
    BY <1>1, <2>2, <2>3, FS_CardinalityType, CoordinatorAssumption DEF len
<1>3. kept \in [1 .. k -> S]
  BY DEF InOrder
<1>4. \A w \in 1 .. k : kept[w] \in 1 .. Len(session_nodes) /\ kept[w] \in Index
  BY <1>1, <1>3, CoordinatorAssumption DEF Index
<1>5. members = [w \in 1 .. k |-> session_nodes[kept[w]]]
  BY <1>3 DEF CompactNodes
<1> HIDE DEF k
<1>6. members \in [1 .. k -> Nodes]
  BY <1>1, <1>4, <1>5
<1>7. members \in Seq(Nodes) /\ Len(members) = k /\ DOMAIN members = 1 .. k
  BY <1>2, <1>6
<1>8. \A w \in 1 .. k : members[w] = session_nodes[kept[w]]
  BY <1>5
<1>9. bitmaps \in [Index -> SUBSET Chunk] /\ \A w \in 1 .. k : bitmaps[w] = session_bitmaps[kept[w]]
  <2>1. bitmaps = [i \in Index |-> IF i \in 1 .. k THEN session_bitmaps[kept[i]]
                                   ELSE session_bitmaps[i]]
    BY <1>3 DEF CompactBitmaps
  <2>2. 1 .. k \subseteq Index
    BY <1>2, CoordinatorAssumption DEF Index
  <2> QED
    BY <1>1, <1>4, <2>1, <2>2
<1> HIDE DEF members, bitmaps
<1>10. \A w \in DOMAIN members : \E i \in DOMAIN session_nodes :
         members[w] = session_nodes[i] /\ bitmaps[w] = session_bitmaps[i]
  BY <1>1, <1>4, <1>7, <1>8, <1>9
<1>11. Compacted(members, bitmaps)
  BY <1>2, <1>7, <1>9, <1>10 DEF Compacted
<1> QED
  BY <1>11 DEF members, bitmaps

LEMMA NotCompacted == ASSUME CoordinatorTypeOK PROVE Compacted(session_nodes, session_bitmaps)
BY DEF CoordinatorTypeOK, Compacted

Process == pc \in {"chunk", "pageEnd", "wait", "resend"}

\* The packets the process has for its page.
PageChunk(idx) == DataPkt(page_start_offset, idx, page_buffer[idx], NoTarget)
SendsOfPage ==
  \/ line' = line
  \/ line' = Append(line, end_pkt)
  \/ \E idx \in 0 .. total_chunks - 1 : line' = Append(line, PageChunk(idx))

Continues ==
  /\ Process /\ Process'
  /\ UNCHANGED <<current_file_size, page_start_offset, page_bytes_received,
                 distribution_in_progress, uart, total_chunks, end_pkt>>
  /\ dist_chunk_idx' \in 0 .. total_chunks /\ recovery_round' \in 0 .. MaxRounds
  /\ SendsOfPage

Ends ==
  /\ Process /\ pc' = "idle"
  /\ page_start_offset' = page_start_offset + 1
  /\ page_bytes_received' = 0 /\ distribution_in_progress' = FALSE
  /\ uart' = Append(uart, "PAGE_OK")
  /\ UNCHANGED <<current_file_size, total_chunks, dist_chunk_idx, end_pkt, line>>
  /\ recovery_round' = 0

Rests == UNCHANGED <<transferVars, processVars, uart, line>>

\* Why it may end.
PageDone == PageIsComplete(session_nodes', session_bitmaps')
LastRound == recovery_round = MaxRounds /\ pc = "resend"

ProcessEffect ==
  \/ Continues
  \/ Ends /\ (PageDone \/ LastRound)
  \/ Rests

\* What the invariant says of a process at work.
AtWork ==
  Process => /\ ExpectedPageSize > 0 /\ total_chunks = ExpectedPageSize
             /\ end_pkt = PageEndPkt(page_start_offset, end_pkt.crc, NoTarget)

LEMMA AdvanceEnds ==
  ASSUME CoordinatorTypeOK, AtWork, Process, AdvancePage
  PROVE  Ends
<1>1. ExpectedPageSize # 0
  BY DEF AtWork
<1> QED
  BY <1>1 DEF AdvancePage, Ends, Answer

LEMMA PageEndContinues ==
  ASSUME CoordinatorTypeOK, AtWork, Process,
         end_pkt' = end_pkt, PageEndOrWait(end_pkt), UNCHANGED <<transferVars, total_chunks, uart>>,
         dist_chunk_idx' = dist_chunk_idx, recovery_round' \in 0 .. MaxRounds
  PROVE  Continues
<1>1. Process' /\ SendsOfPage
  BY DEF PageEndOrWait, Process, SendsOfPage, SendToAll
<1>2. dist_chunk_idx' \in 0 .. total_chunks
  BY DEF CoordinatorTypeOK
<1> QED
  BY <1>1, <1>2 DEF Continues, transferVars

LEMMA RoundHeadEffect ==
  ASSUME CoordinatorTypeOK, AtWork, Process, UNCHANGED <<session_nodes, session_bitmaps>>,
         NEW round \in 0 .. MaxRounds, round >= MaxRounds => LastRound,
         RoundHead(round)
  PROVE  ProcessEffect /\ node_replied' \in [Index -> BOOLEAN]
<1>1. CASE PageIsComplete(session_nodes, session_bitmaps) \/ round >= MaxRounds
  <2>1. AdvancePage
    BY <1>1 DEF RoundHead
  <2>2. PageDone \/ LastRound
    BY <1>1, <2>1 DEF PageDone, PageIsComplete, AdvancePage
  <2>3. node_replied' = node_replied
    BY <2>1 DEF AdvancePage
  <2> QED
    BY <2>1, <2>2, <2>3, AdvanceEnds DEF ProcessEffect, CoordinatorTypeOK
<1>2. CASE ~(PageIsComplete(session_nodes, session_bitmaps) \/ round >= MaxRounds)
  <2>1. /\ recovery_round' = round + 1
        /\ node_replied' = [i \in Index |-> FALSE]
        /\ end_pkt' = PageEndPkt(page_start_offset, end_pkt.crc, ota_target_slot)
        /\ PageEndOrWait(end_pkt')
        /\ UNCHANGED <<transferVars, dist_chunk_idx, total_chunks, uart>>
    BY <1>2 DEF RoundHead
  <2>2. end_pkt' = end_pkt
    BY <2>1 DEF AtWork, CoordinatorTypeOK
  <2>3. recovery_round' \in 0 .. MaxRounds
    BY <1>2, <2>1, CoordinatorAssumption
  <2>4. PageEndOrWait(end_pkt)
    BY <2>1, <2>2
  <2> QED
    BY <2>1, <2>2, <2>3, <2>4, PageEndContinues DEF ProcessEffect
<1> QED
  BY <1>1, <1>2

LEMMA LeaveWaitEffect ==
  ASSUME CoordinatorTypeOK, AtWork, Process, LeaveWait(session_nodes', session_bitmaps')
  PROVE  ProcessEffect /\ node_replied' \in [Index -> BOOLEAN]
<1>1. CASE PageIsComplete(session_nodes', session_bitmaps')
  <2>1. AdvancePage
    BY <1>1, Zenon DEF LeaveWait
  <2>2. node_replied' = node_replied
    BY <2>1 DEF AdvancePage
  <2> QED
    BY <1>1, <2>1, <2>2, AdvanceEnds DEF ProcessEffect, PageDone, CoordinatorTypeOK
<1>2. CASE ~PageIsComplete(session_nodes', session_bitmaps')
  <2>1. /\ pc' = "resend" /\ dist_chunk_idx' = 0
        /\ UNCHANGED <<transferVars, total_chunks, end_pkt, recovery_round, retry_count,
                       node_replied, uart, line>>
    BY <1>2, Zenon DEF LeaveWait
  <2>2. Continues
    BY <2>1 DEF Continues, Process, SendsOfPage, CoordinatorTypeOK, transferVars
  <2> QED
    BY <2>1, <2>2 DEF ProcessEffect, CoordinatorTypeOK
<1> QED
  BY <1>1, <1>2

\* The next missing chunk is one: a set of natural numbers has a least element.
LEMMA MissingHasMin ==
  ASSUME CoordinatorTypeOK, MissingChunks # {}
  PROVE  Min(MissingChunks) \in MissingChunks
<1> DEFINE less == OpToRel(<, Nat)
<1>1. MissingChunks \subseteq Nat
  BY DEF MissingChunks, CoordinatorTypeOK
<1>2. \A x, y \in Nat : y < x => <<y, x>> \in less
  BY DEF OpToRel
<1>3. IsWellFoundedOn(less, Nat)
  BY NatLessThanWellFounded
<1> HIDE DEF less
<1>4. PICK x \in MissingChunks : \A y \in MissingChunks : ~(<<y, x>> \in less)
  BY <1>1, <1>3, WFMin, Zenon
<1>5. ASSUME NEW y \in MissingChunks PROVE x <= y
  <2>1. x \in Nat /\ y \in Nat
    BY <1>1
  <2>2. ~(y < x)
    BY <1>2, <1>4, <2>1, Zenon
  <2> QED
    BY <2>1, <2>2
<1> QED
  BY <1>5, Zenon DEF Min

\* What no step of the process changes.
ProcessLeaves == UNCHANGED <<ota_target_slot, page_buffer, senderVars, nodes, hop, reports>>
LEMMA DropEffect ==
  ASSUME CoordinatorTypeOK, AtWork, Process, DropSilentNodes
  PROVE  /\ ProcessEffect /\ Compacted(session_nodes', session_bitmaps')
         /\ node_replied' \in [Index -> BOOLEAN]
<1>1. Replied \in SUBSET DOMAIN session_nodes
  BY DEF Replied
<1>2. PICK kept \in InOrder(Replied) :
        /\ session_nodes' = CompactNodes(session_nodes, kept)
        /\ session_bitmaps' = CompactBitmaps(session_bitmaps, kept)
  BY DEF DropSilentNodes
<1>3. Compacted(session_nodes', session_bitmaps')
  BY <1>1, <1>2, Compaction
<1>4. LeaveWait(session_nodes', session_bitmaps')
  BY DEF DropSilentNodes
<1> QED
  BY <1>3, <1>4, LeaveWaitEffect

LEMMA DistributesEffect ==
  ASSUME CoordinatorTypeOK, AtWork, Distributes
  PROVE  /\ ProcessEffect /\ Compacted(session_nodes', session_bitmaps') /\ ProcessLeaves
         /\ node_replied' \in [Index -> BOOLEAN]
         /\ abandoned' = IF pc = "resend" /\ recovery_round = MaxRounds /\ pc' = "idle"
                         THEN abandoned \cup {page_start_offset} ELSE abandoned
<1>1. /\ UNCHANGED <<senderVars, nodes, hop, reports>>
      /\ abandoned' = IF pc = "resend" /\ recovery_round = MaxRounds /\ pc' = "idle"
                      THEN abandoned \cup {page_start_offset} ELSE abandoned
  BY DEF Distributes, systemVars, networkVars, GivesUp
<1> SUFFICES /\ ProcessEffect /\ Compacted(session_nodes', session_bitmaps')
             /\ UNCHANGED <<ota_target_slot, page_buffer>>
             /\ node_replied' \in [Index -> BOOLEAN]
  BY <1>1 DEF ProcessLeaves
<1>2. ASSUME UNCHANGED <<session_nodes, session_bitmaps>>
      PROVE  Compacted(session_nodes', session_bitmaps')
  BY <1>2, NotCompacted
<1>3. CASE SendChunk
  <2>1. /\ pc = "chunk" /\ pc' = pc /\ dist_chunk_idx < total_chunks
        /\ line' = Append(line, ChunkPkt(dist_chunk_idx))
        /\ dist_chunk_idx' = dist_chunk_idx + 1
        /\ UNCHANGED <<sessionVars, transferVars, total_chunks, end_pkt, recovery_round,
                       ota_target_slot, page_buffer, uart>>
    BY <1>3 DEF SendChunk, SendToAll
  <2>2. SendsOfPage
    <3>1. dist_chunk_idx \in 0 .. total_chunks - 1
      BY <2>1 DEF CoordinatorTypeOK
    <3>2. ChunkPkt(dist_chunk_idx) = PageChunk(dist_chunk_idx)
      BY DEF ChunkPkt, PageChunk, CoordinatorTypeOK
    <3> QED
      BY <2>1, <3>1, <3>2 DEF SendsOfPage
  <2>3. Continues
    <3>1. dist_chunk_idx' \in 0 .. total_chunks
      BY <2>1 DEF CoordinatorTypeOK
    <3> QED
      BY <2>1, <2>2, <3>1 DEF Continues, Process, transferVars, CoordinatorTypeOK
  <2> QED
    BY <1>2, <2>1, <2>3 DEF ProcessEffect, sessionVars, CoordinatorTypeOK
<1>4. CASE ChunksSent
  <2>1. /\ Process /\ RoundHead(0) /\ UNCHANGED <<session_nodes, session_bitmaps>>
        /\ UNCHANGED <<ota_target_slot, page_buffer>>
    BY <1>4 DEF ChunksSent, Process
  <2>2. ProcessEffect /\ node_replied' \in [Index -> BOOLEAN]
    BY <2>1, RoundHeadEffect, CoordinatorAssumption
  <2> QED
    BY <1>2, <2>1, <2>2
<1>5. CASE AllRepliedEvent
  <2>1. /\ UNCHANGED <<session_nodes, session_bitmaps>>
        /\ UNCHANGED <<ota_target_slot, page_buffer>>
    BY <1>5 DEF AllRepliedEvent
  <2>2. CASE pc = "wait" /\ AllReplied(session_nodes, node_replied)
    <3>1. LeaveWait(session_nodes, session_bitmaps)
      BY <1>5, <2>2, Zenon DEF AllRepliedEvent
    <3>2. LeaveWait(session_nodes', session_bitmaps')
      BY <2>1, <3>1
    <3> QED
      BY <1>2, <2>1, <2>2, <3>2, LeaveWaitEffect DEF Process
  <2>3. CASE ~(pc = "wait" /\ AllReplied(session_nodes, node_replied))
    <3>1. UNCHANGED <<transferVars, processVars, node_replied, uart, line>>
      BY <1>5, <2>3, Zenon DEF AllRepliedEvent
    <3> QED
      BY <1>2, <2>1, <3>1 DEF ProcessEffect, Rests, CoordinatorTypeOK
  <2> QED
    BY <2>2, <2>3
<1>6. CASE ReportTimeout
  <2>1. /\ pc = "wait" /\ Process /\ UNCHANGED <<ota_target_slot, page_buffer>>
        /\ DropSilentNodes \/ RepeatPageEnd
    BY <1>6 DEF ReportTimeout, Process
  <2>2. CASE DropSilentNodes
    BY <2>1, <2>2, DropEffect
  <2>3. CASE RepeatPageEnd
    <3>1. /\ PageEndOrWait(end_pkt)
          /\ UNCHANGED <<session_nodes, session_bitmaps, node_replied, transferVars,
                         dist_chunk_idx, total_chunks, end_pkt, recovery_round, uart>>
      BY <2>3 DEF RepeatPageEnd
    <3>2. Continues
      BY <2>1, <3>1, PageEndContinues DEF CoordinatorTypeOK
    <3> QED
      BY <1>2, <2>1, <3>1, <3>2 DEF ProcessEffect, CoordinatorTypeOK
  <2> QED
    BY <2>1, <2>2, <2>3
<1>7. CASE Resend
  <2>1. /\ pc = "resend" /\ Process /\ UNCHANGED <<ota_target_slot, page_buffer>>
        /\ UNCHANGED <<session_nodes, session_bitmaps>>
    BY <1>7 DEF Resend, Process
  <2>2. CASE MissingChunks = {}
    <3>1. RoundHead(recovery_round)
      BY <1>7, <2>2, Zenon DEF Resend
    <3>2. recovery_round >= MaxRounds => LastRound
      BY <2>1, CoordinatorAssumption DEF CoordinatorTypeOK, LastRound
    <3>3. ProcessEffect /\ node_replied' \in [Index -> BOOLEAN]
      BY <2>1, <3>1, <3>2, RoundHeadEffect DEF CoordinatorTypeOK
    <3> QED
      BY <1>2, <2>1, <3>3
  <2>3. CASE MissingChunks # {}
    <3> DEFINE idx == Min(MissingChunks)
    <3>1. /\ dist_chunk_idx' = idx + 1 /\ line' = Append(line, ChunkPkt(idx))
          /\ UNCHANGED <<transferVars, pc, total_chunks, end_pkt, recovery_round,
                         retry_count, node_replied, uart>>
      BY <1>7, <2>3 DEF Resend, SendToAll
    <3>2. idx \in MissingChunks
      BY <2>3, MissingHasMin
    <3>3. dist_chunk_idx' \in 0 .. total_chunks /\ idx \in 0 .. total_chunks - 1
      BY <3>1, <3>2 DEF MissingChunks, CoordinatorTypeOK
    <3> HIDE DEF idx
    <3>4. ChunkPkt(idx) = PageChunk(idx)
      BY DEF ChunkPkt, PageChunk, CoordinatorTypeOK
    <3>5. Continues
      BY <2>1, <3>1, <3>3, <3>4 DEF Continues, SendsOfPage, Process, transferVars,
         CoordinatorTypeOK
    <3> QED
      BY <1>2, <2>1, <3>1, <3>5 DEF ProcessEffect, CoordinatorTypeOK
  <2> QED
    BY <2>2, <2>3
<1> QED
  BY <1>3, <1>4, <1>5, <1>6, <1>7 DEF Distributes, SendPage, ResendMissing, WaitForReports
-----------------------------------------------------------------------------
(* A packet enters the queue of the coordinator. *)

Queued(pkt) == line' = Append(line, pkt) /\ UNCHANGED <<hop, nodes, host>>

\* VERIFY is queued when all is sent, and nothing else then.
InOrderToSend(pkt) ==
  /\ pkt.type # "START" /\ (AllSent => AllSent')
  /\ IF pkt.type = "VERIFY" THEN AllSent' ELSE ~AllSent

LEMMA QueuedElements ==
  ASSUME NEW P, QueuesOf(P), NEW pkt \in P, Queued(pkt)
  PROVE  /\ QueuesOf(P)'
         /\ \A i \in DOMAIN Line : i # 1 => Inbox(i)' = Inbox(i)
         /\ DOMAIN Inbox(1)' = DOMAIN Inbox(1) \cup {Len(Inbox(1)) + 1}
         /\ Inbox(1)'[Len(Inbox(1)) + 1] = pkt
         /\ \A k \in DOMAIN Inbox(1) : Inbox(1)'[k] = Inbox(1)[k]
         /\ Len(Inbox(1)) \in Nat /\ DOMAIN Inbox(1) = 1 .. Len(Inbox(1))
<1>1. line \in Seq(P) /\ line' = Append(line, pkt) /\ hop' = hop
  BY DEF QueuesOf, Queued
<1>2. /\ line' \in Seq(P) /\ Len(line) \in Nat /\ DOMAIN line = 1 .. Len(line)
      /\ DOMAIN line' = DOMAIN line \cup {Len(line) + 1}
      /\ line'[Len(line) + 1] = pkt /\ \A k \in DOMAIN line : line'[k] = line[k]
  BY <1>1
<1>3. QueuesOf(P)'
  BY <1>1, <1>2 DEF QueuesOf
<1> QED
  BY <1>1, <1>2, <1>3 DEF Inbox

LEMMA QueuedKeepsOrder ==
  ASSUME IInv, NEW P, QueuesOf(P), NEW pkt \in P, Queued(pkt), InOrderToSend(pkt)
  PROVE  StartFirst' /\ VerifyLast'
<1> DEFINE len == Len(Inbox(1))
<1>1. /\ \A i \in DOMAIN Line : i # 1 => Inbox(i)' = Inbox(i)
      /\ DOMAIN Inbox(1)' = DOMAIN Inbox(1) \cup {len + 1}
      /\ Inbox(1)'[len + 1] = pkt
      /\ \A k \in DOMAIN Inbox(1) : Inbox(1)'[k] = Inbox(1)[k]
      /\ len \in Nat /\ DOMAIN Inbox(1) = 1 .. len
  BY QueuedElements
<1> HIDE DEF len
<1>2. \A i \in DOMAIN Line : i \in Nat /\ i >= 1
  BY LineType
<1>3. nodes' = nodes
  BY DEF Queued
<1>4. StartFirst'
  <2> SUFFICES ASSUME NEW i \in DOMAIN Line, NEW k \in DOMAIN Inbox(i)', Inbox(i)'[k].type = "START"
               PROVE  /\ k = 1
                      /\ \A j \in DOMAIN Line :
                           /\ j > i => Inbox(j)' = <<>>
                           /\ j >= i => nodes'[Line[j]].current_rx_page_offset = NoPage
    BY DEF StartFirst
  <2>1. k \in DOMAIN Inbox(i) /\ Inbox(i)[k].type = "START"
    BY <1>1 DEF InOrderToSend
  <2>2. \A j \in DOMAIN Line : j > i => Inbox(j)' = Inbox(j)
    BY <1>1, <1>2
  <2> QED
    BY <1>3, <2>1, <2>2 DEF IInv, StartFirst
<1>5. VerifyLast'
  <2> SUFFICES ASSUME NEW i \in DOMAIN Line, NEW k \in DOMAIN Inbox(i)', Inbox(i)'[k].type = "VERIFY"
               PROVE  /\ AllSent'
                      /\ \A l \in DOMAIN Inbox(i)' : l > k => Inbox(i)'[l].type = "VERIFY"
                      /\ \A j \in DOMAIN Line : j < i => OnlyVerify(Inbox(j)')
    BY DEF VerifyLast, OnlyVerify
  <2>1. AllSent' /\ pkt.type = "VERIFY"
    <3>1. CASE k \in DOMAIN Inbox(i) /\ Inbox(i)'[k] = Inbox(i)[k]
      BY <3>1 DEF IInv, VerifyLast, InOrderToSend
    <3>2. CASE Inbox(i)'[k] = pkt
      BY <3>2 DEF InOrderToSend
    <3> QED
      BY <1>1, <3>1, <3>2
  <2>2. ASSUME NEW l \in DOMAIN Inbox(i)', l > k PROVE Inbox(i)'[l].type = "VERIFY"
    <3>1. CASE i = 1 /\ l = len + 1
      BY <1>1, <2>1, <3>1
    <3>2. CASE i = 1 /\ l # len + 1
      <4>1. l \in DOMAIN Inbox(i) /\ k \in DOMAIN Inbox(i)
        BY <1>1, <2>2, <3>2
      <4> QED
        BY <1>1, <2>2, <3>2, <4>1 DEF IInv, VerifyLast
    <3>3. CASE i # 1
      BY <1>1, <2>2, <3>3 DEF IInv, VerifyLast
    <3> QED
      BY <3>1, <3>2, <3>3
  <2>3. ASSUME NEW j \in DOMAIN Line, j < i PROVE OnlyVerify(Inbox(j)')
    <3>1. i # 1 /\ Inbox(i)' = Inbox(i)
      BY <1>1, <1>2, <2>3
    <3>2. OnlyVerify(Inbox(j))
      BY <2>3, <3>1 DEF IInv, VerifyLast
    <3> QED
      BY <1>1, <2>1, <3>2 DEF OnlyVerify
  <2> QED
    BY <2>1, <2>2, <2>3
<1> QED
  BY <1>4, <1>5

LEMMA QueuedKeepsPages ==
  ASSUME NEW P, QueuesOf(P), NEW pkt \in P, Queued(pkt), InOrderToSend(pkt),
         NEW i \in DOMAIN Line, NEW p, PageStays(i, p)
  PROVE  PageStays(i, p)'
<1>1. nodes' = nodes /\ host' = host
  BY DEF Queued
<1>2. CASE Keeps(nodes[Line[i]], host.file, p)
  BY <1>1, <1>2 DEF PageStays
<1>3. CASE Over(i) /\ HoldsPage(nodes[Line[i]], host.file, p)
  <2>1. AllSent /\ AllSent' /\ pkt.type = "VERIFY"
    BY <1>3 DEF Over, InOrderToSend
  <2>2. ASSUME NEW j \in DOMAIN Line, j <= i PROVE OnlyVerify(Inbox(j)')
    <3>1. OnlyVerify(Inbox(j))
      BY <1>3, <2>2 DEF Over
    <3> QED
      BY <2>1, <3>1, QueuedElements DEF OnlyVerify
  <2>3. Over(i)'
    BY <1>1, <1>3, <2>1, <2>2 DEF Over, OnlyVerify
  <2> QED
    BY <1>1, <1>3, <2>3 DEF PageStays
<1> QED
  BY <1>2, <1>3 DEF PageStays

LEMMA RestKeepsPages ==
  ASSUME UNCHANGED <<line, hop, nodes, host>>, AllSent => AllSent', NEW i, NEW p, PageStays(i, p)
  PROVE  PageStays(i, p)'
BY QueuesRest DEF PageStays, Over, OnlyVerify
-----------------------------------------------------------------------------
(* A step of distribute_process keeps the invariant. *)

LEMMA WorkingFacts ==
  ASSUME IInv, pc # "idle", NEW img, img = host.file
  PROVE  /\ Process /\ ~NotSent /\ ~AllSent /\ Sent /\ starts > 0
         /\ WorksOn(page_start_offset)
         /\ page_start_offset \in Page /\ page_start_offset < img.size.pages
         /\ ExpectedPageSize = PageLen(img.size, page_start_offset)
         /\ total_chunks = ExpectedPageSize /\ ExpectedPageSize \in 1 .. PageChunks
         /\ end_pkt = PageEndPkt(page_start_offset, ImagePage(img, page_start_offset), NoTarget)
         /\ \A c \in 0 .. total_chunks - 1 :
              page_buffer[c] = img.data[page_start_offset][c]
<1>1. Process /\ ~AllSent /\ ~NotSent
  BY DEF Process, AllSent, IInv, TypeOK, CoordinatorTypeOK, NotSent, Untouched, At
<1>2. Sent /\ starts > 0 /\ WorksOn(page_start_offset)
  BY <1>1 DEF IInv, InStep, At, WorksOn, SendsData, WaitsForPage, SendsVerify, Stopped
<1>3. /\ page_start_offset \in Nat /\ img \in Image /\ img.size \in Size
      /\ ExpectedPageSize = PageLen(img.size, page_start_offset)
  BY <1>2, FileFacts DEF IInv, TypeOK, CoordinatorTypeOK, Sent, ExpectedPageSize, Size
<1>4. /\ page_start_offset \in Page /\ page_start_offset < img.size.pages
      /\ ExpectedPageSize \in 1 .. PageChunks
  BY <1>2, <1>3, PageLenType DEF WorksOn
<1>5. /\ total_chunks = ExpectedPageSize
      /\ end_pkt = PageEndPkt(page_start_offset, ImagePage(img, page_start_offset), NoTarget)
      /\ \A c \in 0 .. total_chunks - 1 : page_buffer[c] = img.data[page_start_offset][c]
  BY <1>2 DEF IInv, ProcessOfFile, BufferOfFile, WorksOn
<1> QED
  BY <1>1, <1>2, <1>3, <1>4, <1>5

\* What goes out is the page of the file.
LEMMA ContinuesQueues ==
  ASSUME IInv, Continues, ProcessLeaves, NEW img, img = host.file
  PROVE  \/ line' = line
         \/ \E pkt \in PacketsOf(img) : Queued(pkt) /\ InOrderToSend(pkt)
<1>1. /\ pc # "idle" /\ UNCHANGED <<hop, nodes, host>>
  BY DEF Continues, Process, ProcessLeaves, senderVars
<1> DEFINE p == page_start_offset
<1>2. /\ ~AllSent /\ p \in Page /\ p < img.size.pages /\ PageLen(img.size, p) \in 1 .. PageChunks
      /\ total_chunks = PageLen(img.size, p) /\ img \in Image
      /\ end_pkt = PageEndPkt(p, ImagePage(img, p), NoTarget)
      /\ \A c \in 0 .. total_chunks - 1 : page_buffer[c] = img.data[p][c]
  BY <1>1, WorkingFacts, FileFacts DEF IInv
<1> HIDE DEF p
<1>3. CASE line' = Append(line, end_pkt)
  <2>1. ImagePage(img, p) \in PageContent
    <3>1. img.data[p] \in [Chunk -> Cell]
      BY <1>2 DEF Image
    <3>2. PageLen(img.size, p) \in 0 .. PageChunks
      BY <1>2
    <3> QED
      BY <3>1, <3>2, PrefixType DEF ImagePage
  <2>2. end_pkt \in PacketsOf(img) /\ end_pkt.type = "PAGE_END"
    BY <1>2, <2>1 DEF PageEndPkt, PacketsOf, Packet, Carries
  <2> QED
    BY <1>1, <1>2, <1>3, <2>2 DEF Queued, InOrderToSend
<1>4. ASSUME NEW idx \in 0 .. total_chunks - 1, line' = Append(line, PageChunk(idx))
      PROVE  \E pkt \in PacketsOf(img) : Queued(pkt) /\ InOrderToSend(pkt)
  <2>1. PageChunk(idx) = DataPkt(p, idx, img.data[p][idx], NoTarget)
    BY <1>2 DEF PageChunk, p
  <2>2. idx \in Chunk /\ img.data[p][idx] \in Cell /\ idx < PageLen(img.size, p)
    BY <1>2, WireAssumption DEF Chunk, Image
  <2>3. PageChunk(idx) \in PacketsOf(img) /\ PageChunk(idx).type = "DATA"
    BY <1>2, <2>1, <2>2 DEF DataPkt, PacketsOf, Packet, Carries
  <2> QED
    BY <1>1, <1>2, <1>4, <2>3 DEF Queued, InOrderToSend
<1> QED
  BY <1>3, <1>4 DEF Continues, SendsOfPage

\* Which nodes have the whole page is known from their own reports.
LEMMA CompactedBitmaps ==
  ASSUME IInv, pc # "idle", Compacted(session_nodes', session_bitmaps'), nodes' = nodes,
         NEW w \in DOMAIN session_nodes',
         PageFull(host.file, page_start_offset, session_bitmaps'[w])
  PROVE  Keeps(nodes[session_nodes'[w]], host.file, page_start_offset)
BY DEF Compacted, IInv, BitmapsKept

LEMMA CompactedSession ==
  ASSUME IInv, Compacted(session_nodes', session_bitmaps')
  PROVE  /\ SessionOfLine' /\ ToSet(session_nodes') \subseteq ToSet(session_nodes)
         /\ session_nodes' \in Seq(Nodes) /\ Len(session_nodes') <= MAX_NODES
         /\ session_bitmaps' \in [Index -> SUBSET Chunk]
<1>1. \A w \in DOMAIN session_nodes' : \E i \in DOMAIN session_nodes :
        session_nodes'[w] = session_nodes[i]
  BY DEF Compacted
<1>2. SessionOfLine'
  BY <1>1 DEF IInv, SessionOfLine
<1>3. ToSet(session_nodes') \subseteq ToSet(session_nodes)
  BY <1>1 DEF ToSet
<1> QED
  BY <1>2, <1>3 DEF Compacted
Texts == {"ACK", "NO_TARGETS", "PAGE_OK"}

LEMMA AckThenPageOk == Append(<<"ACK">>, "PAGE_OK") = <<"ACK", "PAGE_OK">>
<1>1. ASSUME NEW s \in Seq(Texts), NEW t \in Texts
      PROVE  /\ Append(s, t) \in Seq(Texts) /\ Len(Append(s, t)) = Len(s) + 1
             /\ Append(s, t)[Len(s) + 1] = t
             /\ \A k \in 1 .. Len(s) : Append(s, t)[k] = s[k]
  OBVIOUS
<1>2. ASSUME NEW s \in Seq(Texts), NEW t \in Seq(Texts), Len(s) = 2, Len(t) = 2,
             s[1] = t[1], s[2] = t[2]
      PROVE  s = t
  <2>1. s \in [1 .. 2 -> Texts] /\ t \in [1 .. 2 -> Texts]
    BY <1>2
  <2>2. \A k \in 1 .. 2 : s[k] = t[k]
    <3>1. \A k \in 1 .. 2 : k = 1 \/ k = 2
      OBVIOUS
    <3> QED
      BY <1>2, <3>1
  <2> QED
    BY <2>1, <2>2
<1>3. /\ <<"ACK">> \in Seq(Texts) /\ Len(<<"ACK">>) = 1 /\ <<"ACK">>[1] = "ACK"
      /\ <<"ACK", "PAGE_OK">> \in Seq(Texts) /\ Len(<<"ACK", "PAGE_OK">>) = 2
      /\ <<"ACK", "PAGE_OK">>[1] = "ACK" /\ <<"ACK", "PAGE_OK">>[2] = "PAGE_OK"
      /\ "PAGE_OK" \in Texts
  BY DEF Texts
<1> DEFINE one == <<"ACK">>  two == <<"ACK", "PAGE_OK">>
<1>4. one \in Seq(Texts) /\ Len(one) = 1 /\ one[1] = "ACK" /\ "PAGE_OK" \in Texts
  BY <1>3
<1>5. two \in Seq(Texts) /\ Len(two) = 2 /\ two[1] = "ACK" /\ two[2] = "PAGE_OK"
  BY <1>3
<1> HIDE DEF one, two
<1>6. /\ Append(one, "PAGE_OK") \in Seq(Texts) /\ Len(Append(one, "PAGE_OK")) = 2
      /\ Append(one, "PAGE_OK")[1] = "ACK" /\ Append(one, "PAGE_OK")[2] = "PAGE_OK"
  <2>1. /\ Append(one, "PAGE_OK") \in Seq(Texts)
        /\ Len(Append(one, "PAGE_OK")) = Len(one) + 1
        /\ Append(one, "PAGE_OK")[Len(one) + 1] = "PAGE_OK"
        /\ \A k \in 1 .. Len(one) : Append(one, "PAGE_OK")[k] = one[k]
    BY <1>1, <1>4
  <2> QED
    BY <1>4, <2>1
<1>7. Append(one, "PAGE_OK") = two
  BY <1>2, <1>5, <1>6
<1> QED
  BY <1>7 DEF one, two

LEMMA AckTails ==
  /\ Head(<<"ACK">>) = "ACK" /\ Tail(<<"ACK">>) = <<>>
  /\ Head(<<"ACK", "PAGE_OK">>) = "ACK" /\ Tail(<<"ACK", "PAGE_OK">>) = <<"PAGE_OK">>
  /\ Head(<<"PAGE_OK">>) = "PAGE_OK" /\ Tail(<<"PAGE_OK">>) = <<>>
  /\ <<"ACK">> # <<"ACK", "PAGE_OK">>
OBVIOUS

LEMMA ContinuesKeeps ==
  ASSUME IInv, Continues, Compacted(session_nodes', session_bitmaps'), ProcessLeaves,
         node_replied' \in [Index -> BOOLEAN],
         abandoned' = IF pc = "resend" /\ recovery_round = MaxRounds /\ pc' = "idle"
                      THEN abandoned \cup {page_start_offset} ELSE abandoned
  PROVE  IInv'
<1> PICK img : img = host.file
  OBVIOUS
<1>1. /\ pc # "idle" /\ pc' # "idle" /\ abandoned' = abandoned
      /\ UNCHANGED <<current_file_size, page_start_offset, page_bytes_received,
                     distribution_in_progress, uart, total_chunks, end_pkt>>
      /\ UNCHANGED <<ota_target_slot, page_buffer, host, commands, starts, nodes, hop, reports>>
  BY DEF Continues, Process, ProcessLeaves, senderVars
<1>2. /\ ~NotSent /\ ~AllSent /\ Sent /\ ExpectedPageSize' = ExpectedPageSize /\ Sent'
  BY <1>1, WorkingFacts DEF Sent, ExpectedPageSize
<1>3. CoordinatorTypeOK' /\ SessionOfLine' /\ ToSet(session_nodes') \subseteq ToSet(session_nodes)
  <2>1. pc' \in {"idle", "chunk", "pageEnd", "wait", "resend"} /\ dist_chunk_idx' \in 0 .. total_chunks
        /\ recovery_round' \in 0 .. MaxRounds
    BY DEF Continues, Process
  <2> QED
    BY <1>1, <2>1, CompactedSession DEF IInv, TypeOK, CoordinatorTypeOK
<1>4. InStep' /\ BufferOfFile' /\ ProcessOfFile'
  <2>1. \A page, received : ~At(page, received)
    BY <1>1 DEF At
  <2>2. \A page : WorksOn(page) <=> WorksOn(page)'
    BY <1>1, <1>2 DEF WorksOn
  <2>3. InStep'
    <3>1. CASE SendsData
      BY <1>1, <1>2, <2>1, <2>2, <3>1 DEF SendsData, InStep, IInv
    <3>2. CASE WaitsForPage
      BY <1>1, <1>2, <2>1, <2>2, <3>2 DEF WaitsForPage, InStep, IInv
    <3>3. CASE Stopped
      BY <1>1, <1>2, <2>1, <2>2, <3>3 DEF Stopped, InStep, IInv
    <3> QED
      BY <1>2, <2>1, <3>1, <3>2, <3>3 DEF IInv, InStep, SendsVerify
  <2> QED
    BY <1>1, <1>2, <2>3 DEF IInv, BufferOfFile, ProcessOfFile
<1>5. QueuesOf(PacketsOf(img)) /\ PacketsOf(host.file)' = PacketsOf(img)
  BY <1>1 DEF IInv, TypeOK, QueuesTypeOK, QueuesOf
<1> DEFINE Stay == \A i \in DOMAIN Line, p \in 0 .. page_start_offset - 1 :
                       PageStays(i, p) => PageStays(i, p)'
<1>6. ASSUME line' = line PROVE QueuesTypeOK' /\ StartFirst' /\ VerifyLast' /\ Stay
  <2>1. QueuesTypeOK'
    BY <1>1, <1>6 DEF IInv, TypeOK, QueuesTypeOK, PacketsOf
  <2>2. StartFirst' /\ VerifyLast'
    BY <1>1, <1>2, <1>6, OrderRests
  <2>3. Stay
    BY <1>1, <1>2, <1>6, RestKeepsPages
  <2> QED
    BY <2>1, <2>2, <2>3
<1>7. ASSUME \E pkt \in PacketsOf(img) : Queued(pkt) /\ InOrderToSend(pkt)
      PROVE  QueuesTypeOK' /\ StartFirst' /\ VerifyLast' /\ Stay
  <2>1. PICK pkt \in PacketsOf(img) : Queued(pkt) /\ InOrderToSend(pkt)
    BY <1>7
  <2>2. QueuesOf(PacketsOf(img))'
    BY <1>5, <2>1, QueuedElements
  <2>3. QueuesTypeOK'
    BY <1>1, <1>5, <2>2 DEF QueuesTypeOK, QueuesOf
  <2>4. StartFirst' /\ VerifyLast'
    BY <1>5, <2>1, QueuedKeepsOrder
  <2>5. Stay
    BY <1>5, <2>1, QueuedKeepsPages
  <2> QED
    BY <2>3, <2>4, <2>5
<1>8. QueuesTypeOK' /\ StartFirst' /\ VerifyLast' /\ Stay
  BY <1>6, <1>7, ContinuesQueues
<1>9. TypeOK' /\ FilesOfNodes'
  BY <1>1, <1>3, <1>8 DEF IInv, TypeOK, FilesOfNodes
<1>10. ReportsKept' /\ BitmapsKept'
  <2>1. BitmapsKept'
    <3> SUFFICES ASSUME NEW w \in DOMAIN session_nodes',
                        PageFull(host.file, page_start_offset, session_bitmaps'[w])
                 PROVE  Keeps(nodes[session_nodes'[w]], host.file, page_start_offset)
      BY <1>1 DEF BitmapsKept
    <3> QED
      BY <1>1, CompactedBitmaps
  <2> QED
    BY <1>1, <2>1, FewerReports
<1>11. PagesKept'
  <2> SUFFICES ASSUME NEW p \in 0 .. page_start_offset - 1, NEW i \in DOMAIN Line,
                      p \notin abandoned, Line[i] \in ToSet(session_nodes')
               PROVE  PageStays(i, p)'
    BY <1>1 DEF PagesKept
  <2>1. PageStays(i, p)
    BY <1>3 DEF IInv, PagesKept
  <2> QED
    BY <1>8, <2>1
<1> QED
  BY <1>3, <1>4, <1>8, <1>9, <1>10, <1>11 DEF IInv

LEMMA EndsKeeps ==
  ASSUME IInv, Ends, PageDone \/ LastRound,
         Compacted(session_nodes', session_bitmaps'), ProcessLeaves,
         node_replied' \in [Index -> BOOLEAN],
         abandoned' = IF pc = "resend" /\ recovery_round = MaxRounds /\ pc' = "idle"
                      THEN abandoned \cup {page_start_offset} ELSE abandoned
  PROVE  IInv'
<1>1. /\ pc # "idle" /\ pc' = "idle"
      /\ page_start_offset' = page_start_offset + 1
      /\ page_bytes_received' = 0 /\ ~distribution_in_progress'
      /\ uart' = Append(uart, "PAGE_OK") /\ recovery_round' = 0
      /\ UNCHANGED <<current_file_size, total_chunks, dist_chunk_idx, end_pkt, line>>
      /\ UNCHANGED <<ota_target_slot, page_buffer, host, commands, starts, nodes, hop, reports>>
  BY DEF Ends, Process, ProcessLeaves, senderVars
<1> PICK page : page = page_start_offset
  OBVIOUS
<1>2. /\ ~NotSent /\ ~AllSent /\ Sent /\ Sent' /\ starts > 0
      /\ WorksOn(page) /\ page \in Page /\ page < host.file.size.pages
      /\ total_chunks = PageLen(host.file.size, page)
      /\ \A c \in 0 .. total_chunks - 1 : page_buffer[c] = host.file.data[page][c]
  BY <1>1, WorkingFacts DEF Sent
<1>3. page \in Nat /\ current_file_size.pages \in Nat /\ current_file_size = host.file.size
      /\ host.file.size \in Size
  BY <1>2, FileFacts DEF IInv, TypeOK, CoordinatorTypeOK, Sent, Size
<1>4. CoordinatorTypeOK' /\ SessionOfLine' /\ ToSet(session_nodes') \subseteq ToSet(session_nodes)
  <2>1. page_start_offset' \in 0 .. current_file_size.pages
    BY <1>1, <1>2, <1>3
  <2>2. 0 \in 0 .. MaxRounds /\ 0 \in 0 .. PageChunks
    BY CoordinatorAssumption, WireAssumption
  <2> QED
    BY <1>1, <2>1, <2>2, CompactedSession DEF IInv, TypeOK, CoordinatorTypeOK
<1>5. InStep'
  <2>1. At(page + 1, 0)' /\ \A p, received : ~At(p, received)
    BY <1>1 DEF At
  <2>2. \A p : WorksOn(p) <=> p = page
    BY <1>2 DEF WorksOn
  <2>3. CASE SendsData
    <3>1. /\ host.page = page /\ uart = <<"ACK">> /\ commands = <<>>
          /\ host.at = "data" /\ host.chunk < PageLen(host.file.size, host.page)
          /\ host.chunk + 1 = PageLen(host.file.size, host.page)
      BY <2>1, <2>2, <2>3 DEF SendsData
    <3>2. uart' = <<"ACK", "PAGE_OK">>
      BY <1>1, <3>1, AckThenPageOk
    <3>3. SendsData'
      BY <1>1, <2>1, <3>1, <3>2 DEF SendsData
    <3> QED
      BY <1>1, <1>2, <3>3 DEF InStep
  <2>4. CASE WaitsForPage
    <3>1. host.page = page /\ uart = <<>> /\ commands = <<>> /\ host.at = "page"
      BY <2>1, <2>2, <2>4 DEF WaitsForPage
    <3>2. uart' = <<"PAGE_OK">>
      BY <1>1, <3>1
    <3>3. WaitsForPage'
      BY <1>1, <2>1, <3>1, <3>2 DEF WaitsForPage
    <3> QED
      BY <1>1, <1>2, <3>3 DEF InStep
  <2>5. CASE Stopped
    <3>1. At(page_start_offset, page_bytes_received)'
      BY <1>1 DEF At
    <3>2. Stopped'
      BY <1>1, <2>1, <2>5, <3>1 DEF Stopped
    <3> QED
      BY <1>1, <1>2, <3>2 DEF InStep
  <2> QED
    BY <1>2, <2>1, <2>3, <2>4, <2>5 DEF IInv, InStep, SendsVerify
<1>6. BufferOfFile' /\ ProcessOfFile'
  <2>1. ExpectedPageSize' \in 0 .. PageChunks
    <3>1. PageLen(current_file_size, page + 1) \in 0 .. PageChunks
      BY <1>3, PageLenType
    <3> QED
      BY <1>1, <3>1 DEF ExpectedPageSize
  <2> QED
    BY <1>1, <2>1 DEF BufferOfFile, ProcessOfFile
<1>7. TypeOK' /\ FilesOfNodes'
  BY <1>1, <1>4 DEF IInv, TypeOK, FilesOfNodes, QueuesTypeOK
<1>8. StartFirst' /\ VerifyLast'
  BY <1>1, <1>2, OrderRests
<1>9. ReportsKept' /\ BitmapsKept'
  <2>1. ASSUME NEW m, NEW report, report.page \in Page \cup {NoPage},
               FullMeansKept(m, host.file, report)
        PROVE  FullMeansKept(m, host.file, report)'
    <3>1. report.page >= page + 1 => report.page >= page
      BY <1>3, <2>1 DEF Page, NoPage
    <3> QED
      BY <1>1, <2>1, <3>1 DEF FullMeansKept
  <2>2. \A r \in reports : r.report.page \in Page \cup {NoPage}
    BY DEF IInv, TypeOK, Report
  <2>3. \A node \in Nodes : nodes[node].report_to_send.page \in Page \cup {NoPage}
    BY NodeFields DEF IInv, TypeOK
  <2> QED
    BY <1>1, <2>1, <2>2, <2>3 DEF IInv, ReportsKept, BitmapsKept
<1>10. PagesKept'
  <2> SUFFICES ASSUME NEW p \in 0 .. page, NEW i \in DOMAIN Line,
                      p \notin abandoned', Line[i] \in ToSet(session_nodes')
               PROVE  PageStays(i, p)'
    BY <1>1, <1>3 DEF PagesKept
  <2>1. abandoned \subseteq abandoned' /\ (LastRound => page \in abandoned')
    BY <1>1 DEF LastRound
  <2>2. CASE p # page
    <3>1. p \in 0 .. page - 1
      BY <1>3, <2>2
    <3>2. PageStays(i, p)
      BY <1>4, <2>1, <3>1 DEF IInv, PagesKept
    <3> QED
      BY <1>1, <1>2, <3>2, RestKeepsPages
  <2>3. CASE p = page
    <3>1. PageDone
      BY <2>1, <2>3
    <3>2. PICK w \in DOMAIN session_nodes' : session_nodes'[w] = Line[i]
      BY DEF ToSet
    <3>3. PageFull(host.file, page, session_bitmaps'[w])
      BY <1>1, <1>2, <3>1, <3>2 DEF PageDone, PageIsComplete, PageFull
    <3>4. Keeps(nodes[Line[i]], host.file, page)
      BY <1>1, <3>2, <3>3, CompactedBitmaps
    <3> QED
      BY <1>1, <2>3, <3>4 DEF PageStays
  <2> QED
    BY <2>2, <2>3
<1> QED
  BY <1>4, <1>5, <1>6, <1>7, <1>8, <1>9, <1>10 DEF IInv
LEMMA RestsKeeps ==
  ASSUME IInv, Rests, Compacted(session_nodes', session_bitmaps'), ProcessLeaves,
         node_replied' \in [Index -> BOOLEAN], abandoned' = abandoned
  PROVE  IInv'
<1>1. /\ UNCHANGED <<current_file_size, page_start_offset, page_bytes_received,
                     distribution_in_progress>>
      /\ UNCHANGED <<pc, dist_chunk_idx, total_chunks, end_pkt, recovery_round, uart, line>>
      /\ UNCHANGED <<ota_target_slot, page_buffer, host, commands, starts, nodes, hop, reports>>
  BY DEF Rests, transferVars, processVars, ProcessLeaves, senderVars
<1>2. ExpectedPageSize' = ExpectedPageSize /\ (AllSent' <=> AllSent)
  BY <1>1 DEF ExpectedPageSize, AllSent, Sent
<1>3. CoordinatorTypeOK' /\ SessionOfLine' /\ ToSet(session_nodes') \subseteq ToSet(session_nodes)
  BY <1>1, CompactedSession DEF IInv, TypeOK, CoordinatorTypeOK
<1>4. InStep' /\ BufferOfFile' /\ ProcessOfFile'
  <2>1. /\ \A page, received : At(page, received)' <=> At(page, received)
        /\ \A page : WorksOn(page)' <=> WorksOn(page)
    BY <1>1, <1>2 DEF At, WorksOn
  <2>2. (NotSent' <=> NotSent) /\ (Sent' <=> Sent)
    BY <1>1, <2>1 DEF NotSent, Untouched, Sent, At
  <2>3. /\ SendsData => SendsData'
        /\ WaitsForPage => WaitsForPage'
        /\ SendsVerify => SendsVerify'
        /\ Stopped => Stopped'
    BY <1>1, <1>2 DEF SendsData, WaitsForPage, SendsVerify, Stopped, At, WorksOn
  <2>4. At(0, 0) => At(0, 0)'
    BY <1>1 DEF At
  <2>5. InStep'
    BY <1>1, <2>2, <2>3, <2>4, Zenon DEF InStep, IInv
  <2> QED
    BY <1>1, <1>2, <2>5 DEF IInv, BufferOfFile, ProcessOfFile
<1>5. TypeOK' /\ FilesOfNodes'
  BY <1>1, <1>3 DEF IInv, TypeOK, FilesOfNodes, QueuesTypeOK
<1>6. StartFirst' /\ VerifyLast'
  BY <1>1, <1>2, OrderRests
<1>7. ReportsKept' /\ BitmapsKept'
  <2>1. BitmapsKept'
    <3> SUFFICES ASSUME pc # "idle", NEW w \in DOMAIN session_nodes',
                        PageFull(host.file, page_start_offset, session_bitmaps'[w])
                 PROVE  Keeps(nodes[session_nodes'[w]], host.file, page_start_offset)
      BY <1>1 DEF BitmapsKept
    <3> QED
      BY <1>1, CompactedBitmaps
  <2> QED
    BY <1>1, <2>1, FewerReports
<1>8. PagesKept'
  <2>1. \A i \in DOMAIN Line : SameToKeep(nodes[Line[i]], nodes'[Line[i]])
    BY <1>1 DEF SameToKeep
  <2> QED
    BY <1>1, <1>2, <1>3, <2>1, PagesRest
<1> QED
  BY <1>3, <1>4, <1>5, <1>6, <1>7, <1>8 DEF IInv

LEMMA DistributesKeeps == ASSUME IInv, Distributes PROVE IInv'
<1>1. CoordinatorTypeOK /\ AtWork
  <2>1. Process => pc # "idle"
    BY DEF Process
  <2> QED
    BY <2>1, WorkingFacts DEF IInv, TypeOK, AtWork, PageEndPkt
<1>2. /\ ProcessEffect /\ Compacted(session_nodes', session_bitmaps') /\ ProcessLeaves
      /\ node_replied' \in [Index -> BOOLEAN]
      /\ abandoned' = IF pc = "resend" /\ recovery_round = MaxRounds /\ pc' = "idle"
                      THEN abandoned \cup {page_start_offset} ELSE abandoned
  BY <1>1, DistributesEffect
<1>3. CASE Continues
  BY <1>2, <1>3, ContinuesKeeps
<1>4. CASE Ends /\ (PageDone \/ LastRound)
  BY <1>2, <1>4, EndsKeeps
<1>5. CASE Rests
  <2>1. abandoned' = abandoned
    BY <1>2, <1>5 DEF Rests, processVars
  <2> QED
    BY <1>2, <1>5, <2>1, RestsKeeps
<1> QED
  BY <1>2, <1>3, <1>4, <1>5 DEF ProcessEffect
-----------------------------------------------------------------------------
(* The state before START. *)

LEMMA BootType == ASSUME NEW flash \in [Page -> [Chunk -> Cell]] PROVE Boot(flash) \in Node
<1>1. NoFile \in Size
  BY WireAssumption DEF NoFile, Size
<1> QED
  BY <1>1 DEF Boot, Node, NoReport, NoPage

LEMMA NotSentKeeps ==
  NotSent /\ TypeOK /\ SessionOfLine => IInv
<1> SUFFICES ASSUME NotSent, TypeOK, SessionOfLine PROVE IInv
  OBVIOUS
<1>1. /\ current_file_size = NoFile /\ pc = "idle" /\ page_start_offset = 0
      /\ page_bytes_received = 0 /\ reports = {} /\ host.file \in Image
      /\ \A node \in Nodes : nodes[node] = Boot(OldFlash)
  BY FileFacts DEF NotSent, Untouched, At
<1>2. \A i \in DOMAIN Line : Inbox(i) = <<>> /\ DOMAIN Inbox(i) = {}
  <2>1. \A i \in DOMAIN Line : i = 1 \/ i - 1 \in DOMAIN Line
    BY LineType
  <2> QED
    BY <2>1 DEF NotSent, Untouched, Inbox
<1>3. FilesOfNodes /\ InStep
  BY <1>1 DEF FilesOfNodes, Boot, InStep
<1>4. BufferOfFile /\ ProcessOfFile /\ BitmapsKept
  <2>1. ExpectedPageSize = 0
    BY <1>1, WireAssumption DEF ExpectedPageSize, PageLen, NoFile
  <2> QED
    BY <1>1, <2>1 DEF BufferOfFile, ProcessOfFile, BitmapsKept
<1>5. StartFirst /\ VerifyLast
  BY <1>2 DEF StartFirst, VerifyLast
<1>6. ReportsKept
  <2>1. \A node \in Nodes : nodes[node].report_to_send = NoReport
    BY <1>1 DEF Boot
  <2>2. ~(NoReport.page >= page_start_offset)
    BY <1>1 DEF NoReport, NoPage
  <2> QED
    BY <1>1, <2>1, <2>2 DEF ReportsKept, FullMeansKept
<1>7. PagesKept
  BY <1>1 DEF PagesKept
<1> QED
  BY <1>3, <1>4, <1>5, <1>6, <1>7 DEF IInv

-----------------------------------------------------------------------------
(* A step of the script or of the serial link. *)

HostType ==
  [at : {"off", "start", "data", "page", "verify", "done", "failed"}, file : Images,
   target : SentTargets, page : Page, chunk : Chunk, attempt : Nat]

HostLeaves == UNCHANGED <<coordinatorOnlyVars, systemVars, abandoned>>

LEMMA HostFrame ==
  ASSUME HostLeaves
  PROVE  /\ UNCHANGED <<session_nodes, node_replied, session_bitmaps>>
         /\ UNCHANGED <<current_file_size, page_start_offset, page_bytes_received,
                        distribution_in_progress>>
         /\ UNCHANGED <<pc, dist_chunk_idx, total_chunks, end_pkt, recovery_round, line>>
         /\ UNCHANGED <<ota_target_slot, page_buffer, nodes, hop, reports, abandoned>>
         /\ ExpectedPageSize' = ExpectedPageSize
         /\ \A page, received : At(page, received) <=> At(page, received)'
         /\ \A page : WorksOn(page) <=> WorksOn(page)'
<1>1. /\ UNCHANGED <<session_nodes, node_replied, session_bitmaps>>
      /\ UNCHANGED <<current_file_size, page_start_offset, page_bytes_received,
                     distribution_in_progress>>
      /\ UNCHANGED <<pc, dist_chunk_idx, total_chunks, end_pkt, recovery_round, line>>
      /\ UNCHANGED <<ota_target_slot, page_buffer, nodes, hop, reports, abandoned>>
  BY DEF HostLeaves, coordinatorOnlyVars, sessionVars, transferVars, processVars, systemVars,
         networkVars
<1>2. ExpectedPageSize' = ExpectedPageSize
  BY <1>1 DEF ExpectedPageSize
<1> QED
  BY <1>1, <1>2 DEF At, WorksOn

LEMMA HostKeeps ==
  ASSUME IInv, HostLeaves, InStep', host' \in HostType, starts' \in Nat, host'.file = host.file,
         host.at \in {"verify", "done", "failed"} => host'.at \in {"verify", "done", "failed"}
  PROVE  IInv'
<1>1. /\ UNCHANGED <<session_nodes, node_replied, session_bitmaps>>
      /\ UNCHANGED <<current_file_size, page_start_offset, page_bytes_received,
                     distribution_in_progress>>
      /\ UNCHANGED <<pc, dist_chunk_idx, total_chunks, end_pkt, recovery_round, line>>
      /\ UNCHANGED <<ota_target_slot, page_buffer, nodes, hop, reports, abandoned>>
      /\ ExpectedPageSize' = ExpectedPageSize
  BY HostFrame
<1>2. AllSent => AllSent'
  BY <1>1 DEF AllSent, Sent
<1>3. TypeOK' /\ FilesOfNodes'
  BY <1>1 DEF IInv, TypeOK, CoordinatorTypeOK, QueuesTypeOK, PacketsOf, HostType, FilesOfNodes
<1>4. BufferOfFile' /\ ProcessOfFile' /\ SessionOfLine'
  BY <1>1 DEF IInv, BufferOfFile, ProcessOfFile, SessionOfLine
<1>5. StartFirst' /\ VerifyLast'
  BY <1>1, <1>2, OrderRests
<1>6. ReportsKept' /\ BitmapsKept'
  BY <1>1 DEF IInv, ReportsKept, BitmapsKept, FullMeansKept
<1>7. PagesKept'
  <2> SUFFICES ASSUME NEW p \in 0 .. page_start_offset - 1, NEW i \in DOMAIN Line,
                      p \notin abandoned, Line[i] \in ToSet(session_nodes)
               PROVE  PageStays(i, p)'
    BY <1>1 DEF PagesKept
  <2>1. PageStays(i, p)
    BY DEF IInv, PagesKept
  <2>2. /\ Keeps(nodes[Line[i]], host.file, p)' <=> Keeps(nodes[Line[i]], host.file, p)
        /\ HoldsPage(nodes[Line[i]], host.file, p)' <=> HoldsPage(nodes[Line[i]], host.file, p)
    BY <1>1 DEF Keeps, HoldsPage
  <2>3. Over(i) => Over(i)'
    BY <1>1, <1>2, QueuesRest DEF Over, OnlyVerify
  <2> QED
    BY <2>1, <2>2, <2>3, Zenon DEF PageStays
<1> QED
  BY <1>3, <1>4, <1>5, <1>6, <1>7 DEF IInv
LEMMA HostFacts ==
  ASSUME IInv
  PROVE  /\ host \in HostType /\ host.chunk \in Nat /\ host.page \in Nat /\ host.attempt \in Nat
         /\ host.file \in Image /\ starts \in Nat
         /\ current_file_size.pages \in Nat
         /\ page_start_offset \in Nat /\ page_start_offset <= current_file_size.pages
BY FileFacts DEF IInv, TypeOK, CoordinatorTypeOK, HostType, Chunk, Page, Size

LEMMA OneCommand == \A c : Head(<<c>>) = c /\ Tail(<<c>>) = <<>> /\ Append(<<>>, c) = <<c>> /\ <<c>> # <<>>
OBVIOUS

\* The script goes on with a chunk, whose command is on the link now.
LEMMA GoesOnWithData ==
  ASSUME IInv, HostLeaves, NEW page, NEW chunk \in Nat, page < host.file.size.pages, page \in Nat,
         chunk < PageLen(host.file.size, page), At(page, chunk), Sent, starts > 0,
         commands = <<>>, uart' = <<>>, starts' = starts, NEW attempt \in Nat,
         host' = [host EXCEPT !.at = "data", !.page = page, !.chunk = chunk, !.attempt = attempt],
         commands' = Append(commands, DataCmd(host.file, page, chunk)),
         host.at \notin {"verify", "done", "failed"}
  PROVE  IInv'
<1>1. page \in Page /\ chunk \in Chunk
  <2>1. page \in Page /\ PageLen(host.file.size, page) \in 1 .. PageChunks
    BY HostFacts, FilePage
  <2> QED
    BY <2>1, WireAssumption DEF Chunk
<1>2. /\ host' \in HostType /\ host'.file = host.file /\ host'.at = "data"
      /\ host'.page = page /\ host'.chunk = chunk
  BY <1>1, HostFacts DEF HostType
<1>3. commands' = <<DataCmd(host.file, page, chunk)>>
  BY OneCommand
<1>4. At(page, chunk)' /\ Sent'
  <2>1. UNCHANGED <<current_file_size, page_start_offset, page_bytes_received,
                    distribution_in_progress, pc>>
    BY HostFrame
  <2> QED
    BY <1>2, <2>1 DEF Sent, At
<1>5. SendsData'
  <2>2. /\ host'.at = "data" /\ host'.chunk < PageLen(host'.file.size, host'.page)
        /\ commands' = <<DataCmd(host'.file, host'.page, host'.chunk)>> /\ uart' = <<>>
    BY <1>2, <1>3
  <2> QED
    BY <1>2, <1>4, <2>2 DEF SendsData, At
<1>6. InStep'
  BY <1>4, <1>5 DEF InStep
<1> QED
  BY <1>2, <1>6, HostFacts, HostKeeps
\* The script waits for nothing more, or only for its page.
LEMMA GoesOnAt ==
  ASSUME IInv, HostLeaves, starts' = starts, NEW at, NEW attempt \in Nat,
         at \in {"page", "verify", "done", "failed"},
         host' = [host EXCEPT !.at = at, !.attempt = attempt], InStep',
         host.at \in {"verify", "done", "failed"} => at # "page"
  PROVE  IInv'
<1>1. /\ host' \in HostType /\ host'.file = host.file /\ host'.at = at
      /\ host'.page = host.page /\ host'.chunk = host.chunk
  BY HostFacts DEF HostType
<1> QED
  BY <1>1, HostFacts, HostKeeps

LEMMA ReadLineKeeps == ASSUME IInv, HostLeaves, ReadLine PROVE IInv'
<1>1. uart # <<>> /\ uart' = Tail(uart) /\ starts' = starts
  BY DEF ReadLine
<1>2. Sent /\ starts > 0
  BY <1>1 DEF IInv, InStep, NotSent, Untouched
<1>3. CASE host.at = "start"
  <2>1. commands = <<>> /\ uart = <<"ACK">> /\ At(0, 0)
    BY <1>1, <1>3 DEF IInv, InStep, NotSent, Untouched, SendsData, WaitsForPage, SendsVerify, Stopped
  <2>2. /\ host' = DataAt(0, 0) /\ commands' = Append(commands, DataCmd(host.file, 0, 0))
    <3>1. Head(uart) = "ACK"
      BY <2>1, AckTails
    <3>2. Understands(Head(uart))
      BY <1>3, <3>1 DEF Understands
    <3>3. ReadInStart(Head(uart))
      BY <1>3, <3>2 DEF ReadLine, ReadInData, ReadInPage, ReadInVerify
    <3>4. Send(DataAt(0, 0))
      BY <3>1, <3>3 DEF ReadInStart
    <3>5. host \in HostType
      BY HostFacts
    <3>6. DataAt(0, 0).at = "data" /\ DataAt(0, 0).file = host.file /\ DataAt(0, 0).page = 0
          /\ DataAt(0, 0).chunk = 0
      BY <3>5 DEF DataAt, HostType
    <3> QED
      BY <3>4, <3>6 DEF Send
  <2>3. host' = [host EXCEPT !.at = "data", !.page = 0, !.chunk = 0, !.attempt = 1]
    BY <2>2 DEF DataAt
  <2>4. uart' = <<>>
    BY <1>1, <2>1, AckTails
  <2>5. 0 < host.file.size.pages /\ 0 < PageLen(host.file.size, 0)
    <3>1. 0 < host.file.size.pages /\ host.file \in Image
      BY HostFacts DEF Image, FileSize, Size
    <3> QED
      BY <3>1, FilePage
  <2> QED
    BY <1>1, <1>2, <1>3, <2>1, <2>2, <2>3, <2>4, <2>5, GoesOnWithData
<1>4. CASE host.at = "data"
  <2>1. SendsData
    BY <1>1, <1>4 DEF IInv, InStep, NotSent, Untouched, WaitsForPage, SendsVerify, Stopped
  <2>2. Head(uart) = "ACK" /\ commands = <<>>
    BY <1>1, <2>1, AckTails DEF SendsData
  <2>3. IF host.chunk + 1 < PageLen(host.file.size, host.page)
        THEN Send(DataAt(host.page, host.chunk + 1)) ELSE Become("page")
    <3>1. Understands(Head(uart))
      BY <1>4, <2>2 DEF Understands
    <3>2. ReadInData(Head(uart))
      BY <1>4, <3>1 DEF ReadLine, ReadInStart, ReadInPage, ReadInVerify
    <3> QED
      BY <3>2 DEF ReadInData
  <2>4. host.chunk < PageLen(host.file.size, host.page)
    BY <2>1 DEF SendsData
  <2>5. host.page < host.file.size.pages
    BY <2>4, HostFacts, PageLenType DEF Image, FileSize
  <2>6. CASE host.chunk + 1 < PageLen(host.file.size, host.page)
    <3>0. host.chunk + 1 # PageLen(host.file.size, host.page)
      <4>1. PageLen(host.file.size, host.page) \in Nat
        BY <2>5, HostFacts, FilePage
      <4> QED
        BY <2>6, <4>1, HostFacts
    <3>1. uart = <<"ACK">> /\ At(host.page, host.chunk + 1)
      BY <1>1, <2>1, <3>0 DEF SendsData
    <3>2. uart' = <<>>
      BY <1>1, <3>1, AckTails
    <3> DEFINE next == DataAt(host.page, host.chunk + 1)
    <3>3. next.at = "data" /\ next.file = host.file /\ next.page = host.page
          /\ next.chunk = host.chunk + 1
      BY HostFacts DEF DataAt, HostType
    <3>4. /\ host' = next
          /\ commands' = Append(commands, DataCmd(host.file, host.page, host.chunk + 1))
      BY <2>3, <2>6, <3>3 DEF Send
    <3>5. host' = [host EXCEPT !.at = "data", !.page = host.page, !.chunk = host.chunk + 1,
                               !.attempt = 1]
      BY <3>4 DEF DataAt
    <3>6. host.chunk + 1 \in Nat /\ host.page \in Nat
      BY HostFacts
    <3> QED
      BY <1>1, <1>2, <1>4, <2>2, <2>5, <2>6, <3>1, <3>2, <3>4, <3>5, <3>6, GoesOnWithData
  <2>7. CASE ~(host.chunk + 1 < PageLen(host.file.size, host.page))
    <3>1. host' = [host EXCEPT !.at = "page", !.attempt = 0] /\ commands' = commands
      BY <2>3, <2>7 DEF Become
    <3>2. host'.at = "page" /\ host'.page = host.page /\ host'.file = host.file
      BY <3>1, HostFacts DEF HostType
    <3>3. host.chunk + 1 = PageLen(host.file.size, host.page)
      <4>1. PageLen(host.file.size, host.page) \in Nat
        BY <2>5, HostFacts, FilePage
      <4> QED
        BY <2>4, <2>7, <4>1, HostFacts
    <3>4. \/ uart = <<"ACK">> /\ WorksOn(host.page)
          \/ uart = <<"ACK", "PAGE_OK">> /\ At(host.page + 1, 0)
      BY <1>1, <2>1, <3>3 DEF SendsData
    <3>5. \/ uart' = <<>> /\ WorksOn(host.page)
          \/ uart' = <<"PAGE_OK">> /\ At(host.page + 1, 0)
      BY <1>1, <3>4, AckTails
    <3>6. /\ UNCHANGED <<current_file_size, page_start_offset, page_bytes_received,
                         distribution_in_progress, pc>>
          /\ ExpectedPageSize' = ExpectedPageSize
      BY HostFrame
    <3>7. WaitsForPage' /\ Sent'
      BY <1>2, <2>2, <3>1, <3>2, <3>5, <3>6 DEF WaitsForPage, WorksOn, At, Sent
    <3>8. InStep'
      BY <1>1, <1>2, <3>7 DEF InStep
    <3> QED
      BY <1>1, <1>4, <3>1, <3>8, GoesOnAt
  <2> QED
    BY <2>6, <2>7
<1>5. CASE host.at = "page"
  <2>1. commands = <<>> /\ uart = <<"PAGE_OK">> /\ At(host.page + 1, 0)
    BY <1>1, <1>5 DEF IInv, InStep, NotSent, Untouched, SendsData, WaitsForPage, SendsVerify, Stopped
  <2>2. uart' = <<>> /\ Head(uart) = "PAGE_OK"
    BY <1>1, <2>1, AckTails
  <2>3. IF host.page + 1 < host.file.size.pages
        THEN Send(DataAt(host.page + 1, 0)) ELSE Send([host EXCEPT !.at = "verify", !.attempt = 1])
    <3>1. Understands(Head(uart))
      BY <1>5, <2>2 DEF Understands
    <3>2. ReadInPage(Head(uart))
      BY <1>5, <3>1 DEF ReadLine, ReadInStart, ReadInData, ReadInVerify
    <3> QED
      BY <3>2 DEF ReadInPage
  <2>4. CASE host.page + 1 < host.file.size.pages
    <3> DEFINE next == DataAt(host.page + 1, 0)
    <3>1. next.at = "data" /\ next.file = host.file /\ next.page = host.page + 1 /\ next.chunk = 0
      BY HostFacts DEF DataAt, HostType
    <3>2. /\ host' = next /\ commands' = Append(commands, DataCmd(host.file, host.page + 1, 0))
      BY <2>3, <2>4, <3>1 DEF Send
    <3>3. host' = [host EXCEPT !.at = "data", !.page = host.page + 1, !.chunk = 0, !.attempt = 1]
      BY <3>2 DEF DataAt
    <3>4. host.page + 1 \in Nat
      BY HostFacts
    <3>5. 0 < PageLen(host.file.size, host.page + 1)
      BY <2>4, <3>4, HostFacts, FilePage
    <3> QED
      BY <1>1, <1>2, <1>5, <2>1, <2>2, <2>4, <3>2, <3>3, <3>4, <3>5, GoesOnWithData
  <2>5. CASE ~(host.page + 1 < host.file.size.pages)
    <3>1. host' = [host EXCEPT !.at = "verify", !.attempt = 1]
      BY <2>3, <2>5 DEF Send
    <3>2. host'.at = "verify" /\ host'.file = host.file
      BY <3>1, HostFacts DEF HostType
    <3>3. commands' = Append(commands, VerifyCmd(host.file))
      BY <2>3, <2>5, <3>1, <3>2 DEF Send
    <3>4. commands' = <<VerifyCmd(host.file)>>
      BY <2>1, <3>3, OneCommand
    <3>5. host.page + 1 = host.file.size.pages
      BY <1>2, <2>1, <2>5, HostFacts DEF At, Sent
    <3>6. UNCHANGED <<current_file_size, page_start_offset, page_bytes_received,
                      distribution_in_progress, pc>>
      BY HostFrame
    <3>7. SendsVerify' /\ Sent'
      BY <1>2, <2>1, <2>2, <3>2, <3>4, <3>5, <3>6 DEF SendsVerify, At, Sent
    <3>8. InStep'
      BY <1>1, <1>2, <3>7 DEF InStep
    <3> QED
      BY <1>1, <1>5, <3>1, <3>8, GoesOnAt
  <2> QED
    BY <2>4, <2>5
<1>6. CASE host.at = "verify"
  <2>1. commands = <<>> /\ uart = <<"ACK">> /\ At(host.file.size.pages, 0)
    BY <1>1, <1>6 DEF IInv, InStep, NotSent, Untouched, SendsData, WaitsForPage, SendsVerify, Stopped
  <2>2. Head(uart) = "ACK"
    BY <2>1, AckTails
  <2>3. Become("done")
    <3>1. Understands(Head(uart))
      BY <1>6, <2>2 DEF Understands
    <3> QED
      BY <1>6, <3>1 DEF ReadLine, ReadInStart, ReadInData, ReadInPage, ReadInVerify
  <2>4. host' = [host EXCEPT !.at = "done", !.attempt = 0] /\ commands' = commands
    BY <2>3 DEF Become
  <2>5. host'.at = "done" /\ host'.file = host.file
    BY <2>4, HostFacts DEF HostType
  <2>6. UNCHANGED <<current_file_size, page_start_offset, page_bytes_received,
                    distribution_in_progress, pc>>
    BY HostFrame
  <2>7. Stopped' /\ Sent'
    BY <1>2, <2>1, <2>4, <2>5, <2>6 DEF Stopped, At, Sent
  <2>8. InStep'
    BY <1>1, <1>2, <2>7 DEF InStep
  <2> QED
    BY <1>1, <2>4, <2>8, GoesOnAt
<1>7. CASE host.at \in {"done", "failed"}
  <2>1. Stopped
    BY <1>1, <1>7 DEF IInv, InStep, NotSent, Untouched, SendsData, WaitsForPage, SendsVerify
  <2>2. host' = host /\ commands' = commands
    BY <1>7 DEF ReadLine, ReadInStart, ReadInData, ReadInPage, ReadInVerify
  <2>3. /\ UNCHANGED <<current_file_size, page_start_offset, page_bytes_received,
                       distribution_in_progress, pc>>
        /\ ExpectedPageSize' = ExpectedPageSize
    BY HostFrame
  <2>4. Stopped' /\ Sent'
    BY <1>2, <2>1, <2>2, <2>3 DEF Stopped, At, WorksOn, Sent
  <2>5. InStep'
    BY <1>1, <1>2, <2>4 DEF InStep
  <2> QED
    BY <1>1, <2>2, <2>5, HostFacts, HostKeeps
<1>8. host.at # "off"
  BY <1>1 DEF IInv, InStep, NotSent, Untouched, SendsData, WaitsForPage, SendsVerify, Stopped
<1> QED
  BY <1>3, <1>4, <1>5, <1>6, <1>7, <1>8, HostFacts DEF HostType
LEMMA CommandTimeoutKeeps == ASSUME IInv, HostLeaves, CommandTimeout PROVE IInv'
<1>1. /\ commands = <<>> /\ uart = <<>> /\ uart' = uart /\ starts' = starts
      /\ host.at \in {"data", "verify"}
  BY DEF CommandTimeout, NothingOnLink
<1>2. Sent /\ starts > 0
  BY <1>1 DEF IInv, InStep, NotSent, Untouched
<1>3. UNCHANGED <<current_file_size, page_start_offset, page_bytes_received,
                  distribution_in_progress, pc>>
  BY HostFrame
<1>4. CASE host.attempt < MaxAttempts
  <2> DEFINE next == [host EXCEPT !.attempt = host.attempt + 1]
  <2>1. Send(next)
    BY <1>4 DEF CommandTimeout
  <2>2. /\ next.at = host.at /\ next.file = host.file /\ next.page = host.page
        /\ next.chunk = host.chunk
    BY HostFacts DEF HostType
  <2>3. host' = next /\ commands' = Append(commands, IF host.at = "data"
                                           THEN DataCmd(host.file, host.page, host.chunk)
                                           ELSE VerifyCmd(host.file))
    BY <2>1, <2>2 DEF Send
  <2>4. host.attempt + 1 \in Nat
    BY HostFacts
  <2>5. CASE host.at = "data"
    <3>1. /\ At(host.page, host.chunk) /\ host.chunk < PageLen(host.file.size, host.page)
      BY <1>1, <2>5 DEF IInv, InStep, NotSent, SendsData, WaitsForPage, SendsVerify, Stopped
    <3>2. commands' = Append(commands, DataCmd(host.file, host.page, host.chunk))
      BY <2>3, <2>5
    <3>3. host' = [host EXCEPT !.at = "data", !.page = host.page, !.chunk = host.chunk,
                               !.attempt = host.attempt + 1]
      BY <2>3, <2>5, HostFacts DEF HostType
    <3>4. host.page < host.file.size.pages
      BY <3>1, HostFacts, PageLenType DEF Image, FileSize
    <3> QED
      BY <1>1, <1>2, <2>4, <2>5, <3>1, <3>2, <3>3, <3>4, HostFacts, GoesOnWithData
  <2>6. CASE host.at = "verify"
    <3>1. At(host.file.size.pages, 0)
      BY <1>1, <2>6 DEF IInv, InStep, NotSent, SendsData, WaitsForPage, SendsVerify, Stopped
    <3>2. commands' = <<VerifyCmd(host.file)>>
      BY <1>1, <2>3, <2>6, OneCommand
    <3>3. host'.at = "verify" /\ host'.file = host.file
      BY <2>2, <2>3, <2>6
    <3>4. SendsVerify' /\ Sent'
      BY <1>1, <1>2, <1>3, <3>1, <3>2, <3>3 DEF SendsVerify, At, Sent
    <3>5. InStep'
      BY <1>1, <1>2, <3>4 DEF InStep
    <3>6. host' = [host EXCEPT !.at = "verify", !.attempt = host.attempt + 1]
      BY <2>3, <2>6, HostFacts DEF HostType
    <3> QED
      BY <1>1, <2>4, <2>6, <3>5, <3>6, GoesOnAt
  <2> QED
    BY <1>1, <2>5, <2>6
<1>5. CASE ~(host.attempt < MaxAttempts)
  <2>1. host' = [host EXCEPT !.at = "failed", !.attempt = 0] /\ commands' = commands
    BY <1>5 DEF CommandTimeout, Become
  <2>2. host'.at = "failed" /\ host'.file = host.file
    BY <2>1, HostFacts DEF HostType
  <2>3. At(page_start_offset, page_bytes_received)
    BY <1>1 DEF IInv, InStep, NotSent, SendsData, WaitsForPage, SendsVerify, Stopped, At
  <2>4. Stopped' /\ Sent'
    BY <1>1, <1>2, <1>3, <2>1, <2>2, <2>3 DEF Stopped, At, Sent
  <2>5. InStep'
    BY <1>1, <1>2, <2>4 DEF InStep
  <2> QED
    BY <1>1, <2>1, <2>5, GoesOnAt
<1> QED
  BY <1>4, <1>5

LEMMA PageTimeoutKeeps == ASSUME IInv, HostLeaves, PageTimeout PROVE IInv'
<1>1. /\ host.at = "page" /\ starts' = starts
      /\ host' = [host EXCEPT !.at = "failed", !.attempt = 0] /\ commands' = commands
  BY DEF PageTimeout, Become
<1>2. Sent /\ starts > 0 /\ WaitsForPage
  BY <1>1 DEF IInv, InStep, NotSent, SendsData, SendsVerify, Stopped
<1>3. UNCHANGED <<current_file_size, page_start_offset, page_bytes_received,
                  distribution_in_progress, pc>> /\ ExpectedPageSize' = ExpectedPageSize
  BY HostFrame
<1>4. host'.at = "failed" /\ host'.file = host.file
  BY <1>1, HostFacts DEF HostType
<1>5. At(page_start_offset, page_bytes_received) \/ WorksOn(page_start_offset)
  BY <1>2 DEF WaitsForPage, At, WorksOn
<1>6. Stopped' /\ Sent'
  BY <1>1, <1>2, <1>3, <1>4, <1>5 DEF Stopped, At, WorksOn, Sent, WaitsForPage
<1>7. InStep'
  BY <1>1, <1>2, <1>6 DEF InStep
<1> QED
  BY <1>1, <1>7, GoesOnAt

\* START was not taken from the link.
LEMMA StartTimeoutKeeps == ASSUME IInv, HostLeaves, StartTimeout PROVE IInv'
<1>1. /\ host.at = "start" /\ starts' = starts /\ commands = <<>> /\ uart = <<>> /\ uart' = uart
      /\ host' = [host EXCEPT !.at = "failed", !.attempt = 0] /\ commands' = commands
  BY DEF StartTimeout, Become, NothingOnLink
<1>2. NotSent
  BY <1>1 DEF IInv, InStep, SendsData, SendsVerify, WaitsForPage, Stopped
<1>3. host'.at = "failed"
  BY <1>1, HostFacts DEF HostType
<1>4. /\ UNCHANGED <<current_file_size, page_start_offset, page_bytes_received,
                     distribution_in_progress, pc>>
      /\ UNCHANGED <<line, hop, reports, nodes>>
  BY HostFrame
<1>5. NotSent'
  BY <1>1, <1>2, <1>3, <1>4 DEF NotSent, Untouched, At
<1>6. InStep'
  BY <1>5 DEF InStep
<1> QED
  BY <1>1, <1>6, GoesOnAt

LEMMA LinkLosesKeeps == ASSUME IInv, ReliableAnswers, HostLeaves, LinkLoses PROVE IInv'
<1>1. /\ commands # <<>> /\ commands' = Tail(commands) /\ UNCHANGED <<uart, host, starts>>
  BY DEF ReliableAnswers, LinkLoses
<1>2. /\ UNCHANGED <<current_file_size, page_start_offset, page_bytes_received,
                     distribution_in_progress, pc>>
      /\ UNCHANGED <<line, hop, reports, nodes>> /\ ExpectedPageSize' = ExpectedPageSize
  BY HostFrame
<1>3. Sent' <=> Sent
  BY <1>1, <1>2 DEF Sent
<1>4. ASSUME NotSent PROVE InStep'
  <2>1. host.at = "start" /\ commands' = <<>> /\ starts > 0
    BY <1>1, <1>4, OneCommand DEF NotSent
  <2>2. NotSent'
    BY <1>1, <1>2, <1>4, <2>1 DEF NotSent, Untouched, At
  <2> QED
    BY <2>2 DEF InStep
<1>5. ASSUME SendsData, Sent, starts > 0 PROVE InStep'
  <2>1. commands = <<DataCmd(host.file, host.page, host.chunk)>>
    BY <1>1, <1>5 DEF SendsData
  <2>2. commands' = <<>>
    BY <1>1, <2>1, OneCommand
  <2>3. SendsData'
    BY <1>1, <1>2, <1>5, <2>2 DEF SendsData, At, WorksOn
  <2> QED
    BY <1>1, <1>3, <1>5, <2>3 DEF InStep
<1>6. ASSUME SendsVerify, Sent, starts > 0 PROVE InStep'
  <2>1. commands = <<VerifyCmd(host.file)>>
    BY <1>1, <1>6 DEF SendsVerify
  <2>2. commands' = <<>>
    BY <1>1, <2>1, OneCommand
  <2>3. SendsVerify'
    BY <1>1, <1>2, <1>6, <2>1, <2>2 DEF SendsVerify, At
  <2> QED
    BY <1>1, <1>3, <1>6, <2>3 DEF InStep
<1>7. InStep'
  BY <1>1, <1>4, <1>5, <1>6 DEF IInv, InStep, WaitsForPage, Stopped
<1> QED
  BY <1>1, <1>7, HostFacts, HostKeeps
LEMMA RunScriptKeeps ==
  ASSUME IInv, OneRun, HostLeaves, NEW img \in Images, NEW sec_ver \in SecVers,
         NEW target \in SentTargets, RunScript(img, sec_ver, target)
  PROVE  IInv'
<1>1. /\ starts < MaxStarts /\ starts' = starts + 1 /\ uart' = <<>>
      /\ host' = [host EXCEPT !.at = "start", !.file = img, !.target = target,
                              !.page = 0, !.chunk = 0, !.attempt = 1]
      /\ commands' = Append(commands, StartCmd(img, sec_ver, target))
  BY DEF RunScript
<1>2. starts = 0 /\ starts' \in Nat /\ starts' > 0
  BY <1>1, HostFacts, SenderAssumption DEF OneRun
<1>3. Untouched /\ commands = <<>>
  BY <1>2 DEF IInv, InStep, NotSent
<1>4. host' \in HostType /\ host'.at = "start" /\ host'.file = img
  <2>1. 0 \in Page /\ 0 \in Chunk /\ 1 \in Nat
    BY WireAssumption DEF Page, Chunk
  <2> QED
    BY <1>1, <2>1, HostFacts DEF HostType
<1>5. commands' = <<StartCmd(img, sec_ver, target)>>
  BY <1>1, <1>3, OneCommand
<1>6. /\ UNCHANGED <<session_nodes, node_replied, session_bitmaps>>
      /\ UNCHANGED <<current_file_size, page_start_offset, page_bytes_received,
                     distribution_in_progress>>
      /\ UNCHANGED <<pc, dist_chunk_idx, total_chunks, end_pkt, recovery_round, line>>
      /\ UNCHANGED <<ota_target_slot, page_buffer, nodes, hop, reports, abandoned>>
  BY HostFrame
<1>7. Untouched'
  BY <1>1, <1>3, <1>6 DEF Untouched, At
<1>8. NotSent'
  BY <1>2, <1>4, <1>5, <1>7 DEF NotSent
<1>9. TypeOK'
  <2>1. line' \in Seq(PacketsOf(img)) /\ hop' \in [DOMAIN Line -> Seq(PacketsOf(img))]
    <3>1. line' = <<>> /\ \A i \in DOMAIN Line : hop'[i] = <<>>
      BY <1>7 DEF Untouched
    <3>2. hop' = [i \in DOMAIN Line |-> hop'[i]]
      BY <1>6 DEF IInv, TypeOK, QueuesTypeOK
    <3>3. \A P : <<>> \in Seq(P)
      OBVIOUS
    <3>4. hop' = [i \in DOMAIN Line |-> <<>>]
      BY <3>1, <3>2
    <3> QED
      BY <3>1, <3>3, <3>4
  <2>2. QueuesTypeOK'
    BY <1>4, <2>1 DEF QueuesTypeOK, PacketsOf
  <2> QED
    BY <1>2, <1>4, <1>6, <2>2 DEF IInv, TypeOK, CoordinatorTypeOK, HostType
<1>10. SessionOfLine'
  BY <1>6 DEF IInv, SessionOfLine
<1>11. (NotSent /\ TypeOK /\ SessionOfLine => IInv)'
  BY NotSentKeeps, PTL
<1> QED
  BY <1>8, <1>9, <1>10, <1>11

LEMMA HostStepKeeps == ASSUME IInv, Transfers, HostStep PROVE IInv'
<1>1. HostLeaves /\ SenderOnly
  BY DEF HostStep, SenderStep, HostLeaves
<1>2. OneRun /\ ReliableAnswers
  BY DEF Transfers
<1>3. CASE \E img \in Images, sec_ver \in SecVers, target \in SentTargets :
             RunScript(img, sec_ver, target)
  BY <1>1, <1>2, <1>3, RunScriptKeeps
<1> QED
  BY <1>1, <1>2, <1>3, ReadLineKeeps, CommandTimeoutKeeps, StartTimeoutKeeps, PageTimeoutKeeps,
     LinkLosesKeeps DEF SenderOnly
-----------------------------------------------------------------------------
(* The coordinator takes a command. *)

CommandLeaves ==
  /\ commands' = Tail(commands) /\ UNCHANGED <<host, starts>>
  /\ UNCHANGED <<nodes, hop, reports, abandoned>>

LEMMA ImageCrcType == ASSUME NEW img \in Image PROVE ImageCrc(img) \in Seq(PageContent)
<1>1. img.size.pages \in Nat /\ img.size \in Size
  BY DEF Image, FileSize, Size
<1>2. ASSUME NEW i \in 1 .. img.size.pages PROVE ImagePage(img, i - 1) \in PageContent
  <2>1. i - 1 \in Nat /\ i - 1 < img.size.pages
    BY <1>1
  <2>2. i - 1 \in Page /\ PageLen(img.size, i - 1) \in 0 .. PageChunks
    BY <1>1, <2>1, FilePage
  <2>3. img.data[i - 1] \in [Chunk -> Cell]
    BY <2>2 DEF Image
  <2> QED
    BY <2>2, <2>3, PrefixType DEF ImagePage
<1>3. ImageCrc(img) \in [1 .. img.size.pages -> PageContent]
  BY <1>2 DEF ImageCrc
<1> QED
  BY <1>1, <1>3

LEMMA VerifyKeeps ==
  ASSUME IInv, CommandLeaves, commands # <<>>, Head(commands).type = "V",
         LegacyUartVerify(Head(commands).crc)
  PROVE  IInv'
<1> PICK img : img = host.file
  OBVIOUS
<1>1. /\ UNCHANGED <<session_nodes, node_replied, session_bitmaps>>
      /\ UNCHANGED <<current_file_size, page_start_offset, page_bytes_received,
                     distribution_in_progress>>
      /\ UNCHANGED <<pc, dist_chunk_idx, total_chunks, end_pkt, recovery_round>>
      /\ UNCHANGED <<ota_target_slot, page_buffer, nodes, hop, reports, abandoned, host, starts>>
      /\ uart' = Append(uart, "ACK") /\ commands' = Tail(commands)
      /\ line' = Append(line, VerifyPkt(Head(commands).crc, NoTarget))
  BY DEF CommandLeaves, LegacyUartVerify, SendToAll, Answer, sessionVars, transferVars, processVars
<1>2. /\ SendsVerify /\ Sent /\ starts > 0 /\ commands = <<VerifyCmd(img)>> /\ uart = <<>>
  <2>1. \A v, t : Head(<<StartCmd(img, v, t)>>).type = "S"
    BY OneCommand DEF StartCmd
  <2>2. Head(<<DataCmd(img, host.page, host.chunk)>>).type = "D"
    BY OneCommand DEF DataCmd
  <2>3. SendsVerify /\ Sent /\ starts > 0
    BY <2>1, <2>2 DEF IInv, InStep, NotSent, SendsData, WaitsForPage, Stopped
  <2> QED
    BY <2>3 DEF SendsVerify
<1>3. /\ host.at = "verify" /\ At(host.file.size.pages, 0)
      /\ commands' = <<>> /\ uart' = <<"ACK">> /\ Head(commands).crc = ImageCrc(img)
  BY <1>1, <1>2, OneCommand DEF SendsVerify, VerifyCmd
<1>4. AllSent /\ AllSent' /\ Sent' /\ ExpectedPageSize' = ExpectedPageSize
  BY <1>1, <1>2, <1>3 DEF AllSent, At, Sent, ExpectedPageSize
<1>5. SendsVerify'
  BY <1>1, <1>3 DEF SendsVerify, At
<1>6. InStep' /\ BufferOfFile' /\ ProcessOfFile' /\ SessionOfLine' /\ CoordinatorTypeOK'
  BY <1>1, <1>2, <1>4, <1>5 DEF IInv, InStep, BufferOfFile, ProcessOfFile, SessionOfLine, TypeOK,
     CoordinatorTypeOK
<1> DEFINE pkt == VerifyPkt(ImageCrc(img), NoTarget)
<1>7. pkt \in PacketsOf(img) /\ pkt.type = "VERIFY"
  BY ImageCrcType, HostFacts DEF VerifyPkt, PacketsOf, Packet, Carries
<1>8. Queued(pkt) /\ InOrderToSend(pkt)
  BY <1>1, <1>3, <1>4, <1>7 DEF Queued, InOrderToSend
<1>9. QueuesOf(PacketsOf(img)) /\ QueuesOf(PacketsOf(img))'
  <2>1. QueuesOf(PacketsOf(img))
    BY DEF IInv, TypeOK, QueuesTypeOK, QueuesOf
  <2> QED
    BY <1>7, <1>8, <2>1, QueuedElements
<1> HIDE DEF pkt
<1>10. TypeOK' /\ FilesOfNodes'
  <2>1. QueuesTypeOK'
    BY <1>1, <1>9 DEF QueuesTypeOK, QueuesOf, PacketsOf
  <2> QED
    BY <1>1, <1>6, <2>1 DEF IInv, TypeOK, FilesOfNodes
<1>11. StartFirst' /\ VerifyLast'
  BY <1>7, <1>8, <1>9, QueuedKeepsOrder
<1>12. ReportsKept' /\ BitmapsKept'
  BY <1>1, FewerReports DEF IInv, BitmapsKept
<1>13. PagesKept'
  <2> SUFFICES ASSUME NEW p \in 0 .. page_start_offset - 1, NEW i \in DOMAIN Line,
                      p \notin abandoned, Line[i] \in ToSet(session_nodes)
               PROVE  PageStays(i, p)'
    BY <1>1 DEF PagesKept
  <2>1. PageStays(i, p)
    BY DEF IInv, PagesKept
  <2> QED
    BY <1>7, <1>8, <1>9, <2>1, QueuedKeepsPages
<1> QED
  BY <1>6, <1>10, <1>11, <1>12, <1>13 DEF IInv

LEMMA StartKeeps ==
  ASSUME IInv, CommandLeaves, commands # <<>>, Head(commands).type = "S",
         LegacyUartStart(Line, Head(commands).size)
  PROVE  IInv'
<1> PICK img : img = host.file
  OBVIOUS
<1>1. /\ session_nodes' = PopulateSessionNodes(Line)
      /\ current_file_size' = Head(commands).size /\ page_start_offset' = 0
      /\ page_bytes_received' = 0 /\ distribution_in_progress' = FALSE
      /\ UNCHANGED <<node_replied, session_bitmaps>>
      /\ UNCHANGED <<pc, dist_chunk_idx, total_chunks, end_pkt, recovery_round>>
      /\ UNCHANGED <<ota_target_slot, page_buffer, nodes, hop, reports, abandoned, host, starts>>
      /\ uart' = Append(uart, "ACK") /\ commands' = Tail(commands)
      /\ line' = Append(line, StartPkt(Head(commands).size, OTA_START_SEC_VER_UNKNOWN, NoTarget))
  BY DEF CommandLeaves, LegacyUartStart, SendToAll, Answer, ResetTransferState, processVars
<1>2. /\ NotSent /\ host.at = "start" /\ starts > 0 /\ Untouched
      /\ \E v \in SecVers, t \in SentTargets : commands = <<StartCmd(img, v, t)>>
  <2>1. Head(<<VerifyCmd(img)>>).type = "V"
    BY OneCommand DEF VerifyCmd
  <2>2. Head(<<DataCmd(img, host.page, host.chunk)>>).type = "D"
    BY OneCommand DEF DataCmd
  <2>3. NotSent
    BY <2>1, <2>2 DEF IInv, InStep, SendsData, WaitsForPage, SendsVerify, Stopped
  <2> QED
    BY <2>3 DEF NotSent
<1>3. /\ commands' = <<>> /\ Head(commands).size = img.size
      /\ uart = <<>> /\ line = <<>> /\ reports = {} /\ pc = "idle"
      /\ \A i \in DOMAIN Line : hop[i] = <<>>
      /\ \A node \in Nodes : nodes[node] = Boot(OldFlash)
  BY <1>1, <1>2, OneCommand DEF StartCmd, Untouched, At
<1> DEFINE pkt == StartPkt(img.size, OTA_START_SEC_VER_UNKNOWN, NoTarget)
<1>4. uart' = <<"ACK">> /\ line' = <<pkt>>
  BY <1>1, <1>3
<1>5. pkt \in PacketsOf(img) /\ pkt.type = "START"
  BY HostFacts, FileFacts DEF StartPkt, PacketsOf, Packet, Carries, OTA_START_SEC_VER_UNKNOWN, IInv
<1> HIDE DEF pkt
<1>6. CoordinatorTypeOK' /\ SessionOfLine'
  <2>1. Line \in Seq(Nodes) /\ Len(Line) \in Nat /\ MAX_NODES \in Nat
    BY LineAssumption, CoordinatorAssumption
  <2> DEFINE n == IF Len(Line) < MAX_NODES THEN Len(Line) ELSE MAX_NODES
  <2>2. n \in 0 .. Len(Line) /\ n <= MAX_NODES
    BY <2>1
  <2>3. session_nodes' = SubSeq(Line, 1, n)
    BY <1>1 DEF PopulateSessionNodes
  <2> HIDE DEF n
  <2>4. /\ session_nodes' \in Seq(Nodes) /\ Len(session_nodes') = n
        /\ \A w \in DOMAIN session_nodes' : w \in DOMAIN Line /\ session_nodes'[w] = Line[w]
    BY <2>1, <2>2, <2>3
  <2>5. SessionOfLine'
    BY <2>4 DEF SessionOfLine
  <2>6. img.size \in Size /\ img.size.pages \in Nat /\ 0 \in 0 .. PageChunks
        /\ 0 \in 0 .. img.size.pages
    BY FileFacts, HostFacts, WireAssumption DEF IInv, Size
  <2> QED
    BY <1>1, <1>3, <2>2, <2>4, <2>5, <2>6 DEF IInv, TypeOK, CoordinatorTypeOK
<1>7. InStep'
  <2>1. At(0, 0)' /\ Sent'
    BY <1>1, <1>3 DEF At, Sent
  <2> QED
    BY <1>1, <1>2, <1>3, <1>4, <2>1 DEF InStep
<1>8. BufferOfFile' /\ ProcessOfFile'
  <2>1. ExpectedPageSize' \in 0 .. PageChunks
    <3>1. PageLen(img.size, 0) \in 0 .. PageChunks
      BY FileFacts, PageLenType DEF IInv
    <3> QED
      BY <1>1, <1>3, <3>1 DEF ExpectedPageSize
  <2> QED
    BY <1>1, <1>3, <2>1 DEF BufferOfFile, ProcessOfFile
<1>9. TypeOK' /\ FilesOfNodes'
  <2>1. QueuesTypeOK'
    <3>1. \A P : pkt \in P => <<pkt>> \in Seq(P)
      OBVIOUS
    <3>2. line' \in Seq(PacketsOf(img))
      BY <1>4, <1>5, <3>1
    <3> QED
      BY <1>1, <3>2 DEF IInv, TypeOK, QueuesTypeOK, PacketsOf
  <2> QED
    BY <1>1, <1>6, <2>1 DEF IInv, TypeOK, FilesOfNodes
<1>10. StartFirst' /\ VerifyLast'
  <2>1. \A i \in DOMAIN Line : IF i = 1 THEN Inbox(i)' = <<pkt>> ELSE Inbox(i)' = <<>>
    <3>1. \A i \in DOMAIN Line : i = 1 \/ i - 1 \in DOMAIN Line
      BY LineType
    <3> QED
      BY <1>1, <1>3, <1>4, <3>1 DEF Inbox
  <2>2. ASSUME NEW i \in DOMAIN Line, NEW k \in DOMAIN Inbox(i)'
        PROVE  i = 1 /\ k = 1 /\ Inbox(i)'[k].type = "START"
    BY <1>5, <2>1, <2>2
  <2>3. \A i \in DOMAIN Line : i \in Nat /\ Line[i] \in Nodes
    BY LineType
  <2>4. \A i \in DOMAIN Line : nodes'[Line[i]].current_rx_page_offset = NoPage
    BY <1>1, <1>3, <2>3 DEF Boot
  <2>5. \A j \in DOMAIN Line : j > 1 => Inbox(j)' = <<>>
    BY <2>1
  <2>6. StartFirst'
    BY <2>2, <2>4, <2>5 DEF StartFirst
  <2>7. VerifyLast'
    BY <2>2 DEF VerifyLast
  <2> QED
    BY <2>6, <2>7
<1>11. ReportsKept' /\ BitmapsKept' /\ PagesKept'
  <2>1. \A node \in Nodes : nodes[node].report_to_send = NoReport
    BY <1>3 DEF Boot
  <2>2. ~(NoReport.page >= 0)
    BY DEF NoReport, NoPage
  <2>3. \A node \in Nodes : ~(nodes[node].report_to_send.page >= 0)
    BY <2>1, <2>2
  <2> QED
    BY <1>1, <1>3, <2>3 DEF ReportsKept, FullMeansKept, BitmapsKept, PagesKept
<1> QED
  BY <1>6, <1>7, <1>8, <1>9, <1>10, <1>11 DEF IInv
LEMMA DataCommandKeeps ==
  ASSUME IInv, CommandLeaves, commands # <<>>, Head(commands).type = "D",
         LegacyUartData(Head(commands).page, Head(commands).chunk, Head(commands).data)
  PROVE  IInv'
<1> PICK img : img = host.file
  OBVIOUS
<1> PICK page : page = host.page
  OBVIOUS
<1> PICK chunk : chunk = host.chunk
  OBVIOUS
<1> DEFINE data == img.data[page][chunk]
           last == chunk + 1 = PageLen(img.size, page)
<1>1. /\ SendsData /\ Sent /\ starts > 0 /\ ~NotSent
      /\ commands = <<DataCmd(img, page, chunk)>> /\ uart = <<>> /\ At(page, chunk)
  <2>1. \A v, t : Head(<<StartCmd(img, v, t)>>).type = "S"
    BY OneCommand DEF StartCmd
  <2>2. Head(<<VerifyCmd(img)>>).type = "V"
    BY OneCommand DEF VerifyCmd
  <2>3. SendsData /\ Sent /\ starts > 0 /\ ~NotSent
    BY <2>1, <2>2 DEF IInv, InStep, NotSent, SendsVerify, WaitsForPage, Stopped
  <2> QED
    BY <2>3 DEF SendsData
<1>2. /\ Head(commands).page = page /\ Head(commands).chunk = chunk /\ Head(commands).data = data
      /\ commands' = <<>>
  BY <1>1, OneCommand DEF DataCmd, CommandLeaves
<1>3. /\ pc = "idle" /\ ~distribution_in_progress /\ page_start_offset = page
      /\ page_bytes_received = chunk /\ current_file_size = img.size
      /\ ExpectedPageSize = PageLen(img.size, page)
      /\ host.at = "data" /\ chunk < PageLen(img.size, page)
  BY <1>1 DEF At, Sent, SendsData, ExpectedPageSize
<1>4. /\ img \in Image /\ page \in Page /\ page \in Nat /\ page < img.size.pages
      /\ chunk \in Chunk /\ chunk \in Nat
      /\ PageLen(img.size, page) \in 1 .. PageChunks /\ data \in Cell
  <2>1. img \in Image /\ page \in Page /\ page \in Nat /\ chunk \in Chunk /\ chunk \in Nat
    BY HostFacts DEF HostType
  <2>2. page < img.size.pages
    BY <1>3, <2>1, PageLenType DEF Image, FileSize
  <2>3. data \in Cell
    BY <2>1 DEF Image
  <2> QED
    BY <2>1, <2>2, <2>3, FilePage
<1> HIDE DEF data
<1>5. /\ page_buffer' = [page_buffer EXCEPT ![chunk] = data]
      /\ page_bytes_received' = chunk + 1
      /\ uart' = <<"ACK">>
      /\ IF last THEN distribution_in_progress' = TRUE /\ StartDistribution
         ELSE UNCHANGED <<distribution_in_progress, processVars, session_bitmaps>>
  <2>1. LegacyAcceptsData(page, chunk)
    BY <1>3 DEF LegacyAcceptsData
  <2>2. /\ page_buffer' = [page_buffer EXCEPT ![chunk] = data]
        /\ page_bytes_received' = page_bytes_received + 1
        /\ uart' = Append(uart, "ACK")
        /\ IF PageComplete(page_bytes_received + 1)
           THEN distribution_in_progress' = TRUE /\ StartDistribution
           ELSE UNCHANGED <<distribution_in_progress, processVars, session_bitmaps>>
    BY <1>2, <2>1 DEF LegacyUartData, Answer, PageComplete
  <2> QED
    BY <1>1, <1>3, <2>2 DEF PageComplete
<1>6. /\ UNCHANGED <<session_nodes, node_replied, current_file_size, ota_target_slot,
                     page_start_offset, line>>
      /\ UNCHANGED <<nodes, hop, reports, abandoned, host, starts>>
      /\ ExpectedPageSize' = PageLen(img.size, page)
  BY <1>3 DEF LegacyUartData, CommandLeaves, ExpectedPageSize
<1>7. page_buffer' \in [Chunk -> Cell] /\ \A c \in 0 .. chunk : page_buffer'[c] = img.data[page][c]
  <2>1. page_buffer \in [Chunk -> Cell] /\ \A c \in 0 .. chunk - 1 : page_buffer[c] = img.data[page][c]
    BY <1>3 DEF IInv, TypeOK, CoordinatorTypeOK, BufferOfFile
  <2>2. \A c \in 0 .. chunk : c \in Chunk /\ (c = chunk \/ c \in 0 .. chunk - 1)
    BY <1>4, WireAssumption DEF Chunk
  <2> QED
    BY <1>4, <1>5, <2>1, <2>2 DEF data
<1>8. BufferOfFile'
  <2>1. page_bytes_received' - 1 = chunk
    BY <1>4, <1>5
  <2>2. page_bytes_received' <= ExpectedPageSize'
    BY <1>3, <1>4, <1>5, <1>6, WireAssumption
  <2>3. host'.file.data[page_start_offset'] = img.data[page]
    BY <1>3, <1>6
  <2> QED
    BY <1>7, <2>1, <2>2, <2>3 DEF BufferOfFile
<1>9. FilesOfNodes' /\ SessionOfLine' /\ StartFirst' /\ VerifyLast' /\ ReportsKept' /\ PagesKept'
  <2>1. AllSent => AllSent'
    BY <1>3 DEF AllSent
  <2>2. \A i \in DOMAIN Line : SameToKeep(nodes[Line[i]], nodes'[Line[i]])
    BY <1>6 DEF SameToKeep
  <2>3. StartFirst' /\ VerifyLast'
    BY <1>6, <2>1, OrderRests
  <2>4. PagesKept'
    BY <1>6, <2>1, <2>2, PagesRest
  <2> QED
    BY <1>6, <2>3, <2>4, FewerReports DEF IInv, FilesOfNodes, SessionOfLine
<1>10. CASE last
  <2>1. /\ distribution_in_progress' /\ pc' = "chunk" /\ dist_chunk_idx' = 0
        /\ total_chunks' = PageLen(img.size, page)
        /\ end_pkt' = PageEndPkt(page, Prefix(page_buffer', PageLen(img.size, page)), NoTarget)
        /\ session_bitmaps' = [i \in Index |-> {}] /\ UNCHANGED recovery_round
    BY <1>3, <1>5, <1>10 DEF StartDistribution, IInv, TypeOK, CoordinatorTypeOK
  <2>2. Prefix(page_buffer', PageLen(img.size, page)) = ImagePage(img, page)
    <3>1. \A c \in 0 .. PageLen(img.size, page) - 1 : page_buffer'[c] = img.data[page][c]
      BY <1>4, <1>7, <1>10
    <3> QED
      BY <3>1 DEF Prefix, ImagePage
  <2>3. CoordinatorTypeOK'
    <3>1. /\ 0 \in 0 .. total_chunks' /\ total_chunks' \in 0 .. PageChunks
          /\ page_bytes_received' \in 0 .. PageChunks
      BY <1>4, <1>5, <1>10, <2>1
    <3>2. end_pkt'.target = NoTarget /\ end_pkt'.type = "PAGE_END"
      BY <2>1 DEF PageEndPkt
    <3>3. session_bitmaps' \in [Index -> SUBSET Chunk]
      BY <2>1
    <3> QED
      BY <1>6, <1>7, <2>1, <3>1, <3>2, <3>3 DEF IInv, TypeOK, CoordinatorTypeOK
  <2>4. ProcessOfFile'
    BY <1>3, <1>6, <2>1, <2>2 DEF ProcessOfFile
  <2>5. WorksOn(host.page)'
    BY <1>4, <1>5, <1>6, <1>3, <1>10, <2>1 DEF WorksOn
  <2>6. InStep'
    <3>1. SendsData'
      BY <1>2, <1>3, <1>5, <1>6, <1>10, <2>5 DEF SendsData
    <3> QED
      BY <1>1, <1>6, <3>1 DEF InStep, Sent
  <2>7. BitmapsKept'
    <3>1. ~PageFull(img, page, {})
      BY <1>4, FilePage
    <3>2. \A w \in DOMAIN session_nodes : w \in Index
      BY CoordinatorAssumption DEF IInv, TypeOK, CoordinatorTypeOK, Index
    <3> QED
      BY <1>3, <1>4, <1>6, <2>1, <3>1, <3>2 DEF BitmapsKept
  <2>8. TypeOK'
    BY <1>6, <2>3 DEF IInv, TypeOK, QueuesTypeOK
  <2> QED
    BY <1>8, <1>9, <2>3, <2>4, <2>6, <2>7, <2>8 DEF IInv
<1>11. CASE ~last
  <2>1. UNCHANGED <<distribution_in_progress, pc, dist_chunk_idx, total_chunks, end_pkt,
                    recovery_round, session_bitmaps>>
    BY <1>5, <1>11 DEF processVars
  <2>2. CoordinatorTypeOK'
    <3>1. page_bytes_received' \in 0 .. PageChunks
      BY <1>3, <1>4, <1>5, WireAssumption
    <3> QED
      BY <1>6, <1>7, <2>1, <3>1 DEF IInv, TypeOK, CoordinatorTypeOK
  <2>3. ProcessOfFile' /\ BitmapsKept'
    BY <1>3, <2>1 DEF ProcessOfFile, BitmapsKept
  <2>4. InStep'
    <3>1. At(host.page, host.chunk + 1)'
      BY <1>3, <1>5, <1>6, <2>1 DEF At
    <3>2. SendsData'
      BY <1>2, <1>3, <1>5, <1>6, <1>11, <3>1 DEF SendsData
    <3> QED
      BY <1>1, <1>6, <3>2 DEF InStep, Sent
  <2>5. TypeOK'
    BY <1>6, <2>2 DEF IInv, TypeOK, QueuesTypeOK
  <2> QED
    BY <1>8, <1>9, <2>3, <2>4, <2>5 DEF IInv
<1> QED
  BY <1>10, <1>11

LEMMA CommandKeeps == ASSUME IInv, Command PROVE IInv'
<1>1. CommandLeaves /\ commands # <<>>
  BY DEF Command, LegacyTakeCommand, CommandLeaves, systemVars, networkVars
<1>2. CASE Head(commands).type = "S" /\ \E table \in RouteTables :
             LegacyUartStart(table, Head(commands).size)
  BY <1>1, <1>2, StartKeeps, LineAssumption
<1>3. CASE /\ Head(commands).type = "D"
           /\ LegacyUartData(Head(commands).page, Head(commands).chunk, Head(commands).data)
  BY <1>1, <1>3, DataCommandKeeps
<1>4. CASE Head(commands).type = "V" /\ LegacyUartVerify(Head(commands).crc)
  BY <1>1, <1>4, VerifyKeeps
<1> QED
  BY <1>2, <1>3, <1>4 DEF Command, LegacyTakeCommand
-----------------------------------------------------------------------------
(* The theorem. *)

LEMMA Initially == Init => IInv
<1> SUFFICES ASSUME Init PROVE NotSent /\ TypeOK /\ SessionOfLine
  BY NotSentKeeps
<1>1. CoordinatorInit /\ SenderInit /\ NetworkInit
      /\ nodes = [node \in Nodes |-> Boot(OldFlash)] /\ abandoned = {}
  BY DEF Init
<1>2. /\ host \in HostType /\ host.at = "off" /\ commands = <<>> /\ starts = 0 /\ starts \in Nat
  <2>1. 0 \in Page /\ 0 \in Chunk
    BY WireAssumption DEF Page, Chunk
  <2> QED
    BY <1>1, <2>1 DEF SenderInit, HostType
<1>3. Untouched
  BY <1>1 DEF Untouched, CoordinatorInit, NetworkInit, At
<1>4. NotSent
  BY <1>2, <1>3 DEF NotSent
<1>5. CoordinatorTypeOK
  <2>1. NoFile \in Size /\ NoFile.pages = 0
    BY WireAssumption DEF NoFile, Size
  <2>2. session_nodes = <<>> /\ session_nodes \in Seq(Nodes) /\ Len(session_nodes) = 0
    BY <1>1 DEF CoordinatorInit
  <2>3. page_buffer \in [Chunk -> Cell]
    BY <1>1 DEF CoordinatorInit, Cell
  <2>4. end_pkt.target = NoTarget /\ end_pkt.type = "PAGE_END"
    BY <1>1 DEF CoordinatorInit, PageEndPkt
  <2>5. node_replied \in [Index -> BOOLEAN] /\ session_bitmaps \in [Index -> SUBSET Chunk]
    BY <1>1 DEF CoordinatorInit
  <2>6. /\ current_file_size = NoFile /\ ota_target_slot = NoTarget /\ page_start_offset = 0
        /\ page_bytes_received = 0 /\ pc = "idle" /\ dist_chunk_idx = 0 /\ total_chunks = 0
        /\ recovery_round = 0
    BY <1>1 DEF CoordinatorInit
  <2>7. 0 \in 0 .. MaxRounds /\ 0 \in 0 .. PageChunks /\ 0 \in 0 .. 0 /\ 0 <= MAX_NODES
    BY CoordinatorAssumption, WireAssumption
  <2> QED
    BY <2>1, <2>2, <2>3, <2>4, <2>5, <2>6, <2>7 DEF CoordinatorTypeOK
<1>6. QueuesTypeOK
  <2>1. line = <<>> /\ hop = [i \in DOMAIN Line |-> <<>>]
    BY <1>1 DEF CoordinatorInit, NetworkInit
  <2>2. \A P : <<>> \in Seq(P)
    OBVIOUS
  <2> QED
    BY <2>1, <2>2 DEF QueuesTypeOK
<1>7. nodes \in [Nodes -> Node]
  BY <1>1, BootType, LegacyAssumption
<1>8. TypeOK
  BY <1>1, <1>2, <1>5, <1>6, <1>7 DEF TypeOK, HostType, NetworkInit
<1>9. SessionOfLine
  BY <1>1 DEF SessionOfLine, CoordinatorInit
<1> QED
  BY <1>4, <1>8, <1>9

LEMMA StutterKeeps == ASSUME IInv, UNCHANGED vars PROVE IInv'
<1>1. HostLeaves /\ UNCHANGED <<uart, host, commands, starts>>
  BY DEF vars, HostLeaves, coordinatorVars, coordinatorOnlyVars, senderVars
<1>2. /\ UNCHANGED <<current_file_size, page_start_offset, page_bytes_received,
                     distribution_in_progress, pc>>
      /\ UNCHANGED <<line, hop, reports, nodes>> /\ ExpectedPageSize' = ExpectedPageSize
  BY <1>1, HostFrame
<1>3. /\ NotSent => NotSent'
      /\ SendsData => SendsData'
      /\ WaitsForPage => WaitsForPage'
      /\ SendsVerify => SendsVerify'
      /\ Stopped => Stopped'
      /\ Sent => Sent'
      /\ At(0, 0) => At(0, 0)'
  BY <1>1, <1>2 DEF NotSent, Untouched, SendsData, WaitsForPage, SendsVerify, Stopped, At, WorksOn,
     Sent
<1>4. InStep'
  BY <1>1, <1>3, Zenon DEF IInv, InStep
<1> QED
  BY <1>1, <1>4, HostFacts, HostKeeps

LEMMA StepKeeps == ASSUME IInv, Transfers, [Next]_vars PROVE IInv'
BY HostStepKeeps, CommandKeeps, DistributesKeeps, NetworkKeeps, StutterKeeps DEF Next

\* A page that stays is in the flash.
LEMMA IInvGivesStored == IInv => StoredPagesStay
<1> SUFFICES ASSUME IInv, NEW p \in 0 .. page_start_offset - 1, NEW node \in ToSet(session_nodes),
                    p \notin abandoned
             PROVE  Holds(node, p)
  BY DEF StoredPagesStay
<1>1. PICK w \in DOMAIN session_nodes : session_nodes[w] = node
  BY DEF ToSet
<1>2. PICK i \in DOMAIN Line : node = Line[i]
  BY <1>1 DEF IInv, SessionOfLine
<1>3. PageStays(i, p)
  BY <1>2 DEF IInv, PagesKept
<1> QED
  BY <1>2, <1>3 DEF PageStays, Keeps, HoldsPage, Holds

\* A page the coordinator finished without giving it up is in the flash of every node of
\* its session, and later packets leave it there.
THEOREM StoredPagesCorrect == Transfers => (Spec => []StoredPagesStay)
<1> SUFFICES ASSUME Transfers
             PROVE  Spec => []StoredPagesStay
  OBVIOUS
<1>1. IInv /\ [Next]_vars => IInv'
  BY StepKeeps
<1> QED
  BY <1>1, Initially, IInvGivesStored, PTL DEF Spec
-----------------------------------------------------------------------------
(* What a transfer without a fault delivers. *)

\* The packets in the order of the transfer, after Nothing: b is the one after a.
Nothing == [type |-> "NONE"]
Event(img) == PacketsOf(img) \cup {Nothing}

IsData(pkt, page, chunk) == pkt.type = "DATA" /\ pkt.page = page /\ pkt.chunk = chunk
IsEnd(pkt, page) == pkt.type = "PAGE_END" /\ pkt.page = page

Follows(img, a, b) ==
  \/ a.type = "NONE" /\ b.type = "START"
  \/ a.type = "START" /\ IsData(b, 0, 0)
  \/ a.type = "DATA" /\ a.chunk + 1 < PageLen(img.size, a.page) /\ IsData(b, a.page, a.chunk + 1)
  \/ a.type = "DATA" /\ a.chunk + 1 = PageLen(img.size, a.page) /\ IsEnd(b, a.page)
  \/ a.type = "PAGE_END" /\ a.page + 1 < img.size.pages /\ IsData(b, a.page + 1, 0)
  \/ a.type = "PAGE_END" /\ a.page + 1 = img.size.pages /\ b.type = "VERIFY"

\* The queue holds what comes after a, up to b.
Connects(img, a, q, b) ==
  /\ q = <<>> => a = b
  /\ q # <<>> => Follows(img, a, q[1]) /\ q[Len(q)] = b
  /\ \A k \in DOMAIN q : k + 1 \in DOMAIN q => Follows(img, q[k], q[k + 1])

\* The CRC over the first n pages.
FirstPages(img, n) == [k \in 1 .. n |-> ImagePage(img, k - 1)]

\* A node that took everything up to a.
TookStart(img, m) ==
  /\ m.current_file_size = img.size /\ m.running_fw_crc = <<>>
  /\ m.current_rx_page_offset = NoPage /\ m.page_0_erased /\ m.flash[0] = ErasedPage
TookData(img, m, page, chunk) ==
  /\ m.current_file_size = img.size /\ m.running_fw_crc = FirstPages(img, page)
  /\ m.current_rx_page_offset = page /\ m.page_bitmap = 0 .. chunk
  /\ \A c \in 0 .. chunk : m.flash[page][c] = img.data[page][c]
  /\ \A c \in Chunk : c > chunk => m.flash[page][c] = ErasedCell
TookEnd(img, m, page) ==
  /\ m.current_file_size = img.size /\ m.running_fw_crc = FirstPages(img, page + 1)
  /\ m.current_rx_page_offset = page /\ PageFull(img, page, m.page_bitmap)

Took(img, m, a) ==
  /\ a.type = "START" => TookStart(img, m)
  /\ a.type = "DATA" => TookData(img, m, a.page, a.chunk)
  /\ a.type = "PAGE_END" => TookEnd(img, m, a.page)
  /\ a.type = "VERIFY" => m.verified = "success"

\* The coordinator sent a last.
PageBefore(a, page) ==
  /\ page = 0 => a.type = "START"
  /\ page > 0 => IsEnd(a, page - 1)

SentLast(a) ==
  /\ NotSent => a.type = "NONE"
  /\ ~NotSent /\ pc = "idle" => a.type = "VERIFY" \/ PageBefore(a, page_start_offset)
  /\ pc = "chunk" =>
       /\ dist_chunk_idx = 0 => PageBefore(a, page_start_offset)
       /\ dist_chunk_idx > 0 => IsData(a, page_start_offset, dist_chunk_idx - 1)
  /\ pc = "wait" => IsEnd(a, page_start_offset)
  /\ a.type = "VERIFY" => AllSent /\ ~(host.at = "verify" /\ uart = <<>>)
  /\ host.at = "done" \/ (host.at = "verify" /\ uart # <<>>) => a.type = "VERIFY"

\* taken[0]: what the coordinator sent last; taken[i]: what the i-th node took last.
Positions(taken) ==
  /\ SentLast(taken[0])
  /\ \A i \in DOMAIN Line :
       /\ Took(host.file, nodes[Line[i]], taken[i])
       /\ Connects(host.file, taken[i], Inbox(i), taken[i - 1])

StreamUnbroken == \E taken \in [0 .. Len(Line) -> Event(host.file)] : Positions(taken)

\* The rounds: a PAGE_END that was sent is answered by a full report.
Ended(page) == page < page_start_offset \/ (page = page_start_offset /\ pc = "wait")
Answers(report) ==
  report.page \in Page /\ Ended(report.page) /\ PageFull(host.file, report.page, report.bitmap)

EndsSent ==
  \A i \in DOMAIN Line : \A k \in DOMAIN Inbox(i) :
    Inbox(i)[k].type = "PAGE_END" => Ended(Inbox(i)[k].page)

ReportsAnswer ==
  /\ \A r \in reports : Answers(r.report)
  /\ \A node \in Nodes :
       nodes[node].report_to_send # NoReport => Answers(nodes[node].report_to_send)

\* A page number only grows, until VERIFY.
ReportsRecent ==
  AllSent \/ \A node \in Nodes :
    nodes[node].report_to_send.page <= nodes[node].current_rx_page_offset

\* The i-th node is asked, or its answer is on its way.
Asked(i) ==
  \E j \in DOMAIN Line : j <= i /\ \E k \in DOMAIN Inbox(j) : IsEnd(Inbox(j)[k], page_start_offset)
AnswerOnWay(node) ==
  \/ nodes[node].report_to_send.page = page_start_offset
  \/ \E r \in reports : r.node = node /\ r.report.page = page_start_offset

RoundOpen ==
  pc = "wait" => \A w \in DOMAIN session_nodes :
    /\ node_replied[w] => PageFull(host.file, page_start_offset, session_bitmaps[w])
    /\ ~node_replied[w] => Asked(w) \/ AnswerOnWay(Line[w])

RoundClosed ==
  /\ pc = "chunk" => \A w \in DOMAIN session_nodes : session_bitmaps[w] = {}
  /\ bitmap_event <=> pc = "wait" /\ AllReplied(session_nodes, node_replied)
  /\ pc # "resend"

SessionOfRoutes == ~NotSent => session_nodes = PopulateSessionNodes(Line)

Delivered ==
  /\ StreamUnbroken /\ SessionOfRoutes
  /\ EndsSent /\ ReportsAnswer /\ ReportsRecent /\ RoundOpen /\ RoundClosed

DInv == IInv /\ lost \in Nat /\ (lost = 0 => Delivered)
-----------------------------------------------------------------------------
(* A node takes the packet after the one it took last. *)

LEMMA FirstPagesType ==
  ASSUME NEW img \in Image, NEW n \in Nat, n <= img.size.pages
  PROVE  /\ FirstPages(img, n) \in Seq(PageContent)
         /\ n = 0 => FirstPages(img, n) = <<>>
         /\ n = img.size.pages => FirstPages(img, n) = ImageCrc(img)
         /\ n < img.size.pages =>
              FirstPages(img, n + 1) = Append(FirstPages(img, n), ImagePage(img, n))
<1>0. img.size.pages \in Nat
  BY DEF Image, FileSize, Size
<1>1. ASSUME NEW k \in 1 .. img.size.pages PROVE ImagePage(img, k - 1) \in PageContent
  <2>1. k - 1 \in Nat /\ k - 1 < img.size.pages
    BY <1>0, <1>1
  <2>2. k - 1 \in Page /\ PageLen(img.size, k - 1) \in 0 .. PageChunks
    BY <2>1, FilePage
  <2>3. img.data[k - 1] \in [Chunk -> Cell]
    BY <2>2 DEF Image
  <2> QED
    BY <2>2, <2>3, PrefixType DEF ImagePage
<1>2. FirstPages(img, n) \in [1 .. n -> PageContent]
  <2>1. 1 .. n \subseteq 1 .. img.size.pages
    BY <1>0
  <2>2. \A k \in 1 .. n : ImagePage(img, k - 1) \in PageContent
    BY <1>1, <2>1
  <2> QED
    BY <2>2 DEF FirstPages
<1>3. FirstPages(img, n) \in Seq(PageContent) /\ Len(FirstPages(img, n)) = n
  BY <1>2
<1>4. ASSUME n < img.size.pages
      PROVE  FirstPages(img, n + 1) = Append(FirstPages(img, n), ImagePage(img, n))
  <2> DEFINE page == ImagePage(img, n)
             f == FirstPages(img, n)
             g == FirstPages(img, n + 1)
  <2>1. n + 1 \in 1 .. img.size.pages /\ (n + 1) - 1 = n /\ img.size.pages \in Nat
    BY <1>4 DEF Image, FileSize, Size
  <2>2. page \in PageContent
    BY <1>1, <2>1
  <2>3. g \in [1 .. n + 1 -> PageContent]
    <3>1. 1 .. n + 1 \subseteq 1 .. img.size.pages
      BY <1>0, <1>4
    <3>2. \A k \in 1 .. n + 1 : ImagePage(img, k - 1) \in PageContent
      BY <1>1, <3>1
    <3> QED
      BY <3>2 DEF FirstPages
  <2>4. \A k \in 1 .. n : g[k] = f[k]
    BY DEF FirstPages
  <2>5. g[n + 1] = page
    BY <2>1 DEF FirstPages
  <2> HIDE DEF f, g, page
  <2>6. f \in Seq(PageContent) /\ Len(f) = n
    BY <1>3 DEF f
  <2>7. /\ Append(f, page) \in [1 .. n + 1 -> PageContent]
        /\ \A k \in 1 .. n : Append(f, page)[k] = f[k]
        /\ Append(f, page)[n + 1] = page
    <3>1. Append(f, page) \in Seq(PageContent) /\ Len(Append(f, page)) = n + 1
      BY <2>2, <2>6
    <3>2. \A k \in 1 .. Len(f) : Append(f, page)[k] = f[k]
      BY <2>2, <2>6
    <3>3. Append(f, page)[Len(f) + 1] = page
      BY <2>2, <2>6
    <3>4. \A q \in Seq(PageContent) : q \in [1 .. Len(q) -> PageContent]
      OBVIOUS
    <3>5. Append(f, page) \in [1 .. Len(Append(f, page)) -> PageContent]
      BY <3>1, <3>4
    <3>6. Append(f, page) \in [1 .. n + 1 -> PageContent]
      BY <3>1, <3>5
    <3> QED
      BY <2>6, <3>2, <3>3, <3>6
  <2>8. \A k \in 1 .. n + 1 : g[k] = Append(f, page)[k]
    <3> SUFFICES ASSUME NEW k \in 1 .. n + 1 PROVE g[k] = Append(f, page)[k]
      OBVIOUS
    <3>1. k \in 1 .. n \/ k = n + 1
      OBVIOUS
    <3> QED
      BY <2>4, <2>5, <2>7, <3>1
  <2>9. g = Append(f, page)
    BY <2>3, <2>7, <2>8
  <2> QED
    BY <2>9 DEF f, g, page
<1> QED
  BY <1>3, <1>4 DEF FirstPages, ImageCrc

LEMMA StartTaken ==
  ASSUME NEW img, NEW m \in Node, NEW pkt \in PacketsOf(img), pkt.type = "START"
  PROVE  /\ TookStart(img, OnStart(m, pkt, TRUE, TRUE))
         /\ OnStart(m, pkt, TRUE, TRUE).report_to_send = m.report_to_send
<1> DEFINE begun == [m EXCEPT !.current_file_size = pkt.size, !.running_fw_crc = <<>>,
                              !.current_rx_page_offset = NoPage, !.page_bitmap = {},
                              !.page_0_erased = TRUE]
<1>1. pkt.size = img.size /\ pkt.size \in Size
  BY DEF PacketsOf, Carries, Packet
<1>2. begun \in Node /\ begun.current_file_size = img.size /\ begun.running_fw_crc = <<>>
      /\ begun.current_rx_page_offset = NoPage /\ begun.page_0_erased
      /\ begun.report_to_send = m.report_to_send
  <2>1. <<>> \in Seq(PageContent)
    OBVIOUS
  <2> QED
    BY <1>1, <2>1 DEF Node
<1>3. OnStart(m, pkt, TRUE, TRUE) = ErasePage(begun, 0, TRUE)
  BY DEF OnStart
<1> HIDE DEF begun
<1>4. 0 \in Page
  BY WireAssumption DEF Page
<1>5. /\ SameExceptPage(ErasePage(begun, 0, TRUE), begun, 0)
      /\ ErasePage(begun, 0, TRUE).page_0_erased = begun.page_0_erased
      /\ ErasePage(begun, 0, TRUE).flash[0] = ErasedPage
  BY <1>2, <1>4, ErasePageEffect
<1> QED
  BY <1>2, <1>3, <1>5 DEF TookStart, SameExceptPage

\* Everything before a chunk of page `page` is at the node, and nothing else of the page.
Awaits(img, m, page, chunk) ==
  /\ m.current_file_size = img.size /\ m.running_fw_crc = FirstPages(img, page)
  /\ m.current_rx_page_offset = page /\ m.page_bitmap = 0 .. chunk - 1
  /\ \A c \in 0 .. chunk - 1 : m.flash[page][c] = img.data[page][c]
  /\ \A c \in Chunk : c >= chunk => m.flash[page][c] = ErasedCell

LEMMA ChunkStored ==
  ASSUME NEW img \in Image, NEW m \in Node, NEW pkt \in PacketsOf(img), pkt.type = "DATA",
         Awaits(img, m, pkt.page, pkt.chunk)
  PROVE  TookData(img, StoreChunk(m, pkt, pkt.data, TRUE), pkt.page, pkt.chunk)
<1> DEFINE p == pkt.page
           c == pkt.chunk
           r == StoreChunk(m, pkt, pkt.data, TRUE)
<1>1. /\ p \in Page /\ c \in Chunk /\ c \in Nat /\ pkt.data = img.data[p][c]
      /\ img.data[p] \in [Chunk -> Cell]
  BY DEF PacketsOf, Packet, Carries, Image, Chunk
<1>2. m.flash \in [Page -> [Chunk -> Cell]] /\ m.page_bitmap = 0 .. c - 1
  BY NodeFields DEF Awaits
<1>3. c \notin m.page_bitmap
  BY <1>1, <1>2
<1>4. m.flash[p][c] = ErasedCell /\ ErasedCell \cap pkt.data = pkt.data
  BY <1>1 DEF Awaits, ErasedCell, Cell
<1>5. r = [[m EXCEPT !.page_bitmap = m.page_bitmap \cup {c}]
             EXCEPT !.flash = [m.flash EXCEPT ![p][c] = pkt.data]]
  BY <1>3, <1>4 DEF StoreChunk, Node
<1>6. /\ r.current_file_size = m.current_file_size /\ r.running_fw_crc = m.running_fw_crc
      /\ r.current_rx_page_offset = m.current_rx_page_offset
      /\ r.page_bitmap = m.page_bitmap \cup {c}
      /\ r.flash = [m.flash EXCEPT ![p][c] = pkt.data]
  BY <1>5 DEF Node
<1> HIDE DEF p, c, r
<1>7. /\ r.flash[p][c] = pkt.data
      /\ \A x \in Chunk : x # c => r.flash[p][x] = m.flash[p][x]
  <2>1. r.flash[p] = [m.flash[p] EXCEPT ![c] = pkt.data]
    BY <1>1, <1>2, <1>6
  <2>2. m.flash[p] \in [Chunk -> Cell]
    BY <1>1, <1>2
  <2> QED
    BY <1>1, <2>1, <2>2
<1>8. (0 .. c - 1) \cup {c} = 0 .. c
  BY <1>1
<1>9. \A x \in 0 .. c : r.flash[p][x] = img.data[p][x]
  <2> SUFFICES ASSUME NEW x \in 0 .. c PROVE r.flash[p][x] = img.data[p][x]
    OBVIOUS
  <2>1. CASE x = c
    BY <1>1, <1>7, <2>1
  <2>2. CASE x # c
    <3>1. x \in 0 .. c - 1 /\ x \in Chunk
      BY <1>1, <2>2, WireAssumption DEF Chunk
    <3> QED
      BY <1>7, <2>2, <3>1 DEF Awaits, p, c
  <2> QED
    BY <2>1, <2>2
<1>10. \A x \in Chunk : x > c => r.flash[p][x] = ErasedCell
  <2> SUFFICES ASSUME NEW x \in Chunk, x > c PROVE r.flash[p][x] = ErasedCell
    OBVIOUS
  <2>1. x # c /\ x >= c
    BY <1>1 DEF Chunk
  <2> QED
    BY <1>7, <2>1 DEF Awaits, p, c
<1> QED
  BY <1>2, <1>6, <1>8, <1>9, <1>10 DEF TookData, Awaits, p, c, r

\* The first chunk of a page selects the page, which is erased then, or was by START.
LEMMA PageSelected ==
  ASSUME NEW img \in Image, NEW m \in Node, NEW p \in Page,
         m.current_file_size = img.size, m.running_fw_crc = FirstPages(img, p),
         \/ m.current_rx_page_offset = NoPage /\ p = 0 /\ m.page_0_erased /\ m.flash[0] = ErasedPage
         \/ m.current_rx_page_offset # NoPage
  PROVE  Awaits(img, SelectPage(m, p, TRUE, TRUE), p, 0)
<1> DEFINE chosen == [m EXCEPT !.current_rx_page_offset = p, !.page_bitmap = {}]
           s == SelectPage(m, p, TRUE, TRUE)
<1>1. chosen \in Node /\ chosen.page_bitmap = {} /\ chosen.current_rx_page_offset = p
      /\ chosen.current_file_size = m.current_file_size
      /\ chosen.running_fw_crc = m.running_fw_crc /\ chosen.flash = m.flash
  BY DEF Node
<1>2. CASE m.current_rx_page_offset = NoPage /\ p = 0 /\ m.page_0_erased /\ m.flash[0] = ErasedPage
  <2>1. s = chosen
    BY <1>2 DEF SelectPage
  <2> HIDE DEF s, chosen
  <2>2. s.flash[p] = ErasedPage
    BY <1>1, <1>2, <2>1
  <2>3. \A c \in Chunk : s.flash[p][c] = ErasedCell
    BY <2>2 DEF ErasedPage
  <2>4. 0 .. 0 - 1 = {}
    OBVIOUS
  <2>5. Awaits(img, s, p, 0)
    BY <1>1, <2>1, <2>3, <2>4 DEF Awaits
  <2> QED
    BY <2>5 DEF s
<1>3. CASE m.current_rx_page_offset # NoPage
  <2>1. s = ErasePage(chosen, p, TRUE)
    BY <1>3 DEF SelectPage
  <2> HIDE DEF s, chosen
  <2>2. /\ SameExceptPage(s, chosen, p) /\ s.page_bitmap = {}
        /\ s.flash[p] = ErasedPage
    BY <1>1, <2>1, ErasePageEffect
  <2>3. \A c \in Chunk : s.flash[p][c] = ErasedCell
    BY <2>2 DEF ErasedPage
  <2>4. 0 .. 0 - 1 = {}
    OBVIOUS
  <2>5. Awaits(img, s, p, 0)
    BY <1>1, <2>2, <2>3, <2>4 DEF Awaits, SameExceptPage
  <2> QED
    BY <2>5 DEF s
<1> QED
  BY <1>2, <1>3

\* Without a fault the byte that is not sent is found behind the packet.
LEMMA WholeChunk ==
  ASSUME NEW pkt, pkt.type = "DATA"
  PROVE  Received(pkt.data, LastByteOf(pkt)) = pkt.data
BY DEF Received, LastByteOf

\* What the next packet makes of the report that is about to leave.
ReportsNext(img, m, pkt, r) ==
  \/ pkt.type \in {"START", "DATA"} /\ r.report_to_send = m.report_to_send
  \/ /\ pkt.type = "PAGE_END" /\ r.report_to_send.page = pkt.page
     /\ PageFull(img, pkt.page, r.report_to_send.bitmap)
  \/ /\ pkt.type = "VERIFY" /\ r.report_to_send.page = img.size.pages - 1
     /\ PageFull(img, img.size.pages - 1, r.report_to_send.bitmap)

\* The handler of DATA without a fault.
TakesData(m, pkt) == OnData(m, pkt, LastByteOf(pkt), TRUE, TRUE, TRUE)

LEMMA DataTaken ==
  ASSUME NEW img \in Image, NEW m \in Node, NEW a \in Event(img), Took(img, m, a),
         NEW pkt \in PacketsOf(img), pkt.type = "DATA", Follows(img, a, pkt),
         NEW r, r = TakesData(m, pkt)
  PROVE  /\ TookData(img, r, pkt.page, pkt.chunk) /\ ~OlderPage(m, pkt)
         /\ ReportsNext(img, m, pkt, r)
<1>1. /\ pkt.page \in Page /\ pkt.page \in Nat /\ pkt.chunk \in Chunk /\ pkt.chunk \in Nat
      /\ pkt.page < img.size.pages
  <2>1. /\ pkt.page \in Page /\ pkt.page \in Nat /\ pkt.chunk \in Chunk /\ pkt.chunk \in Nat
        /\ pkt.chunk < PageLen(img.size, pkt.page)
    BY DEF PacketsOf, Packet, Carries, Page, Chunk
  <2>2. img.size \in Size
    BY DEF Image, FileSize
  <2>3. PageLen(img.size, pkt.page) > 0
    BY <2>1, <2>2, PageLenType
  <2> QED
    BY <2>1, <2>2, <2>3, PageLenType
<1>2. m.current_rx_page_offset \in Int
  BY NodeFields
<1>3. /\ a.type = "DATA" => a.page \in Page /\ a.chunk \in Chunk /\ a.chunk \in Nat
      /\ a.type = "PAGE_END" => a.page \in Page
  BY DEF Event, Nothing, PacketsOf, Packet, Chunk
<1>4. pkt.data \in Cell /\ TRUE \in BOOLEAN
  BY DEF PacketsOf, Packet
<1>5. CASE a.type = "DATA"
  <2>1. IsData(pkt, a.page, a.chunk + 1)
    BY <1>5 DEF Follows, IsData, IsEnd
  <2>2. TookData(img, m, a.page, a.chunk)
    BY <1>5 DEF Took
  <2>3. Awaits(img, m, pkt.page, pkt.chunk)
    <3>1. pkt.page = a.page /\ pkt.chunk = a.chunk + 1 /\ pkt.chunk - 1 = a.chunk
      BY <1>3, <1>5, <2>1 DEF IsData
    <3>2. \A c \in Chunk : c >= pkt.chunk => c > a.chunk
      BY <1>3, <1>5, <3>1 DEF Chunk
    <3> QED
      BY <2>2, <3>1, <3>2 DEF TookData, Awaits
  <2>4. pkt.page = m.current_rx_page_offset
    BY <2>3 DEF Awaits
  <2>5. ~OlderPage(m, pkt)
    BY <1>1, <2>4 DEF OlderPage
  <2>6. r = StoreChunk(m, pkt, pkt.data, TRUE)
    BY <2>4, <2>5, WholeChunk DEF OnData, TakesData
  <2>7. SameExceptPage(r, m, pkt.page)
    BY <1>1, <1>4, <2>6, StoreChunkEffect
  <2>8. r.report_to_send = m.report_to_send
    BY <2>7 DEF SameExceptPage
  <2> QED
    BY <2>3, <2>5, <2>6, <2>8, ChunkStored DEF ReportsNext
<1>6. CASE a.type \in {"START", "PAGE_END"}
  <2>1. pkt.chunk = 0 /\ m.current_rx_page_offset < pkt.page
        /\ Awaits(img, SelectPage(m, pkt.page, TRUE, TRUE), pkt.page, 0)
    <3>1. CASE a.type = "START"
      <4>1. IsData(pkt, 0, 0) /\ TookStart(img, m)
        BY <3>1 DEF Follows, IsData, IsEnd, Took
      <4>2. FirstPages(img, 0) = <<>>
        BY FirstPagesType, <1>1 DEF Image, FileSize, Size
      <4>3. m.current_rx_page_offset = NoPage /\ NoPage < 0
        BY <4>1 DEF TookStart, NoPage
      <4>4. Awaits(img, SelectPage(m, pkt.page, TRUE, TRUE), pkt.page, 0)
        BY <1>1, <4>1, <4>2, PageSelected DEF TookStart, IsData
      <4> QED
        BY <4>1, <4>3, <4>4 DEF IsData
    <3>2. CASE a.type = "PAGE_END"
      <4>1. IsData(pkt, a.page + 1, 0) /\ TookEnd(img, m, a.page)
        BY <3>2 DEF Follows, IsData, IsEnd, Took
      <4>2. a.page \in Nat
        BY <1>3, <3>2 DEF Page
      <4>3. m.current_rx_page_offset = a.page /\ a.page # NoPage
        BY <4>1, <4>2 DEF TookEnd, NoPage
      <4>4. Awaits(img, SelectPage(m, pkt.page, TRUE, TRUE), pkt.page, 0)
        BY <1>1, <4>1, <4>3, PageSelected DEF TookEnd, IsData
      <4>5. pkt.page = a.page + 1 /\ pkt.chunk = 0
        BY <4>1 DEF IsData
      <4>6. m.current_rx_page_offset < pkt.page
        BY <4>2, <4>3, <4>5
      <4> QED
        BY <4>4, <4>5, <4>6
    <3> QED
      BY <1>6, <3>1, <3>2
  <2>2. ~OlderPage(m, pkt) /\ pkt.page # m.current_rx_page_offset
    BY <1>1, <1>2, <2>1 DEF OlderPage
  <2>3. r = StoreChunk(SelectPage(m, pkt.page, TRUE, TRUE), pkt, pkt.data, TRUE)
    BY <2>2, WholeChunk DEF OnData, TakesData
  <2> DEFINE s == SelectPage(m, pkt.page, TRUE, TRUE)
  <2>4. s \in Node /\ s.report_to_send = m.report_to_send
    <3> DEFINE chosen == [m EXCEPT !.current_rx_page_offset = pkt.page, !.page_bitmap = {}]
    <3>1. SameExceptPage(s, chosen, pkt.page)
      BY <1>1, <1>4, SelectPageEffect
    <3>2. chosen.report_to_send = m.report_to_send
      BY DEF Node
    <3> QED
      BY <3>1, <3>2 DEF SameExceptPage
  <2> HIDE DEF s
  <2>5. SameExceptPage(r, s, pkt.page)
    BY <1>1, <1>4, <2>3, <2>4, StoreChunkEffect DEF s
  <2>6. r.report_to_send = m.report_to_send
    BY <2>4, <2>5 DEF SameExceptPage
  <2> QED
    BY <2>1, <2>2, <2>3, <2>4, <2>6, ChunkStored DEF s, ReportsNext
<1> QED
  BY <1>5, <1>6 DEF Follows, IsData, IsEnd

LEMMA PageEndTaken ==
  ASSUME NEW img \in Image, NEW m \in Node, NEW a \in Event(img), Took(img, m, a),
         NEW pkt \in PacketsOf(img), pkt.type = "PAGE_END", Follows(img, a, pkt),
         NEW r, r = OnPageEnd(m, pkt, TRUE)
  PROVE  TookEnd(img, r, pkt.page) /\ ReportsNext(img, m, pkt, r)
<1> DEFINE p == pkt.page
           len == PageLen(img.size, p)
<1>1. p \in Page /\ p \in Nat /\ p < img.size.pages /\ pkt.crc = ImagePage(img, p)
  BY DEF PacketsOf, Packet, Carries, Page
<1>2. len \in 1 .. PageChunks
  BY <1>1, FilePage
<1>3. /\ a.type = "DATA" /\ a.chunk + 1 = len /\ a.page = p /\ a.chunk \in Nat
      /\ TookData(img, m, p, a.chunk)
  BY DEF Follows, IsData, IsEnd, Took, Event, Nothing, PacketsOf, Packet, Chunk
<1>4. a.chunk = len - 1
  BY <1>2, <1>3
<1>5. m.current_rx_page_offset = p /\ m.current_file_size = img.size
      /\ m.page_bitmap = 0 .. len - 1 /\ m.running_fw_crc = FirstPages(img, p)
  BY <1>3, <1>4 DEF TookData
<1>6. FlashPage(m, p) = ImagePage(img, p)
  <2>1. \A c \in 0 .. len - 1 : m.flash[p][c] = img.data[p][c]
    BY <1>3, <1>4 DEF TookData
  <2> QED
    BY <1>5, <2>1 DEF FlashPage, ImagePage, Prefix
<1>7. PageMatches(m, pkt, TRUE)
  BY <1>1, <1>2, <1>5, <1>6 DEF PageMatches
<1> DEFINE done == [m EXCEPT !.running_fw_crc = Append(m.running_fw_crc, FlashPage(m, p))]
<1>8. r = [done EXCEPT !.report_to_send =
             [page |-> done.current_rx_page_offset, bitmap |-> done.page_bitmap]]
  BY <1>5, <1>7 DEF OnPageEnd, CheckPage, Reported
<1>9. /\ done.current_rx_page_offset = p /\ done.page_bitmap = m.page_bitmap
      /\ r.current_file_size = m.current_file_size
      /\ r.running_fw_crc = Append(m.running_fw_crc, FlashPage(m, p))
      /\ r.current_rx_page_offset = p /\ r.page_bitmap = m.page_bitmap
      /\ r.report_to_send = [page |-> p, bitmap |-> m.page_bitmap]
  BY <1>5, <1>8 DEF Node
<1>10. FirstPages(img, p + 1) = Append(FirstPages(img, p), ImagePage(img, p))
  BY <1>1, FirstPagesType DEF Image, FileSize, Size
<1>11. PageFull(img, p, m.page_bitmap)
  BY <1>5 DEF PageFull
<1>12. r.report_to_send.page = p /\ r.report_to_send.bitmap = m.page_bitmap
  <2>1. \A b : [page |-> p, bitmap |-> b].page = p /\ [page |-> p, bitmap |-> b].bitmap = b
    OBVIOUS
  <2> QED
    BY <1>9, <2>1, Zenon
<1> QED
  BY <1>5, <1>6, <1>9, <1>10, <1>11, <1>12 DEF TookEnd, ReportsNext

LEMMA VerifyTaken ==
  ASSUME NEW img \in Image, NEW m \in Node, NEW a \in Event(img), Took(img, m, a),
         NEW pkt \in PacketsOf(img), pkt.type = "VERIFY", Follows(img, a, pkt),
         NEW r, r = OnVerify(m, pkt)
  PROVE  /\ r.verified = "success"
         /\ r.report_to_send.page = img.size.pages - 1
         /\ PageFull(img, img.size.pages - 1, r.report_to_send.bitmap)
<1>1. /\ a.type = "PAGE_END" /\ a.page + 1 = img.size.pages /\ a.page \in Nat
      /\ TookEnd(img, m, a.page) /\ img.size.pages \in Nat
  BY DEF Follows, IsData, IsEnd, Took, Event, Nothing, PacketsOf, Packet, Page, Image, FileSize,
     Size
<1>2. a.page = img.size.pages - 1 /\ a.page # NoPage
  BY <1>1 DEF NoPage
<1>3. m.running_fw_crc = pkt.crc
  <2>1. m.running_fw_crc = FirstPages(img, img.size.pages)
    BY <1>1 DEF TookEnd
  <2>2. pkt.crc = ImageCrc(img)
    BY DEF PacketsOf, Carries
  <2> QED
    BY <1>1, <2>1, <2>2, FirstPagesType
<1>4. /\ m.current_rx_page_offset = a.page
      /\ PageFull(img, a.page, m.page_bitmap)
  BY <1>1 DEF TookEnd
<1>5. r = [[m EXCEPT !.report_to_send =
              [page |-> m.current_rx_page_offset, bitmap |-> m.page_bitmap]] EXCEPT
             !.current_rx_page_offset = NoPage, !.verified = "success"]
  BY <1>2, <1>3, <1>4 DEF OnVerify, Reported, Verifies
<1> QED
  BY <1>2, <1>4, <1>5 DEF Node

LEMMA NextTaken ==
  ASSUME NEW img \in Image, NEW m \in Node, NEW a \in Event(img), Took(img, m, a),
         NEW pkt \in PacketsOf(img), Follows(img, a, pkt),
         NEW r, r = Handled(m, pkt, LastByteOf(pkt), TRUE, TRUE, TRUE)
  PROVE  Took(img, r, pkt) /\ Forwards(m, pkt) /\ ReportsNext(img, m, pkt, r)
<1>1. CASE pkt.type = "START"
  BY <1>1, StartTaken DEF Handled, Took, Forwards, ReportsNext
<1>2. CASE pkt.type = "DATA"
  <2>1. r = TakesData(m, pkt)
    BY <1>2 DEF Handled, TakesData
  <2>2. TookData(img, r, pkt.page, pkt.chunk)
    BY <1>2, <2>1, DataTaken
  <2>3. ~OlderPage(m, pkt)
    BY <1>2, <2>1, DataTaken
  <2>4. ReportsNext(img, m, pkt, r)
    BY <1>2, <2>1, DataTaken
  <2> QED
    BY <1>2, <2>2, <2>3, <2>4 DEF Took, Forwards
<1>3. CASE pkt.type = "PAGE_END"
  <2>1. r = OnPageEnd(m, pkt, TRUE)
    BY <1>3 DEF Handled
  <2>2. TookEnd(img, r, pkt.page)
    BY <1>3, <2>1, PageEndTaken
  <2>3. ReportsNext(img, m, pkt, r)
    BY <1>3, <2>1, PageEndTaken
  <2> QED
    BY <1>3, <2>2, <2>3 DEF Took, Forwards
<1>4. CASE pkt.type = "VERIFY"
  BY <1>4, VerifyTaken DEF Handled, Took, Forwards, ReportsNext
<1> QED
  BY <1>1, <1>2, <1>3, <1>4 DEF PacketsOf, Packet
-----------------------------------------------------------------------------
(* The packets stay in sequence. *)

LEMMA ConnectsTaken ==
  ASSUME NEW img, NEW a, NEW b, NEW S, NEW q \in Seq(S), q # <<>>, Connects(img, a, q, b)
  PROVE  Follows(img, a, Head(q)) /\ Connects(img, Head(q), Tail(q), b)
<1> DEFINE t == Tail(q)
<1>1. /\ Head(q) = q[1] /\ Len(q) \in Nat \ {0} /\ DOMAIN q = 1 .. Len(q)
      /\ t \in Seq(S) /\ Len(t) = Len(q) - 1 /\ DOMAIN t = 1 .. Len(q) - 1
      /\ \A k \in 1 .. Len(q) - 1 : t[k] = q[k + 1]
  OBVIOUS
<1>2. t = <<>> <=> Len(t) = 0
  <2>1. \A x \in Seq(S) : x = <<>> <=> Len(x) = 0
    OBVIOUS
  <2> QED
    BY <1>1, <2>1
<1> HIDE DEF t
<1>3. /\ t = <<>> => Len(q) = 1
      /\ t # <<>> => Len(q) - 1 \in 1 .. Len(q) - 1
  BY <1>1, <1>2
<1>4. t = <<>> => Head(q) = b
  BY <1>1, <1>3 DEF Connects
<1>5. ASSUME t # <<>>
      PROVE  Follows(img, Head(q), t[1]) /\ t[Len(t)] = b
  <2>1. 1 \in DOMAIN q /\ 1 + 1 \in DOMAIN q /\ 1 \in 1 .. Len(q) - 1
    BY <1>1, <1>3, <1>5
  <2>2. t[1] = q[1 + 1] /\ Follows(img, q[1], q[1 + 1])
    BY <1>1, <2>1 DEF Connects
  <2>3. t[Len(t)] = q[(Len(q) - 1) + 1] /\ (Len(q) - 1) + 1 = Len(q)
    BY <1>1, <1>3, <1>5
  <2> QED
    BY <1>1, <2>2, <2>3 DEF Connects
<1>6. ASSUME NEW k \in DOMAIN t, k + 1 \in DOMAIN t PROVE Follows(img, t[k], t[k + 1])
  <2>1. /\ k \in 1 .. Len(q) - 1 /\ k + 1 \in 1 .. Len(q) - 1
        /\ k + 1 \in DOMAIN q /\ (k + 1) + 1 \in DOMAIN q
    BY <1>1, <1>6
  <2>2. t[k] = q[k + 1] /\ t[k + 1] = q[(k + 1) + 1]
    BY <1>1, <2>1
  <2> QED
    BY <2>1, <2>2 DEF Connects
<1>7. Follows(img, a, Head(q))
  BY <1>1 DEF Connects
<1>8. Connects(img, Head(q), t, b)
  BY <1>4, <1>5, <1>6 DEF Connects
<1> QED
  BY <1>7, <1>8 DEF t

LEMMA ConnectsAppended ==
  ASSUME NEW img, NEW a, NEW b, NEW S, NEW q \in Seq(S), NEW e \in S,
         Connects(img, a, q, b), Follows(img, b, e)
  PROVE  Connects(img, a, Append(q, e), e)
<1> DEFINE t == Append(q, e)
<1>1. /\ Len(q) \in Nat /\ DOMAIN q = 1 .. Len(q)
      /\ t # <<>> /\ Len(t) = Len(q) + 1 /\ DOMAIN t = 1 .. Len(q) + 1
      /\ t[Len(q) + 1] = e
      /\ \A k \in 1 .. Len(q) : t[k] = q[k]
  OBVIOUS
<1>2. q = <<>> <=> Len(q) = 0
  OBVIOUS
<1> HIDE DEF t
<1>3. Follows(img, a, t[1])
  <2>1. CASE q = <<>>
    <3>1. t[1] = e /\ a = b
      BY <1>1, <1>2, <2>1 DEF Connects
    <3> QED
      BY <3>1
  <2>2. CASE q # <<>>
    <3>1. t[1] = q[1] /\ Follows(img, a, q[1])
      BY <1>1, <1>2, <2>2 DEF Connects
    <3> QED
      BY <3>1
  <2> QED
    BY <2>1, <2>2
<1>4. ASSUME NEW k \in DOMAIN t, k + 1 \in DOMAIN t PROVE Follows(img, t[k], t[k + 1])
  <2>1. k \in 1 .. Len(q) /\ t[k] = q[k]
    BY <1>1, <1>4
  <2>2. CASE k = Len(q)
    <3>1. q # <<>> /\ q[Len(q)] = b
      BY <1>1, <1>2, <2>1, <2>2 DEF Connects
    <3> QED
      BY <1>1, <2>1, <2>2, <3>1
  <2>3. CASE k # Len(q)
    <3>1. k + 1 \in 1 .. Len(q) /\ t[k + 1] = q[k + 1]
      BY <1>1, <2>1, <2>3
    <3>2. Follows(img, q[k], q[k + 1])
      BY <1>1, <2>1, <3>1 DEF Connects
    <3> QED
      BY <2>1, <3>1, <3>2
  <2> QED
    BY <2>2, <2>3
<1>5. Connects(img, a, t, e)
  BY <1>1, <1>3, <1>4 DEF Connects
<1> QED
  BY <1>5 DEF t
-----------------------------------------------------------------------------
(* A node takes a packet. *)

\* A packet that is passed on.
LEMMA StaysQueued ==
  ASSUME NEW P, QueuesOf(P), NEW i \in DOMAIN Line, Inbox(i) # <<>>, Passes(i, TRUE),
         NEW j \in DOMAIN Line, NEW k \in DOMAIN Inbox(j), j = i => k # 1
  PROVE  \E l \in DOMAIN Inbox(j)' : Inbox(j)'[l] = Inbox(j)[k]
<1>1. PICK q \in Seq(P) : q = Inbox(j)
  BY InboxType
<1>2. PICK e \in P : e = Head(Inbox(i))
  BY InboxType
<1>3. CASE j = i
  <2>1. k - 1 \in DOMAIN Tail(q) /\ Tail(q)[k - 1] = q[k]
    BY <1>1, <1>3
  <2> QED
    BY <1>1, <1>3, <2>1 DEF Passes
<1>4. CASE j = i + 1
  <2>1. k \in DOMAIN Append(q, e) /\ Append(q, e)[k] = q[k]
    BY <1>1
  <2> QED
    BY <1>1, <1>2, <1>4, <2>1 DEF Passes
<1>5. CASE j # i /\ j # i + 1
  BY <1>5 DEF Passes
<1> QED
  BY <1>3, <1>4, <1>5

LEMMA HeadPassed ==
  ASSUME NEW P, QueuesOf(P), NEW i \in DOMAIN Line, Inbox(i) # <<>>, Passes(i, TRUE),
         i + 1 \in DOMAIN Line
  PROVE  \E l \in DOMAIN Inbox(i + 1)' : Inbox(i + 1)'[l] = Inbox(i)[1]
<1>1. PICK q \in Seq(P) : q = Inbox(i + 1)
  BY InboxType
<1>2. PICK e \in P : e = Inbox(i)[1] /\ e = Head(Inbox(i))
  BY InboxType
<1>3. Inbox(i + 1)' = Append(q, e)
  BY <1>1, <1>2 DEF Passes
<1>4. Len(q) + 1 \in DOMAIN Append(q, e) /\ Append(q, e)[Len(q) + 1] = e
  OBVIOUS
<1> QED
  BY <1>2, <1>3, <1>4

\* Without a fault: what the i-th node makes of the next packet.
TakesNext(i, pkt, r) ==
  /\ Inbox(i) # <<>> /\ Passes(i, TRUE) /\ pkt = Inbox(i)[1] /\ pkt = Head(Inbox(i))
  /\ nodes' = [nodes EXCEPT ![Line[i]] = r]
  /\ ReportsNext(host.file, nodes[Line[i]], pkt, r)
  /\ pkt.type = "DATA" => ~OlderPage(nodes[Line[i]], pkt)
  /\ pkt.type = "PAGE_END" => nodes[Line[i]].current_rx_page_offset = pkt.page

LEMMA ReceiveTakes ==
  ASSUME IInv, NEW i \in DOMAIN Line, Receive(i), lost = 0, lost' = 0,
         NEW img, img = host.file, NEW taken \in [0 .. Len(Line) -> Event(img)], Positions(taken)
  PROVE  /\ QueuesOf(PacketsOf(img))
         /\ \E pkt \in PacketsOf(img) : \E r :
              TakesNext(i, pkt, r) /\ Took(img, r, pkt) /\ Follows(img, taken[i], pkt)
<1> DEFINE m == nodes[Line[i]]
           pkt == Head(Inbox(i))
           r == Handled(m, pkt, LastByteOf(pkt), TRUE, TRUE, TRUE)
<1>1. QueuesOf(PacketsOf(img)) /\ m \in Node /\ img \in Image
  BY FileFacts, LineType DEF IInv, TypeOK, QueuesTypeOK, QueuesOf
<1>2. Inbox(i) # <<>> /\ PassedOn(i, Forwards(m, pkt)) /\ Forwards(m, pkt) \in BOOLEAN
  BY DEF Receive, Forwards
<1>3. Inbox(i) \in Seq(PacketsOf(img)) /\ pkt \in PacketsOf(img) /\ pkt = Inbox(i)[1]
  BY <1>1, <1>2, InboxType
<1>4. taken[i] \in Event(img) /\ Took(img, m, taken[i]) /\ Follows(img, taken[i], pkt)
  <2>1. i \in 0 .. Len(Line)
    BY LineType
  <2>2. Took(img, m, taken[i]) /\ Connects(img, taken[i], Inbox(i), taken[i - 1])
    BY DEF Positions
  <2> QED
    BY <1>2, <1>3, <2>1, <2>2 DEF Connects
<1>5. nodes' = [nodes EXCEPT ![Line[i]] = r]
  <2>1. PICK got :
          /\ nodes' = [nodes EXCEPT ![Line[i]] = got]
          /\ IF got = r THEN UNCHANGED lost ELSE Fault
    BY DEF Receive
  <2>2. ~Fault
    BY DEF Fault
  <2> QED
    BY <2>1, <2>2
<1> HIDE DEF m, pkt, r
<1>6. Took(img, r, pkt) /\ Forwards(m, pkt) /\ ReportsNext(img, m, pkt, r)
  BY <1>1, <1>3, <1>4, NextTaken DEF r
<1>7. Passes(i, TRUE)
  <2>1. PICK fw \in BOOLEAN : fw = Forwards(m, pkt)
    BY <1>2
  <2>2. fw /\ PassedOn(i, fw)
    BY <1>2, <1>6, <2>1
  <2>3. Passes(i, fw)
    BY <1>1, <1>2, <2>2, PassedOnPasses
  <2>4. fw = TRUE
    BY <2>2
  <2> QED
    BY <2>3, <2>4
<1>8. /\ pkt.type = "DATA" => ~OlderPage(m, pkt)
      /\ pkt.type = "PAGE_END" => m.current_rx_page_offset = pkt.page
  <2>1. pkt.type = "DATA" => ~OlderPage(m, pkt)
    BY <1>6 DEF Forwards
  <2>2. ASSUME pkt.type = "PAGE_END" PROVE m.current_rx_page_offset = pkt.page
    <3>1. taken[i].type = "DATA" /\ taken[i].page = pkt.page
      BY <1>4, <2>2 DEF Follows, IsData, IsEnd
    <3> QED
      BY <1>4, <3>1 DEF Took, TookData
  <2> QED
    BY <2>1, <2>2
<1>9. TakesNext(i, pkt, r)
  BY <1>2, <1>3, <1>5, <1>6, <1>7, <1>8 DEF TakesNext, m, pkt
<1> QED
  BY <1>1, <1>3, <1>4, <1>6, <1>9

LEMMA StreamMoves ==
  ASSUME IInv, NEW i \in DOMAIN Line, NEW img, img = host.file, QueuesOf(PacketsOf(img)),
         NEW taken \in [0 .. Len(Line) -> Event(img)], Positions(taken),
         NEW pkt \in PacketsOf(img), NEW r, TakesNext(i, pkt, r), Took(img, r, pkt),
         Follows(img, taken[i], pkt), host' = host, SentLast(taken[0])'
  PROVE  StreamUnbroken'
<1> DEFINE next == [taken EXCEPT ![i] = pkt]
<1>1. /\ next \in [0 .. Len(Line) -> Event(img)] /\ next[i] = pkt
      /\ \A j \in 0 .. Len(Line) : j # i => next[j] = taken[j]
      /\ i \in Nat \ {0} /\ 0 \in 0 .. Len(Line) /\ 0 # i
      /\ \A j \in DOMAIN Line : j \in 0 .. Len(Line) /\ j - 1 \in 0 .. Len(Line)
  BY LineType DEF Event
<1> HIDE DEF next
<1>2. nodes \in [Nodes -> Node] /\ nodes' = [nodes EXCEPT ![Line[i]] = r]
  BY DEF IInv, TypeOK, TakesNext
<1>3. SentLast(next[0])'
  BY <1>1
<1>4. ASSUME NEW j \in DOMAIN Line
      PROVE  /\ Took(img, nodes'[Line[j]], next[j])
             /\ Connects(img, next[j], Inbox(j)', next[j - 1])
  <2>1. Took(img, nodes[Line[j]], taken[j]) /\ Connects(img, taken[j], Inbox(j), taken[j - 1])
    BY DEF Positions
  <2>2. Took(img, nodes'[Line[j]], next[j])
    <3>1. CASE j = i
      <4>1. nodes'[Line[j]] = r
        BY <1>2, <3>1, LineType
      <4> QED
        BY <1>1, <3>1, <4>1
    <3>2. CASE j # i
      <4>1. nodes'[Line[j]] = nodes[Line[j]]
        BY <1>2, <3>2, LineType
      <4> QED
        BY <1>1, <2>1, <3>2, <4>1
    <3> QED
      BY <3>1, <3>2
  <2>3. Inbox(j) \in Seq(PacketsOf(img))
    BY InboxType
  <2>4. Connects(img, next[j], Inbox(j)', next[j - 1])
    <3>1. CASE j = i
      <4>1. /\ next[j] = pkt /\ next[j - 1] = taken[j - 1] /\ Inbox(j)' = Tail(Inbox(j))
            /\ Inbox(j) # <<>> /\ pkt = Head(Inbox(j))
        BY <1>1, <3>1 DEF TakesNext, Passes
      <4> QED
        BY <2>1, <2>3, <4>1, ConnectsTaken
    <3>2. CASE j = i + 1
      <4>1. /\ next[j] = taken[j] /\ next[j - 1] = pkt /\ taken[j - 1] = taken[i]
            /\ Inbox(j)' = Append(Inbox(j), pkt)
        BY <1>1, <3>2 DEF TakesNext, Passes
      <4> QED
        BY <2>1, <2>3, <4>1, ConnectsAppended
    <3>3. CASE j # i /\ j # i + 1
      <4>1. next[j] = taken[j] /\ next[j - 1] = taken[j - 1] /\ Inbox(j)' = Inbox(j)
        BY <1>1, <3>3 DEF TakesNext, Passes
      <4> QED
        BY <2>1, <4>1
    <3> QED
      BY <3>1, <3>2, <3>3
  <2> QED
    BY <2>2, <2>4
<1>5. Positions(next)'
  BY <1>3, <1>4 DEF Positions
<1> QED
  BY <1>1, <1>5 DEF StreamUnbroken

LEMMA NextReport ==
  ASSUME IInv, EndsSent, ReportsAnswer, ReportsRecent,
         NEW i \in DOMAIN Line, NEW img, img = host.file, QueuesOf(PacketsOf(img)),
         NEW pkt \in PacketsOf(img), NEW r, TakesNext(i, pkt, r), Took(img, r, pkt)
  PROVE  /\ r.report_to_send # NoReport => Answers(r.report_to_send)
         /\ ~AllSent => r.report_to_send.page <= r.current_rx_page_offset
         /\ pc = "wait" /\ nodes[Line[i]].report_to_send.page = page_start_offset =>
              r.report_to_send.page = page_start_offset
         /\ IsEnd(pkt, page_start_offset) => r.report_to_send.page = page_start_offset
<1> DEFINE m == nodes[Line[i]]
<1>1. /\ m \in Node /\ pkt = Inbox(i)[1] /\ 1 \in DOMAIN Inbox(i) /\ pkt \in Packet
      /\ ReportsNext(img, m, pkt, r) /\ img \in Image
      /\ pkt.type = "DATA" => ~OlderPage(m, pkt)
      /\ pkt.type = "PAGE_END" => m.current_rx_page_offset = pkt.page
  <2>1. m \in Node /\ img \in Image
    BY FileFacts, LineType DEF IInv, TypeOK
  <2>2. Inbox(i) \in Seq(PacketsOf(img)) /\ Inbox(i) # <<>>
    BY InboxType DEF TakesNext
  <2> QED
    BY <2>1, <2>2 DEF TakesNext, PacketsOf
<1>2. /\ Line[i] \in Nodes
      /\ m.report_to_send # NoReport => Answers(m.report_to_send)
      /\ ~AllSent => m.report_to_send.page <= m.current_rx_page_offset
  BY LineType DEF ReportsAnswer, ReportsRecent
<1>3. /\ m.report_to_send.page \in Int /\ m.current_rx_page_offset \in Int
      /\ page_start_offset \in Nat
  <2>1. m.report_to_send \in [page : Page \cup {NoPage}, bitmap : SUBSET Chunk]
    BY <1>1, NodeFields
  <2>2. m.report_to_send.page \in Int
    BY <2>1 DEF Page, NoPage
  <2> QED
    BY <1>1, <2>2, NodeFields, HostFacts
<1> HIDE DEF m
<1>4. CASE pkt.type = "START"
  <2>1. r.report_to_send = m.report_to_send
    BY <1>1, <1>4 DEF ReportsNext
  <2>2. m.current_rx_page_offset = NoPage
    BY <1>1, <1>4, LineType DEF IInv, StartFirst, m
  <2>3. r.current_rx_page_offset = NoPage
    BY <1>4 DEF Took, TookStart
  <2> QED
    BY <1>2, <1>4, <2>1, <2>2, <2>3 DEF IsEnd, m
<1>5. CASE pkt.type = "DATA"
  <2>1. r.report_to_send = m.report_to_send
    BY <1>1, <1>5 DEF ReportsNext
  <2>2. r.current_rx_page_offset >= m.current_rx_page_offset /\ r.current_rx_page_offset \in Int
    <3>1. pkt.page \in Int
      BY <1>1, <1>5 DEF Packet, Page
    <3> QED
      BY <1>1, <1>3, <1>5, <3>1 DEF Took, TookData, OlderPage
  <2>3. ~AllSent => r.report_to_send.page <= r.current_rx_page_offset
    BY <1>2, <1>3, <2>1, <2>2
  <2> QED
    BY <1>2, <1>5, <2>1, <2>3 DEF IsEnd, m
<1>6. CASE pkt.type = "PAGE_END"
  <2>1. r.report_to_send.page = pkt.page /\ PageFull(img, pkt.page, r.report_to_send.bitmap)
    BY <1>1, <1>6 DEF ReportsNext
  <2>2. pkt.page \in Page /\ pkt.page \in Int
    BY <1>1, <1>6 DEF Packet, Page
  <2>3. Ended(pkt.page)
    BY <1>1, <1>6, LineType DEF EndsSent
  <2>4. Answers(r.report_to_send)
    BY <2>1, <2>2, <2>3 DEF Answers
  <2>5. r.report_to_send.page <= r.current_rx_page_offset
    BY <1>6, <2>1, <2>2 DEF Took, TookEnd
  <2>6. ASSUME pc = "wait", m.report_to_send.page = page_start_offset
        PROVE  r.report_to_send.page = page_start_offset
    <3>1. ~AllSent
      BY <2>6 DEF AllSent
    <3>2. page_start_offset <= pkt.page
      BY <1>1, <1>2, <1>6, <2>6, <3>1
    <3> QED
      BY <1>3, <2>1, <2>2, <2>3, <3>2 DEF Ended
  <2> QED
    BY <2>1, <2>4, <2>5, <2>6 DEF IsEnd, m
<1>7. CASE pkt.type = "VERIFY"
  <2>1. r.report_to_send.page = img.size.pages - 1
        /\ PageFull(img, img.size.pages - 1, r.report_to_send.bitmap)
    BY <1>1, <1>7 DEF ReportsNext
  <2>2. AllSent
    BY <1>1, <1>7 DEF IInv, VerifyLast
  <2>3. pc = "idle" /\ page_start_offset = img.size.pages
    BY <2>2 DEF AllSent
  <2>4. img.size.pages - 1 \in Page /\ img.size.pages - 1 < page_start_offset
    BY <1>1, <2>3, FilePage DEF Image, FileSize, Size, Page
  <2>5. Answers(r.report_to_send)
    BY <2>1, <2>4 DEF Answers, Ended
  <2> QED
    BY <1>7, <2>2, <2>3, <2>5 DEF IsEnd
<1> QED
  BY <1>1, <1>4, <1>5, <1>6, <1>7 DEF Packet

LEMMA SentIsSent == TypeOK /\ Sent => ~NotSent
<1> SUFFICES ASSUME TypeOK, Sent, NotSent PROVE FALSE
  OBVIOUS
<1>1. current_file_size = NoFile /\ host.file.size \in FileSize
  BY FileFacts DEF NotSent, Untouched
<1> QED
  BY <1>1 DEF Sent, FileSize, NoFile

LEMMA QueuedBefore ==
  ASSUME NEW i \in DOMAIN Line, Elements(i), NEW j \in DOMAIN Line, NEW k \in DOMAIN Inbox(j)'
  PROVE  \E x \in DOMAIN Line : \E y \in DOMAIN Inbox(x) : Inbox(j)'[k] = Inbox(x)[y]
<1>1. CASE j = i
  BY <1>1 DEF Elements
<1>2. CASE j = i + 1
  BY <1>2 DEF Elements
<1>3. CASE j # i /\ j # i + 1
  BY <1>3 DEF Elements
<1> QED
  BY <1>1, <1>2, <1>3

\* Neither a hop nor a report in flight changes what was sent.
Stays == UNCHANGED <<transferVars, processVars, page_buffer, uart, host, commands, starts>>

LEMMA StaysEffect ==
  ASSUME IInv, IInv', Stays, Sent
  PROVE  /\ ~NotSent /\ ~NotSent' /\ (AllSent' <=> AllSent)
         /\ \A a : SentLast(a)' <=> SentLast(a)
         /\ \A page : Ended(page)' <=> Ended(page)
         /\ \A report : Answers(report)' <=> Answers(report)
         /\ host' = host /\ pc' = pc /\ page_start_offset' = page_start_offset
<1>1. UNCHANGED <<current_file_size, page_start_offset, pc, dist_chunk_idx, uart, host>>
  BY DEF Stays, transferVars, processVars
<1>2. Sent' /\ (AllSent' <=> AllSent)
  BY <1>1 DEF Sent, AllSent
<1>3. ~NotSent /\ ~NotSent'
  <2>1. (TypeOK /\ Sent => ~NotSent)'
    BY SentIsSent, PTL
  <2> QED
    BY <1>2, <2>1, SentIsSent DEF IInv
<1>4. ASSUME NEW a PROVE SentLast(a)' <=> SentLast(a)
  BY <1>1, <1>2, <1>3 DEF SentLast, PageBefore
<1>5. ASSUME NEW page PROVE Ended(page)' <=> Ended(page)
  BY <1>1 DEF Ended
<1>6. ASSUME NEW report PROVE Answers(report)' <=> Answers(report)
  BY <1>1, <1>5 DEF Answers
<1> QED
  BY <1>1, <1>2, <1>3, <1>4, <1>5, <1>6

\* The session of a transfer without a fault is the beginning of the line.
LEMMA SessionFacts ==
  ASSUME IInv, SessionOfRoutes, ~NotSent
  PROVE  /\ \A w \in DOMAIN session_nodes : w \in DOMAIN Line /\ session_nodes[w] = Line[w]
         /\ DOMAIN session_nodes # {} /\ \A w \in DOMAIN session_nodes : w \in Index
<1> DEFINE n == IF Len(Line) < MAX_NODES THEN Len(Line) ELSE MAX_NODES
<1>1. n \in 1 .. Len(Line) /\ n \in 1 .. MAX_NODES /\ Len(Line) \in Nat
  BY LineType, CoordinatorAssumption
<1>2. session_nodes = SubSeq(Line, 1, n)
  BY DEF SessionOfRoutes, PopulateSessionNodes
<1> HIDE DEF n
<1>3. /\ DOMAIN SubSeq(Line, 1, n) = 1 .. n
      /\ \A w \in 1 .. n : SubSeq(Line, 1, n)[w] = Line[w]
  BY <1>1, LineType
<1>4. /\ DOMAIN session_nodes = 1 .. n
      /\ \A w \in 1 .. n : session_nodes[w] = Line[w]
  BY <1>2, <1>3
<1>5. 1 \in 1 .. n /\ 1 .. n \subseteq DOMAIN Line /\ 1 .. n \subseteq Index
  BY <1>1, LineType, CoordinatorAssumption DEF Index
<1> QED
  BY <1>4, <1>5

LEMMA RoundMoves ==
  ASSUME IInv, Delivered, NEW i \in DOMAIN Line, NEW img, img = host.file,
         QueuesOf(PacketsOf(img)),
         NEW pkt \in PacketsOf(img), NEW r, TakesNext(i, pkt, r), Took(img, r, pkt), ~NotSent,
         UNCHANGED <<session_nodes, node_replied, session_bitmaps, reports, pc, page_start_offset,
                     host>>
  PROVE  RoundOpen'
<1> SUFFICES ASSUME pc = "wait", NEW w \in DOMAIN session_nodes, ~node_replied[w]
             PROVE  (Asked(w) \/ AnswerOnWay(Line[w]))'
  BY DEF RoundOpen, Delivered
<1>1. w \in DOMAIN Line /\ Line[w] \in Nodes /\ nodes \in [Nodes -> Node]
  BY SessionFacts, LineType DEF Delivered, IInv, TypeOK
<1>2. /\ Inbox(i) # <<>> /\ Passes(i, TRUE) /\ pkt = Inbox(i)[1]
      /\ nodes' = [nodes EXCEPT ![Line[i]] = r]
  BY DEF TakesNext
<1>3. /\ pc = "wait" /\ nodes[Line[i]].report_to_send.page = page_start_offset =>
           r.report_to_send.page = page_start_offset
      /\ IsEnd(pkt, page_start_offset) => r.report_to_send.page = page_start_offset
  BY NextReport DEF Delivered
<1>4. CASE AnswerOnWay(Line[w])
  <2>1. CASE \E rep \in reports : rep.node = Line[w] /\ rep.report.page = page_start_offset
    BY <2>1 DEF AnswerOnWay
  <2>2. CASE nodes[Line[w]].report_to_send.page = page_start_offset
    <3>1. nodes'[Line[w]].report_to_send.page = page_start_offset
      <4>1. CASE w = i
        BY <1>1, <1>2, <1>3, <2>2, <4>1
      <4>2. CASE w # i
        <5>1. Line[w] # Line[i]
          BY <1>1, <4>2, LineType
        <5> QED
          BY <1>1, <1>2, <2>2, <5>1
      <4> QED
        BY <4>1, <4>2
    <3> QED
      BY <3>1 DEF AnswerOnWay
  <2> QED
    BY <1>4, <2>1, <2>2 DEF AnswerOnWay
<1>5. ASSUME NEW j \in DOMAIN Line, j <= w, NEW k \in DOMAIN Inbox(j),
             IsEnd(Inbox(j)[k], page_start_offset)
      PROVE  (Asked(w) \/ AnswerOnWay(Line[w]))'
  <2>1. CASE j = i => k # 1
    <3>1. PICK l \in DOMAIN Inbox(j)' : Inbox(j)'[l] = Inbox(j)[k]
      BY <1>2, <2>1, StaysQueued
    <3>2. IsEnd(Inbox(j)'[l], page_start_offset')
      BY <1>5, <3>1 DEF IsEnd
    <3> QED
      BY <1>5, <3>1, <3>2 DEF Asked
  <2>2. CASE j = i /\ k = 1
    <3>1. IsEnd(pkt, page_start_offset)
      BY <1>2, <1>5, <2>2
    <3>2. CASE w = i
      <4>1. nodes'[Line[w]].report_to_send.page = page_start_offset
        BY <1>1, <1>2, <1>3, <3>1, <3>2
      <4> QED
        BY <4>1 DEF AnswerOnWay
    <3>3. CASE w # i
      <4>1. i + 1 \in DOMAIN Line /\ i + 1 <= w
        BY <1>1, <1>5, <2>2, <3>3, LineType
      <4>2. PICK l \in DOMAIN Inbox(i + 1)' : Inbox(i + 1)'[l] = pkt
        BY <1>2, <4>1, HeadPassed
      <4>3. IsEnd(Inbox(i + 1)'[l], page_start_offset')
        BY <3>1, <4>2
      <4> QED
        BY <4>1, <4>2, <4>3 DEF Asked
    <3> QED
      BY <3>2, <3>3
  <2> QED
    BY <2>1, <2>2
<1>6. Asked(w) \/ AnswerOnWay(Line[w])
  BY DEF Delivered, RoundOpen
<1> QED
  BY <1>4, <1>5, <1>6 DEF Asked

LEMMA ReceiveDelivers ==
  ASSUME IInv, IInv', Delivered, NEW i \in DOMAIN Line, Receive(i), lost = 0, lost' = 0
  PROVE  Delivered'
<1> PICK img : img = host.file
  OBVIOUS
<1>1. PICK taken \in [0 .. Len(Line) -> Event(img)] : Positions(taken)
  BY DEF Delivered, StreamUnbroken
<1>0. PICK pkt \in PacketsOf(img) : \E r :
        TakesNext(i, pkt, r) /\ Took(img, r, pkt) /\ Follows(img, taken[i], pkt)
  BY <1>1, ReceiveTakes
<1>2. PICK r : TakesNext(i, pkt, r) /\ Took(img, r, pkt) /\ Follows(img, taken[i], pkt)
  BY <1>0
<1>3. QueuesOf(PacketsOf(img)) /\ Elements(i) /\ Sent
  <2>1. QueuesOf(PacketsOf(img)) /\ Inbox(i) # <<>> /\ Passes(i, TRUE)
    BY <1>1, <1>2, ReceiveTakes DEF TakesNext
  <2>2. Elements(i)
    BY <2>1, PassedElements
  <2> QED
    BY <2>1, <2>2, QueuedIsSent DEF IInv
<1>4. /\ Stays /\ UNCHANGED <<session_nodes, node_replied, session_bitmaps, bitmap_event>>
      /\ reports' = reports
  BY DEF Receive, Stays, hostAndCoordinatorVars, senderVars, sessionVars
<1>5. /\ ~NotSent /\ ~NotSent' /\ (AllSent' <=> AllSent)
      /\ \A a : SentLast(a)' <=> SentLast(a)
      /\ \A page : Ended(page)' <=> Ended(page)
      /\ \A report : Answers(report)' <=> Answers(report)
      /\ host' = host /\ pc' = pc /\ page_start_offset' = page_start_offset
  BY <1>3, <1>4, StaysEffect
<1>6. StreamUnbroken'
  BY <1>1, <1>2, <1>3, <1>5, StreamMoves DEF Positions
<1>7. SessionOfRoutes'
  BY <1>4, <1>5 DEF Delivered, SessionOfRoutes
<1>8. EndsSent'
  <2> SUFFICES ASSUME NEW j \in DOMAIN Line, NEW k \in DOMAIN Inbox(j)',
                      Inbox(j)'[k].type = "PAGE_END"
               PROVE  Ended(Inbox(j)'[k].page)
    BY <1>5 DEF EndsSent
  <2>1. PICK x \in DOMAIN Line : \E y \in DOMAIN Inbox(x) : Inbox(j)'[k] = Inbox(x)[y]
    BY <1>3, QueuedBefore
  <2>2. PICK y \in DOMAIN Inbox(x) : Inbox(j)'[k] = Inbox(x)[y]
    BY <2>1
  <2> QED
    BY <2>2 DEF Delivered, EndsSent
<1>9. /\ nodes \in [Nodes -> Node] /\ nodes' = [nodes EXCEPT ![Line[i]] = r]
      /\ Line[i] \in Nodes
  BY <1>2, LineType DEF IInv, TypeOK, TakesNext
<1>10. /\ r.report_to_send # NoReport => Answers(r.report_to_send)
       /\ ~AllSent => r.report_to_send.page <= r.current_rx_page_offset
  BY <1>2, <1>3, NextReport DEF Delivered
<1>11. ReportsAnswer'
  <2>1. \A rep \in reports' : Answers(rep.report)'
    BY <1>4, <1>5 DEF Delivered, ReportsAnswer
  <2>2. ASSUME NEW node \in Nodes, nodes'[node].report_to_send # NoReport
        PROVE  Answers(nodes[node].report_to_send)'
    <3>1. PICK rep : rep = nodes'[node].report_to_send
      OBVIOUS
    <3>2. Answers(rep)
      <4>1. CASE node = Line[i]
        BY <1>9, <1>10, <2>2, <3>1, <4>1
      <4>2. CASE node # Line[i]
        BY <1>9, <2>2, <3>1, <4>2 DEF Delivered, ReportsAnswer
      <4> QED
        BY <4>1, <4>2
    <3>3. Answers(rep)'
      BY <1>5, <3>2
    <3> QED
      BY <3>1, <3>3
  <2> QED
    BY <2>1, <2>2 DEF ReportsAnswer
<1>12. ReportsRecent'
  <2> SUFFICES ASSUME ~AllSent, NEW node \in Nodes
               PROVE  nodes'[node].report_to_send.page <= nodes'[node].current_rx_page_offset
    BY <1>5 DEF ReportsRecent
  <2> QED
    BY <1>9, <1>10 DEF Delivered, ReportsRecent
<1>13. RoundOpen'
  BY <1>2, <1>3, <1>4, <1>5, RoundMoves
<1>14. RoundClosed'
  BY <1>4, <1>5 DEF Delivered, RoundClosed, AllReplied
<1> QED
  BY <1>6, <1>7, <1>8, <1>11, <1>12, <1>13, <1>14 DEF Delivered
-----------------------------------------------------------------------------
(* Reports leave and arrive. *)

\* The stream does not depend on the reports.
LEMMA StreamRests ==
  ASSUME StreamUnbroken, host'.file = host.file, \A a : SentLast(a) => SentLast(a)',
         UNCHANGED <<line, hop>>,
         \A i \in DOMAIN Line : \A a :
           Took(host.file, nodes[Line[i]], a) => Took(host.file, nodes'[Line[i]], a)
  PROVE  StreamUnbroken'
<1> PICK img : img = host.file
  OBVIOUS
<1>1. PICK taken \in [0 .. Len(Line) -> Event(img)] : Positions(taken)
  BY DEF StreamUnbroken
<1>2. \A i : Inbox(i)' = Inbox(i)
  BY QueuesRest
<1>3. SentLast(taken[0])'
  BY <1>1 DEF Positions
<1>4. ASSUME NEW i \in DOMAIN Line
      PROVE  /\ Took(img, nodes'[Line[i]], taken[i])
             /\ Connects(img, taken[i], Inbox(i)', taken[i - 1])
  BY <1>1, <1>2 DEF Positions
<1>5. Positions(taken)'
  BY <1>3, <1>4 DEF Positions
<1> QED
  BY <1>1, <1>5 DEF StreamUnbroken

LEMMA EndsRest ==
  ASSUME EndsSent, UNCHANGED <<line, hop>>, \A page : Ended(page) => Ended(page)'
  PROVE  EndsSent'
<1>1. \A i : Inbox(i)' = Inbox(i)
  BY QueuesRest
<1> SUFFICES ASSUME NEW i \in DOMAIN Line, NEW k \in DOMAIN Inbox(i)', Inbox(i)'[k].type = "PAGE_END"
             PROVE  Ended(Inbox(i)[k].page)'
  BY <1>1 DEF EndsSent
<1>2. PICK page : page = Inbox(i)[k].page
  OBVIOUS
<1>3. Ended(page)
  BY <1>1, <1>2 DEF EndsSent
<1>4. Ended(page)'
  BY <1>3
<1>5. page = Inbox(i)'[k].page
  BY <1>1, <1>2
<1> QED
  BY <1>4, <1>5, <1>1

LEMMA SendReportDelivers ==
  ASSUME IInv, IInv', Delivered, NEW node \in Nodes, SendReport(node)
  PROVE  Delivered'
<1> DEFINE m == nodes[node]
           r == ReportSent(m)
<1>1. /\ m \in Node /\ nodes \in [Nodes -> Node] /\ m.report_to_send # NoReport
      /\ nodes' = [nodes EXCEPT ![node] = r]
      /\ reports' = reports \cup {BitmapReportOf(node, m.report_to_send)}
      /\ UNCHANGED <<hostAndCoordinatorVars, line, hop>>
  BY DEF SendReport, IInv, TypeOK
<1>2. Sent
  <2>1. ~NotSent
    BY <1>1 DEF NotSent, Untouched, Boot
  <2> QED
    BY <2>1 DEF IInv, InStep
<1>3. Stays /\ UNCHANGED <<session_nodes, node_replied, session_bitmaps, bitmap_event>>
  BY <1>1 DEF Stays, hostAndCoordinatorVars, senderVars, sessionVars
<1>4. /\ ~NotSent /\ ~NotSent' /\ (AllSent' <=> AllSent)
      /\ \A a : SentLast(a)' <=> SentLast(a)
      /\ \A page : Ended(page)' <=> Ended(page)
      /\ \A report : Answers(report)' <=> Answers(report)
      /\ host' = host /\ pc' = pc /\ page_start_offset' = page_start_offset
  BY <1>2, <1>3, StaysEffect
<1>5. /\ r.flash = m.flash /\ r.current_file_size = m.current_file_size
      /\ r.running_fw_crc = m.running_fw_crc /\ r.page_bitmap = m.page_bitmap
      /\ r.current_rx_page_offset = m.current_rx_page_offset
      /\ r.page_0_erased = m.page_0_erased /\ r.verified = m.verified
      /\ r.report_to_send = NoReport
  BY <1>1 DEF ReportSent, Node
<1> HIDE DEF r
<1>6. StreamUnbroken'
  <2>1. ASSUME NEW i \in DOMAIN Line, NEW a, Took(host.file, nodes[Line[i]], a)
        PROVE  Took(host.file, nodes'[Line[i]], a)
    <3>1. CASE Line[i] = node
      <4>1. nodes'[Line[i]] = r
        BY <1>1, <3>1
      <4>2. Took(host.file, m, a)
        BY <2>1, <3>1
      <4> QED
        BY <1>5, <4>1, <4>2 DEF Took, TookStart, TookData, TookEnd
    <3>2. CASE Line[i] # node
      <4>1. nodes'[Line[i]] = nodes[Line[i]]
        BY <1>1, <3>2, LineType
      <4> QED
        BY <2>1, <4>1
    <3> QED
      BY <3>1, <3>2
  <2> QED
    BY <1>1, <1>4, <2>1, StreamRests DEF Delivered
<1>7. SessionOfRoutes'
  BY <1>3, <1>4 DEF Delivered, SessionOfRoutes
<1>8. EndsSent'
  BY <1>1, <1>4, EndsRest DEF Delivered
<1>9. Answers(m.report_to_send)
  BY <1>1 DEF Delivered, ReportsAnswer
<1>10. ReportsAnswer'
  <2>1. ASSUME NEW rep \in reports' PROVE Answers(rep.report)'
    <3>1. PICK report : report = rep.report
      OBVIOUS
    <3>2. Answers(report)
      BY <1>1, <1>9, <3>1 DEF Delivered, ReportsAnswer, BitmapReportOf
    <3> QED
      BY <1>4, <3>1, <3>2
  <2>2. ASSUME NEW n \in Nodes, nodes'[n].report_to_send # NoReport
        PROVE  Answers(nodes[n].report_to_send)'
    <3>1. nodes'[n] = nodes[n]
      BY <1>1, <1>5, <2>2
    <3>2. PICK report : report = nodes[n].report_to_send
      OBVIOUS
    <3>3. Answers(report)'
      BY <1>4, <2>2, <3>1, <3>2 DEF Delivered, ReportsAnswer
    <3>4. report = nodes'[n].report_to_send
      BY <3>1, <3>2
    <3> QED
      BY <3>3, <3>4
  <2> QED
    BY <2>1, <2>2 DEF ReportsAnswer
<1>11. ReportsRecent'
  <2> SUFFICES ASSUME ~AllSent, NEW n \in Nodes
               PROVE  nodes'[n].report_to_send.page <= nodes'[n].current_rx_page_offset
    BY <1>4 DEF ReportsRecent
  <2>1. CASE n = node
    <3>1. m.current_rx_page_offset \in Page \cup {NoPage} /\ NoReport.page = NoPage
      BY <1>1, NodeFields DEF NoReport
    <3>2. NoPage <= m.current_rx_page_offset
      BY <3>1 DEF Page, NoPage
    <3> QED
      BY <1>1, <1>5, <2>1, <3>1, <3>2
  <2>2. CASE n # node
    BY <1>1, <2>2 DEF Delivered, ReportsRecent
  <2> QED
    BY <2>1, <2>2
<1>12. RoundOpen'
  <2> SUFFICES ASSUME pc = "wait", NEW w \in DOMAIN session_nodes, ~node_replied[w]
               PROVE  (Asked(w) \/ AnswerOnWay(Line[w]))'
    BY <1>3, <1>4 DEF RoundOpen, Delivered
  <2>1. Asked(w) \/ AnswerOnWay(Line[w])
    BY DEF Delivered, RoundOpen
  <2>2. CASE Asked(w)
    <3>1. \A i : Inbox(i)' = Inbox(i)
      BY <1>1, QueuesRest
    <3> QED
      BY <1>4, <2>2, <3>1 DEF Asked
  <2>3. CASE \E rep \in reports : rep.node = Line[w] /\ rep.report.page = page_start_offset
    BY <1>1, <1>4, <2>3 DEF AnswerOnWay
  <2>4. CASE nodes[Line[w]].report_to_send.page = page_start_offset
    <3>1. Line[w] \in Nodes
      BY <1>4, SessionFacts, LineType DEF Delivered
    <3>2. CASE Line[w] = node
      <4> DEFINE rep == BitmapReportOf(node, m.report_to_send)
      <4>1. rep \in reports' /\ rep.node = Line[w] /\ rep.report.page = page_start_offset
        BY <1>1, <2>4, <3>2 DEF BitmapReportOf
      <4> QED
        BY <1>4, <4>1 DEF AnswerOnWay
    <3>3. CASE Line[w] # node
      <4>1. nodes'[Line[w]] = nodes[Line[w]]
        BY <1>1, <3>1, <3>3
      <4> QED
        BY <1>4, <2>4, <4>1 DEF AnswerOnWay
    <3> QED
      BY <3>2, <3>3
  <2> QED
    BY <2>1, <2>2, <2>3, <2>4 DEF AnswerOnWay
<1>13. RoundClosed'
  BY <1>3, <1>4 DEF Delivered, RoundClosed, AllReplied
<1> QED
  BY <1>6, <1>7, <1>8, <1>10, <1>11, <1>12, <1>13 DEF Delivered

LEMMA DeliverReportDelivers ==
  ASSUME IInv, IInv', Delivered, NEW rep \in reports, DeliverReport(rep)
  PROVE  Delivered'
<1>1. /\ reports' = reports \ {rep} /\ UNCHANGED <<nodes, line, hop>>
      /\ HandleBitmapReport(rep.node, rep.report.page, rep.report.bitmap)
  BY DEF DeliverReport, DeliverBitmapReport, HandleBitmapReport
<1>2. Sent
  <2>1. ~NotSent
    BY DEF NotSent, Untouched
  <2> QED
    BY <2>1 DEF IInv, InStep
<1>3. Stays /\ session_nodes' = session_nodes
  BY DEF DeliverReport, DeliverBitmapReport, HandleBitmapReport, Stays, senderVars, sessionVars
<1>4. /\ ~NotSent /\ ~NotSent' /\ (AllSent' <=> AllSent)
      /\ \A a : SentLast(a)' <=> SentLast(a)
      /\ \A page : Ended(page)' <=> Ended(page)
      /\ \A report : Answers(report)' <=> Answers(report)
      /\ host' = host /\ pc' = pc /\ page_start_offset' = page_start_offset
  BY <1>2, <1>3, StaysEffect
<1>5. StreamUnbroken'
  BY <1>1, <1>4, StreamRests DEF Delivered
<1>6. SessionOfRoutes'
  BY <1>3, <1>4 DEF Delivered, SessionOfRoutes
<1>7. EndsSent'
  BY <1>1, <1>4, EndsRest DEF Delivered
<1>8. ReportsAnswer'
  <2>1. \A x \in reports' : Answers(x.report)'
    BY <1>1, <1>4 DEF Delivered, ReportsAnswer
  <2>2. ASSUME NEW n \in Nodes, nodes'[n].report_to_send # NoReport
        PROVE  Answers(nodes[n].report_to_send)'
    <3>1. PICK report : report = nodes[n].report_to_send
      OBVIOUS
    <3>2. Answers(report)'
      BY <1>1, <1>4, <2>2, <3>1 DEF Delivered, ReportsAnswer
    <3> QED
      BY <1>1, <3>1, <3>2
  <2> QED
    BY <2>1, <2>2 DEF ReportsAnswer
<1>9. ReportsRecent'
  BY <1>1, <1>4 DEF Delivered, ReportsRecent
<1>10. /\ \A w \in DOMAIN session_nodes : w \in DOMAIN Line /\ session_nodes[w] = Line[w] /\ w \in Index
       /\ \A i : Inbox(i)' = Inbox(i)
       /\ node_replied \in [Index -> BOOLEAN] /\ session_bitmaps \in [Index -> SUBSET Chunk]
  BY <1>1, <1>4, SessionFacts, QueuesRest DEF Delivered, IInv, TypeOK, CoordinatorTypeOK
<1>11. CASE IgnoresBitmapReport(rep.node, rep.report.page)
  <2>1. UNCHANGED <<node_replied, session_bitmaps, bitmap_event>>
    BY <1>1, <1>11 DEF HandleBitmapReport, sessionVars
  <2>2. RoundOpen'
    <3> SUFFICES ASSUME pc = "wait", NEW w \in DOMAIN session_nodes, ~node_replied[w]
                 PROVE  (Asked(w) \/ AnswerOnWay(Line[w]))'
      BY <1>3, <1>4, <2>1 DEF RoundOpen, Delivered
    <3>1. Asked(w) \/ AnswerOnWay(Line[w])
      BY DEF Delivered, RoundOpen
    <3>2. Asked(w) => Asked(w)'
      BY <1>4, <1>10 DEF Asked
    <3>3. ~(rep.node = Line[w] /\ rep.report.page = page_start_offset)
      BY <1>10, <1>11 DEF IgnoresBitmapReport, FindSessionNode
    <3>4. AnswerOnWay(Line[w]) => AnswerOnWay(Line[w])'
      BY <1>1, <1>4, <3>3 DEF AnswerOnWay
    <3> QED
      BY <3>1, <3>2, <3>4
  <2>3. RoundClosed'
    BY <1>3, <1>4, <2>1 DEF Delivered, RoundClosed, AllReplied
  <2> QED
    BY <1>5, <1>6, <1>7, <1>8, <1>9, <2>2, <2>3 DEF Delivered
<1>12. CASE ~IgnoresBitmapReport(rep.node, rep.report.page)
  <2>1. PICK i \in FindSessionNode(rep.node) :
          /\ node_replied' = [node_replied EXCEPT ![i] = TRUE]
          /\ session_bitmaps' = [session_bitmaps EXCEPT ![i] = rep.report.bitmap]
          /\ bitmap_event' = (bitmap_event \/ (AllReplied(session_nodes, node_replied') /\ pc # "idle"))
    BY <1>1, <1>12 DEF HandleBitmapReport
  <2>2. i \in DOMAIN session_nodes /\ i \in Index /\ rep.node = Line[i] /\ i \in DOMAIN Line
    BY <1>10, <2>1 DEF FindSessionNode
  <2>3. rep.report.page = page_start_offset /\ pc = "wait"
        /\ PageFull(host.file, page_start_offset, rep.report.bitmap)
    <3>1. rep.report.page = page_start_offset
      BY <1>12 DEF IgnoresBitmapReport
    <3>2. Answers(rep.report) /\ page_start_offset \in Nat
      BY HostFacts DEF Delivered, ReportsAnswer
    <3> QED
      BY <3>1, <3>2 DEF Answers, Ended
  <2>4. /\ node_replied'[i] /\ session_bitmaps'[i] = rep.report.bitmap
        /\ \A w \in DOMAIN session_nodes : w # i =>
             node_replied'[w] = node_replied[w] /\ session_bitmaps'[w] = session_bitmaps[w]
    BY <1>10, <2>1, <2>2
  <2>5. RoundOpen'
    <3>1. \A w \in DOMAIN session_nodes :
            node_replied'[w] => PageFull(host.file, page_start_offset, session_bitmaps'[w])
      BY <2>3, <2>4 DEF Delivered, RoundOpen
    <3>2. ASSUME NEW w \in DOMAIN session_nodes, ~node_replied'[w]
          PROVE  (Asked(w) \/ AnswerOnWay(Line[w]))'
      <4>1. w # i /\ ~node_replied[w]
        BY <2>4, <3>2
      <4>2. Asked(w) \/ AnswerOnWay(Line[w])
        BY <2>3, <4>1 DEF Delivered, RoundOpen
      <4>3. Asked(w) => Asked(w)'
        BY <1>4, <1>10 DEF Asked
      <4>4. rep.node # Line[w]
        BY <1>10, <2>2, <4>1, LineType
      <4>5. AnswerOnWay(Line[w]) => AnswerOnWay(Line[w])'
        BY <1>1, <1>4, <4>4 DEF AnswerOnWay
      <4> QED
        BY <4>2, <4>3, <4>5
    <3> QED
      BY <1>3, <1>4, <3>1, <3>2 DEF RoundOpen
  <2>6. RoundClosed'
    <3>1. AllReplied(session_nodes, node_replied) => AllReplied(session_nodes, node_replied')
      BY <2>4 DEF AllReplied
    <3>2. bitmap_event' <=> AllReplied(session_nodes, node_replied')
      BY <2>1, <2>3, <3>1 DEF Delivered, RoundClosed
    <3> QED
      BY <1>3, <1>4, <2>3, <3>2 DEF RoundClosed, AllReplied
  <2> QED
    BY <1>5, <1>6, <1>7, <1>8, <1>9, <2>5, <2>6 DEF Delivered
<1> QED
  BY <1>11, <1>12
-----------------------------------------------------------------------------
(* The coordinator sends a packet, or none. *)

LEMMA StreamQueued ==
  ASSUME NEW img, img = host.file, QueuesOf(PacketsOf(img)),
         NEW taken \in [0 .. Len(Line) -> Event(img)], Positions(taken),
         NEW pkt \in PacketsOf(img), Queued(pkt), Follows(img, taken[0], pkt), SentLast(pkt)'
  PROVE  StreamUnbroken'
<1> DEFINE next == [taken EXCEPT ![0] = pkt]
<1>1. /\ next \in [0 .. Len(Line) -> Event(img)] /\ next[0] = pkt
      /\ \A j \in DOMAIN Line : next[j] = taken[j] /\ (j # 1 => next[j - 1] = taken[j - 1])
  BY LineType DEF Event
<1> HIDE DEF next
<1>2. /\ nodes' = nodes /\ host' = host /\ Inbox(1)' = Append(Inbox(1), pkt)
      /\ \A j \in DOMAIN Line : j # 1 => Inbox(j)' = Inbox(j)
  BY DEF Queued, Inbox
<1>3. SentLast(next[0])'
  BY <1>1
<1>4. ASSUME NEW j \in DOMAIN Line
      PROVE  /\ Took(img, nodes'[Line[j]], next[j])
             /\ Connects(img, next[j], Inbox(j)', next[j - 1])
  <2>1. Took(img, nodes[Line[j]], taken[j]) /\ Connects(img, taken[j], Inbox(j), taken[j - 1])
    BY DEF Positions
  <2>2. CASE j = 1
    <3>1. Inbox(1) \in Seq(PacketsOf(img)) /\ next[1 - 1] = pkt /\ taken[1 - 1] = taken[0]
      BY <1>1, <2>2, InboxType
    <3>2. Connects(img, taken[1], Inbox(1), taken[0])
      BY <2>1, <2>2, <3>1
    <3>3. Connects(img, taken[1], Append(Inbox(1), pkt), pkt)
      BY <3>1, <3>2, ConnectsAppended
    <3> QED
      BY <1>1, <1>2, <2>1, <2>2, <3>1, <3>3
  <2>3. CASE j # 1
    BY <1>1, <1>2, <2>1, <2>3
  <2> QED
    BY <2>2, <2>3
<1>5. Positions(next)'
  BY <1>2, <1>3, <1>4 DEF Positions
<1> QED
  BY <1>1, <1>2, <1>5 DEF StreamUnbroken

LEMMA EndsQueued ==
  ASSUME EndsSent, NEW P, QueuesOf(P), NEW pkt \in P, Queued(pkt),
         \A page : Ended(page) => Ended(page)', pkt.type = "PAGE_END" => Ended(pkt.page)'
  PROVE  EndsSent'
<1> SUFFICES ASSUME NEW i \in DOMAIN Line, NEW k \in DOMAIN Inbox(i)', Inbox(i)'[k].type = "PAGE_END"
             PROVE  Ended(Inbox(i)[k].page)'
  BY DEF EndsSent
<1>1. PICK page : page = Inbox(i)'[k].page
  OBVIOUS
<1>2. CASE k \in DOMAIN Inbox(i) /\ Inbox(i)'[k] = Inbox(i)[k]
  <2>1. Ended(page)
    BY <1>1, <1>2 DEF EndsSent
  <2> QED
    BY <1>1, <2>1
<1>3. CASE Inbox(i)'[k] = pkt
  BY <1>1, <1>3
<1> QED
  BY <1>2, <1>3, QueuedElements

LEMMA ReportsRest ==
  ASSUME ReportsAnswer, UNCHANGED <<nodes, reports>>, host'.file = host.file,
         \A page : Ended(page) => Ended(page)'
  PROVE  ReportsAnswer'
<1>1. ASSUME NEW report, Answers(report) PROVE Answers(report)'
  BY <1>1 DEF Answers
<1>2. \A r \in reports' : Answers(r.report)'
  BY <1>1 DEF ReportsAnswer
<1>3. ASSUME NEW node \in Nodes, nodes'[node].report_to_send # NoReport
      PROVE  Answers(nodes[node].report_to_send)'
  <2>1. PICK report : report = nodes[node].report_to_send
    OBVIOUS
  <2>2. Answers(report)'
    BY <1>1, <1>3, <2>1 DEF ReportsAnswer
  <2> QED
    BY <2>1, <2>2
<1> QED
  BY <1>2, <1>3 DEF ReportsAnswer
-----------------------------------------------------------------------------
(* A step of distribute_process. *)

\* The process at work, its page not sent to the end or its reports awaited.
LEMMA AtWorkFacts ==
  ASSUME IInv, Delivered, pc # "idle"
  PROVE  /\ host.at \notin {"verify", "done"} /\ pc \in {"chunk", "pageEnd", "wait"}
         /\ \A w \in DOMAIN session_nodes : w \in Index /\ w \in DOMAIN Line
         /\ \A w \in DOMAIN session_nodes : session_nodes[w] = Line[w]
         /\ DOMAIN session_nodes # {}
<1>1. ~NotSent /\ Sent
  BY WorkingFacts
<1>2. host.at \notin {"verify", "done"}
  BY <1>1 DEF IInv, InStep, SendsData, WaitsForPage, SendsVerify, Stopped, At
<1>3. pc \in {"chunk", "pageEnd", "wait"}
  BY DEF Delivered, RoundClosed, IInv, TypeOK, CoordinatorTypeOK
<1> QED
  BY <1>1, <1>2, <1>3, SessionFacts DEF Delivered

\* A page that is still distributed after the step.
LEMMA GoesOn ==
  ASSUME IInv, IInv', Delivered, pc # "idle", pc' # "idle", ProcessLeaves,
         UNCHANGED <<page_start_offset, session_nodes>>
  PROVE  /\ ~NotSent' /\ ~AllSent' /\ SessionOfRoutes' /\ ReportsRecent'
         /\ host'.at \notin {"verify", "done"} /\ UNCHANGED <<nodes, hop, reports, host>>
<1>1. UNCHANGED <<nodes, hop, reports, host>>
  BY DEF ProcessLeaves, senderVars
<1>2. ~NotSent /\ ~AllSent
  BY WorkingFacts
<1>3. ~NotSent' /\ ~AllSent'
  BY DEF NotSent, Untouched, At, AllSent
<1>4. ReportsRecent'
  BY <1>1, <1>2 DEF Delivered, ReportsRecent
<1>5. SessionOfRoutes'
  BY <1>2 DEF Delivered, SessionOfRoutes
<1> QED
  BY <1>1, <1>3, <1>4, <1>5, AtWorkFacts

LEMMA SendChunkDelivers ==
  ASSUME IInv, IInv', Delivered, Distributes, SendChunk
  PROVE  Delivered'
<1> PICK img : img = host.file
  OBVIOUS
<1> DEFINE p == page_start_offset
           idx == dist_chunk_idx
<1> PICK pkt : pkt = DataPkt(p, idx, img.data[p][idx], NoTarget)
  OBVIOUS
<1>1. /\ pc = "chunk" /\ pc' = "chunk" /\ idx < total_chunks
      /\ line' = Append(line, ChunkPkt(idx)) /\ dist_chunk_idx' = idx + 1
      /\ UNCHANGED <<session_nodes, node_replied, session_bitmaps, bitmap_event>>
      /\ UNCHANGED <<page_start_offset, page_buffer, ota_target_slot>>
  BY DEF SendChunk, SendToAll, sessionVars, transferVars
<1>2. ProcessLeaves /\ UNCHANGED <<nodes, hop, reports, host>>
  BY <1>1 DEF Distributes, ProcessLeaves, systemVars, networkVars, senderVars
<1>3. /\ ~NotSent' /\ ~AllSent' /\ SessionOfRoutes' /\ ReportsRecent'
      /\ host'.at \notin {"verify", "done"}
  BY <1>1, <1>2, GoesOn
<1>4. /\ p \in Page /\ p \in Nat /\ p < img.size.pages /\ img.size.pages \in Nat
      /\ total_chunks = PageLen(img.size, p) /\ total_chunks \in 1 .. PageChunks
      /\ idx \in 0 .. total_chunks - 1 /\ idx \in Nat /\ img \in Image
      /\ page_buffer[idx] = img.data[p][idx] /\ ~NotSent
  <2>1. img \in Image /\ img.size.pages \in Nat
    BY HostFacts DEF Image, FileSize, Size
  <2>2. /\ p \in Page /\ p < img.size.pages /\ total_chunks = PageLen(img.size, p)
        /\ total_chunks \in 1 .. PageChunks /\ ~NotSent
        /\ \A c \in 0 .. total_chunks - 1 : page_buffer[c] = img.data[p][c]
    BY <1>1, WorkingFacts
  <2>3. idx \in 0 .. total_chunks - 1 /\ idx \in Nat
    BY <1>1, <2>2, WireAssumption DEF IInv, TypeOK, CoordinatorTypeOK
  <2> QED
    BY <2>1, <2>2, <2>3 DEF Page
<1>5. pkt \in PacketsOf(img) /\ pkt.type = "DATA" /\ IsData(pkt, p, idx)
  <2>1. idx \in Chunk /\ img.data[p][idx] \in Cell
    BY <1>4, WireAssumption DEF Chunk, Image
  <2> QED
    BY <1>4, <2>1 DEF DataPkt, PacketsOf, Packet, Carries, IsData
<1>6. Queued(pkt)
  <2>1. ChunkPkt(idx) = pkt
    BY <1>4 DEF ChunkPkt, IInv, TypeOK, CoordinatorTypeOK
  <2> QED
    BY <1>1, <1>2, <2>1 DEF Queued
<1>7. PICK taken \in [0 .. Len(Line) -> Event(img)] : Positions(taken)
  BY DEF Delivered, StreamUnbroken
<1>8. Follows(img, taken[0], pkt)
  <2>1. SentLast(taken[0])
    BY <1>7 DEF Positions
  <2>2. CASE idx = 0
    <3>1. PageBefore(taken[0], p)
      BY <1>1, <2>1, <2>2 DEF SentLast
    <3> QED
      BY <1>4, <1>5, <2>2, <3>1 DEF PageBefore, Follows, IsEnd, IsData
  <2>3. CASE idx > 0
    <3>1. IsData(taken[0], p, idx - 1)
      BY <1>1, <2>1, <2>3 DEF SentLast
    <3>2. taken[0].chunk + 1 = idx /\ taken[0].type = "DATA" /\ taken[0].page = p
      BY <1>4, <3>1 DEF IsData
    <3>3. idx < PageLen(img.size, p)
      BY <1>1, <1>4
    <3> QED
      BY <1>5, <3>2, <3>3 DEF Follows
  <2> QED
    BY <1>4, <2>2, <2>3
<1>9. SentLast(pkt)'
  <2>1. dist_chunk_idx' > 0 /\ dist_chunk_idx' - 1 = idx /\ dist_chunk_idx' # 0
    BY <1>1, <1>4
  <2>2. IsData(pkt, page_start_offset', dist_chunk_idx' - 1)
    BY <1>1, <1>5, <2>1
  <2> QED
    BY <1>1, <1>3, <1>5, <2>1, <2>2 DEF SentLast
<1>10. QueuesOf(PacketsOf(img))
  BY DEF IInv, TypeOK, QueuesTypeOK, QueuesOf
<1>11. StreamUnbroken'
  BY <1>5, <1>6, <1>7, <1>8, <1>9, <1>10, StreamQueued
<1>12. \A page : Ended(page) => Ended(page)'
  BY <1>1 DEF Ended
<1>13. EndsSent' /\ ReportsAnswer'
  BY <1>2, <1>5, <1>6, <1>10, <1>12, EndsQueued, ReportsRest DEF Delivered
<1>14. RoundOpen' /\ RoundClosed'
  BY <1>1 DEF Delivered, RoundOpen, RoundClosed, AllReplied
<1> QED
  BY <1>3, <1>11, <1>13, <1>14 DEF Delivered
LEMMA ChunksSentDelivers ==
  ASSUME IInv, IInv', Delivered, Distributes, ChunksSent
  PROVE  Delivered'
<1> PICK img : img = host.file
  OBVIOUS
<1> DEFINE p == page_start_offset
<1> PICK pkt : pkt = PageEndPkt(p, ImagePage(img, p), NoTarget)
  OBVIOUS
<1>1. /\ pc = "chunk" /\ dist_chunk_idx = total_chunks /\ RoundHead(0)
      /\ UNCHANGED <<session_nodes, session_bitmaps, bitmap_event>>
      /\ UNCHANGED <<page_buffer, ota_target_slot>>
  BY DEF ChunksSent
<1>2. ProcessLeaves /\ UNCHANGED <<nodes, hop, reports, host>>
  BY <1>1 DEF Distributes, ProcessLeaves, systemVars, networkVars, senderVars
<1>3. /\ p \in Page /\ p \in Nat /\ p < img.size.pages
      /\ total_chunks = PageLen(img.size, p) /\ total_chunks \in 1 .. PageChunks
      /\ total_chunks \in Nat /\ img \in Image /\ ~NotSent
      /\ end_pkt = pkt
  <2>1. img \in Image
    BY HostFacts
  <2>2. /\ p \in Page /\ p < img.size.pages /\ total_chunks = PageLen(img.size, p)
        /\ total_chunks \in 1 .. PageChunks /\ ~NotSent
        /\ end_pkt = PageEndPkt(p, ImagePage(img, p), NoTarget)
    BY <1>1, WorkingFacts
  <2> QED
    BY <2>1, <2>2, WireAssumption DEF Page
<1>4. ~PageIsComplete(session_nodes, session_bitmaps) /\ ~AllReplied(session_nodes, [i \in Index |-> FALSE])
  <2>1. PICK w \in DOMAIN session_nodes : w \in Index
    BY <1>1, AtWorkFacts
  <2>2. session_bitmaps[w] = {}
    BY <1>1 DEF Delivered, RoundClosed
  <2>3. 0 \in 0 .. total_chunks - 1
    BY <1>3, WireAssumption
  <2> QED
    BY <2>1, <2>2, <2>3 DEF PageIsComplete, AllReplied
<1>5. /\ node_replied' = [i \in Index |-> FALSE] /\ end_pkt' = pkt
      /\ PageEndOrWait(pkt)
      /\ UNCHANGED <<transferVars, dist_chunk_idx, total_chunks, uart>>
  <2>1. /\ node_replied' = [i \in Index |-> FALSE]
        /\ end_pkt' = PageEndPkt(page_start_offset, end_pkt.crc, ota_target_slot)
        /\ PageEndOrWait(end_pkt')
        /\ UNCHANGED <<transferVars, dist_chunk_idx, total_chunks, uart>>
    BY <1>1, <1>4, CoordinatorAssumption DEF RoundHead
  <2>2. end_pkt' = pkt
    BY <1>3, <2>1 DEF PageEndPkt, IInv, TypeOK, CoordinatorTypeOK
  <2> QED
    BY <2>1, <2>2
<1>6. page_start_offset' = p /\ (pc' = "wait" \/ pc' = "pageEnd")
  BY <1>5 DEF transferVars, PageEndOrWait
<1>7. /\ ~NotSent' /\ ~AllSent' /\ SessionOfRoutes' /\ ReportsRecent'
      /\ host'.at \notin {"verify", "done"}
  BY <1>1, <1>2, <1>6, GoesOn
<1>8. pkt \in PacketsOf(img) /\ pkt.type = "PAGE_END" /\ IsEnd(pkt, p)
  <2>1. img.data[p] \in [Chunk -> Cell] /\ PageLen(img.size, p) \in 0 .. PageChunks
    BY <1>3, WireAssumption DEF Image
  <2>2. ImagePage(img, p) \in PageContent
    BY <2>1, PrefixType DEF ImagePage
  <2> QED
    BY <1>3, <2>2 DEF PageEndPkt, PacketsOf, Packet, Carries, IsEnd
<1>9. PICK taken \in [0 .. Len(Line) -> Event(img)] : Positions(taken)
  BY DEF Delivered, StreamUnbroken
<1>10. \A page : Ended(page) => Ended(page)'
  BY <1>1, <1>6 DEF Ended
<1>11. ~bitmap_event'
  BY <1>1 DEF Delivered, RoundClosed
<1>12. RoundClosed'
  BY <1>1, <1>4, <1>5, <1>6, <1>11 DEF RoundClosed, AllReplied
<1>13. ReportsAnswer'
  BY <1>2, <1>10, ReportsRest DEF Delivered
<1>14. QueuesOf(PacketsOf(img))
  BY DEF IInv, TypeOK, QueuesTypeOK, QueuesOf
<1>15. IsData(taken[0], p, total_chunks - 1)
  <2>1. SentLast(taken[0])
    BY <1>9 DEF Positions
  <2>2. dist_chunk_idx > 0
    BY <1>1, <1>3, WireAssumption
  <2> QED
    BY <1>1, <2>1, <2>2 DEF SentLast
<1>16. CASE pc' = "wait"
  <2>1. Queued(pkt)
    BY <1>2, <1>5, <1>16 DEF PageEndOrWait, SendToAll, Queued
  <2>2. Follows(img, taken[0], pkt)
    <3>1. taken[0].type = "DATA" /\ taken[0].page = p /\ taken[0].chunk + 1 = PageLen(img.size, p)
      BY <1>3, <1>15 DEF IsData
    <3> QED
      BY <1>8, <3>1 DEF Follows
  <2>3. SentLast(pkt)'
    BY <1>6, <1>7, <1>8, <1>16 DEF SentLast
  <2>4. StreamUnbroken'
    BY <1>8, <1>9, <1>14, <2>1, <2>2, <2>3, StreamQueued
  <2>5. Ended(p)'
    BY <1>6, <1>16 DEF Ended
  <2>6. EndsSent'
    BY <1>8, <1>10, <1>14, <2>1, <2>5, EndsQueued DEF Delivered, IsEnd
  <2>7. \E k \in DOMAIN Inbox(1)' : IsEnd(Inbox(1)'[k], page_start_offset')
    <3>1. PICK k \in DOMAIN Inbox(1)' : Inbox(1)'[k] = pkt
      BY <1>8, <1>14, <2>1, QueuedElements
    <3> QED
      BY <1>6, <1>8, <3>1
  <2>8. RoundOpen'
    <3> SUFFICES ASSUME NEW w \in DOMAIN session_nodes
                 PROVE  ~node_replied'[w] /\ Asked(w)'
      BY <1>1 DEF RoundOpen
    <3>1. w \in Index /\ w \in DOMAIN Line /\ 1 \in DOMAIN Line /\ 1 <= w
      BY <1>1, AtWorkFacts, LineType
    <3> QED
      BY <1>5, <2>7, <3>1 DEF Asked
  <2> QED
    BY <1>7, <1>12, <1>13, <2>4, <2>6, <2>8 DEF Delivered
<1>17. CASE pc' = "pageEnd"
  <2>1. line' = line
    BY <1>5, <1>17 DEF PageEndOrWait
  <2>2. StreamUnbroken'
    <3>1. \A i : Inbox(i)' = Inbox(i)
      BY <1>2, <2>1, QueuesRest
    <3>2. SentLast(taken[0])'
      <4>1. taken[0].type = "DATA"
        BY <1>15 DEF IsData
      <4> QED
        BY <1>7, <1>17, <4>1 DEF SentLast
    <3>3. Positions(taken)'
      BY <1>2, <1>9, <3>1, <3>2 DEF Positions
    <3> QED
      BY <1>2, <1>9, <3>3 DEF StreamUnbroken
  <2>3. EndsSent'
    BY <1>2, <1>10, <2>1, EndsRest DEF Delivered
  <2>4. RoundOpen'
    BY <1>17 DEF RoundOpen
  <2> QED
    BY <1>7, <1>12, <1>13, <2>2, <2>3, <2>4 DEF Delivered
<1> QED
  BY <1>6, <1>16, <1>17
\* All reports are in, and full: the page is done.
LEMMA AllRepliedDelivers ==
  ASSUME IInv, IInv', Delivered, Distributes, AllRepliedEvent
  PROVE  Delivered'
<1> PICK img : img = host.file
  OBVIOUS
<1> DEFINE p == page_start_offset
<1>1. /\ bitmap_event /\ bitmap_event' = FALSE
      /\ UNCHANGED <<session_nodes, session_bitmaps, ota_target_slot, page_buffer>>
  BY DEF AllRepliedEvent
<1>2. ProcessLeaves /\ UNCHANGED <<nodes, hop, reports, host>>
  BY <1>1 DEF Distributes, ProcessLeaves, systemVars, networkVars, senderVars
<1>3. pc = "wait" /\ AllReplied(session_nodes, node_replied)
  BY <1>1 DEF Delivered, RoundClosed
<1>4. /\ p \in Nat /\ total_chunks = PageLen(img.size, p) /\ ExpectedPageSize \in 1 .. PageChunks
      /\ ~NotSent /\ ~AllSent /\ host.at \notin {"verify", "done"} /\ Sent
  BY <1>3, WorkingFacts, AtWorkFacts DEF Page
<1>5. PageIsComplete(session_nodes, session_bitmaps)
  <2>1. ASSUME NEW w \in DOMAIN session_nodes PROVE 0 .. total_chunks - 1 \subseteq session_bitmaps[w]
    <3>1. PageFull(img, p, session_bitmaps[w])
      BY <1>3 DEF Delivered, RoundOpen, AllReplied
    <3> QED
      BY <1>4, <3>1 DEF PageFull
  <2> QED
    BY <2>1 DEF PageIsComplete
<1>6. /\ page_start_offset' = p + 1 /\ pc' = "idle"
      /\ UNCHANGED <<node_replied, line, current_file_size>>
  <2>1. AdvancePage
    BY <1>1, <1>3, <1>5 DEF AllRepliedEvent, LeaveWait
  <2>2. ExpectedPageSize # 0
    BY <1>4
  <2> QED
    BY <2>1, <2>2 DEF AdvancePage
<1>7. ~NotSent'
  <2>1. Sent'
    BY <1>2, <1>4, <1>6 DEF Sent
  <2>2. (TypeOK /\ Sent => ~NotSent)'
    BY SentIsSent, PTL
  <2> QED
    BY <2>1, <2>2 DEF IInv
<1>8. PICK taken \in [0 .. Len(Line) -> Event(img)] : Positions(taken)
  BY DEF Delivered, StreamUnbroken
<1>9. SentLast(taken[0])'
  <2>1. IsEnd(taken[0], p)
    BY <1>3, <1>8 DEF Positions, SentLast
  <2>2. PICK next : next = p + 1
    OBVIOUS
  <2>3. PageBefore(taken[0], next)
    <3>1. next > 0 /\ next # 0 /\ next - 1 = p
      BY <1>4, <2>2
    <3> QED
      BY <2>1, <3>1 DEF PageBefore
  <2>4. PageBefore(taken[0], page_start_offset)'
    BY <1>6, <2>2, <2>3 DEF PageBefore
  <2> QED
    BY <1>2, <1>4, <1>6, <1>7, <2>1, <2>4 DEF SentLast, IsEnd
<1>10. StreamUnbroken'
  <2>1. \A i : Inbox(i)' = Inbox(i)
    BY <1>2, <1>6, QueuesRest
  <2>2. Positions(taken)'
    BY <1>2, <1>8, <1>9, <2>1 DEF Positions
  <2> QED
    BY <1>2, <1>8, <2>2 DEF StreamUnbroken
<1>11. \A page : Ended(page) => Ended(page)'
  <2> SUFFICES ASSUME NEW page, Ended(page) PROVE page < p + 1
    BY <1>6 DEF Ended
  <2>1. CASE page = p
    BY <1>4, <2>1
  <2>2. CASE page < p
    BY <1>4, <2>2
  <2> QED
    BY <2>1, <2>2 DEF Ended
<1>12. EndsSent' /\ ReportsAnswer'
  BY <1>2, <1>6, <1>11, EndsRest, ReportsRest DEF Delivered
<1>13. SessionOfRoutes' /\ ReportsRecent' /\ RoundOpen' /\ RoundClosed'
  BY <1>1, <1>2, <1>4, <1>6 DEF Delivered, SessionOfRoutes, ReportsRecent, RoundOpen, RoundClosed
<1> QED
  BY <1>10, <1>12, <1>13 DEF Delivered

\* No report is waited for in vain.
LEMMA NoTimeout == ASSUME IInv, Delivered, NetworkQuiet, ~bitmap_event PROVE pc # "wait"
<1> SUFFICES ASSUME pc = "wait" PROVE FALSE
  OBVIOUS
<1>1. \A i \in DOMAIN Line : Inbox(i) = <<>>
  <2>1. \A i \in DOMAIN Line : i = 1 \/ i - 1 \in DOMAIN Line
    BY LineType
  <2> QED
    BY <2>1 DEF NetworkQuiet, NothingInFlight, Inbox
<1>2. PICK w \in DOMAIN session_nodes : ~node_replied[w]
  BY DEF Delivered, RoundClosed, AllReplied
<1>3. Line[w] \in Nodes /\ page_start_offset \in Nat
  BY AtWorkFacts, LineType, HostFacts
<1>4. Asked(w) \/ AnswerOnWay(Line[w])
  BY <1>2 DEF Delivered, RoundOpen
<1>5. ~Asked(w)
  BY <1>1 DEF Asked
<1>6. nodes[Line[w]].report_to_send.page = NoPage /\ reports = {}
  BY <1>3 DEF NetworkQuiet, NothingInFlight, NoReport
<1> QED
  BY <1>3, <1>4, <1>5, <1>6 DEF AnswerOnWay, NoPage

LEMMA DistributesDelivers ==
  ASSUME IInv, IInv', Delivered, Distributes
  PROVE  Delivered'
<1>1. CASE SendChunk \/ ChunksSent
  BY <1>1, SendChunkDelivers, ChunksSentDelivers
<1>2. CASE AllRepliedEvent
  BY <1>2, AllRepliedDelivers
<1>3. ~(NetworkQuiet /\ ~bitmap_event /\ ReportTimeout)
  BY NoTimeout DEF ReportTimeout
<1>4. ~ResendMissing
  BY DEF ResendMissing, Resend, Delivered, RoundClosed
<1> QED
  BY <1>1, <1>2, <1>3, <1>4 DEF Distributes, SendPage, WaitForReports
-----------------------------------------------------------------------------
(* A step of the script or of the serial link. *)

\* Before START.
LEMMA NotSentDelivers == IInv /\ NotSent /\ ~bitmap_event => Delivered
<1> SUFFICES ASSUME IInv, NotSent, ~bitmap_event PROVE Delivered
  OBVIOUS
<1> PICK img : img = host.file
  OBVIOUS
<1>1. /\ pc = "idle" /\ reports = {} /\ host.at \notin {"verify", "done"}
      /\ \A node \in Nodes : nodes[node] = Boot(OldFlash)
  BY DEF NotSent, Untouched, At
<1>2. \A i \in DOMAIN Line : Inbox(i) = <<>> /\ DOMAIN Inbox(i) = {}
  <2>1. \A i \in DOMAIN Line : i = 1 \/ i - 1 \in DOMAIN Line
    BY LineType
  <2> QED
    BY <2>1 DEF NotSent, Untouched, Inbox
<1> DEFINE taken == [i \in 0 .. Len(Line) |-> Nothing]
<1>3. /\ taken \in [0 .. Len(Line) -> Event(img)] /\ taken[0] = Nothing
      /\ \A i \in DOMAIN Line : taken[i] = Nothing /\ taken[i - 1] = Nothing
  BY LineType DEF Event
<1> HIDE DEF taken
<1>4. SentLast(taken[0])
  BY <1>1, <1>3 DEF SentLast, Nothing
<1>5. ASSUME NEW i \in DOMAIN Line
      PROVE  /\ Took(img, nodes[Line[i]], taken[i])
             /\ Connects(img, taken[i], Inbox(i), taken[i - 1])
  BY <1>2, <1>3 DEF Took, Connects, Nothing
<1>6. StreamUnbroken
  BY <1>3, <1>4, <1>5 DEF StreamUnbroken, Positions
<1>7. \A node \in Nodes : nodes[node].report_to_send = NoReport
                            /\ nodes[node].current_rx_page_offset = NoPage
  BY <1>1 DEF Boot
<1>8. ReportsAnswer /\ ReportsRecent
  <2>1. NoReport.page = NoPage /\ NoPage <= NoPage
    BY DEF NoReport, NoPage
  <2> QED
    BY <1>1, <1>7, <2>1 DEF ReportsAnswer, ReportsRecent
<1>9. EndsSent /\ RoundOpen /\ RoundClosed /\ SessionOfRoutes
  BY <1>1, <1>2 DEF EndsSent, RoundOpen, RoundClosed, SessionOfRoutes
<1> QED
  BY <1>6, <1>8, <1>9 DEF Delivered

\* VERIFY was taken by the coordinator.
VerifySent == host.at = "done" \/ (host.at = "verify" /\ uart # <<>>)
VerifyDue == host.at = "verify" /\ uart = <<>>

LEMMA HostDelivers ==
  ASSUME IInv, IInv', Delivered, HostLeaves, ~NotSent, ~NotSent', host'.file = host.file,
         AllSent => AllSent', VerifySent' => VerifySent, AllSent /\ VerifyDue' => VerifyDue
  PROVE  Delivered'
<1>1. /\ UNCHANGED <<session_nodes, node_replied, session_bitmaps, current_file_size>>
      /\ UNCHANGED <<page_start_offset, pc, dist_chunk_idx, line, nodes, hop, reports>>
  BY HostFrame
<1>2. bitmap_event' = bitmap_event
  BY DEF HostLeaves, coordinatorOnlyVars
<1>3. ASSUME NEW a, SentLast(a) PROVE SentLast(a)'
  BY <1>1, <1>3 DEF SentLast, PageBefore, VerifySent, VerifyDue
<1>4. \A page : Ended(page) => Ended(page)'
  BY <1>1 DEF Ended
<1>5. StreamUnbroken' /\ EndsSent' /\ ReportsAnswer'
  BY <1>1, <1>3, <1>4, StreamRests, EndsRest, ReportsRest DEF Delivered
<1>6. ReportsRecent' /\ SessionOfRoutes'
  BY <1>1 DEF Delivered, ReportsRecent, SessionOfRoutes
<1>7. RoundOpen'
  <2>1. \A i : Inbox(i)' = Inbox(i)
    BY <1>1, QueuesRest
  <2>2. \A w : Asked(w) => Asked(w)'
    BY <1>1, <2>1 DEF Asked
  <2>3. \A node : AnswerOnWay(node) => AnswerOnWay(node)'
    BY <1>1 DEF AnswerOnWay
  <2> QED
    BY <1>1, <2>2, <2>3 DEF Delivered, RoundOpen
<1>8. RoundClosed'
  BY <1>1, <1>2 DEF Delivered, RoundClosed, AllReplied
<1> QED
  BY <1>5, <1>6, <1>7, <1>8 DEF Delivered
\* How the script may go on.
GoesOnFrom(at) ==
  /\ host'.file = host.file
  /\ host'.at = "verify" => (at = "page" /\ uart' = <<>>) \/ (at = "verify" /\ uart' = uart)
  /\ host'.at = "done" => at = "done" \/ (at = "verify" /\ uart # <<>>)
  /\ at \in {"verify", "done", "failed"} => host'.at \in {"verify", "done", "failed"}

LEMMA ReadLineGoesOn == ASSUME IInv, ~NotSent, ReadLine PROVE GoesOnFrom(host.at)
<1>1. uart # <<>> /\ uart' = Tail(uart)
  BY DEF ReadLine
<1>2. /\ host.at = "start" \/ host.at = "data" \/ host.at = "verify" => Head(uart) = "ACK"
      /\ host.at = "page" => Head(uart) = "PAGE_OK" /\ Tail(uart) = <<>>
  <2>1. /\ Head(<<"ACK">>) = "ACK" /\ Head(<<"ACK", "PAGE_OK">>) = "ACK"
        /\ Head(<<"PAGE_OK">>) = "PAGE_OK" /\ Tail(<<"PAGE_OK">>) = <<>>
    OBVIOUS
  <2> QED
    BY <1>1, <2>1 DEF IInv, InStep, SendsData, WaitsForPage, SendsVerify, Stopped
<1>3. CASE ReadInStart(Head(uart))
  BY <1>2, <1>3, HostFacts DEF ReadInStart, Send, DataAt, GoesOnFrom, HostType
<1>4. CASE ReadInData(Head(uart))
  BY <1>4, HostFacts DEF ReadInData, Send, DataAt, Become, GoesOnFrom, HostType
<1>5. CASE ReadInPage(Head(uart))
  BY <1>1, <1>2, <1>5, HostFacts DEF ReadInPage, Send, DataAt, GoesOnFrom, HostType
<1>6. CASE ReadInVerify(Head(uart))
  BY <1>1, <1>6, HostFacts DEF ReadInVerify, Become, GoesOnFrom, HostType
<1>7. CASE ~Understands(Head(uart)) /\ UNCHANGED <<host, commands>>
  BY <1>2, <1>7 DEF Understands, GoesOnFrom
<1> QED
  BY <1>3, <1>4, <1>5, <1>6, <1>7 DEF ReadLine

LEMMA HostGoesOn ==
  ASSUME IInv, Transfers, SenderOnly, ~NotSent
  PROVE  GoesOnFrom(host.at)
<1>1. ~(\E img \in Images, sec_ver \in SecVers, target \in SentTargets :
          RunScript(img, sec_ver, target))
  <2>1. starts > 0 /\ starts \in Nat
    BY HostFacts DEF IInv, InStep
  <2>2. ~(starts < MaxStarts)
    BY <2>1, SenderAssumption DEF Transfers, OneRun
  <2> QED
    BY <2>2 DEF RunScript
<1>2. CASE CommandTimeout
  BY <1>2, HostFacts DEF CommandTimeout, Send, Become, GoesOnFrom, HostType
<1>3. CASE StartTimeout \/ PageTimeout
  BY <1>3, HostFacts DEF StartTimeout, PageTimeout, Become, GoesOnFrom, HostType
<1>4. CASE LinkLoses
  BY <1>4 DEF LinkLoses, Transfers, ReliableAnswers, GoesOnFrom
<1> QED
  BY <1>1, <1>2, <1>3, <1>4, ReadLineGoesOn DEF SenderOnly

LEMMA HostStepDelivers ==
  ASSUME IInv, IInv', Delivered, Transfers, HostStep
  PROVE  Delivered'
<1>1. HostLeaves /\ SenderOnly
  BY DEF HostStep, SenderStep, HostLeaves
<1>2. /\ UNCHANGED <<current_file_size, page_start_offset, pc>>
      /\ bitmap_event' = bitmap_event
  BY <1>1, HostFrame DEF HostLeaves, coordinatorOnlyVars
<1>3. CASE NotSent'
  <2>1. ~bitmap_event'
    <3>1. pc' = "idle"
      BY <1>3 DEF NotSent, Untouched, At
    <3> QED
      BY <1>2, <3>1 DEF Delivered, RoundClosed
  <2>2. (IInv /\ NotSent /\ ~bitmap_event => Delivered)'
    BY NotSentDelivers, PTL
  <2> QED
    BY <1>3, <2>1, <2>2
<1>4. CASE ~NotSent'
  <2>1. ~NotSent
    <3>1. Sent' /\ host'.file \in Image
      <4>1. (IInv => host.file \in Image)'
        BY HostFacts, PTL
      <4> QED
        BY <1>4, <4>1 DEF IInv, InStep
    <3>2. current_file_size # NoFile
      BY <1>2, <3>1 DEF Sent, Image, FileSize, NoFile
    <3> QED
      BY <3>2 DEF NotSent, Untouched
  <2>2. GoesOnFrom(host.at)
    BY <1>1, <2>1, HostGoesOn
  <2>3. AllSent => AllSent'
    BY <1>2, <2>2 DEF GoesOnFrom, AllSent, Sent
  <2>4. VerifySent' => VerifySent
    BY <2>2 DEF GoesOnFrom, VerifySent
  <2>5. AllSent /\ VerifyDue' => VerifyDue
    BY <2>2 DEF GoesOnFrom, VerifyDue, AllSent
  <2>6. host'.file = host.file
    BY <2>2 DEF GoesOnFrom
  <2> QED
    BY <1>1, <1>4, <2>1, <2>3, <2>4, <2>5, <2>6, HostDelivers
<1> QED
  BY <1>3, <1>4
-----------------------------------------------------------------------------
(* The coordinator takes a command. *)

LEMMA StartDelivers ==
  ASSUME IInv, IInv', Delivered, CommandLeaves, commands # <<>>, Head(commands).type = "S",
         LegacyUartStart(Line, Head(commands).size)
  PROVE  Delivered'
<1> PICK img : img = host.file
  OBVIOUS
<1> PICK pkt : pkt = StartPkt(img.size, OTA_START_SEC_VER_UNKNOWN, NoTarget)
  OBVIOUS
<1>1. /\ session_nodes' = PopulateSessionNodes(Line)
      /\ current_file_size' = Head(commands).size /\ page_start_offset' = 0
      /\ UNCHANGED <<pc, bitmap_event, nodes, hop, reports, host>>
      /\ line' = Append(line, StartPkt(Head(commands).size, OTA_START_SEC_VER_UNKNOWN, NoTarget))
  BY DEF CommandLeaves, LegacyUartStart, SendToAll, ResetTransferState, processVars
<1>2. /\ NotSent /\ host.at = "start" /\ Untouched
      /\ \E v \in SecVers, t \in SentTargets : commands = <<StartCmd(img, v, t)>>
  <2>1. Head(<<VerifyCmd(img)>>).type = "V"
    BY OneCommand DEF VerifyCmd
  <2>2. Head(<<DataCmd(img, host.page, host.chunk)>>).type = "D"
    BY OneCommand DEF DataCmd
  <2>3. NotSent
    BY <2>1, <2>2 DEF IInv, InStep, SendsData, WaitsForPage, SendsVerify, Stopped
  <2> QED
    BY <2>3 DEF NotSent
<1>3. /\ Head(commands).size = img.size
      /\ line = <<>> /\ reports = {} /\ pc = "idle" /\ ~bitmap_event
      /\ \A i \in DOMAIN Line : hop[i] = <<>>
      /\ \A node \in Nodes : nodes[node] = Boot(OldFlash)
  BY <1>2, OneCommand DEF StartCmd, Untouched, At, Delivered, RoundClosed
<1>4. line' = <<pkt>>
  BY <1>1, <1>3
<1>5. pkt \in PacketsOf(img) /\ pkt.type = "START"
  BY HostFacts, FileFacts DEF StartPkt, PacketsOf, Packet, Carries, OTA_START_SEC_VER_UNKNOWN, IInv
<1>6. /\ Inbox(1)' = <<pkt>> /\ DOMAIN Inbox(1)' = {1} /\ Inbox(1)'[1] = pkt
      /\ \A i \in DOMAIN Line : i # 1 => Inbox(i)' = <<>> /\ DOMAIN Inbox(i)' = {}
  <2>1. \A i \in DOMAIN Line : i = 1 \/ i - 1 \in DOMAIN Line
    BY LineType
  <2> QED
    BY <1>1, <1>3, <1>4, <2>1 DEF Inbox
<1>7. ~NotSent'
  <2>1. Sent'
    BY <1>1, <1>3 DEF Sent
  <2>2. (TypeOK /\ Sent => ~NotSent)'
    BY SentIsSent, PTL
  <2> QED
    BY <2>1, <2>2 DEF IInv
<1> DEFINE next == [i \in 0 .. Len(Line) |-> IF i = 0 THEN pkt ELSE Nothing]
<1>8. /\ next \in [0 .. Len(Line) -> Event(img)] /\ next[0] = pkt
      /\ \A i \in DOMAIN Line : next[i] = Nothing /\ (i # 1 => next[i - 1] = Nothing)
      /\ next[1 - 1] = pkt
  BY <1>5, LineType DEF Event
<1> HIDE DEF next
<1>9. SentLast(next[0])'
  <2>1. PageBefore(pkt, page_start_offset)'
    BY <1>1, <1>5 DEF PageBefore
  <2>2. host'.at = "start" /\ pc' = "idle"
    BY <1>1, <1>2, <1>3
  <2>3. SentLast(pkt)'
    BY <1>5, <1>7, <2>1, <2>2 DEF SentLast
  <2> QED
    BY <1>8, <2>3
<1>10. ASSUME NEW i \in DOMAIN Line
       PROVE  /\ Took(img, nodes'[Line[i]], next[i])
              /\ Connects(img, next[i], Inbox(i)', next[i - 1])
  <2>1. Took(img, nodes'[Line[i]], next[i])
    BY <1>8 DEF Took, Nothing
  <2>2. Connects(img, next[i], Inbox(i)', next[i - 1])
    <3>1. CASE i = 1
      <4>1. /\ <<pkt>> # <<>> /\ <<pkt>>[1] = pkt /\ Len(<<pkt>>) = 1 /\ DOMAIN <<pkt>> = {1}
            /\ ~(1 + 1 \in {1})
        OBVIOUS
      <4>2. Follows(img, Nothing, pkt)
        BY <1>5 DEF Follows, Nothing
      <4>3. Connects(img, Nothing, <<pkt>>, pkt)
        BY <4>1, <4>2 DEF Connects
      <4> QED
        BY <1>6, <1>8, <3>1, <4>3
    <3>2. CASE i # 1
      BY <1>6, <1>8, <3>2 DEF Connects
    <3> QED
      BY <3>1, <3>2
  <2> QED
    BY <2>1, <2>2
<1>11. StreamUnbroken'
  <2>1. Positions(next)'
    BY <1>1, <1>9, <1>10 DEF Positions
  <2> QED
    BY <1>1, <1>8, <2>1 DEF StreamUnbroken
<1>12. EndsSent'
  BY <1>5, <1>6 DEF EndsSent
<1>13. ReportsAnswer' /\ ReportsRecent'
  <2>1. \A node \in Nodes : nodes[node].report_to_send = NoReport
                              /\ nodes[node].current_rx_page_offset = NoPage
    BY <1>3 DEF Boot
  <2>2. NoReport.page = NoPage /\ NoPage <= NoPage
    BY DEF NoReport, NoPage
  <2> QED
    BY <1>1, <1>3, <2>1, <2>2 DEF ReportsAnswer, ReportsRecent
<1>14. SessionOfRoutes' /\ RoundOpen' /\ RoundClosed'
  BY <1>1, <1>3 DEF SessionOfRoutes, RoundOpen, RoundClosed
<1> QED
  BY <1>11, <1>12, <1>13, <1>14 DEF Delivered

LEMMA VerifyDelivers ==
  ASSUME IInv, IInv', Delivered, CommandLeaves, commands # <<>>, Head(commands).type = "V",
         LegacyUartVerify(Head(commands).crc)
  PROVE  Delivered'
<1> PICK img : img = host.file
  OBVIOUS
<1> PICK pkt : pkt = VerifyPkt(ImageCrc(img), NoTarget)
  OBVIOUS
<1>1. /\ UNCHANGED <<session_nodes, node_replied, session_bitmaps, bitmap_event>>
      /\ UNCHANGED <<current_file_size, page_start_offset, pc, nodes, hop, reports, host>>
      /\ uart' = Append(uart, "ACK")
      /\ line' = Append(line, VerifyPkt(Head(commands).crc, NoTarget))
  BY DEF CommandLeaves, LegacyUartVerify, SendToAll, Answer, sessionVars, transferVars, processVars,
     IInv, TypeOK, CoordinatorTypeOK
<1>2. SendsVerify /\ Sent /\ commands = <<VerifyCmd(img)>> /\ uart = <<>>
  <2>1. \A v, t : Head(<<StartCmd(img, v, t)>>).type = "S"
    BY OneCommand DEF StartCmd
  <2>2. Head(<<DataCmd(img, host.page, host.chunk)>>).type = "D"
    BY OneCommand DEF DataCmd
  <2>3. SendsVerify /\ Sent
    BY <2>1, <2>2 DEF IInv, InStep, NotSent, SendsData, WaitsForPage, Stopped
  <2> QED
    BY <2>3 DEF SendsVerify
<1>3. /\ host.at = "verify" /\ pc = "idle" /\ page_start_offset = img.size.pages
      /\ Head(commands).crc = ImageCrc(img) /\ uart' # <<>>
  BY <1>1, <1>2, OneCommand DEF SendsVerify, VerifyCmd, At
<1>4. AllSent /\ AllSent' /\ ~NotSent /\ ~NotSent'
  <2>1. Sent' /\ AllSent /\ AllSent'
    BY <1>1, <1>2, <1>3 DEF AllSent, Sent
  <2>2. (TypeOK /\ Sent => ~NotSent)'
    BY SentIsSent, PTL
  <2> QED
    BY <1>2, <2>1, <2>2, SentIsSent DEF IInv
<1>5. pkt \in PacketsOf(img) /\ pkt.type = "VERIFY"
  BY ImageCrcType, HostFacts DEF VerifyPkt, PacketsOf, Packet, Carries
<1>6. Queued(pkt)
  BY <1>1, <1>3 DEF Queued
<1>7. QueuesOf(PacketsOf(img))
  BY DEF IInv, TypeOK, QueuesTypeOK, QueuesOf
<1>8. PICK taken \in [0 .. Len(Line) -> Event(img)] : Positions(taken)
  BY DEF Delivered, StreamUnbroken
<1>9. Follows(img, taken[0], pkt)
  <2>1. SentLast(taken[0]) /\ img.size.pages \in Nat /\ img.size.pages > 0
    BY <1>8, HostFacts DEF Positions, Image, FileSize, Size
  <2>2. PageBefore(taken[0], img.size.pages)
    BY <1>2, <1>3, <1>4, <2>1 DEF SentLast
  <2>3. IsEnd(taken[0], img.size.pages - 1)
    BY <2>1, <2>2 DEF PageBefore
  <2>4. taken[0].type = "PAGE_END" /\ taken[0].page + 1 = img.size.pages
    BY <2>1, <2>3 DEF IsEnd
  <2> QED
    BY <1>5, <2>4 DEF Follows
<1>10. SentLast(pkt)'
  BY <1>1, <1>3, <1>4, <1>5 DEF SentLast
<1>11. StreamUnbroken'
  BY <1>5, <1>6, <1>7, <1>8, <1>9, <1>10, StreamQueued
<1>12. \A page : Ended(page) => Ended(page)'
  BY <1>1 DEF Ended
<1>13. EndsSent' /\ ReportsAnswer'
  BY <1>1, <1>5, <1>6, <1>7, <1>12, EndsQueued, ReportsRest DEF Delivered
<1>14. ReportsRecent' /\ SessionOfRoutes' /\ RoundOpen' /\ RoundClosed'
  BY <1>1, <1>3, <1>4 DEF Delivered, ReportsRecent, SessionOfRoutes, RoundOpen, RoundClosed
<1> QED
  BY <1>11, <1>13, <1>14 DEF Delivered
LEMMA DataDelivers ==
  ASSUME IInv, IInv', Delivered, CommandLeaves, commands # <<>>, Head(commands).type = "D",
         LegacyUartData(Head(commands).page, Head(commands).chunk, Head(commands).data)
  PROVE  Delivered'
<1>1. SendsData /\ Sent /\ ~NotSent /\ pc = "idle"
  <2>1. \A v, t : Head(<<StartCmd(host.file, v, t)>>).type = "S"
    BY OneCommand DEF StartCmd
  <2>2. Head(<<VerifyCmd(host.file)>>).type = "V"
    BY OneCommand DEF VerifyCmd
  <2> QED
    BY <2>1, <2>2 DEF IInv, InStep, NotSent, SendsVerify, SendsData, WaitsForPage, Stopped, At
<1>2. /\ UNCHANGED <<session_nodes, node_replied, current_file_size, page_start_offset, line,
                     bitmap_event, nodes, hop, reports, host>>
      /\ \/ UNCHANGED <<pc, session_bitmaps>>
         \/ /\ pc' = "chunk" /\ dist_chunk_idx' = 0
            /\ session_bitmaps' = [i \in Index |-> {}]
  BY <1>1 DEF CommandLeaves, LegacyUartData, StartDistribution, processVars
<1>3. host.at = "data" /\ ~AllSent /\ ~AllSent' /\ ~NotSent' /\ ~bitmap_event
  <2>1. host.at = "data" /\ ~AllSent /\ ~AllSent' /\ Sent'
    BY <1>1, <1>2 DEF SendsData, AllSent, Sent
  <2>2. (TypeOK /\ Sent => ~NotSent)'
    BY SentIsSent, PTL
  <2> QED
    BY <1>1, <2>1, <2>2 DEF IInv, Delivered, RoundClosed
<1>4. ASSUME NEW a, SentLast(a) PROVE SentLast(a)'
  <2>1. a.type # "VERIFY" /\ PageBefore(a, page_start_offset)
    BY <1>1, <1>3, <1>4 DEF SentLast
  <2>2. PageBefore(a, page_start_offset)'
    BY <1>2, <2>1 DEF PageBefore
  <2> QED
    BY <1>1, <1>2, <1>3, <2>1, <2>2 DEF SentLast
<1>5. \A page : Ended(page) => Ended(page)'
  BY <1>1, <1>2 DEF Ended
<1>6. StreamUnbroken' /\ EndsSent' /\ ReportsAnswer'
  BY <1>2, <1>4, <1>5, StreamRests, EndsRest, ReportsRest DEF Delivered
<1>7. ReportsRecent' /\ SessionOfRoutes' /\ RoundOpen'
  BY <1>1, <1>2, <1>3 DEF Delivered, ReportsRecent, SessionOfRoutes, RoundOpen
<1>8. RoundClosed'
  <2>1. \A w \in DOMAIN session_nodes : w \in Index
    BY <1>1, SessionFacts DEF Delivered
  <2> QED
    BY <1>1, <1>2, <1>3, <2>1 DEF RoundClosed
<1> QED
  BY <1>6, <1>7, <1>8 DEF Delivered

LEMMA CommandDelivers == ASSUME IInv, IInv', Delivered, Command PROVE Delivered'
<1>1. CommandLeaves /\ commands # <<>>
  BY DEF Command, LegacyTakeCommand, CommandLeaves, systemVars, networkVars
<1>2. CASE Head(commands).type = "S" /\ \E table \in RouteTables :
             LegacyUartStart(table, Head(commands).size)
  BY <1>1, <1>2, StartDelivers, LineAssumption
<1>3. CASE /\ Head(commands).type = "D"
           /\ LegacyUartData(Head(commands).page, Head(commands).chunk, Head(commands).data)
  BY <1>1, <1>3, DataDelivers
<1>4. CASE Head(commands).type = "V" /\ LegacyUartVerify(Head(commands).crc)
  BY <1>1, <1>4, VerifyDelivers
<1> QED
  BY <1>2, <1>3, <1>4 DEF Command, LegacyTakeCommand

LEMMA StutterDelivers ==
  ASSUME IInv, IInv', Delivered, UNCHANGED vars
  PROVE  Delivered'
<1>1. HostLeaves /\ UNCHANGED <<uart, host, commands, starts, bitmap_event>>
  BY DEF vars, HostLeaves, coordinatorVars, coordinatorOnlyVars, senderVars
<1>2. NotSent <=> NotSent'
  BY <1>1, HostFrame DEF NotSent, Untouched
<1>3. CASE NotSent
  <2>1. ~bitmap_event'
    BY <1>1, <1>3 DEF NotSent, Untouched, At, Delivered, RoundClosed
  <2>2. (IInv /\ NotSent /\ ~bitmap_event => Delivered)'
    BY NotSentDelivers, PTL
  <2> QED
    BY <1>2, <1>3, <2>1, <2>2
<1>4. CASE ~NotSent
  <2>1. AllSent => AllSent'
    BY <1>1, HostFrame DEF AllSent, Sent
  <2>2. (VerifySent' => VerifySent) /\ (VerifyDue' => VerifyDue) /\ host'.file = host.file
    BY <1>1 DEF VerifySent, VerifyDue
  <2> QED
    BY <1>1, <1>2, <1>4, <2>1, <2>2, HostDelivers
<1> QED
  BY <1>3, <1>4
-----------------------------------------------------------------------------
(* Every node verifies. *)

\* Only a fault counts as lost.
LEMMA LostGrows ==
  ASSUME lost \in Nat, [Next]_vars
  PROVE  lost' \in Nat /\ (lost' = 0 => lost = 0 /\ ~NetworkLoses)
<1>1. lost' = lost \/ lost' = lost + 1
  BY DEF Next, HostStep, Command, Distributes, Network, NetworkLoses, Receive, SendReport,
     DeliverReport, Losses, LosePacket, LoseReport, Fault, systemVars, networkVars, vars
<1>2. NetworkLoses => lost' = lost + 1
  BY DEF NetworkLoses, Losses, LosePacket, LoseReport, Fault
<1> QED
  BY <1>1, <1>2

LEMMA StepDelivers ==
  ASSUME IInv, IInv', Transfers, Delivered, lost = 0, lost' = 0, ~NetworkLoses, [Next]_vars
  PROVE  Delivered'
<1>1. CASE Network
  BY <1>1, ReceiveDelivers, SendReportDelivers, DeliverReportDelivers DEF Network
<1> QED
  BY <1>1, HostStepDelivers, CommandDelivers, DistributesDelivers, StutterDelivers DEF Next

LEMMA StepKeepsDelivery == ASSUME DInv, Transfers, [Next]_vars PROVE DInv'
<1>1. IInv'
  BY StepKeeps DEF DInv
<1> QED
  BY <1>1, LostGrows, StepDelivers DEF DInv

LEMMA DeliveryInitially == Init => DInv
<1> SUFFICES ASSUME Init PROVE DInv
  OBVIOUS
<1>1. IInv /\ lost = 0
  BY Initially DEF Init, NetworkInit
<1>2. NotSent /\ ~bitmap_event
  <2>1. /\ CoordinatorInit /\ SenderInit /\ NetworkInit
        /\ nodes = [node \in Nodes |-> Boot(OldFlash)]
    BY DEF Init
  <2>2. Untouched
    BY <2>1 DEF Untouched, CoordinatorInit, NetworkInit, At
  <2> QED
    BY <2>1, <2>2 DEF NotSent, SenderInit, CoordinatorInit
<1> QED
  BY <1>1, <1>2, NotSentDelivers DEF DInv

\* Nothing is on its way any more: every node took what the coordinator sent last.
LEMMA DeliveredVerifies == DInv => DoneMeansVerified
<1> SUFFICES ASSUME DInv, host.at = "done", lost = 0, NetworkQuiet, NEW node \in ToSet(Line)
             PROVE  nodes[node].verified = "success"
  BY DEF DoneMeansVerified
<1> PICK img : img = host.file
  OBVIOUS
<1>1. IInv /\ Delivered
  BY DEF DInv
<1>2. PICK taken \in [0 .. Len(Line) -> Event(img)] : Positions(taken)
  BY <1>1 DEF Delivered, StreamUnbroken
<1>3. taken[0].type = "VERIFY"
  BY <1>2 DEF Positions, SentLast
<1>4. \A i \in DOMAIN Line : taken[i] = taken[i - 1]
  <2>1. \A i \in DOMAIN Line : Inbox(i) = <<>>
    <3>1. \A i \in DOMAIN Line : i = 1 \/ i - 1 \in DOMAIN Line
      BY LineType
    <3> QED
      BY <3>1 DEF NetworkQuiet, NothingInFlight, Inbox
  <2> QED
    BY <1>2, <2>1 DEF Positions, Connects
<1>5. \A i \in DOMAIN Line : taken[i].type = "VERIFY"
  <2> DEFINE less == OpToRel(<, Nat)
             Others == {i \in DOMAIN Line : taken[i].type # "VERIFY"}
  <2> SUFFICES ASSUME Others # {} PROVE FALSE
    OBVIOUS
  <2>1. Others \subseteq Nat
    BY LineType
  <2>2. \A x, y \in Nat : y < x => <<y, x>> \in less
    BY DEF OpToRel
  <2>3. IsWellFoundedOn(less, Nat)
    BY NatLessThanWellFounded
  <2> HIDE DEF less
  <2>4. PICK x \in Others : \A y \in Others : ~(<<y, x>> \in less)
    <3> HIDE DEF Others
    <3> QED
      BY <2>1, <2>3, WFMin, Zenon
  <2>5. x \in DOMAIN Line /\ x \in Nat /\ x >= 1 /\ taken[x - 1].type # "VERIFY"
    BY <1>4, LineType
  <2>6. x - 1 \in Others
    <3>1. x # 1
      BY <1>3, <2>5
    <3>2. x - 1 \in DOMAIN Line
      BY <2>5, <3>1, LineType
    <3> QED
      BY <2>5, <3>2
  <2>7. x - 1 \in Nat /\ x - 1 < x
    BY <2>1, <2>5, <2>6
  <2> QED
    BY <2>2, <2>4, <2>5, <2>6, <2>7
<1>6. PICK i \in DOMAIN Line : node = Line[i]
  BY DEF ToSet
<1> QED
  BY <1>2, <1>5, <1>6 DEF Positions, Took

\* After a transfer without a fault, every node verified the image, also those the
\* session had no room for: no round is repeated, and no packet is passed over.
THEOREM VerifiedCorrect == Transfers => (Spec => []DoneMeansVerified)
<1> SUFFICES ASSUME Transfers
             PROVE  Spec => []DoneMeansVerified
  OBVIOUS
<1>1. DInv /\ [Next]_vars => DInv'
  BY StepKeepsDelivery
<1> QED
  BY <1>1, DeliveryInitially, DeliveredVerifies, PTL DEF Spec
=============================================================================
