------------------------------ MODULE OtaSystem ------------------------------
(***************************************************************************)
(* The whole transfer: the host script and the coordinator of OtaUart,     *)
(* with a line of sensor nodes (SensorNode) behind a lossy network         *)
(* (LineNetwork) in the place of its nodes that answer anything.           *)
(*                                                                         *)
(* Timers are slower than the network: the admission timer (8 s) and the   *)
(* report timer fire when nothing is on its way.  Reports that come later  *)
(* than that are the subject of OtaUart.  The reset of a node after        *)
(* staging is the subject of OtaSensor and DualOnchipBoot.                 *)
(***************************************************************************)
EXTENDS OtaUart, LineNetwork, SensorNode

CONSTANTS RunningSecVer   \* the secVer each node runs

ASSUME SystemAssumption ==
  /\ RunningSecVer \in [Nodes -> Nat]
  /\ StaleReports

VARIABLES nodes,     \* the sensor nodes
          abandoned  \* the pages given up after the last round

systemVars == <<nodes, networkVars>>
allVars == <<vars, systemVars, abandoned>>

BlankFlash == [s \in Slots |-> [p \in Page |-> ErasedPage]]

SystemInit ==
  /\ Init /\ NetworkInit
  /\ nodes = [node \in Nodes |-> Boot(BlankFlash, NoTarget, RunningSecVer[node])]
  /\ abandoned = {}

HostActs == HostStep /\ UNCHANGED <<systemVars, abandoned>>
CommandArrives == Command /\ UNCHANGED <<systemVars, abandoned>>

NetworkQuiet ==
  NothingInFlight /\ \A node \in Nodes : nodes[node].report_to_send = NoReport

AdmissionTimesOut == NetworkQuiet /\ AdmissionEnds /\ UNCHANGED <<systemVars, abandoned>>

\* The process ends without all reports.
GivesUpPage == pc = "resend" /\ recovery_round = MaxRounds /\ pc' = "idle"

ProcessRuns ==
  /\ \/ SendChunk \/ ChunksSent \/ SendPageEnd \/ AllRepliedEvent \/ Resend
     \/ NetworkQuiet /\ ~bitmap_event /\ ReportTimeout
  /\ abandoned' = IF GivesUpPage THEN abandoned \cup {page_start_offset} ELSE abandoned
  /\ UNCHANGED <<senderVars, first_answer, complete, systemVars>>

(***************************************************************************)
(* A node receives a packet: it passes it on, then handles it.             *)
(***************************************************************************)
Handled(m, pkt, leaf) ==
  CASE pkt.type = "START"    -> OnStart(m, pkt, TRUE)
    [] pkt.type = "DATA"     -> OnData(m, pkt, TRUE, TRUE, TRUE)
    [] pkt.type = "PAGE_END" -> OnPageEnd(m, pkt, TRUE)
    [] pkt.type = "VERIFY"   -> OnVerify(m, pkt, "ok", leaf)

StartReportOf(node, pkt) ==
  [type |-> "START_REPORT", node |-> node,
   accepted |-> StartStatus(nodes[node], pkt, TRUE) = "ACCEPTED"]

\* Also what the node itself refuses.
ForwardsInSession(m, pkt) == pkt.type = "START" \/ InSession(m, pkt)
Forwards(m, pkt) == TRUE

Receive(i) ==
  /\ Inbox(i) # <<>>
  /\ LET pkt == Head(Inbox(i))
     IN /\ PassedOn(i, Forwards(nodes[Line[i]], pkt))
        /\ nodes' = [nodes EXCEPT ![Line[i]] = Handled(@, pkt, i = Len(Line))]
        /\ reports' = IF pkt.type = "START" THEN reports \cup {StartReportOf(Line[i], pkt)}
                      ELSE reports
  /\ UNCHANGED <<hostAndCoordinatorVars, first_answer, complete, lost, abandoned>>

\* The delayed bitmap report leaves.
SendReport(node) ==
  /\ nodes[node].report_to_send # NoReport
  /\ reports' = reports \cup {BitmapReportOf(node, nodes[node].report_to_send)}
  /\ nodes' = [nodes EXCEPT ![node] = ReportSent(@)]
  /\ UNCHANGED <<hostAndCoordinatorVars, first_answer, complete, line, hop, lost, abandoned>>

DeliverReport(r) ==
  /\ reports' = reports \ {r}
  /\ \/ r.type = "START_REPORT" /\ StartReport(r.node, r.accepted)
     \/ r.type = "BITMAP_REPORT" /\ BitmapReport(r.node, r.report.page, r.report.bitmap)
  /\ UNCHANGED <<nodes, hop, lost, abandoned>>

-----------------------------------------------------------------------------
Network ==
  \/ \E i \in DOMAIN Line : Receive(i)
  \/ \E node \in Nodes : SendReport(node)
  \/ \E r \in reports : DeliverReport(r)

NetworkLoses == Losses /\ UNCHANGED <<first_answer, complete, nodes, abandoned>>

SystemNext ==
  HostActs \/ CommandArrives \/ AdmissionTimesOut \/ ProcessRuns \/ Network \/ NetworkLoses

SystemSpec == SystemInit /\ [][SystemNext]_allVars

\* Processes, timers and the network run; nothing has to be lost.
SystemFairness == WF_allVars(ProcessRuns) /\ WF_allVars(Network)

FairSystemSpec == SystemSpec /\ SystemFairness

-----------------------------------------------------------------------------
(***************************************************************************)
(* Properties.                                                             *)
(***************************************************************************)
\* With real nodes, host and coordinator do nothing they do not do with nodes that
\* answer anything, at any time, or not at all: what OtaUart shows holds of the system.
ImplementsUart == Spec

SessionNodes == ToSet(session_nodes)
Holds(node, p) ==
  Prefix(nodes[node].flash[host.target][p], PageLen(host.file.size, p)) = ImagePage(host.file, p)

\* "FW:PAGE_OK: Current page was distributed to all active nodes" (README.md:310),
\* end to end: every node still in the session has the page in its flash, and if
\* no page was given up before, that page and all before it in the CRC of its image.
PageOkMeansStored ==
  [][PageOk /\ ~GivesUpPage =>
       \A node \in ToSet(session_nodes') :
         /\ Holds(node, page_start_offset)
         /\ nodes[node].last_crc_committed_page_offset = page_start_offset
         /\ abandoned = {} => Len(nodes[node].running_fw_crc) = page_start_offset + 1]_allVars

\* Nothing is recovered that was not lost: in a transfer without losses every page
\* takes one round of reports, no PAGE_END is repeated, no chunk sent twice, no page
\* given up (ota-coordinator.c:90-252).
RecoveryFollowsLoss ==
  lost = 0 => recovery_round <= 1 /\ retry_count = 0 /\ pc # "resend" /\ abandoned = {}

\* While pages are distributed, coordinator and nodes agree: a node of the
\* session has opened it for the same file and target, and, if no page was given
\* up, is at the page the coordinator distributes or at the one before it.
SessionAgreed ==
  pc # "idle" =>
    \A node \in SessionNodes :
      /\ nodes[node].ota_session_active
      /\ nodes[node].current_file_size = current_file_size
      /\ nodes[node].ota_target_slot = ota_target_slot
      /\ abandoned = {} =>
           nodes[node].current_rx_page_offset \in {page_start_offset - 1, page_start_offset}

\* A node stages the host's file or nothing: what it staged is that file, whole,
\* and no other packet can have changed it since.
StagedImageIsHosts ==
  \A node \in Nodes :
    nodes[node].staged # NoStage =>
      \A p \in 0 .. host.file.size.pages - 1 : Holds(node, p)

\* The transfer achieves something: when the script is done, with no packet lost,
\* every routed node that runs an older image has staged the file.
Older(node) == \A sec_ver \in SecVers : sec_ver > RunningSecVer[node]

DoneMeansStaged ==
  host.at = "done" /\ lost = 0 /\ NetworkQuiet =>
    \A i \in DOMAIN Line : Older(Line[i]) => nodes[Line[i]].staged # NoStage

(***************************************************************************)
(* The inductive invariant, of the transfer of one file.                   *)
(***************************************************************************)

\* Every page was distributed.
Finished == page_start_offset = host.file.size.pages /\ pc = "idle"

Rebooted(node) == nodes[node] = Boot(BlankFlash, NoTarget, RunningSecVer[node])
Fresh(node) == Rebooted(node) /\ \A r \in reports : r.node # node

\* Before the coordinator reads the START nothing happened.
Untouched ==
  /\ line = <<>> /\ \A i \in DOMAIN Line : hop[i] = <<>>
  /\ \A node \in Nodes : Rebooted(node)
  /\ reports = {} /\ session_nodes = <<>> /\ page_start_offset = 0
  /\ pc = "idle" /\ abandoned = {}

StartedOnce ==
  /\ starts \in {0, 1}
  /\ starts = 0 => host.at = "off"
  /\ starts = 0 \/ (commands # <<>> /\ Head(commands).type = "S") => Untouched

\* The session is for the host's file, and its process sends the page it is at.
SessionOfHost ==
  /\ session_nodes # <<>> => current_file_size = host.file.size /\ ota_target_slot = host.target
  /\ pc # "idle" =>
       /\ session_nodes # <<>>
       /\ end_pkt.page = page_start_offset /\ end_pkt.target = ota_target_slot
  /\ host.at = "verify" => Finished

\* What is on its way was cut from the host's file, VERIFY after all the rest.
OfStream(pkt) ==
  /\ pkt.target = host.target
  /\ pkt.type = "START" => pkt.size = host.file.size
  /\ pkt.type = "DATA" =>
       /\ pkt.page <= page_start_offset /\ pkt.chunk < PageLen(host.file.size, pkt.page)
       /\ pkt.data = host.file.data[pkt.page][pkt.chunk]
  /\ pkt.type = "PAGE_END" =>
       /\ pkt.page <= page_start_offset /\ pkt.page < host.file.size.pages
       /\ pkt.crc = ImagePage(host.file, pkt.page)
  /\ pkt.type = "VERIFY" => pkt.crc = ImageCrc(host.file) /\ Finished

OnlyVerify(i) == \A k \in DOMAIN Inbox(i) : Inbox(i)[k].type = "VERIFY"

StreamInOrder ==
  \A i \in DOMAIN Line : \A k \in DOMAIN Inbox(i) :
    /\ OfStream(Inbox(i)[k])
    /\ Inbox(i)[k].type = "START" =>
         /\ k = 1
         /\ \A j \in DOMAIN Line : (j > i => Inbox(j) = <<>>) /\ (j >= i => Fresh(Line[j]))
    /\ Inbox(i)[k].type = "VERIFY" =>
         /\ \A l \in DOMAIN Inbox(i) : l >= k => Inbox(i)[l].type = "VERIFY"
         /\ \A j \in DOMAIN Line : j < i => OnlyVerify(j)

\* Nothing but VERIFY can reach the i-th node any more.
AfterVerify(i) == Finished /\ \A j \in 1 .. i : OnlyVerify(j)

\* A node has the pages it committed, and with one more of them than its last page's
\* number all pages up to it; it has all of them if it staged.
LastCommitted(node) == nodes[node].last_crc_committed_page_offset
CommittedToLast(node) == Len(nodes[node].running_fw_crc) = LastCommitted(node) + 1

NodeKeepsPages(node) ==
  /\ LastCommitted(node) <= page_start_offset
  /\ LastCommitted(node) < host.file.size.pages
  /\ nodes[node].current_rx_page_offset <= page_start_offset
  /\ Len(nodes[node].running_fw_crc) <= LastCommitted(node) + 1
  /\ LastCommitted(node) # NoPage =>
       nodes[node].running_fw_crc # <<>> /\ Holds(node, LastCommitted(node))
  /\ CommittedToLast(node) => \A p \in 0 .. LastCommitted(node) : Holds(node, p)
  /\ nodes[node].staged # NoStage =>
       /\ ~nodes[node].ota_session_active
       /\ \A p \in 0 .. host.file.size.pages - 1 : Holds(node, p)

\* An open session is for the host's file, and goes forward through it.
NodeInSession(i) ==
  LET m == nodes[Line[i]]
  IN m.ota_session_active =>
       /\ m.current_file_size = host.file.size /\ m.ota_target_slot = host.target
       /\ m.page_0_erased
       /\ \/ AfterVerify(i)
          \/ /\ m.last_crc_committed_page_offset <= m.current_rx_page_offset
             /\ SectorPages = 2 =>
                  m.erased_sector_addr =
                    <<host.target, SectorBase(FirstPage(m.current_rx_page_offset))>>

\* A report of all of a page, on its way or about to leave, is of a committed page.
TrueReport(node, report) ==
  0 .. PageLen(host.file.size, report.page) - 1 \subseteq report.bitmap
    => report.page <= LastCommitted(node)

\* What the coordinator knows of a node is so.
Opened(node) == nodes[node].ota_session_active \/ Finished

ReportsTrue ==
  /\ ~Finished =>
       /\ \A node \in Nodes : TrueReport(node, nodes[node].report_to_send)
       /\ \A r \in reports : r.type = "BITMAP_REPORT" => TrueReport(r.node, r.report)
  /\ \A r \in reports : r.type = "START_REPORT" /\ r.accepted => Opened(r.node)

AnswersTrue ==
  /\ \A node \in Nodes : first_answer[node] = "accept" => Opened(node)
  /\ pc # "idle" => \A node \in complete : LastCommitted(node) = page_start_offset

PagesCommitted ==
  abandoned = {} /\ ~start_admission_in_progress =>
    \A node \in SessionNodes :
      /\ LastCommitted(node) \in {page_start_offset - 1, page_start_offset}
      /\ CommittedToLast(node)

SystemInv ==
  /\ StartedOnce /\ SessionOfHost /\ StreamInOrder
  /\ \A node \in Nodes : NodeKeepsPages(node)
  /\ \A node \in Nodes \ ToSet(Line) : Fresh(node)
  /\ \A i \in DOMAIN Line : NodeInSession(i)
  /\ ReportsTrue /\ AnswersTrue /\ PagesCommitted

(***************************************************************************)
(* What a transfer without losses delivers, packet by packet: nothing      *)
(* overtakes what it needs, and what the coordinator is past is at the     *)
(* nodes that run an older image or on its way to them.                    *)
(***************************************************************************)
PageEvents == {"DATA", "PAGE_END"}
Event(pkt) ==
  [type |-> pkt.type, page |-> IF pkt.type \in PageEvents THEN pkt.page ELSE 0,
   chunk |-> IF pkt.type = "DATA" THEN pkt.chunk ELSE 0]

Started == [type |-> "START", page |-> 0, chunk |-> 0]
DataOf(p, c) == [type |-> "DATA", page |-> p, chunk |-> c]
EndOf(p) == [type |-> "PAGE_END", page |-> p, chunk |-> 0]
Verified == [type |-> "VERIFY", page |-> 0, chunk |-> 0]
Events == [type : {"START", "DATA", "PAGE_END", "VERIFY"}, page : Page, chunk : Chunk]

\* A node needs d before e.
Needs(e, d) ==
  \/ e.type = "DATA" /\ (d = Started \/ (e.page > 0 /\ d = EndOf(e.page - 1)))
  \/ e.type = "PAGE_END" /\
       \E c \in 0 .. PageLen(host.file.size, e.page) - 1 : d = DataOf(e.page, c)
  \/ e.type = "VERIFY" /\ d = EndOf(host.file.size.pages - 1)

Arrived(m, d) ==
  \/ m.staged # NoStage
  \/ m.ota_session_active /\
       \/ d.type = "START"
       \/ d.type \in PageEvents /\ d.page <= m.last_crc_committed_page_offset
       \/ d.type = "DATA" /\ m.current_rx_page_offset = d.page /\ d.chunk \in m.page_bitmap

\* d is queued for the j-th node, in front of the k-th packet of the i-th queue.
InFront(h, l, i, k) == h > i \/ (h = i /\ l < k)
Ahead(i, k, j, d) ==
  \E h \in i .. j : \E l \in DOMAIN Inbox(h) :
    InFront(h, l, i, k) /\ Event(Inbox(h)[l]) = d
Coming(j, d) == \E i \in 1 .. j : \E k \in DOMAIN Inbox(i) : Event(Inbox(i)[k]) = d

InSequence ==
  \A j \in DOMAIN Line : Older(Line[j]) =>
    \A i \in 1 .. j : \A k \in DOMAIN Inbox(i) : \A d \in Events :
      Needs(Event(Inbox(i)[k]), d) => Arrived(nodes[Line[j]], d) \/ Ahead(i, k, j, d)

Sent(d) ==
  \A j \in DOMAIN Line : Older(Line[j]) => Arrived(nodes[Line[j]], d) \/ Coming(j, d)

ChunksOut == IF pc = "chunk" THEN dist_chunk_idx ELSE total_chunks

\* What the coordinator is past, at its place in the transfer.
Due(d) ==
  \/ session_nodes # <<>> /\ d = Started
  \/ page_start_offset > 0 /\ d = EndOf(page_start_offset - 1)
  \/ pc # "idle" /\ \E c \in 0 .. ChunksOut - 1 : d = DataOf(page_start_offset, c)
  \/ pc \in {"wait", "resend"} /\ d = EndOf(page_start_offset)
  \/ host.at = "verify" /\ "ACK" \in ToSet(uart) /\ d = Verified
  \/ host.at = "done" /\ d = Verified

StreamSent == \A d \in Events : Due(d) => Sent(d)

\* A page is not committed before its PAGE_END is sent.
Unasked ==
  /\ \A node \in Nodes : LastCommitted(node) < page_start_offset
  /\ \A i \in DOMAIN Line : \A k \in DOMAIN Inbox(i) :
       Inbox(i)[k].type = "PAGE_END" => Inbox(i)[k].page < page_start_offset

NotEnded == pc \in {"idle", "chunk"} => Unasked

\* An older node writes each chunk once, to erased flash, and commits page after page.
NodeDelivers(m) ==
  LET p == m.current_rx_page_offset
      last == m.last_crc_committed_page_offset
  IN m.ota_session_active =>
       /\ \A q \in Page : q > p => m.flash[host.target][q] = ErasedPage
       /\ p # NoPage => \A c \in Chunk :
            m.flash[host.target][p][c] =
              IF c \in m.page_bitmap THEN host.file.data[p][c] ELSE ErasedCell
       /\ p - 1 <= last /\ last <= p
       /\ m.running_fw_crc = [q \in 1 .. last + 1 |-> ImagePage(host.file, q - 1)]

\* An older node accepts, and nothing else is said before the coordinator heard it.
StartOnly ==
  /\ \A i \in DOMAIN Line : \A k \in DOMAIN Inbox(i) : Inbox(i)[k].type = "START"
  /\ \A node \in Nodes : nodes[node].report_to_send = NoReport
  /\ \A r \in reports : r.type = "START_REPORT"

HeardOrComing(i) ==
  \/ node_replied[i] /\ session_start_accepted[i]
  \/ ~node_replied[i] /\ (Coming(i, Started) \/ \E r \in reports : r.node = session_nodes[i])

OlderAdmitted ==
  /\ \A r \in reports : r.type = "START_REPORT" /\ Older(r.node) => r.accepted
  /\ start_admission_in_progress =>
       /\ StartOnly /\ session_nodes = PopulateSessionNodes(Line)
       /\ \A i \in DOMAIN session_nodes : Older(session_nodes[i]) => HeardOrComing(i)
  /\ host.at = "start" /\ "NO_TARGETS" \in ToSet(uart) =>
       \A i \in DOMAIN Line : ~Older(Line[i])

\* A START declares one of the script's secVers.
Declared ==
  \A i \in DOMAIN Line : \A k \in DOMAIN Inbox(i) :
    Inbox(i)[k].type = "START" => Inbox(i)[k].sec_ver \in SecVers

DeliveryInv ==
  /\ NotEnded /\ Declared /\ lost \in Nat
  /\ \A node \in Nodes : nodes[node].running_sec_ver = RunningSecVer[node]
  /\ lost = 0 =>
       /\ InSequence /\ StreamSent /\ OlderAdmitted
       /\ \A node \in ToSet(Line) : Older(node) => NodeDelivers(nodes[node])

(***************************************************************************)
(* What a page of a transfer without losses takes: one PAGE_END, which     *)
(* every node of the session has, has answered, or is about to have.       *)
(***************************************************************************)

\* Only older nodes open a session, and only they are admitted.
OlderOnly ==
  /\ \A node \in Nodes :
       nodes[node].ota_session_active \/ first_answer[node] = "accept" => Older(node)
  /\ \A r \in reports : r.type = "START_REPORT" /\ r.accepted => Older(r.node)

ChunksOf(p) == 0 .. PageLen(host.file.size, p) - 1

\* A report is of a page with all its chunks, and a committed page keeps them.
Full(report) == report # NoReport => ChunksOf(report.page) \subseteq report.bitmap

CommittedFull(m) ==
  m.ota_session_active /\ m.last_crc_committed_page_offset = m.current_rx_page_offset
    /\ m.current_rx_page_offset # NoPage
      => ChunksOf(m.current_rx_page_offset) \subseteq m.page_bitmap

PagesFull ==
  ~Finished =>
    /\ \A node \in Nodes : Full(nodes[node].report_to_send) /\ CommittedFull(nodes[node])
    /\ \A r \in reports : r.type = "BITMAP_REPORT" => Full(r.report)

\* PAGE_END is on its way to the node, or its answer to the coordinator.
Asked(node) ==
  \E j \in DOMAIN Line : Line[j] = node /\ Coming(j, EndOf(page_start_offset))
Answers(node) ==
  \/ nodes[node].report_to_send.page = page_start_offset
  \/ \E r \in reports :
       r.type = "BITMAP_REPORT" /\ r.node = node /\ r.report.page = page_start_offset

ReportOrComing(i) ==
  IF node_replied[i] THEN ChunksOf(page_start_offset) \subseteq session_bitmaps[i]
                     ELSE Asked(session_nodes[i]) \/ Answers(session_nodes[i])

OneRound ==
  /\ retry_count = 0 /\ abandoned = {} /\ pc # "resend"
  /\ pc \in {"idle", "chunk"} => recovery_round = 0
  /\ pc \in {"pageEnd", "wait"} => recovery_round = 1
  /\ pc = "pageEnd" => Unasked /\ \A i \in DOMAIN session_nodes : ~node_replied[i]
  /\ pc = "wait" =>
       /\ \A i \in DOMAIN session_nodes : ReportOrComing(i)
       /\ AllReplied(session_nodes, node_replied) => bitmap_event

RoundInv == OlderOnly /\ (lost = 0 => OneRound /\ PagesFull)
=============================================================================
