---------------------------- MODULE OtaSystemProofs ----------------------------
(***************************************************************************)
(* Proofs about the whole transfer: with real nodes behind it, host and    *)
(* coordinator do nothing OtaUart does not allow; and in the transfer of   *)
(* one file the nodes agree with the coordinator, have the pages that      *)
(* FW:PAGE_OK reports in flash, and stage that file or nothing.            *)
(***************************************************************************)
EXTENDS OtaSystem, OtaUartProofs, SensorNodeProofs

-----------------------------------------------------------------------------
(* Types. *)

Packets == StartPkts \cup DataPkts \cup PageEndPkts \cup VerifyPkts

Reports ==
  [type : {"START_REPORT"}, node : Nodes, accepted : BOOLEAN]
    \cup [type : {"BITMAP_REPORT"}, node : Nodes,
          report : [page : Page \cup {NoPage}, bitmap : SUBSET Chunk]]

QueuesTypeOK == line \in Seq(Packets) /\ hop \in [DOMAIN Line -> Seq(Packets)]

SystemTypeOK ==
  /\ nodes \in [Nodes -> Node] /\ \A node \in Nodes : SlotOk(nodes[node])
  /\ QueuesTypeOK
  /\ reports \subseteq Reports

LEMMA LineType ==
  /\ Line \in Seq(Nodes) /\ Len(Line) \in Nat \ {0} /\ DOMAIN Line = 1 .. Len(Line)
  /\ \A i \in DOMAIN Line : Line[i] \in Nodes
  /\ \A i, j \in DOMAIN Line : Line[i] = Line[j] => i = j
BY LineAssumption DEF IsInjective

LEMMA InboxType ==
  ASSUME QueuesTypeOK, NEW i \in DOMAIN Line
  PROVE  Inbox(i) \in Seq(Packets)
BY LineType DEF QueuesTypeOK, Inbox

\* A node takes a packet off its queue, and may put it into that of the next node.
Passes(i, forwarded) ==
  /\ Inbox(i)' = Tail(Inbox(i))
  /\ i + 1 \in DOMAIN Line =>
       Inbox(i + 1)' = IF forwarded THEN Append(Inbox(i + 1), Head(Inbox(i))) ELSE Inbox(i + 1)
  /\ \A j \in DOMAIN Line : j # i /\ j # i + 1 => Inbox(j)' = Inbox(j)

LEMMA PassedOnPasses ==
  ASSUME QueuesTypeOK, NEW i \in DOMAIN Line, NEW forwarded \in BOOLEAN,
         Inbox(i) # <<>>, PassedOn(i, forwarded)
  PROVE  QueuesTypeOK' /\ Passes(i, forwarded)
<1> DEFINE popped == IF i = 1 THEN hop ELSE [hop EXCEPT ![i - 1] = Tail(hop[i - 1])]
           pkt == Head(Inbox(i))
           rest == Tail(Inbox(i))
<1>1. /\ i \in Nat /\ i >= 1 /\ i <= Len(Line) /\ Len(Line) \in Nat
      /\ DOMAIN Line = 1 .. Len(Line)
  BY LineType
<1>2. /\ Inbox(i) \in Seq(Packets) /\ pkt \in Packets /\ rest \in Seq(Packets)
      /\ line \in Seq(Packets) /\ hop \in [DOMAIN Line -> Seq(Packets)]
  BY InboxType DEF QueuesTypeOK
<1>3. /\ line' = IF i = 1 THEN Tail(line) ELSE line
      /\ hop' = IF forwarded /\ i < Len(Line) THEN [popped EXCEPT ![i] = Append(popped[i], pkt)]
                ELSE popped
  BY DEF PassedOn
<1>4. /\ i = 1 => rest = Tail(line)
      /\ i # 1 => rest = Tail(hop[i - 1]) /\ i - 1 \in DOMAIN Line
  BY <1>1 DEF Inbox
<1>5. /\ popped \in [DOMAIN Line -> Seq(Packets)]
      /\ i # 1 => popped[i - 1] = rest
      /\ \A j \in DOMAIN Line : j # i - 1 => popped[j] = hop[j]
  BY <1>1, <1>2, <1>4
<1> HIDE DEF popped, pkt, rest
<1>6. /\ hop' \in [DOMAIN Line -> Seq(Packets)]
      /\ \A j \in DOMAIN Line : j # i => hop'[j] = popped[j]
      /\ i < Len(Line) => hop'[i] = IF forwarded THEN Append(hop[i], pkt) ELSE hop[i]
  <2>1. i # i - 1 /\ popped[i] = hop[i]
    BY <1>1, <1>5
  <2>2. Append(hop[i], pkt) \in Seq(Packets)
    BY <1>2
  <2>3. CASE forwarded /\ i < Len(Line)
    <3>1. hop' = [popped EXCEPT ![i] = Append(hop[i], pkt)]
      BY <1>3, <2>1, <2>3
    <3> QED
      BY <1>5, <2>2, <2>3, <3>1
  <2>4. CASE ~(forwarded /\ i < Len(Line))
    <3>1. hop' = popped
      BY <1>3, <2>4
    <3> QED
      BY <1>5, <2>1, <2>4, <3>1
  <2> QED
    BY <2>3, <2>4
<1>7. line' \in Seq(Packets)
  <2>1. line' = IF i = 1 THEN rest ELSE line
    BY <1>3, <1>4
  <2> QED
    BY <1>2, <2>1
<1>8. Inbox(i)' = rest
  <2>1. CASE i = 1
    BY <1>3, <1>4, <2>1 DEF Inbox
  <2>2. CASE i # 1
    <3>1. i - 1 # i /\ i - 1 \in DOMAIN Line
      BY <1>1, <2>2
    <3>2. hop'[i - 1] = rest
      BY <1>5, <1>6, <2>2, <3>1
    <3> QED
      BY <2>2, <3>2 DEF Inbox
  <2> QED
    BY <2>1, <2>2
<1>9. ASSUME i + 1 \in DOMAIN Line
      PROVE  Inbox(i + 1)' = IF forwarded THEN Append(Inbox(i + 1), pkt) ELSE Inbox(i + 1)
  <2>1. i < Len(Line) /\ i + 1 # 1 /\ (i + 1) - 1 = i
    BY <1>1, <1>9
  <2> QED
    BY <1>6, <2>1 DEF Inbox
<1>10. ASSUME NEW j \in DOMAIN Line, j # i, j # i + 1
       PROVE  Inbox(j)' = Inbox(j)
  <2>1. CASE j = 1
    BY <1>3, <1>10, <2>1 DEF Inbox
  <2>2. CASE j # 1
    <3>1. j - 1 \in DOMAIN Line /\ j - 1 # i /\ j - 1 # i - 1
      BY <1>1, <1>10, <2>2
    <3>2. hop'[j - 1] = hop[j - 1]
      BY <1>5, <1>6, <3>1
    <3> QED
      BY <2>2, <3>2 DEF Inbox
  <2> QED
    BY <2>1, <2>2
<1> QED
  BY <1>6, <1>7, <1>8, <1>9, <1>10 DEF Passes, QueuesTypeOK, rest, pkt

LEMMA HandledType ==
  ASSUME NEW m \in Node, SlotOk(m), NEW pkt \in Packets, NEW leaf \in BOOLEAN
  PROVE  Handled(m, pkt, leaf) \in Node /\ SlotOk(Handled(m, pkt, leaf))
<1>1. CASE pkt \in StartPkts
  <2>1. Handled(m, pkt, leaf) = OnStart(m, pkt, TRUE)
    BY <1>1 DEF Handled, StartPkts
  <2> QED
    BY <1>1, <2>1, OnStartEffect DEF SlotOk
<1>2. CASE pkt \in DataPkts
  <2>1. Handled(m, pkt, leaf) = OnData(m, pkt, TRUE, TRUE, TRUE)
    BY <1>2 DEF Handled, DataPkts
  <2> DEFINE r == OnData(m, pkt, TRUE, TRUE, TRUE)
  <2>2. r \in Node /\ SameSession(r, m)
    BY <1>2, OnDataType
  <2> HIDE DEF r
  <2> QED
    BY <2>1, <2>2 DEF r, SameSession, SlotOk
<1>3. CASE pkt \in PageEndPkts
  <2>1. Handled(m, pkt, leaf) = OnPageEnd(m, pkt, TRUE)
    BY <1>3 DEF Handled, PageEndPkts
  <2> DEFINE r == OnPageEnd(m, pkt, TRUE)
  <2>2. /\ r \in Node
        /\ \/ SameReception(r, m)
           \/ /\ InSession(m, pkt) /\ m.current_rx_page_offset = pkt.page
              /\ SameReception(r, Commit(m))
    BY <1>3, OnPageEndEffect
  <2> HIDE DEF r
  <2>3. CASE SameReception(r, m)
    BY <2>1, <2>2, <2>3 DEF r, SameReception, SameSession, SlotOk
  <2>4. CASE InSession(m, pkt) /\ m.current_rx_page_offset = pkt.page
               /\ SameReception(r, Commit(m))
    <3>1. m.ota_target_slot \in Slots /\ m.current_rx_page_offset \in Page
      BY <1>3, <2>4 DEF InSession, SlotOk, PageEndPkts
    <3>2. /\ Commit(m).ota_session_active = m.ota_session_active
          /\ Commit(m).ota_target_slot = m.ota_target_slot
      BY <3>1, CommitEffect
    <3> QED
      BY <2>1, <2>2, <2>4, <3>2 DEF r, SameReception, SameSession, SlotOk
  <2> QED
    BY <2>2, <2>3, <2>4
<1>4. CASE pkt \in VerifyPkts
  <2>1. Handled(m, pkt, leaf) = OnVerify(m, pkt, "ok", leaf)
    BY <1>4 DEF Handled, VerifyPkts
  <2> DEFINE r == OnVerify(m, pkt, "ok", leaf)
  <2>2. r \in Node /\ (r.ota_session_active => SameSession(r, m))
    BY <1>4, OnVerifyEffect
  <2> HIDE DEF r
  <2> QED
    BY <2>1, <2>2 DEF r, SameSession, SlotOk
<1> QED
  BY <1>1, <1>2, <1>3, <1>4 DEF Packets

\* What the process puts into the queue: a chunk of its page, or a PAGE_END.
EndPkts == [type : {"PAGE_END"}, page : Page, crc : PageContent \cup {<<>>},
            target : Target \cup {NoTarget}]

ProcessSends ==
  /\ \/ end_pkt' = end_pkt
     \/ end_pkt' = PageEndPkt(page_start_offset, end_pkt.crc, ota_target_slot)
  /\ \/ line' = line
     \/ Process /\ line' = Append(line, end_pkt')
     \/ Process /\ \E idx \in 0 .. total_chunks - 1 : line' = Append(line, ChunkPkt(idx))

LEMMA RoundHeadSends ==
  ASSUME NEW round, Process, RoundHead(round)
  PROVE  ProcessSends
<1>1. CASE PageIsComplete(session_nodes, session_bitmaps) \/ round >= MaxRounds
  BY <1>1 DEF RoundHead, AdvancePage, ProcessSends
<1>2. CASE ~(PageIsComplete(session_nodes, session_bitmaps) \/ round >= MaxRounds)
  BY <1>2 DEF RoundHead, PageEndOrWait, SendToAll, ProcessSends
<1> QED
  BY <1>1, <1>2

LEMMA LeaveWaitSends ==
  ASSUME NEW members, NEW bitmaps, LeaveWait(members, bitmaps)
  PROVE  line' = line /\ end_pkt' = end_pkt
<1>1. CASE PageIsComplete(members, bitmaps)
  BY <1>1 DEF LeaveWait, AdvancePage
<1>2. CASE ~PageIsComplete(members, bitmaps)
  BY <1>2 DEF LeaveWait
<1> QED
  BY <1>1, <1>2

LEMMA DistributeSends ==
  ASSUME CoordinatorTypeOK, Distribute
  PROVE  ProcessSends
<1>1. CASE SendChunk
  <2>1. dist_chunk_idx \in 0 .. total_chunks - 1
    BY <1>1 DEF SendChunk, CoordinatorTypeOK
  <2> QED
    BY <1>1, <2>1 DEF SendChunk, SendToAll, ProcessSends, Process
<1>2. CASE ChunksSent
  BY <1>2, RoundHeadSends DEF ChunksSent, Process
<1>3. CASE SendPageEnd
  BY <1>3 DEF SendPageEnd, SendToAll, ProcessSends, Process
<1>4. CASE AllRepliedEvent
  <2>1. CASE pc = "wait" /\ AllReplied(session_nodes, node_replied)
    BY <1>4, <2>1, LeaveWaitSends DEF AllRepliedEvent, ProcessSends
  <2>2. CASE ~(pc = "wait" /\ AllReplied(session_nodes, node_replied))
    BY <1>4, <2>2 DEF AllRepliedEvent, ProcessSends, processVars
  <2> QED
    BY <2>1, <2>2
<1>5. CASE ReportTimeout
  <2>1. CASE DropSilentNodes
    BY <2>1, LeaveWaitSends DEF DropSilentNodes, ProcessSends
  <2>2. CASE RepeatPageEnd
    BY <1>5, <2>2 DEF ReportTimeout, RepeatPageEnd, PageEndOrWait, SendToAll, ProcessSends, Process
  <2> QED
    BY <1>5, <2>1, <2>2 DEF ReportTimeout
<1>6. CASE Resend
  <2>1. CASE MissingChunks = {}
    BY <1>6, <2>1, RoundHeadSends DEF Resend, Process
  <2>2. CASE MissingChunks # {}
    <3>1. Min(MissingChunks) \in 0 .. total_chunks - 1
      BY <2>2, MissingHasMin DEF MissingChunks, CoordinatorTypeOK
    <3>2. line' = Append(line, ChunkPkt(Min(MissingChunks))) /\ end_pkt' = end_pkt
      BY <1>6, <2>2 DEF Resend, SendToAll
    <3> QED
      BY <1>6, <3>1, <3>2 DEF Resend, ProcessSends, Process
  <2> QED
    BY <2>1, <2>2
<1> QED
  BY <1>1, <1>2, <1>3, <1>4, <1>5, <1>6 DEF Distribute

\* The coordinator puts a packet into its queue, or nothing.
LEMMA QueuesStay ==
  ASSUME QueuesTypeOK, hop' = hop,
         line' = line \/ \E pkt \in Packets : line' = Append(line, pkt)
  PROVE  QueuesTypeOK'
<1>1. line \in Seq(Packets) /\ hop \in [DOMAIN Line -> Seq(Packets)]
  BY DEF QueuesTypeOK
<1>2. line' \in Seq(Packets)
  <2>1. \A pkt \in Packets : Append(line, pkt) \in Seq(Packets)
    BY <1>1
  <2> QED
    BY <1>1, <2>1
<1> QED
  BY <1>1, <1>2 DEF QueuesTypeOK

LEMMA ProcessPackets ==
  ASSUME CoordinatorTypeOK, CoordinatorInv, Distribute
  PROVE  /\ end_pkt' \in Packets
         /\ Process => \A idx \in 0 .. total_chunks - 1 : ChunkPkt(idx) \in Packets
<1>1. end_pkt' \in Packets
  BY DistributeKeepsTypes DEF CoordinatorTypeOK, Packets, PageEndPkts
<1>2. ASSUME Process, NEW idx \in 0 .. total_chunks - 1
      PROVE  ChunkPkt(idx) \in Packets
  <2>1. pc # "idle"
    BY <1>2 DEF Process
  <2>2. ExpectedPageSize > 0 /\ total_chunks = ExpectedPageSize
    BY <2>1 DEF CoordinatorInv, ProcessHasPage
  <2>3. page_start_offset \in Page /\ idx \in Chunk
    BY <1>2, <2>2, PlaceType, WireAssumption DEF Chunk
  <2>4. page_buffer[idx] \in Cell /\ ota_target_slot \in Target \cup {NoTarget}
    BY <2>3 DEF CoordinatorTypeOK
  <2> QED
    BY <2>3, <2>4 DEF ChunkPkt, DataPkt, DataPkts, Packets
<1> QED
  BY <1>1, <1>2

LEMMA ProcessQueues ==
  ASSUME CoordinatorTypeOK, CoordinatorInv, QueuesTypeOK, Distribute, hop' = hop
  PROVE  QueuesTypeOK'
<1>1. line' = line \/ \E pkt \in Packets : line' = Append(line, pkt)
  BY DistributeSends, ProcessPackets DEF ProcessSends
<1> QED
  BY <1>1, QueuesStay

\* The command the coordinator reads, and what it puts into the queue.
CommandSends ==
  \/ line' = line
  \/ /\ Head(commands).type = "S"
     /\ \E sec_ver \in SecVers : line' = Append(line, StartPkt(host.file.size, sec_ver, host.target))
  \/ /\ Head(commands).type = "V" /\ session_nodes # <<>>
     /\ line' = Append(line, VerifyPkt(ImageCrc(host.file), ota_target_slot))

LEMMA CommandKinds ==
  ASSUME LinkInv, Command
  PROVE  LET cmd == Head(commands)
         IN \/ /\ cmd.type = "S" /\ host.at = "start"
               /\ \E sec_ver \in SecVers, table \in RouteTables :
                    UartStart(table, host.file.size, sec_ver, host.target)
            \/ /\ cmd.type = "D" /\ host.at = "data"
               /\ UartData(host.page, host.chunk, host.file.data[host.page][host.chunk])
            \/ cmd.type = "V" /\ host.at = "verify" /\ UartVerify(ImageCrc(host.file))
<1> DEFINE cmd == Head(commands)
<1>1. \/ /\ cmd.type = "S"
         /\ \E table \in RouteTables : UartStart(table, cmd.size, cmd.sec_ver, cmd.target)
      \/ cmd.type = "D" /\ UartData(cmd.page, cmd.chunk, cmd.data)
      \/ cmd.type = "V" /\ UartVerify(cmd.crc)
  BY DEF Command, TakeCommand
<1>2. commands # <<>> /\ CommandOfHost
  BY DEF Command, TakeCommand, LinkInv
<1>3. CASE /\ host.at = "start"
           /\ \E sec_ver \in SecVers : commands = <<StartCmd(host.file, sec_ver, host.target)>>
  <2>1. PICK sec_ver \in SecVers : commands = <<StartCmd(host.file, sec_ver, host.target)>>
    BY <1>3
  <2>2. /\ cmd.type = "S" /\ cmd.size = host.file.size /\ cmd.sec_ver = sec_ver
        /\ cmd.target = host.target
    BY <2>1 DEF StartCmd
  <2> QED
    BY <1>1, <1>3, <2>2
<1>4. CASE host.at = "data" /\ commands = <<DataCmd(host.file, host.page, host.chunk)>>
  <2>1. /\ cmd.type = "D" /\ cmd.page = host.page /\ cmd.chunk = host.chunk
        /\ cmd.data = host.file.data[host.page][host.chunk]
    BY <1>4 DEF DataCmd
  <2> QED
    BY <1>1, <1>4, <2>1
<1>5. CASE host.at = "verify" /\ commands = <<VerifyCmd(host.file)>>
  <2>1. cmd.type = "V" /\ cmd.crc = ImageCrc(host.file)
    BY <1>5 DEF VerifyCmd
  <2> QED
    BY <1>1, <1>5, <2>1
<1> QED
  BY <1>2, <1>3, <1>4, <1>5 DEF CommandOfHost

LEMMA CommandQueues ==
  ASSUME LinkInv, Command
  PROVE  CommandSends
<1>1. CASE /\ Head(commands).type = "S"
           /\ \E sec_ver \in SecVers, table \in RouteTables :
                UartStart(table, host.file.size, sec_ver, host.target)
  BY <1>1 DEF UartStart, SendToAll, CommandSends
<1>2. CASE UartData(host.page, host.chunk, host.file.data[host.page][host.chunk])
  BY <1>2 DEF UartData, CommandSends
<1>3. CASE Head(commands).type = "V" /\ UartVerify(ImageCrc(host.file))
  BY <1>3 DEF UartVerify, SendToAll, CommandSends
<1> QED
  BY <1>1, <1>2, <1>3, CommandKinds

LEMMA ImageCrcType ==
  ASSUME NEW img \in Image
  PROVE  ImageCrc(img) \in Seq(PageContent) /\ Len(ImageCrc(img)) = img.size.pages
<1>1. img.size \in FileSize /\ img.size.pages \in Nat
  BY WireAssumption DEF Image, FileSize, Size
<1>2. ASSUME NEW i \in 1 .. img.size.pages
      PROVE  ImagePage(img, i - 1) \in PageContent
  <2>1. i - 1 \in 0 .. img.size.pages - 1
    BY <1>1, <1>2
  <2>2. PageLen(img.size, i - 1) \in 0 .. PageChunks /\ i - 1 \in Page
    BY <1>1, <2>1, FilePageLen, WireAssumption
  <2>3. img.data[i - 1] \in [Chunk -> Cell]
    BY <2>2 DEF Image
  <2> QED
    BY <2>2, <2>3, PrefixType DEF ImagePage
<1> QED
  BY <1>1, <1>2 DEF ImageCrc

LEMMA CommandQueuesType ==
  ASSUME CoordinatorTypeOK, LinkInv, QueuesTypeOK, Command, hop' = hop
  PROVE  QueuesTypeOK'
<1>1. host.file \in Image /\ host.file.size \in Size /\ host.target \in Target
  BY HostFile, SenderAssumption DEF LinkInv, FileSize, HostState
<1>2. ASSUME NEW sec_ver \in SecVers
      PROVE  StartPkt(host.file.size, sec_ver, host.target) \in Packets
  BY <1>1, SenderAssumption DEF StartPkt, StartPkts, Packets
<1>3. VerifyPkt(ImageCrc(host.file), ota_target_slot) \in Packets
  BY <1>1, ImageCrcType DEF VerifyPkt, VerifyPkts, Packets, CoordinatorTypeOK
<1>4. line' = line \/ \E pkt \in Packets : line' = Append(line, pkt)
  BY <1>2, <1>3, CommandQueues DEF CommandSends
<1> QED
  BY <1>4, QueuesStay

-----------------------------------------------------------------------------
(* Each step of the system is a step of OtaUart, or none of its variables'. *)

SystemAgrees == [Next]_vars /\ SystemTypeOK'

LEMMA SameNodes ==
  ASSUME SystemTypeOK, QueuesTypeOK', nodes' = nodes, reports' \subseteq reports
  PROVE  SystemTypeOK'
BY DEF SystemTypeOK

LEMMA HostActsMaps ==
  ASSUME SystemTypeOK, HostActs
  PROVE  SystemAgrees
<1>1. HostStep /\ line' = line /\ hop' = hop /\ nodes' = nodes /\ reports' = reports
  BY DEF HostActs, HostStep, SenderStep, coordinatorOnlyVars, systemVars, networkVars
<1>2. QueuesTypeOK'
  BY <1>1, QueuesStay DEF SystemTypeOK
<1> QED
  BY <1>1, <1>2, SameNodes DEF SystemAgrees, Next

LEMMA CommandArrivesMaps ==
  ASSUME Base, SystemTypeOK, CommandArrives
  PROVE  SystemAgrees
<1>1. Command /\ hop' = hop /\ nodes' = nodes /\ reports' = reports
  BY DEF CommandArrives, systemVars, networkVars
<1>2. QueuesTypeOK'
  BY <1>1, CommandQueuesType DEF SystemTypeOK, Base
<1> QED
  BY <1>1, <1>2, SameNodes DEF SystemAgrees, Next

LEMMA AdmissionTimesOutMaps ==
  ASSUME SystemTypeOK, AdmissionTimesOut
  PROVE  SystemAgrees
<1>1. AdmissionEnds /\ line' = line /\ hop' = hop /\ nodes' = nodes /\ reports' = reports
  BY DEF AdmissionTimesOut, AdmissionEnds, AdmissionTimeout, systemVars, networkVars
<1>2. QueuesTypeOK'
  BY <1>1, QueuesStay DEF SystemTypeOK
<1> QED
  BY <1>1, <1>2, SameNodes DEF SystemAgrees, Next

LEMMA ProcessRunsMaps ==
  ASSUME Base, SystemTypeOK, ProcessRuns
  PROVE  SystemAgrees
<1>1. Distributes /\ hop' = hop /\ nodes' = nodes /\ reports' = reports
  BY DEF ProcessRuns, Distributes, Distribute, systemVars, networkVars
<1>2. QueuesTypeOK'
  BY <1>1, ProcessQueues DEF SystemTypeOK, Base, Distributes
<1> QED
  BY <1>1, <1>2, SameNodes DEF SystemAgrees, Next

\* The first packet leaves the queue of the coordinator, or a later one of a node.
LEMMA PassingMaps ==
  ASSUME NEW i \in DOMAIN Line, NEW forwarded, Inbox(i) # <<>>, PassedOn(i, forwarded),
         UNCHANGED <<hostAndCoordinatorVars, first_answer, complete>>
  PROVE  [Next]_vars
<1>1. CASE i = 1
  <2>1. line # <<>> /\ line' = Tail(line)
    BY <1>1 DEF Inbox, PassedOn
  <2>2. LineDrains
    BY <2>1 DEF LineDrains, hostAndCoordinatorVars
  <2> QED
    BY <2>2 DEF Next
<1>2. CASE i # 1
  <2>1. line' = line
    BY <1>2 DEF PassedOn
  <2> QED
    BY <2>1 DEF vars, coordinatorVars, hostAndCoordinatorVars
<1> QED
  BY <1>1, <1>2

LEMMA ReceiveMaps ==
  ASSUME SystemTypeOK, NEW i \in DOMAIN Line, Receive(i)
  PROVE  SystemAgrees
<1> DEFINE pkt == Head(Inbox(i))
           n == Line[i]
<1>1. /\ n \in Nodes /\ nodes[n] \in Node /\ SlotOk(nodes[n])
      /\ nodes \in [Nodes -> Node] /\ \A node \in Nodes : SlotOk(nodes[node])
  BY LineType DEF SystemTypeOK
<1>2. pkt \in Packets /\ PassedOn(i, TRUE) /\ Inbox(i) # <<>>
  <2>1. Inbox(i) # <<>> /\ PassedOn(i, TRUE)
    BY DEF Receive, Forwards
  <2>2. Inbox(i) \in Seq(Packets)
    BY InboxType DEF SystemTypeOK
  <2>3. Head(Inbox(i)) \in Packets
    BY <2>1, <2>2
  <2> QED
    BY <2>1, <2>3
<1>3. QueuesTypeOK'
  BY <1>2, PassedOnPasses DEF SystemTypeOK
<1>4. /\ nodes' = [nodes EXCEPT ![n] = Handled(nodes[n], pkt, i = Len(Line))]
      /\ reports' = IF pkt.type = "START" THEN reports \cup {StartReportOf(n, pkt)} ELSE reports
  BY DEF Receive
<1>5. StartReportOf(n, pkt) \in Reports
  BY <1>1 DEF StartReportOf, Reports
<1>6. [Next]_vars
  BY <1>2, PassingMaps DEF Receive
<1> HIDE DEF pkt, n
<1> DEFINE r == Handled(nodes[n], pkt, i = Len(Line))
<1>7. r \in Node /\ SlotOk(r)
  BY <1>1, <1>2, HandledType
<1>8. nodes' = [nodes EXCEPT ![n] = r]
  BY <1>4
<1> HIDE DEF r
<1>9. nodes' \in [Nodes -> Node] /\ \A node \in Nodes : SlotOk(nodes'[node])
  BY <1>1, <1>7, <1>8
<1>10. reports' \subseteq Reports
  BY <1>4, <1>5 DEF SystemTypeOK
<1> QED
  BY <1>3, <1>6, <1>9, <1>10 DEF SystemAgrees, SystemTypeOK

LEMMA SendReportMaps ==
  ASSUME SystemTypeOK, NEW n \in Nodes, SendReport(n)
  PROVE  SystemAgrees
<1>1. /\ nodes[n] \in Node /\ SlotOk(nodes[n])
      /\ nodes \in [Nodes -> Node] /\ \A node \in Nodes : SlotOk(nodes[node])
  BY DEF SystemTypeOK
<1>2. /\ nodes' = [nodes EXCEPT ![n] = ReportSent(nodes[n])]
      /\ reports' = reports \cup {BitmapReportOf(n, nodes[n].report_to_send)}
      /\ line' = line /\ hop' = hop
  BY DEF SendReport
<1>3. BitmapReportOf(n, nodes[n].report_to_send) \in Reports
  <2>1. nodes[n].report_to_send \in [page : Page \cup {NoPage}, bitmap : SUBSET Chunk]
    BY <1>1 DEF Node
  <2> QED
    BY <2>1 DEF BitmapReportOf, Reports
<1>4. vars' = vars
  BY DEF SendReport, vars, coordinatorVars, hostAndCoordinatorVars
<1> DEFINE r == ReportSent(nodes[n])
<1>5. r \in Node /\ SlotOk(r)
  BY <1>1, TimersEffect DEF SlotOk, SameReception, SameSession
<1>6. nodes' = [nodes EXCEPT ![n] = r]
  BY <1>2
<1> HIDE DEF r
<1>7. nodes' \in [Nodes -> Node] /\ \A node \in Nodes : SlotOk(nodes'[node])
  BY <1>1, <1>5, <1>6
<1>8. QueuesTypeOK'
  BY <1>2, QueuesStay DEF SystemTypeOK
<1>9. reports' \subseteq Reports
  BY <1>2, <1>3 DEF SystemTypeOK
<1> QED
  BY <1>4, <1>7, <1>8, <1>9 DEF SystemAgrees, SystemTypeOK

\* A report of no page is of no page the coordinator is at.
LEMMA DeliverReportMaps ==
  ASSUME Base, SystemTypeOK, NEW r \in reports, DeliverReport(r)
  PROVE  SystemAgrees
<1>1. r \in Reports
  BY DEF SystemTypeOK
<1>2. nodes' = nodes /\ hop' = hop /\ reports' = reports \ {r}
  BY DEF DeliverReport
<1>3. CASE r.type = "START_REPORT" /\ StartReport(r.node, r.accepted)
  <2>1. r.node \in Nodes /\ r.accepted \in BOOLEAN
    BY <1>1, <1>3 DEF Reports
  <2>2. line' = line
    BY <1>3 DEF StartReport, HandleStartReport
  <2>3. Next
    BY <1>3, <2>1 DEF Next
  <2>4. QueuesTypeOK'
    BY <1>2, <2>2, QueuesStay DEF SystemTypeOK
  <2> QED
    BY <1>2, <2>3, <2>4, SameNodes DEF SystemAgrees
<1>4. CASE r.type = "BITMAP_REPORT" /\ BitmapReport(r.node, r.report.page, r.report.bitmap)
  <2>1. /\ r.node \in Nodes /\ r.report.page \in Page \cup {NoPage}
        /\ r.report.bitmap \in SUBSET Chunk
    BY <1>1, <1>4 DEF Reports
  <2>2. line' = line
    BY <1>4 DEF BitmapReport, HandleBitmapReport
  <2>3. ASSUME r.report.page \in Page
        PROVE  Next
    BY <1>4, <2>1, <2>3 DEF Next
  <2>4. ASSUME r.report.page = NoPage
        PROVE  UNCHANGED vars
    <3>1. page_start_offset # NoPage
      BY PlaceType DEF Base, NoPage
    <3>2. IgnoresBitmapReport(r.node, r.report.page) /\ complete' = complete
      BY <1>4, <2>4, <3>1 DEF BitmapReport, IgnoresBitmapReport
    <3> QED
      BY <1>4, <3>2 DEF BitmapReport, HandleBitmapReport, vars, coordinatorVars, sessionVars
  <2>5. QueuesTypeOK'
    BY <1>2, <2>2, QueuesStay DEF SystemTypeOK
  <2> QED
    BY <1>2, <2>1, <2>3, <2>4, <2>5, SameNodes DEF SystemAgrees
<1> QED
  BY <1>3, <1>4 DEF DeliverReport

LEMMA NetworkLosesMaps ==
  ASSUME SystemTypeOK, NetworkLoses
  PROVE  SystemAgrees
<1>1. UNCHANGED <<hostAndCoordinatorVars, first_answer, complete>> /\ nodes' = nodes
  BY DEF NetworkLoses, Losses, LosePacket, LoseReport
<1>2. ASSUME NEW i \in DOMAIN Line, LosePacket(i)
      PROVE  SystemAgrees
  <2>1. QueuesTypeOK' /\ [Next]_vars /\ reports' = reports
    BY <1>1, <1>2, PassedOnPasses, PassingMaps DEF LosePacket, SystemTypeOK
  <2> QED
    BY <1>1, <2>1, SameNodes DEF SystemAgrees
<1>3. ASSUME NEW r \in reports, LoseReport(r)
      PROVE  SystemAgrees
  <2>1. line' = line /\ hop' = hop /\ reports' = reports \ {r}
    BY <1>3 DEF LoseReport
  <2>2. QueuesTypeOK'
    BY <2>1, QueuesStay DEF SystemTypeOK
  <2>3. vars' = vars
    BY <1>1, <2>1 DEF vars, coordinatorVars, hostAndCoordinatorVars
  <2> QED
    BY <1>1, <2>1, <2>2, <2>3, SameNodes DEF SystemAgrees
<1> QED
  BY <1>2, <1>3 DEF NetworkLoses, Losses

LEMMA StepMaps ==
  ASSUME Base, SystemTypeOK, [SystemNext]_allVars
  PROVE  SystemAgrees
<1>1. CASE UNCHANGED allVars
  <2>1. /\ vars' = vars /\ line' = line /\ hop' = hop /\ nodes' = nodes
        /\ reports' = reports
    BY <1>1 DEF allVars, systemVars, networkVars, vars, coordinatorVars
  <2>2. QueuesTypeOK'
    BY <2>1, QueuesStay DEF SystemTypeOK
  <2> QED
    BY <2>1, <2>2, SameNodes DEF SystemAgrees
<1> QED
  BY <1>1, HostActsMaps, CommandArrivesMaps, AdmissionTimesOutMaps, ProcessRunsMaps, ReceiveMaps,
     SendReportMaps, DeliverReportMaps, NetworkLosesMaps DEF SystemNext, Network

LEMMA SystemInitType == SystemInit => Base /\ SystemTypeOK
<1> SUFFICES ASSUME SystemInit
             PROVE  Base /\ SystemTypeOK
  OBVIOUS
<1>1. Base
  BY BaseInit DEF SystemInit
<1>2. BlankFlash \in [Slots -> [Page -> [Chunk -> Cell]]]
  BY ErasedPageType DEF BlankFlash
<1>3. \A node \in Nodes : /\ nodes[node] \in Node
                          /\ nodes[node].ota_session_active = FALSE
  BY <1>2, BootType, SystemAssumption DEF SystemInit
<1>4. nodes \in [Nodes -> Node]
  BY <1>3 DEF SystemInit
<1>5. QueuesTypeOK /\ reports \subseteq Reports
  BY DEF SystemInit, NetworkInit, Init, CoordinatorInit, QueuesTypeOK
<1> QED
  BY <1>1, <1>3, <1>4, <1>5 DEF SystemTypeOK, SlotOk

LEMMA SystemBase == WaitsForCoordinator => (SystemSpec => [](Base /\ SystemTypeOK))
<1> SUFFICES ASSUME WaitsForCoordinator
             PROVE  SystemSpec => [](Base /\ SystemTypeOK)
  OBVIOUS
<1>1. (Base /\ SystemTypeOK) /\ [SystemNext]_allVars => (Base /\ SystemTypeOK)'
  BY StepMaps, BaseStep DEF SystemAgrees
<1> QED
  BY <1>1, SystemInitType, PTL DEF SystemSpec

\* Refinement: with real nodes and their line behind it, the coordinator does nothing
\* it does not do with nodes that answer anything, so what OtaUartProofs proves of
\* OtaUart holds of the system.
THEOREM SystemImplementsUart == WaitsForCoordinator => (SystemSpec => ImplementsUart)
<1> SUFFICES ASSUME WaitsForCoordinator
             PROVE  SystemSpec => ImplementsUart
  OBVIOUS
<1>1. SystemInit => Init
  BY DEF SystemInit
<1>2. (Base /\ SystemTypeOK) /\ [SystemNext]_allVars => [Next]_vars
  BY StepMaps DEF SystemAgrees
<1> QED
  BY <1>1, <1>2, SystemBase, PTL DEF SystemSpec, ImplementsUart, Spec

-----------------------------------------------------------------------------
(* The queues: what is sent stays in order. *)

\* The file is the same, and the coordinator goes forward through it.
Forward ==
  /\ host'.file = host.file /\ host'.target = host.target
  /\ page_start_offset \in Int /\ page_start_offset' \in Int
  /\ page_start_offset <= page_start_offset'
  /\ Finished => Finished'

OthersFresh(i) == \A j \in DOMAIN Line : j # i /\ Fresh(Line[j]) => Fresh(Line[j])'

StreamStays ==
  StreamInOrder' /\ \A i \in DOMAIN Line : AfterVerify(i) => AfterVerify(i)'

LEMMA OfStreamStays ==
  ASSUME Forward, NEW pkt \in Packets, OfStream(pkt)
  PROVE  OfStream(pkt)'
<1>1. CASE pkt \in DataPkts
  <2>1. pkt.type = "DATA" /\ pkt.page \in Int
    BY <1>1 DEF DataPkts, Page
  <2> QED
    BY <2>1 DEF OfStream, Forward
<1>2. CASE pkt \in PageEndPkts
  <2>1. pkt.type = "PAGE_END" /\ pkt.page \in Int
    BY <1>2 DEF PageEndPkts, Page
  <2> QED
    BY <2>1 DEF OfStream, Forward
<1>3. CASE pkt \in StartPkts \cup VerifyPkts
  <2>1. pkt.type \in {"START", "VERIFY"}
    BY <1>3 DEF StartPkts, VerifyPkts
  <2> QED
    BY <2>1 DEF OfStream, Forward
<1> QED
  BY <1>1, <1>2, <1>3 DEF Packets

\* Where each packet was before one was passed on.
LEMMA PassedPackets ==
  ASSUME QueuesTypeOK, NEW i \in DOMAIN Line, NEW forwarded \in BOOLEAN,
         Inbox(i) # <<>>, Passes(i, forwarded),
         NEW j \in DOMAIN Line, NEW k \in DOMAIN (Inbox(j)')
  PROVE  \/ j = i /\ k + 1 \in DOMAIN Inbox(i) /\ Inbox(j)'[k] = Inbox(i)[k + 1]
         \/ /\ j = i + 1 /\ forwarded /\ k = Len(Inbox(j)) + 1
            /\ Inbox(j)'[k] = Head(Inbox(i))
         \/ j # i /\ k \in DOMAIN Inbox(j) /\ Inbox(j)'[k] = Inbox(j)[k]
<1>1. Inbox(i) \in Seq(Packets) /\ Inbox(j) \in Seq(Packets)
  BY InboxType
<1>2. CASE j = i
  BY <1>1, <1>2 DEF Passes
<1>3. CASE j = i + 1
  <2>1. j # i
    BY <1>3, LineType
  <2>2. Inbox(j)' = IF forwarded THEN Append(Inbox(j), Head(Inbox(i))) ELSE Inbox(j)
    BY <1>3 DEF Passes
  <2>3. CASE forwarded
    <3>1. PICK pkt \in Packets : pkt = Head(Inbox(i))
      BY <1>1
    <3>2. Inbox(j)' = Append(Inbox(j), pkt)
      BY <2>2, <2>3, <3>1
    <3>3. \/ k = Len(Inbox(j)) + 1 /\ Inbox(j)'[k] = pkt
          \/ k \in DOMAIN Inbox(j) /\ Inbox(j)'[k] = Inbox(j)[k]
      BY <1>1, <3>2
    <3> QED
      BY <1>3, <2>1, <2>3, <3>1, <3>3
  <2>4. CASE ~forwarded
    BY <2>1, <2>2, <2>4
  <2> QED
    BY <2>3, <2>4
<1>4. CASE j # i /\ j # i + 1
  BY <1>4 DEF Passes
<1> QED
  BY <1>2, <1>3, <1>4

LEMMA StreamSame ==
  ASSUME Forward, QueuesTypeOK, StreamInOrder, UNCHANGED <<line, hop>>,
         \A node \in Nodes : Fresh(node) => Fresh(node)'
  PROVE  StreamStays
<1>1. \A i \in DOMAIN Line : Inbox(i)' = Inbox(i)
  BY DEF Inbox
<1>2. ASSUME NEW i \in DOMAIN Line, NEW k \in DOMAIN Inbox(i)
      PROVE  OfStream(Inbox(i)[k])'
  <2>1. Inbox(i)[k] \in Packets
    BY InboxType
  <2> DEFINE pkt == Inbox(i)[k]
  <2>2. OfStream(pkt)
    BY DEF StreamInOrder
  <2>3. PICK q \in Packets : q = pkt
    BY <2>1
  <2>4. OfStream(q)'
    BY <2>2, <2>3, OfStreamStays
  <2>5. Inbox(i)'[k] = q
    BY <1>1, <2>3
  <2> QED
    BY <2>4, <2>5 DEF OfStream
<1>3. \A i \in DOMAIN Line : OnlyVerify(i)' <=> OnlyVerify(i)
  BY <1>1 DEF OnlyVerify
<1>4. \A i \in DOMAIN Line : AfterVerify(i) => AfterVerify(i)'
  <2>1. \A i \in DOMAIN Line : 1 .. i \subseteq DOMAIN Line
    BY LineType
  <2> QED
    BY <1>3, <2>1 DEF AfterVerify, Forward
<1>5. StreamInOrder'
  BY <1>1, <1>2, <1>3, LineType DEF StreamInOrder
<1> QED
  BY <1>4, <1>5 DEF StreamStays

LEMMA StreamSends ==
  ASSUME Forward, QueuesTypeOK, StreamInOrder, NEW pkt \in Packets,
         line' = Append(line, pkt), hop' = hop, OfStream(pkt)',
         pkt.type # "START", pkt.type # "VERIFY" => ~Finished,
         \A node \in Nodes : Fresh(node) => Fresh(node)'
  PROVE  StreamStays
<1>1. /\ 1 \in DOMAIN Line /\ Inbox(1) \in Seq(Packets) /\ Inbox(1)' = Append(Inbox(1), pkt)
      /\ \A i \in DOMAIN Line : i # 1 => Inbox(i)' = Inbox(i)
  BY LineType DEF Inbox, QueuesTypeOK
<1>2. ASSUME NEW i \in DOMAIN Line, NEW k \in DOMAIN (Inbox(i)')
      PROVE  \/ i = 1 /\ k = Len(Inbox(1)) + 1 /\ Inbox(i)'[k] = pkt
             \/ k \in DOMAIN Inbox(i) /\ Inbox(i)'[k] = Inbox(i)[k]
  <2>1. CASE i = 1
    BY <1>1, <1>2, <2>1
  <2>2. CASE i # 1
    BY <1>1, <1>2, <2>2
  <2> QED
    BY <2>1, <2>2
<1>3. ASSUME NEW i \in DOMAIN Line, NEW k \in DOMAIN (Inbox(i)')
      PROVE  OfStream(Inbox(i)[k])'
  <2>1. CASE Inbox(i)'[k] = pkt
    BY <2>1 DEF OfStream
  <2>2. CASE k \in DOMAIN Inbox(i) /\ Inbox(i)'[k] = Inbox(i)[k]
    <3>1. PICK q \in Packets : q = Inbox(i)[k]
      BY <2>2, InboxType
    <3>2. OfStream(q)
      BY <2>2, <3>1 DEF StreamInOrder
    <3>3. OfStream(q)'
      BY <3>2, OfStreamStays
    <3>4. Inbox(i)'[k] = q
      BY <2>2, <3>1
    <3> QED
      BY <3>3, <3>4 DEF OfStream
  <2> QED
    BY <1>2, <1>3, <2>1, <2>2
<1>4. ASSUME NEW i \in DOMAIN Line, OnlyVerify(i), pkt.type = "VERIFY"
      PROVE  OnlyVerify(i)'
  BY <1>2, <1>4 DEF OnlyVerify
<1>5. ASSUME NEW i \in DOMAIN Line, NEW k \in DOMAIN Inbox(i), Inbox(i)[k].type = "VERIFY"
      PROVE  pkt.type = "VERIFY"
  BY <1>5 DEF StreamInOrder, OfStream
<1>6. ASSUME NEW i \in DOMAIN Line, AfterVerify(i)
      PROVE  AfterVerify(i)'
  <2>1. 1 .. i \subseteq DOMAIN Line
    BY LineType
  <2> QED
    BY <1>4, <1>6, <2>1 DEF AfterVerify, Forward
<1>7. ASSUME NEW i \in DOMAIN Line, NEW k \in DOMAIN (Inbox(i)'), Inbox(i)'[k].type = "START"
      PROVE  /\ k = 1
             /\ \A j \in DOMAIN Line :
                  (j > i => Inbox(j)' = <<>>) /\ (j >= i => Fresh(Line[j])')
  <2>1. k \in DOMAIN Inbox(i) /\ Inbox(i)[k].type = "START"
    BY <1>2, <1>7
  <2>2. /\ k = 1
        /\ \A j \in DOMAIN Line : (j > i => Inbox(j) = <<>>) /\ (j >= i => Fresh(Line[j]))
    BY <2>1 DEF StreamInOrder
  <2>3. \A j \in DOMAIN Line : j > i => j # 1
    BY LineType
  <2> QED
    BY <1>1, <2>2, <2>3, LineType
<1>8. ASSUME NEW i \in DOMAIN Line, NEW k \in DOMAIN (Inbox(i)'), Inbox(i)'[k].type = "VERIFY"
      PROVE  /\ \A l \in DOMAIN (Inbox(i)') : l >= k => Inbox(i)'[l].type = "VERIFY"
             /\ \A j \in DOMAIN Line : j < i => OnlyVerify(j)'
  <2>1. pkt.type = "VERIFY"
    BY <1>2, <1>5, <1>8
  <2>2. CASE k \in DOMAIN Inbox(i) /\ Inbox(i)[k].type = "VERIFY"
    <3>1. /\ \A l \in DOMAIN Inbox(i) : l >= k => Inbox(i)[l].type = "VERIFY"
          /\ \A j \in DOMAIN Line : j < i => OnlyVerify(j)
      BY <2>2 DEF StreamInOrder
    <3> QED
      BY <1>2, <1>4, <2>1, <3>1
  <2>3. CASE i = 1 /\ k = Len(Inbox(1)) + 1
    <3>1. \A l \in DOMAIN (Inbox(i)') : l >= k => l = k
      BY <1>1, <2>3
    <3>2. \A j \in DOMAIN Line : ~(j < i)
      BY <2>3, LineType
    <3> QED
      BY <1>8, <3>1, <3>2
  <2> QED
    BY <1>2, <1>8, <2>2, <2>3
<1>9. StreamInOrder'
  BY <1>3, <1>7, <1>8 DEF StreamInOrder
<1> QED
  BY <1>6, <1>9 DEF StreamStays

LEMMA StreamPasses ==
  ASSUME Forward, QueuesTypeOK, StreamInOrder, NEW i \in DOMAIN Line,
         NEW forwarded \in BOOLEAN, Inbox(i) # <<>>, Passes(i, forwarded), OthersFresh(i)
  PROVE  StreamStays
<1>1. \A j \in DOMAIN Line : j \in Nat /\ Inbox(j) \in Seq(Packets)
  BY InboxType, LineType
<1>2. 1 \in DOMAIN Inbox(i) /\ Inbox(i)[1] = Head(Inbox(i))
  BY <1>1
<1>3. ASSUME NEW j \in DOMAIN Line, NEW k \in DOMAIN (Inbox(j)')
      PROVE  \E h \in DOMAIN Line : \E l \in DOMAIN Inbox(h) : Inbox(j)'[k] = Inbox(h)[l]
  BY <1>2, <1>3, PassedPackets
<1>4. ASSUME NEW j \in DOMAIN Line, NEW k \in DOMAIN (Inbox(j)')
      PROVE  OfStream(Inbox(j)[k])'
  <2>1. PICK h \in DOMAIN Line : \E l \in DOMAIN Inbox(h) : Inbox(j)'[k] = Inbox(h)[l]
    BY <1>3, <1>4
  <2>2. PICK l \in DOMAIN Inbox(h) : Inbox(j)'[k] = Inbox(h)[l]
    BY <2>1
  <2>3. PICK q \in Packets : q = Inbox(h)[l]
    BY InboxType
  <2>4. OfStream(q)
    BY <2>3 DEF StreamInOrder
  <2>5. OfStream(q)'
    BY <2>4, OfStreamStays
  <2>6. Inbox(j)'[k] = q
    BY <2>2, <2>3
  <2> QED
    BY <2>5, <2>6 DEF OfStream
<1>5. ASSUME NEW j \in DOMAIN Line, OnlyVerify(j),
             j = i + 1 => Head(Inbox(i)).type = "VERIFY"
      PROVE  OnlyVerify(j)'
  <2> SUFFICES ASSUME NEW k \in DOMAIN (Inbox(j)')
               PROVE  Inbox(j)'[k].type = "VERIFY"
    BY DEF OnlyVerify
  <2> QED
    BY <1>5, PassedPackets DEF OnlyVerify
<1>6. ASSUME NEW j \in DOMAIN Line, AfterVerify(j)
      PROVE  AfterVerify(j)'
  <2>1. 1 .. j \subseteq DOMAIN Line
    BY LineType
  <2>2. ASSUME NEW h \in 1 .. j
        PROVE  OnlyVerify(h)'
    <3>1. h \in DOMAIN Line /\ OnlyVerify(h)
      BY <1>6, <2>1 DEF AfterVerify
    <3>2. h = i + 1 => i \in 1 .. j
      BY <1>1, LineType
    <3>3. h = i + 1 => Head(Inbox(i)).type = "VERIFY"
      BY <1>2, <1>6, <3>2 DEF AfterVerify, OnlyVerify
    <3> QED
      BY <1>5, <3>1, <3>3
  <2> QED
    BY <1>6, <2>2 DEF AfterVerify, Forward
<1>7. ASSUME NEW j \in DOMAIN Line, NEW k \in DOMAIN (Inbox(j)'), Inbox(j)'[k].type = "START"
      PROVE  /\ k = 1
             /\ \A h \in DOMAIN Line :
                  (h > j => Inbox(h)' = <<>>) /\ (h >= j => Fresh(Line[h])')
  <2>1. CASE j = i /\ k + 1 \in DOMAIN Inbox(i) /\ Inbox(j)'[k] = Inbox(i)[k + 1]
    <3>1. k + 1 = 1
      BY <1>7, <2>1 DEF StreamInOrder
    <3> QED
      BY <1>1, <2>1, <3>1
  <2>2. CASE j = i + 1 /\ k = Len(Inbox(j)) + 1 /\ Inbox(j)'[k] = Head(Inbox(i))
    <3>1. \A h \in DOMAIN Line : (h > i => Inbox(h) = <<>>) /\ (h >= i => Fresh(Line[h]))
      BY <1>2, <1>7, <2>2 DEF StreamInOrder
    <3>2. \A h \in DOMAIN Line : h > j => h # i /\ h # i + 1 /\ Inbox(h)' = <<>>
      BY <1>1, <2>2, <3>1 DEF Passes
    <3>3. k = 1
      BY <1>1, <2>2, <3>1
    <3>4. \A h \in DOMAIN Line : h >= j => h # i /\ h >= i
      BY <1>1, <2>2
    <3> QED
      BY <3>1, <3>2, <3>3, <3>4 DEF OthersFresh
  <2>3. CASE j # i /\ k \in DOMAIN Inbox(j) /\ Inbox(j)'[k] = Inbox(j)[k]
    <3>1. /\ k = 1
          /\ \A h \in DOMAIN Line : (h > j => Inbox(h) = <<>>) /\ (h >= j => Fresh(Line[h]))
      BY <1>7, <2>3 DEF StreamInOrder
    <3>2. ~(i > j) /\ i < j
      BY <1>1, <2>3, <3>1
    <3>3. \A h \in DOMAIN Line : h > j => h # i /\ h # i + 1 /\ Inbox(h)' = <<>>
      BY <1>1, <3>1, <3>2 DEF Passes
    <3>4. \A h \in DOMAIN Line : h >= j => h # i
      BY <1>1, <3>2
    <3> QED
      BY <3>1, <3>3, <3>4 DEF OthersFresh
  <2> QED
    BY <1>7, <2>1, <2>2, <2>3, PassedPackets
<1>8. ASSUME NEW j \in DOMAIN Line, NEW k \in DOMAIN (Inbox(j)'), Inbox(j)'[k].type = "VERIFY"
      PROVE  /\ \A l \in DOMAIN (Inbox(j)') : l >= k => Inbox(j)'[l].type = "VERIFY"
             /\ \A h \in DOMAIN Line : h < j => OnlyVerify(h)'
  <2>1. CASE j = i /\ k + 1 \in DOMAIN Inbox(i) /\ Inbox(j)'[k] = Inbox(i)[k + 1]
    <3>1. /\ \A l \in DOMAIN Inbox(i) : l >= k + 1 => Inbox(i)[l].type = "VERIFY"
          /\ \A h \in DOMAIN Line : h < i => OnlyVerify(h)
      BY <1>8, <2>1 DEF StreamInOrder
    <3>2. Inbox(i)' = Tail(Inbox(i))
      BY DEF Passes
    <3>3. ASSUME NEW l \in DOMAIN (Inbox(j)'), l >= k
          PROVE  Inbox(j)'[l].type = "VERIFY"
      <4>1. l + 1 \in DOMAIN Inbox(i) /\ Inbox(j)'[l] = Inbox(i)[l + 1] /\ l + 1 >= k + 1
        BY <1>1, <2>1, <3>2, <3>3
      <4> QED
        BY <3>1, <4>1
    <3>4. \A h \in DOMAIN Line : h < j => h # i + 1
      BY <1>1, <2>1
    <3> QED
      BY <1>5, <2>1, <3>1, <3>3, <3>4
  <2>2. CASE j = i + 1 /\ k = Len(Inbox(j)) + 1 /\ Inbox(j)'[k] = Head(Inbox(i))
    <3>1. /\ \A l \in DOMAIN Inbox(i) : l >= 1 => Inbox(i)[l].type = "VERIFY"
          /\ \A h \in DOMAIN Line : h < i => OnlyVerify(h)
      BY <1>2, <1>8, <2>2 DEF StreamInOrder
    <3>2. OnlyVerify(i)
      BY <1>1, <3>1 DEF OnlyVerify
    <3>3. \A h \in DOMAIN Line : h < j => h # i + 1 /\ OnlyVerify(h)
      BY <1>1, <2>2, <3>1, <3>2
    <3>4. \A l \in DOMAIN (Inbox(j)') : l >= k => l = k
      <4>1. \A l \in DOMAIN (Inbox(j)') : l = Len(Inbox(j)) + 1 \/ l \in DOMAIN Inbox(j)
        BY <2>2, PassedPackets, LineType
      <4> QED
        BY <1>1, <2>2, <4>1
    <3> QED
      BY <1>5, <1>8, <3>3, <3>4
  <2>3. CASE j # i /\ k \in DOMAIN Inbox(j) /\ Inbox(j)'[k] = Inbox(j)[k]
    <3>1. /\ \A l \in DOMAIN Inbox(j) : l >= k => Inbox(j)[l].type = "VERIFY"
          /\ \A h \in DOMAIN Line : h < j => OnlyVerify(h)
      BY <1>8, <2>3 DEF StreamInOrder
    <3>2. i < j => Head(Inbox(i)).type = "VERIFY"
      BY <1>2, <3>1 DEF OnlyVerify
    <3>3. ASSUME NEW l \in DOMAIN (Inbox(j)'), l >= k
          PROVE  Inbox(j)'[l].type = "VERIFY"
      <4>1. \/ j = i + 1 /\ Inbox(j)'[l] = Head(Inbox(i))
            \/ l \in DOMAIN Inbox(j) /\ Inbox(j)'[l] = Inbox(j)[l]
        BY <2>3, <3>3, PassedPackets
      <4>2. j = i + 1 => i < j
        BY <1>1
      <4> QED
        BY <3>1, <3>2, <3>3, <4>1, <4>2
    <3>4. \A h \in DOMAIN Line : h < j /\ h = i + 1 => i < j
      BY <1>1
    <3> QED
      BY <1>5, <3>1, <3>2, <3>3, <3>4
  <2> QED
    BY <1>8, <2>1, <2>2, <2>3, PassedPackets
<1>9. StreamInOrder'
  BY <1>4, <1>7, <1>8 DEF StreamInOrder
<1> QED
  BY <1>6, <1>9 DEF StreamStays

-----------------------------------------------------------------------------
(* The nodes, while only host and coordinator act. *)

NodesInv ==
  /\ \A node \in Nodes : NodeKeepsPages(node)
  /\ \A node \in Nodes \ ToSet(Line) : Fresh(node)
  /\ \A i \in DOMAIN Line : NodeInSession(i)
  /\ ReportsTrue

LEMMA FileFacts ==
  ASSUME Base
  PROVE  /\ host.file \in Image /\ host.file.size \in FileSize /\ host.file.size \in Size
         /\ host.file.size.pages \in Nat \ {0} /\ host.file.size.pages <= MaxPages
         /\ host.target \in Target
         /\ page_start_offset \in Nat
         /\ page_start_offset <= current_file_size.pages
<1>1. host.file \in Image /\ host.file.size \in FileSize
  BY HostFile DEF Base, LinkInv
<1>2. host.target \in Target
  BY SenderAssumption DEF Base, LinkInv, LinkTypeOK
<1> QED
  BY <1>1, <1>2, WireAssumption DEF FileSize, Size, Base, CoordinatorTypeOK

LEMMA NodeFacts ==
  ASSUME SystemTypeOK, NEW node \in Nodes
  PROVE  /\ nodes[node] \in Node /\ SlotOk(nodes[node])
         /\ LastCommitted(node) \in Page \cup {NoPage} /\ LastCommitted(node) \in Int
         /\ LastCommitted(node) >= NoPage
         /\ nodes[node].current_rx_page_offset \in Page \cup {NoPage}
         /\ nodes[node].current_rx_page_offset \in Int
         /\ Len(nodes[node].running_fw_crc) \in Nat
         /\ nodes[node].running_fw_crc \in Seq(PageContent)
         /\ nodes[node].running_fw_crc # <<>> <=> Len(nodes[node].running_fw_crc) >= 1
<1>1. nodes[node] \in Node /\ SlotOk(nodes[node])
  BY DEF SystemTypeOK
<1>2. /\ nodes[node].last_crc_committed_page_offset \in Page \cup {NoPage}
      /\ nodes[node].current_rx_page_offset \in Page \cup {NoPage}
      /\ nodes[node].running_fw_crc \in Seq(PageContent)
  BY <1>1 DEF Node
<1> QED
  BY <1>1, <1>2 DEF LastCommitted, Page, NoPage

LEMMA KeepsPagesStays ==
  ASSUME SystemTypeOK, Forward, NEW node \in Nodes, nodes'[node] = nodes[node],
         NodeKeepsPages(node)
  PROVE  NodeKeepsPages(node)'
<1>1. \A p \in Int : Holds(node, p) => Holds(node, p)'
  BY DEF Holds, Forward
<1>2. LastCommitted(node)' = LastCommitted(node)
  BY DEF LastCommitted
<1>3. LastCommitted(node) \in Int /\ nodes[node].current_rx_page_offset \in Int
  BY NodeFacts
<1>4. /\ LastCommitted(node) <= page_start_offset'
      /\ nodes[node].current_rx_page_offset <= page_start_offset'
  BY <1>3 DEF NodeKeepsPages, Forward
<1> QED
  BY <1>1, <1>2, <1>3, <1>4 DEF NodeKeepsPages, CommittedToLast, Forward

LEMMA NodesStay ==
  ASSUME SystemTypeOK, Forward, nodes' = nodes, reports' \subseteq reports, StreamStays, NodesInv
  PROVE  NodesInv'
<1>1. \A node \in Nodes : NodeKeepsPages(node)'
  BY KeepsPagesStays DEF NodesInv
<1>2. \A node \in Nodes \ ToSet(Line) : Fresh(node)'
  BY DEF NodesInv, Fresh, Rebooted
<1>3. ASSUME NEW i \in DOMAIN Line
      PROVE  NodeInSession(i)'
  <2>1. NodeInSession(i) /\ (AfterVerify(i) => AfterVerify(i)')
    BY DEF NodesInv, StreamStays
  <2> QED
    BY <2>1 DEF NodeInSession, Forward
<1>4. ReportsTrue'
  BY DEF NodesInv, ReportsTrue, TrueReport, Opened, LastCommitted, Forward
<1> QED
  BY <1>1, <1>2, <1>3, <1>4 DEF NodesInv

LEMMA OpenedStays ==
  ASSUME Forward, NEW node, nodes'[node] = nodes[node], Opened(node)
  PROVE  Opened(node)'
BY DEF Opened, Forward

\* A node after its reset, with an erased flash, has nothing and claims nothing.
LEMMA RebootedNode ==
  ASSUME Base, NEW node \in Nodes, Rebooted(node)
  PROVE  /\ NodeKeepsPages(node)
         /\ nodes[node].ota_session_active = FALSE
         /\ nodes[node].report_to_send = NoReport
         /\ nodes[node].running_fw_crc = <<>>
         /\ LastCommitted(node) = NoPage
         /\ nodes[node].staged = NoStage
<1>1. /\ nodes[node].last_crc_committed_page_offset = NoPage
      /\ nodes[node].current_rx_page_offset = NoPage
      /\ nodes[node].running_fw_crc = <<>>
      /\ nodes[node].staged = NoStage
      /\ nodes[node].ota_session_active = FALSE
      /\ nodes[node].report_to_send = NoReport
  BY DEF Rebooted, Boot
<1>2. NodeKeepsPages(node)
  BY <1>1, FileFacts DEF NodeKeepsPages, LastCommitted, CommittedToLast, NoPage
<1> QED
  BY <1>1, <1>2 DEF LastCommitted

LEMMA NoReportTrue ==
  ASSUME SystemTypeOK, NEW node \in Nodes
  PROVE  TrueReport(node, NoReport)
BY NodeFacts DEF TrueReport, NoReport

LEMMA RebootedNodes ==
  ASSUME Base, SystemTypeOK, \A node \in Nodes : Rebooted(node), reports = {}
  PROVE  NodesInv
<1>1. \A node \in Nodes : NodeKeepsPages(node)
  BY RebootedNode
<1>2. \A node \in Nodes \ ToSet(Line) : Fresh(node)
  BY DEF Fresh
<1>3. \A i \in DOMAIN Line : NodeInSession(i)
  BY RebootedNode, LineType DEF NodeInSession
<1>4. ReportsTrue
  BY RebootedNode, NoReportTrue DEF ReportsTrue
<1> QED
  BY <1>1, <1>2, <1>3, <1>4 DEF NodesInv

-----------------------------------------------------------------------------
(* The invariant of the transfer of one file, step by step. *)

\* The script is run once.  With a second run, a report of the first one is taken for
\* an answer to the second.
OneTransfer == MaxStarts <= 1

\* The backend with sectors of two pages remembers the sector it erased.
SectorsOfBackend == SectorPages = 2 => Backend = "dual"

OneFile == WaitsForCoordinator /\ ReliableAnswers /\ OneTransfer /\ SectorsOfBackend

TransferInv == Base /\ InSync /\ SystemTypeOK /\ SystemInv

NoneAccepted == \A node \in Nodes : first_answer[node] # "accept"

LEMMA InvParts ==
  SystemInv <=> /\ StartedOnce /\ SessionOfHost /\ StreamInOrder /\ NodesInv
                /\ AnswersTrue /\ PagesCommitted
BY DEF SystemInv, NodesInv

LEMMA InboxUntouched ==
  ASSUME Untouched, NEW i \in DOMAIN Line
  PROVE  Inbox(i) = <<>>
<1>1. i = 1 \/ i - 1 \in DOMAIN Line
  BY LineType
<1> QED
  BY <1>1 DEF Inbox, Untouched

LEMMA UntouchedInv ==
  ASSUME Base, SystemTypeOK, StartedOnce, Untouched, NoneAccepted, host.at # "verify"
  PROVE  SystemInv
<1>1. NodesInv
  BY RebootedNodes DEF Untouched
<1>2. \A i \in DOMAIN Line : Inbox(i) = <<>>
  BY InboxUntouched
<1>3. StreamInOrder
  BY <1>2 DEF StreamInOrder
<1>4. SessionOfHost
  BY DEF SessionOfHost, Untouched
<1>5. AnswersTrue
  BY DEF AnswersTrue, Untouched, NoneAccepted
<1>6. PagesCommitted
  BY DEF PagesCommitted, Untouched, SessionNodes, ToSet
<1> QED
  BY <1>1, <1>3, <1>4, <1>5, <1>6, InvParts

\* No node can have accepted a START nobody sent.
LEMMA UntouchedNoneAccepted ==
  ASSUME Base, Untouched, AnswersTrue
  PROVE  NoneAccepted /\ ~Finished
<1>1. ~Finished
  BY FileFacts DEF Finished, Untouched
<1> QED
  BY <1>1, RebootedNode DEF Untouched, AnswersTrue, Opened, NoneAccepted

LEMMA RunScriptInv ==
  ASSUME OneTransfer, TransferInv, Base', SystemTypeOK',
         NEW img \in Images, NEW sec_ver \in SecVers, NEW target \in SentTargets,
         RunScript(img, sec_ver, target),
         UNCHANGED <<coordinatorOnlyVars, first_answer, complete, systemVars, abandoned>>
  PROVE  SystemInv'
<1>1. StartedOnce /\ AnswersTrue /\ Base
  BY InvParts DEF TransferInv
<1>2. starts = 0 /\ starts' = 1
  BY <1>1, SenderAssumption DEF RunScript, OneTransfer, StartedOnce
<1>3. Untouched /\ host.at = "off"
  BY <1>1, <1>2 DEF StartedOnce
<1>4. Untouched'
  BY <1>3 DEF Untouched, Rebooted, coordinatorOnlyVars, sessionVars, transferVars,
     processVars, systemVars, networkVars
<1>5. host'.at = "start"
  BY DEF RunScript, Base, LinkInv, LinkTypeOK, TransferInv
<1>6. StartedOnce'
  BY <1>2, <1>4 DEF StartedOnce
<1>7. NoneAccepted'
  BY <1>1, <1>3, UntouchedNoneAccepted DEF NoneAccepted
<1>8. Base' /\ SystemTypeOK' /\ StartedOnce' /\ Untouched' /\ NoneAccepted'
        /\ (host.at # "verify")' => SystemInv'
  BY UntouchedInv, PTL
<1> QED
  BY <1>4, <1>5, <1>6, <1>7, <1>8

LEMMA CommandOfStart ==
  ASSUME LinkInv, commands # <<>>
  PROVE  /\ Tail(commands) = <<>> /\ host.at # "off"
         /\ Head(commands).type = "S" => host.at = "start"
<1>1. PICK cmd : commands = <<cmd>> /\ host.at # "off" /\ (cmd.type = "S" => host.at = "start")
  <2>1. CommandOfHost
    BY DEF LinkInv
  <2>2. CASE \E sec_ver \in SecVers : commands = <<StartCmd(host.file, sec_ver, host.target)>>
    BY <2>1, <2>2 DEF CommandOfHost, DataCmd, VerifyCmd
  <2>3. CASE host.at = "data" /\ commands = <<DataCmd(host.file, host.page, host.chunk)>>
    BY <2>3 DEF DataCmd
  <2>4. CASE host.at = "verify" /\ commands = <<VerifyCmd(host.file)>>
    BY <2>4 DEF VerifyCmd
  <2> QED
    BY <2>1, <2>2, <2>3, <2>4 DEF CommandOfHost
<1> QED
  BY <1>1

\* What the other steps of the script do.
HostMoves ==
  /\ host'.file = host.file /\ host'.target = host.target /\ starts' = starts
  /\ host.at = "off" => host'.at = "off"
  /\ host'.at = "start" =>
       /\ host.at = "start"
       /\ \/ commands' = commands
          \/ commands # <<>> /\ commands' = Tail(commands)
  /\ host'.at = "verify" => Finished

LEMMA HostMovesInv ==
  ASSUME TransferInv, Base', HostMoves,
         UNCHANGED <<coordinatorOnlyVars, first_answer, complete, systemVars, abandoned>>
  PROVE  SystemInv'
<1>1. /\ StartedOnce /\ SessionOfHost /\ StreamInOrder /\ NodesInv
      /\ AnswersTrue /\ PagesCommitted /\ Base /\ SystemTypeOK
  BY InvParts DEF TransferInv
<1>2. /\ UNCHANGED <<line, hop, nodes, reports, session_nodes, page_start_offset, pc, abandoned>>
      /\ UNCHANGED <<current_file_size, ota_target_slot, end_pkt, start_admission_in_progress>>
      /\ UNCHANGED <<first_answer, complete>>
  BY DEF coordinatorOnlyVars, sessionVars, transferVars, processVars, systemVars, networkVars
<1>3. Forward
  BY <1>1, <1>2, FileFacts DEF Forward, HostMoves, Finished
<1>4. StreamStays
  BY <1>1, <1>2, <1>3, StreamSame DEF SystemTypeOK, Fresh, Rebooted
<1>5. NodesInv'
  BY <1>1, <1>2, <1>3, <1>4, NodesStay
<1>6. Untouched => Untouched'
  BY <1>2 DEF Untouched, Rebooted
<1>7. StartedOnce'
  <2>1. ASSUME commands' # <<>>, Head(commands').type = "S"
        PROVE  Untouched'
    <3>1. host'.at = "start"
      <4>1. (LinkInv /\ commands # <<>> => (Head(commands).type = "S" => host.at = "start"))'
        BY CommandOfStart, PTL
      <4> QED
        BY <2>1, <4>1 DEF Base
    <3>2. commands' = commands
      BY <1>1, <2>1, <3>1, CommandOfStart DEF HostMoves, Base
    <3> QED
      BY <1>1, <1>6, <2>1, <3>2 DEF StartedOnce
  <2> QED
    BY <1>1, <1>6, <2>1 DEF StartedOnce, HostMoves
<1>8. SessionOfHost'
  BY <1>1, <1>2, <1>3 DEF SessionOfHost, HostMoves, Forward
<1>9. AnswersTrue'
  BY <1>1, <1>2, <1>3 DEF AnswersTrue, Opened, LastCommitted, Forward
<1>10. PagesCommitted'
  BY <1>1, <1>2 DEF PagesCommitted, SessionNodes, LastCommitted, CommittedToLast
<1>11. StreamInOrder'
  BY <1>4 DEF StreamStays
<1> QED
  BY <1>5, <1>7, <1>8, <1>9, <1>10, <1>11 DEF SystemInv, NodesInv

LEMMA HostActsInv ==
  ASSUME OneFile, TransferInv, Base', SystemTypeOK', HostActs
  PROVE  SystemInv'
<1>1. /\ SenderOnly
      /\ UNCHANGED <<coordinatorOnlyVars, first_answer, complete, systemVars, abandoned>>
  BY DEF HostActs, HostStep, SenderStep
<1>2. Base /\ InSync /\ SessionOfHost /\ LinkInv /\ host \in HostState
  BY HostFile, InvParts DEF TransferInv, Base, LinkInv
<1>3. CASE ReadLine
  <2>1. ASSUME ReadInPage(Head(uart)), host'.at = "verify"
        PROVE  Finished
    <3>1. host.at = "page" /\ uart # <<>> /\ ~(host.page + 1 < host.file.size.pages)
      <4>1. host.at = "page" /\ uart # <<>>
        BY <1>3, <2>1 DEF ReadInPage, ReadLine
      <4>2. CASE host.page + 1 < host.file.size.pages
        <5>1. host'.at = "data"
          BY <1>2, <2>1, <4>2 DEF ReadInPage, Send, DataAt, HostState
        <5> QED
          BY <2>1, <5>1
      <4> QED
        BY <4>1, <4>2
    <3>2. Distributed
      BY <1>2, <3>1 DEF InSync, PageInSync
    <3>3. page_start_offset <= host.file.size.pages
      BY <1>2, <3>2, FileFacts DEF Distributed, SameFile
    <3>4. page_start_offset = host.page + 1 /\ pc = "idle" /\ host.page \in Int
      BY <1>2, <3>2 DEF Distributed, HostState, Page
    <3> QED
      BY <1>2, <3>1, <3>3, <3>4, FileFacts DEF Finished
  <2>2. HostMoves
    <3>1. CASE ReadInStart(Head(uart))
      BY <1>2, <1>3, <3>1 DEF ReadInStart, Send, Become, DataAt, HostMoves, HostState, ReadLine
    <3>2. CASE ReadInData(Head(uart))
      BY <1>2, <1>3, <3>2 DEF ReadInData, Send, Become, DataAt, HostMoves, HostState, ReadLine
    <3>3. CASE ReadInPage(Head(uart))
      <4>1. /\ host'.file = host.file /\ host'.target = host.target /\ starts' = starts
            /\ host.at = "page" /\ host'.at \in {"data", "verify"}
        BY <1>2, <1>3, <3>3 DEF ReadInPage, Send, DataAt, HostState, ReadLine
      <4> QED
        BY <2>1, <3>3, <4>1 DEF HostMoves
    <3>4. CASE ReadInVerify(Head(uart))
      BY <1>2, <1>3, <3>4 DEF ReadInVerify, Become, HostMoves, HostState, ReadLine
    <3>5. CASE UNCHANGED <<host, commands>>
      <4>1. host' = host /\ commands' = commands /\ starts' = starts
        BY <1>3, <3>5 DEF ReadLine
      <4>2. host.at = "verify" => Finished
        BY <1>2 DEF SessionOfHost
      <4> QED
        BY <4>1, <4>2 DEF HostMoves
    <3> QED
      BY <1>3, <3>1, <3>2, <3>3, <3>4, <3>5 DEF ReadLine
  <2> QED
    BY <1>1, <2>2, HostMovesInv
<1>4. CASE CommandTimeout
  <2>1. HostMoves
    BY <1>2, <1>4 DEF CommandTimeout, Send, Become, HostMoves, HostState, SessionOfHost
  <2> QED
    BY <1>1, <2>1, HostMovesInv
<1>5. CASE StartTimeout \/ PageTimeout
  <2>1. HostMoves
    BY <1>2, <1>5 DEF StartTimeout, PageTimeout, Become, HostMoves, HostState
  <2> QED
    BY <1>1, <2>1, HostMovesInv
<1>6. CASE LinkLoses
  <2>1. /\ host' = host /\ starts' = starts
        /\ \/ commands' = commands
           \/ commands # <<>> /\ commands' = Tail(commands)
    BY <1>6 DEF LinkLoses
  <2>2. host.at = "verify" => Finished
    BY <1>2 DEF SessionOfHost
  <2>3. HostMoves
    BY <2>1, <2>2 DEF HostMoves
  <2> QED
    BY <1>1, <2>3, HostMovesInv
<1>7. CASE \E img \in Images, sec_ver \in SecVers, target \in SentTargets :
             RunScript(img, sec_ver, target)
  BY <1>1, <1>7, RunScriptInv DEF OneFile
<1> QED
  BY <1>1, <1>3, <1>4, <1>5, <1>6, <1>7 DEF SenderOnly

\* The steps of host and coordinator that leave the nodes alone.
LEMMA NodesLeftAlone ==
  ASSUME TransferInv, Forward, StreamStays, nodes' = nodes, reports' \subseteq reports,
         StartedOnce', SessionOfHost', AnswersTrue', PagesCommitted'
  PROVE  SystemInv'
<1>1. NodesInv'
  BY InvParts, NodesStay DEF TransferInv
<1> QED
  BY <1>1 DEF StreamStays, SystemInv, NodesInv

LEMMA Commanded ==
  ASSUME LinkInv, StartedOnce, Command
  PROVE  StartedOnce' /\ starts = 1
<1>1. commands # <<>> /\ commands' = Tail(commands) /\ starts' = starts /\ host' = host
  BY DEF Command, TakeCommand
<1>2. commands' = <<>> /\ host.at # "off"
  BY <1>1, CommandOfStart
<1>3. starts = 1
  BY <1>2 DEF StartedOnce
<1> QED
  BY <1>1, <1>2, <1>3 DEF StartedOnce

LEMMA VerifyArrivesInv ==
  ASSUME TransferInv, CommandArrives, Head(commands).type = "V", host.at = "verify",
         UartVerify(ImageCrc(host.file))
  PROVE  SystemInv'
<1>1. /\ StartedOnce /\ SessionOfHost /\ StreamInOrder /\ NodesInv /\ LinkInv
      /\ AnswersTrue /\ PagesCommitted /\ Base /\ SystemTypeOK
  BY InvParts DEF TransferInv, Base
<1>2. /\ UNCHANGED <<session_nodes, start_admission_in_progress, current_file_size,
                     page_start_offset, pc, end_pkt, ota_target_slot>>
      /\ UNCHANGED <<nodes, hop, reports, abandoned, host>>
      /\ Command
  BY DEF UartVerify, CommandArrives, systemVars, networkVars, sessionVars, transferVars,
     processVars, Command, TakeCommand
<1>3. first_answer' = first_answer /\ complete' = complete
  BY <1>2 DEF Command
<1>4. Forward
  BY <1>1, <1>2, FileFacts DEF Forward, Finished
<1>5. Finished
  BY <1>1 DEF SessionOfHost
<1>6. StreamStays
  <2>1. CASE session_nodes = <<>>
    <3>1. line' = line
      BY <2>1 DEF UartVerify
    <3> QED
      BY <1>1, <1>2, <1>4, <3>1, StreamSame DEF SystemTypeOK, Fresh, Rebooted
  <2>2. CASE session_nodes # <<>>
    <3> PICK pkt : pkt = VerifyPkt(ImageCrc(host.file), ota_target_slot)
      OBVIOUS
    <3>1. line' = Append(line, pkt)
      BY <2>2 DEF UartVerify, SendToAll
    <3>2. /\ pkt.type = "VERIFY" /\ pkt.target = host.target /\ pkt.crc = ImageCrc(host.file)
          /\ pkt \in Packets
      <4>1. ota_target_slot = host.target /\ host.target \in Target
        BY <1>1, <2>2, FileFacts DEF SessionOfHost
      <4> QED
        BY <1>1, <4>1, FileFacts, ImageCrcType DEF VerifyPkt, VerifyPkts, Packets
    <3>3. OfStream(pkt)
      BY <1>5, <3>2 DEF OfStream
    <3>4. OfStream(pkt)'
      BY <1>2, <1>4, <1>5, <3>2 DEF OfStream, Forward
    <3> QED
      BY <1>1, <1>2, <1>4, <3>1, <3>2, <3>4, StreamSends DEF SystemTypeOK, Fresh, Rebooted
  <2> QED
    BY <2>1, <2>2
<1>7. StartedOnce'
  BY <1>1, <1>2, Commanded
<1>8. SessionOfHost'
  BY <1>1, <1>2, <1>4 DEF SessionOfHost, Forward
<1>9. AnswersTrue'
  BY <1>1, <1>2, <1>3, <1>4 DEF AnswersTrue, Opened, LastCommitted, Forward
<1>10. PagesCommitted'
  BY <1>1, <1>2 DEF PagesCommitted, SessionNodes, LastCommitted, CommittedToLast
<1> QED
  BY <1>2, <1>4, <1>6, <1>7, <1>8, <1>9, <1>10, NodesLeftAlone

LEMMA DataArrivesInv ==
  ASSUME TransferInv, CommandArrives, Head(commands).type = "D", host.at = "data",
         UartData(host.page, host.chunk, host.file.data[host.page][host.chunk])
  PROVE  SystemInv'
<1>1. /\ StartedOnce /\ SessionOfHost /\ StreamInOrder /\ NodesInv /\ LinkInv
      /\ AnswersTrue /\ PagesCommitted /\ Base /\ SystemTypeOK
      /\ CoordinatorTypeOK /\ CoordinatorInv
  BY InvParts DEF TransferInv, Base
<1> DEFINE Starts == /\ pc = "idle" /\ pc' # "idle" /\ session_nodes # <<>>
                     /\ 0 < ExpectedPageSize
                     /\ end_pkt'.page = page_start_offset /\ end_pkt'.target = ota_target_slot
<1>2. /\ UNCHANGED <<session_nodes, start_admission_in_progress, current_file_size,
                     page_start_offset, ota_target_slot, line>>
      /\ UNCHANGED <<nodes, hop, reports, abandoned, host>>
      /\ Command
  BY DEF UartData, CommandArrives, systemVars, networkVars, Command, TakeCommand
<1>3. (pc' = pc /\ end_pkt' = end_pkt) \/ Starts
  <2> DEFINE data == host.file.data[host.page][host.chunk]
  <2>1. UartData(host.page, host.chunk, data)
    OBVIOUS
  <2> HIDE DEF data
  <2>2. CASE AcceptsData(host.page, host.chunk)
    <3>1. host.chunk \in Int /\ host.chunk >= 0
      BY <1>1 DEF LinkInv, LinkTypeOK, Chunk
    <3>2. /\ pc = "idle" /\ session_nodes # <<>> /\ host.chunk < ExpectedPageSize
          /\ \/ /\ pc' = "chunk"
                /\ end_pkt' = PageEndPkt(page_start_offset, Prefix(page_buffer', ExpectedPageSize),
                                         ota_target_slot)
             \/ UNCHANGED processVars
      BY <1>1, <2>1, <2>2, DataAccepted
    <3>3. 0 < ExpectedPageSize
      BY <1>1, <3>1, <3>2, PlaceType
    <3> QED
      BY <3>2, <3>3 DEF PageEndPkt, processVars
  <2>3. CASE ~AcceptsData(host.page, host.chunk)
    BY <2>1, <2>3, DataRefused DEF processVars
  <2> QED
    BY <2>2, <2>3
<1>4. /\ first_answer' = first_answer
      /\ complete' = IF pc = "idle" /\ pc' # "idle" THEN {} ELSE complete
  BY <1>2 DEF Command
<1>5. Starts => ~Finished
  BY <1>1, FileFacts DEF SessionOfHost, Finished, ExpectedPageSize, PageLen
<1> HIDE DEF Starts
<1>6. Forward
  <2>1. Finished => pc' = pc
    BY <1>3, <1>5
  <2> QED
    BY <1>1, <1>2, <2>1, FileFacts DEF Forward, Finished
<1>7. StreamStays
  BY <1>1, <1>2, <1>6, StreamSame DEF SystemTypeOK, Fresh, Rebooted
<1>8. StartedOnce'
  BY <1>1, <1>2, Commanded
<1>9. SessionOfHost'
  BY <1>1, <1>2, <1>3, <1>6 DEF SessionOfHost, Forward, Starts
<1>10. AnswersTrue'
  <2>1. pc' # "idle" => \A node \in complete' : LastCommitted(node) = page_start_offset
    BY <1>1, <1>3, <1>4 DEF Starts, AnswersTrue
  <2> QED
    BY <1>1, <1>2, <1>4, <1>6, <2>1 DEF AnswersTrue, Opened, LastCommitted, Forward
<1>11. PagesCommitted'
  BY <1>1, <1>2 DEF PagesCommitted, SessionNodes, LastCommitted, CommittedToLast
<1> QED
  BY <1>2, <1>6, <1>7, <1>8, <1>9, <1>10, <1>11, NodesLeftAlone

LEMMA StartArrivesInv ==
  ASSUME TransferInv, Base', SystemTypeOK', CommandArrives, Head(commands).type = "S", host.at = "start",
         NEW sec_ver \in SecVers, NEW table \in RouteTables,
         UartStart(table, host.file.size, sec_ver, host.target)
  PROVE  SystemInv'
<1>1. /\ StartedOnce /\ SessionOfHost /\ StreamInOrder /\ NodesInv /\ LinkInv
      /\ AnswersTrue /\ PagesCommitted /\ Base /\ SystemTypeOK
  BY InvParts DEF TransferInv, Base
<1>2. Command /\ UNCHANGED <<nodes, hop, reports, abandoned, host>> /\ commands # <<>>
  BY DEF CommandArrives, systemVars, networkVars, Command, TakeCommand
<1>3. Untouched
  BY <1>1, <1>2 DEF StartedOnce
<1>4. session_nodes' # <<>>
  <2>1. table = Line /\ Line \in Seq(Nodes) /\ Len(Line) >= 1
    BY LineAssumption, LineType
  <2>2. session_nodes' = PopulateSessionNodes(table)
    BY DEF UartStart
  <2>3. Len(PopulateSessionNodes(table)) >= 1
    BY <2>1, CoordinatorAssumption DEF PopulateSessionNodes
  <2> QED
    BY <2>2, <2>3
<1> PICK pkt : pkt = StartPkt(host.file.size, sec_ver, host.target)
  OBVIOUS
<1>5. /\ ota_target_slot' = host.target /\ line' = Append(line, pkt)
      /\ current_file_size' = host.file.size /\ page_start_offset' = 0
      /\ start_admission_in_progress' = TRUE /\ pc' = pc
  BY <1>4 DEF UartStart, SendToAll, ResetTransferState, processVars
<1>6. /\ first_answer' = [node \in Nodes |-> "none"]
      /\ page_start_offset = 0 /\ pc = "idle" /\ line = <<>>
  BY <1>2, <1>3 DEF Command, Untouched
<1>7. \A node \in Nodes : Rebooted(node)'
  BY <1>2, <1>3 DEF Untouched, Rebooted
<1>8. NodesInv'
  <2>1. (Base /\ SystemTypeOK /\ (\A node \in Nodes : Rebooted(node)) /\ reports = {}
           => NodesInv)'
    BY RebootedNodes, PTL
  <2>2. reports' = {}
    BY <1>2, <1>3 DEF Untouched
  <2> QED
    BY <1>7, <2>1, <2>2
<1>9. OfStream(pkt)'
  BY <1>2 DEF OfStream, StartPkt
<1>10. /\ 1 \in DOMAIN Line /\ Inbox(1)' = <<pkt>>
       /\ \A i \in DOMAIN Line : i # 1 => Inbox(i)' = <<>>
  <2>1. /\ 1 \in DOMAIN Line
        /\ \A i \in DOMAIN Line : i # 1 => i - 1 \in DOMAIN Line
    BY LineType
  <2> QED
    BY <1>2, <1>3, <1>5, <1>6, <2>1 DEF Inbox, Untouched
<1>11. pkt.type = "START"
  BY DEF StartPkt
<1>12. StreamInOrder'
  <2>1. ASSUME NEW i \in DOMAIN Line, NEW k \in DOMAIN (Inbox(i)')
        PROVE  i = 1 /\ k = 1 /\ Inbox(i)'[k] = pkt
    BY <1>10, <2>1
  <2>2. \A i \in DOMAIN Line : \A k \in DOMAIN (Inbox(i)') : OfStream(Inbox(i)[k])'
    BY <1>9, <2>1 DEF OfStream
  <2>3. \A j \in DOMAIN Line : (j > 1 => Inbox(j)' = <<>>) /\ Fresh(Line[j])'
    BY <1>2, <1>3, <1>7, <1>10, LineType DEF Fresh, Untouched
  <2> QED
    BY <1>11, <2>1, <2>2, <2>3 DEF StreamInOrder
<1>13. StartedOnce'
  BY <1>1, <1>2, Commanded
<1>14. SessionOfHost'
  BY <1>2, <1>5, <1>6 DEF SessionOfHost
<1>15. AnswersTrue'
  BY <1>5, <1>6 DEF AnswersTrue
<1>16. PagesCommitted'
  BY <1>5 DEF PagesCommitted
<1> QED
  BY <1>8, <1>12, <1>13, <1>14, <1>15, <1>16 DEF SystemInv, NodesInv

LEMMA CommandArrivesInv ==
  ASSUME TransferInv, Base', SystemTypeOK', CommandArrives
  PROVE  SystemInv'
<1>1. LinkInv /\ Command
  BY DEF TransferInv, Base, CommandArrives
<1> QED
  BY <1>1, CommandKinds, StartArrivesInv, DataArrivesInv, VerifyArrivesInv

\* At page 0 a node has committed that page or none, and no others.
LEMMA FirstPageCommitted ==
  ASSUME SystemTypeOK, NEW node \in Nodes, NodeKeepsPages(node), page_start_offset = 0
  PROVE  /\ LastCommitted(node) \in {page_start_offset - 1, page_start_offset}
         /\ CommittedToLast(node)
<1>1. LastCommitted(node) \in {-1, 0}
  BY NodeFacts DEF NodeKeepsPages, NoPage
<1>2. CASE LastCommitted(node) = -1
  BY <1>2, NodeFacts DEF NodeKeepsPages, CommittedToLast
<1>3. CASE LastCommitted(node) = 0
  <2>1. PICK len \in Nat : len = Len(nodes[node].running_fw_crc)
    BY NodeFacts
  <2>2. len <= 1
    BY <1>3, <2>1 DEF NodeKeepsPages
  <2>3. len >= 1
    BY <1>3, <2>1, NodeFacts DEF NodeKeepsPages, NoPage
  <2>4. len = LastCommitted(node) + 1
    BY <1>3, <2>2, <2>3
  <2> QED
    BY <1>3, <2>1, <2>4 DEF CommittedToLast
<1> QED
  BY <1>1, <1>2, <1>3

LEMMA FinishInv ==
  ASSUME TransferInv, start_admission_in_progress,
         NEW replied, NEW accepted, FinishStartAdmission(replied, accepted),
         UNCHANGED <<processVars, ota_target_slot, line, hop, nodes, complete, senderVars, abandoned>>,
         reports' \subseteq reports,
         \A node \in Nodes : first_answer'[node] = "accept" => Opened(node)
  PROVE  SystemInv'
<1>1. /\ StartedOnce /\ SessionOfHost /\ StreamInOrder /\ NodesInv /\ LinkInv
      /\ AnswersTrue /\ PagesCommitted /\ Base /\ SystemTypeOK
      /\ CoordinatorTypeOK /\ CoordinatorInv
  BY InvParts DEF TransferInv, Base
<1>2. pc = "idle" /\ IsInjective(session_nodes)
  BY <1>1 DEF CoordinatorInv, FlagGuardsProcess, AdmissionTracked
<1>3. host.at = "start" /\ commands = <<>>
  BY <1>1 DEF LinkInv, OneExchange
<1>4. SameFile /\ page_start_offset = 0
  BY <1>3 DEF TransferInv, InSync, StartInSync
<1>5. /\ pc' = pc /\ end_pkt' = end_pkt /\ UNCHANGED <<host, commands, starts>>
      /\ ota_target_slot' = ota_target_slot /\ complete' = complete
  BY DEF processVars, senderVars
<1>6. PICK kept \in InOrder({i \in DOMAIN session_nodes : replied[i] /\ accepted[i]}) :
        /\ session_nodes' = CompactNodes(session_nodes, kept)
        /\ \/ session_nodes' = <<>> /\ page_start_offset' = 0
           \/ UNCHANGED transferVars
  BY DEF FinishStartAdmission, ResetTransferState
<1>7. page_start_offset' = 0
  BY <1>4, <1>6 DEF transferVars
<1>8. ToSet(session_nodes') \subseteq Nodes
  <2> DEFINE S == {i \in DOMAIN session_nodes : replied[i] /\ accepted[i]}
  <2>1. S \in SUBSET DOMAIN session_nodes
    OBVIOUS
  <2> HIDE DEF S
  <2>2. CompactedTo(S, CompactNodes(session_nodes, kept), CompactBitmaps(session_bitmaps, kept))
    BY <1>1, <1>2, <2>1, Compaction DEF S
  <2>3. session_nodes' \in Seq(Nodes)
    BY <1>6, <2>2 DEF CompactedTo
  <2> QED
    BY <2>3 DEF ToSet
<1>9. Forward
  BY <1>1, <1>4, <1>5, <1>7, FileFacts DEF Forward, Finished
<1>10. StreamStays
  BY <1>1, <1>9, StreamSame DEF SystemTypeOK, Fresh, Rebooted
<1>11. StartedOnce'
  BY <1>1, <1>3, <1>5 DEF StartedOnce
<1>12. SessionOfHost'
  BY <1>1, <1>2, <1>3, <1>4, <1>5, <1>6 DEF SessionOfHost, SameFile, transferVars
<1>13. AnswersTrue'
  BY <1>2, <1>5, <1>9 DEF AnswersTrue, Opened, Forward
<1>14. ASSUME NEW node \in Nodes
       PROVE  /\ LastCommitted(node) \in {page_start_offset' - 1, page_start_offset'}
              /\ CommittedToLast(node)
  BY <1>1, <1>4, <1>7, FirstPageCommitted DEF NodesInv
<1>15. PagesCommitted'
  BY <1>8, <1>14 DEF PagesCommitted, SessionNodes, LastCommitted, CommittedToLast
<1> QED
  BY <1>9, <1>10, <1>11, <1>12, <1>13, <1>15, NodesLeftAlone

LEMMA AdmissionTimesOutInv ==
  ASSUME TransferInv, AdmissionTimesOut
  PROVE  SystemInv'
<1>1. /\ start_admission_in_progress
      /\ FinishStartAdmission(node_replied, session_start_accepted)
      /\ UNCHANGED <<processVars, ota_target_slot, line, hop, nodes, complete, senderVars,
                     abandoned, reports, first_answer>>
  BY DEF AdmissionTimesOut, AdmissionEnds, AdmissionTimeout, systemVars, networkVars
<1>2. \A node \in Nodes : first_answer'[node] = "accept" => Opened(node)
  BY <1>1, InvParts DEF TransferInv, AnswersTrue
<1> QED
  BY <1>1, <1>2, FinishInv

\* The steps that leave the transfer alone, too: a report is counted or lost.
TransferStays ==
  UNCHANGED <<host, commands, starts, session_nodes, start_admission_in_progress,
              current_file_size, page_start_offset, pc, end_pkt, ota_target_slot, abandoned>>

LEMMA TransferStaysInv ==
  ASSUME TransferInv, TransferStays
  PROVE  Forward /\ SessionOfHost' /\ starts' = starts /\ commands' = commands
<1>1. SessionOfHost /\ Base
  BY InvParts DEF TransferInv
<1>2. Forward
  BY <1>1, FileFacts DEF Forward, Finished, TransferStays
<1> QED
  BY <1>1, <1>2 DEF TransferStays, SessionOfHost, Finished

LEMMA DeliverStartInv ==
  ASSUME TransferInv, NEW r \in reports, DeliverReport(r), r.type = "START_REPORT",
         StartReport(r.node, r.accepted)
  PROVE  SystemInv'
<1>1. /\ StartedOnce /\ SessionOfHost /\ StreamInOrder /\ NodesInv /\ LinkInv
      /\ AnswersTrue /\ PagesCommitted /\ Base /\ SystemTypeOK
      /\ CoordinatorTypeOK /\ CoordinatorInv
  BY InvParts DEF TransferInv, Base
<1>2. /\ HandleStartReport(r.node, r.accepted)
      /\ UNCHANGED <<processVars, ota_target_slot, line, hop, nodes, complete, senderVars, abandoned>>
      /\ reports' \subseteq reports
  BY DEF DeliverReport, StartReport, HandleStartReport
<1>3. r.node \in Nodes
  BY <1>1 DEF SystemTypeOK, Reports
<1>4. \A node \in Nodes : first_answer'[node] = "accept" => Opened(node)
  <2>1. r.accepted => Opened(r.node)
    BY <1>1 DEF NodesInv, ReportsTrue
  <2>2. \A node \in Nodes : first_answer[node] = "accept" => Opened(node)
    BY <1>1 DEF AnswersTrue
  <2>3. first_answer \in [Nodes -> {"none", "accept", "reject"}]
    BY <1>1 DEF LinkInv, LinkTypeOK
  <2>4. \/ first_answer' = first_answer
        \/ first_answer' = [first_answer EXCEPT ![r.node] = IF r.accepted THEN "accept" ELSE "reject"]
    BY DEF StartReport
  <2> QED
    BY <1>3, <2>1, <2>2, <2>3, <2>4
<1>5. CASE UNCHANGED <<session_nodes, start_admission_in_progress, transferVars>>
  <2>1. TransferStays
    BY <1>2, <1>5 DEF TransferStays, transferVars, processVars, senderVars
  <2>2. Forward /\ SessionOfHost' /\ starts' = starts /\ commands' = commands
    BY <2>1, TransferStaysInv
  <2>3. StreamStays
    BY <1>1, <1>2, <2>2, StreamSame DEF SystemTypeOK, Fresh, Rebooted
  <2>4. StartedOnce'
    BY <1>1, <2>1, <2>2 DEF StartedOnce, Untouched, TransferStays
  <2>5. AnswersTrue'
    BY <1>1, <1>2, <1>4, <2>1, <2>2 DEF AnswersTrue, Opened, LastCommitted, Forward, TransferStays
  <2>6. PagesCommitted'
    BY <1>1, <1>2, <2>1 DEF PagesCommitted, SessionNodes, LastCommitted, CommittedToLast, TransferStays
  <2> QED
    BY <1>2, <2>2, <2>3, <2>4, <2>5, <2>6, NodesLeftAlone
<1>6. CASE ~UNCHANGED <<session_nodes, start_admission_in_progress, transferVars>>
  <2>1. start_admission_in_progress /\ FinishStartAdmission(node_replied', session_start_accepted')
    BY <1>2, <1>6 DEF HandleStartReport, IgnoresStartReport, sessionVars
  <2> QED
    BY <1>2, <1>4, <2>1, FinishInv
<1> QED
  BY <1>5, <1>6

LEMMA DeliverBitmapInv ==
  ASSUME TransferInv, NEW r \in reports, DeliverReport(r), r.type = "BITMAP_REPORT",
         BitmapReport(r.node, r.report.page, r.report.bitmap)
  PROVE  SystemInv'
<1>1. /\ StartedOnce /\ SessionOfHost /\ StreamInOrder /\ NodesInv /\ LinkInv
      /\ AnswersTrue /\ PagesCommitted /\ Base /\ SystemTypeOK
      /\ CoordinatorTypeOK /\ CoordinatorInv
  BY InvParts DEF TransferInv, Base
<1>2. /\ TransferStays
      /\ UNCHANGED <<line, hop, nodes, first_answer>> /\ reports' \subseteq reports
  BY DEF DeliverReport, BitmapReport, HandleBitmapReport, TransferStays, transferVars, processVars,
     senderVars, sessionVars
<1>3. Forward /\ SessionOfHost' /\ starts' = starts /\ commands' = commands
  BY <1>2, TransferStaysInv
<1>4. StreamStays
  BY <1>1, <1>2, <1>3, StreamSame DEF SystemTypeOK, Fresh, Rebooted
<1>5. StartedOnce'
  BY <1>1, <1>2, <1>3 DEF StartedOnce, Untouched, TransferStays
<1>6. ASSUME pc # "idle", r.report.page = page_start_offset,
             0 .. total_chunks - 1 \subseteq r.report.bitmap
      PROVE  LastCommitted(r.node) = page_start_offset
  <2>1. r.node \in Nodes
    BY <1>1 DEF SystemTypeOK, Reports
  <2>2. total_chunks = PageLen(host.file.size, page_start_offset)
    BY <1>1, <1>6 DEF CoordinatorInv, ProcessHasPage, SessionOfHost, ExpectedPageSize
  <2>3. TrueReport(r.node, r.report)
    BY <1>1, <1>6 DEF NodesInv, ReportsTrue, Finished
  <2>4. page_start_offset <= LastCommitted(r.node)
    BY <1>6, <2>2, <2>3 DEF TrueReport
  <2>5. LastCommitted(r.node) <= page_start_offset
    BY <1>1, <2>1 DEF NodesInv, NodeKeepsPages
  <2> QED
    BY <1>1, <2>1, <2>4, <2>5, NodeFacts, FileFacts
<1>7. AnswersTrue'
  <2>1. pc # "idle" => \A node \in complete' : LastCommitted(node) = page_start_offset
    BY <1>1, <1>6 DEF BitmapReport, AnswersTrue
  <2> QED
    BY <1>1, <1>2, <1>3, <2>1 DEF AnswersTrue, Opened, LastCommitted, Forward, TransferStays
<1>8. PagesCommitted'
  BY <1>1, <1>2 DEF PagesCommitted, SessionNodes, LastCommitted, CommittedToLast, TransferStays
<1> QED
  BY <1>2, <1>3, <1>4, <1>5, <1>7, <1>8, NodesLeftAlone

LEMMA DeliverReportInv ==
  ASSUME TransferInv, NEW r \in reports, DeliverReport(r)
  PROVE  SystemInv'
BY DeliverStartInv, DeliverBitmapInv DEF DeliverReport

LEMMA SessionShrinks ==
  ASSUME SessionEffect, session_nodes # <<>>, CoordinatorTypeOK
  PROVE  session_nodes' # <<>> /\ ToSet(session_nodes') \subseteq ToSet(session_nodes)
<1>1. CASE UNCHANGED <<session_nodes, session_bitmaps>>
  BY <1>1
<1>2. CASE \E S \in SUBSET DOMAIN session_nodes :
             S # {} /\ CompactedTo(S, session_nodes', session_bitmaps')
  <2>1. PICK S \in SUBSET DOMAIN session_nodes :
          S # {} /\ CompactedTo(S, session_nodes', session_bitmaps')
    BY <1>2
  <2>2. /\ session_nodes' \in Seq(Nodes) /\ DOMAIN session_nodes' # {}
        /\ \A w \in DOMAIN session_nodes' : \E i \in DOMAIN session_nodes :
             session_nodes'[w] = session_nodes[i]
    BY <2>1 DEF CompactedTo
  <2> QED
    BY <2>2 DEF ToSet
<1> QED
  BY <1>1, <1>2 DEF SessionEffect

\* The process sends chunks and PAGE_ENDs of the host's file.
LEMMA ProcessStream ==
  ASSUME TransferInv, Distribute, Process, UNCHANGED <<hop, nodes, reports>>, Forward
  PROVE  StreamStays
<1>1. /\ SessionOfHost /\ StreamInOrder /\ Base /\ SystemTypeOK /\ ProcessInSync
      /\ CoordinatorTypeOK /\ CoordinatorInv
  BY InvParts DEF TransferInv, Base, InSync
<1>2. pc # "idle" /\ ~Finished
  BY DEF Process, Finished
<1>3. /\ current_file_size = host.file.size /\ ota_target_slot = host.target
      /\ end_pkt.page = page_start_offset /\ end_pkt.target = ota_target_slot
      /\ end_pkt.crc = ImagePage(host.file, page_start_offset)
      /\ Prefix(page_buffer, total_chunks) = ImagePage(host.file, page_start_offset)
      /\ host'.file = host.file /\ host'.target = host.target
  BY <1>1, <1>2 DEF SessionOfHost, ProcessInSync, Forward
<1>4. /\ total_chunks = PageLen(host.file.size, page_start_offset) /\ total_chunks \in Nat
      /\ page_start_offset < host.file.size.pages /\ page_start_offset \in Int
      /\ page_start_offset <= page_start_offset'
  <2>1. total_chunks = ExpectedPageSize /\ total_chunks > 0
    BY <1>1, <1>2 DEF CoordinatorInv, ProcessHasPage
  <2> QED
    BY <1>1, <1>3, <2>1, PlaceType DEF ExpectedPageSize, Forward
<1>5. \A node \in Nodes : Fresh(node) => Fresh(node)'
  BY DEF Fresh, Rebooted
<1>6. ASSUME NEW pkt \in Packets, line' = Append(line, pkt), OfStream(pkt)',
             pkt.type \in {"DATA", "PAGE_END"}
      PROVE  StreamStays
  BY <1>1, <1>2, <1>5, <1>6, StreamSends DEF SystemTypeOK
<1>7. CASE line' = line
  BY <1>1, <1>5, <1>7, StreamSame DEF SystemTypeOK
<1>8. CASE line' = Append(line, end_pkt')
  <2>1. PICK pkt \in Packets : pkt = end_pkt'
    BY <1>1, ProcessPackets
  <2>2. /\ pkt.page = page_start_offset /\ pkt.target = host.target /\ pkt.type = "PAGE_END"
        /\ pkt.crc = ImagePage(host.file, page_start_offset)
    <3>1. end_pkt.type = "PAGE_END"
      BY <1>1 DEF CoordinatorTypeOK
    <3> QED
      BY <1>3, <2>1, <3>1, DistributeSends, <1>1 DEF ProcessSends, PageEndPkt
  <2>3. OfStream(pkt)'
    BY <1>3, <1>4, <2>2 DEF OfStream
  <2> QED
    BY <1>6, <1>8, <2>1, <2>2, <2>3
<1>9. ASSUME NEW idx \in 0 .. total_chunks - 1, line' = Append(line, ChunkPkt(idx))
      PROVE  StreamStays
  <2>1. PICK pkt \in Packets : pkt = ChunkPkt(idx)
    BY <1>1, <1>9, ProcessPackets
  <2>2. page_buffer[idx] = host.file.data[page_start_offset][idx]
    <3>1. Prefix(page_buffer, total_chunks)[idx] = page_buffer[idx]
      BY <1>9 DEF Prefix
    <3>2. ImagePage(host.file, page_start_offset)[idx] = host.file.data[page_start_offset][idx]
      BY <1>4, <1>9 DEF ImagePage, Prefix
    <3> QED
      BY <1>3, <3>1, <3>2
  <2>3. /\ pkt.type = "DATA" /\ pkt.page = page_start_offset /\ pkt.chunk = idx
        /\ pkt.target = host.target /\ pkt.data = host.file.data[page_start_offset][idx]
    BY <1>3, <2>1, <2>2 DEF ChunkPkt, DataPkt
  <2>4. idx < PageLen(host.file.size, page_start_offset)
    BY <1>4, <1>9
  <2>5. OfStream(pkt)'
    BY <1>3, <1>4, <2>3, <2>4 DEF OfStream
  <2> QED
    BY <1>6, <1>9, <2>1, <2>3, <2>5
<1> QED
  BY <1>1, <1>7, <1>8, <1>9, DistributeSends DEF ProcessSends

LEMMA ProcessRunsInv ==
  ASSUME TransferInv, ProcessRuns
  PROVE  SystemInv'
<1>1. /\ StartedOnce /\ SessionOfHost /\ StreamInOrder /\ NodesInv /\ LinkInv
      /\ AnswersTrue /\ PagesCommitted /\ Base /\ InSync /\ SystemTypeOK
      /\ CoordinatorTypeOK /\ CoordinatorInv
  BY InvParts DEF TransferInv, Base
<1>2. /\ Distribute /\ UNCHANGED <<hop, nodes, reports, host, commands, starts, first_answer, complete>>
      /\ abandoned' = IF GivesUpPage THEN abandoned \cup {page_start_offset} ELSE abandoned
  BY DEF ProcessRuns, Distribute, systemVars, networkVars, senderVars
<1>3. ProcessEffect /\ SessionEffect /\ ProcessLeaves
  BY <1>1, <1>2, DistributeEffect DEF CoordinatorInv, AdmissionTracked
<1>4. ProcessSends
  BY <1>1, <1>2, DistributeSends
<1>5. CASE ~Process
  <2>1. Rests /\ line' = line
    BY <1>3, <1>4, <1>5 DEF ProcessEffect, Continues, Ends, ProcessSends
  <2>2. ~GivesUpPage
    BY <1>5 DEF GivesUpPage, Process
  <2>3. TransferStays
    BY <1>2, <1>3, <2>1, <2>2 DEF TransferStays, Rests, KeepsPlace, sessionVars, processVars,
       ProcessLeaves
  <2>4. Forward /\ SessionOfHost' /\ starts' = starts /\ commands' = commands
    BY <2>3, TransferStaysInv
  <2>5. StreamStays
    BY <1>1, <1>2, <2>1, <2>4, StreamSame DEF SystemTypeOK, Fresh, Rebooted
  <2>6. StartedOnce'
    BY <1>1, <1>2, <2>1, <2>3 DEF StartedOnce, Untouched, TransferStays, Rebooted
  <2>7. AnswersTrue'
    BY <1>1, <1>2, <2>3, <2>4 DEF AnswersTrue, Opened, LastCommitted, Forward, TransferStays
  <2>8. PagesCommitted'
    BY <1>1, <1>2, <2>3 DEF PagesCommitted, SessionNodes, LastCommitted, CommittedToLast, TransferStays
  <2> QED
    BY <1>2, <2>4, <2>5, <2>6, <2>7, <2>8, NodesLeftAlone
<1>6. CASE Process
  <2>1. pc # "idle" /\ ~Finished /\ ~start_admission_in_progress
    BY <1>1, <1>6 DEF Process, Finished, CoordinatorInv, FlagGuardsProcess
  <2>2. /\ session_nodes # <<>>
        /\ current_file_size = host.file.size /\ ota_target_slot = host.target
        /\ end_pkt.page = page_start_offset /\ end_pkt.target = ota_target_slot
        /\ host.at # "verify"
    BY <1>1, <2>1 DEF SessionOfHost
  <2>3. session_nodes' # <<>> /\ ToSet(session_nodes') \subseteq ToSet(session_nodes)
    BY <1>1, <1>3, <2>2, SessionShrinks
  <2>4. /\ current_file_size' = current_file_size /\ ota_target_slot' = ota_target_slot
        /\ start_admission_in_progress' = start_admission_in_progress
        /\ \/ page_start_offset' = page_start_offset
           \/ page_start_offset' = page_start_offset + 1 /\ pc' = "idle" /\ (PageDone \/ GivesUp)
    BY <1>3 DEF ProcessEffect, Continues, Ends, Rests, KeepsPlace, ProcessLeaves
  <2>5. Forward
    BY <1>1, <1>2, <2>1, <2>4, FileFacts DEF Forward
  <2>6. StreamStays
    BY <1>2, <1>6, <2>5, ProcessStream
  <2>7. StartedOnce'
    BY <1>1, <1>2, <2>1 DEF StartedOnce, Untouched
  <2>8. SessionOfHost'
    <3>1. end_pkt'.page = page_start_offset /\ end_pkt'.target = ota_target_slot
      BY <1>4, <2>2 DEF ProcessSends, PageEndPkt
    <3>2. pc' # "idle" => page_start_offset' = page_start_offset
      BY <2>4
    <3> QED
      BY <1>2, <2>2, <2>3, <2>4, <3>1, <3>2 DEF SessionOfHost
  <2>9. AnswersTrue'
    <3>1. pc' # "idle" => page_start_offset' = page_start_offset
      BY <2>4
    <3> QED
      BY <1>1, <1>2, <2>1, <2>5, <3>1 DEF AnswersTrue, Opened, LastCommitted, Forward
  <2>10. ASSUME abandoned' = {}, NEW node \in ToSet(session_nodes')
         PROVE  /\ LastCommitted(node) \in {page_start_offset' - 1, page_start_offset'}
                /\ CommittedToLast(node)
    <3>1. abandoned = {} /\ ~GivesUpPage
      BY <1>2, <2>10
    <3>2. /\ LastCommitted(node) \in {page_start_offset - 1, page_start_offset}
          /\ CommittedToLast(node)
      BY <1>1, <2>1, <2>3, <2>10, <3>1 DEF PagesCommitted, SessionNodes
    <3>3. CASE page_start_offset' = page_start_offset
      BY <3>2, <3>3
    <3>4. CASE page_start_offset' = page_start_offset + 1 /\ pc' = "idle" /\ (PageDone \/ GivesUp)
      <4>1. PageOk /\ [Next]_vars
        BY <1>1, <2>1, <3>4, ProcessRunsMaps DEF PageOk, SystemAgrees
      <4>2. node \in complete
        BY <1>1, <2>10, <3>1, <3>4, <4>1, PageOkStep DEF GivesUpPage, ToSet
      <4>3. LastCommitted(node) = page_start_offset
        BY <1>1, <2>1, <4>2 DEF AnswersTrue
      <4> QED
        BY <1>1, <3>2, <3>4, <4>3, FileFacts
    <3> QED
      BY <2>4, <3>3, <3>4
  <2>11. PagesCommitted'
    BY <1>2, <2>10 DEF PagesCommitted, SessionNodes, LastCommitted, CommittedToLast
  <2> QED
    BY <1>2, <2>5, <2>6, <2>7, <2>8, <2>9, <2>11, NodesLeftAlone
<1> QED
  BY <1>5, <1>6

LEMMA NetworkLosesInv ==
  ASSUME TransferInv, NetworkLoses
  PROVE  SystemInv'
<1>1. /\ StartedOnce /\ SessionOfHost /\ StreamInOrder /\ NodesInv /\ LinkInv
      /\ AnswersTrue /\ PagesCommitted /\ Base /\ SystemTypeOK
  BY InvParts DEF TransferInv, Base
<1>2. /\ TransferStays /\ UNCHANGED <<first_answer, complete, nodes>> /\ reports' \subseteq reports
  BY DEF NetworkLoses, Losses, LosePacket, LoseReport, TransferStays, hostAndCoordinatorVars,
     transferVars, processVars, senderVars, sessionVars
<1>3. Forward /\ SessionOfHost' /\ starts' = starts /\ commands' = commands
  BY <1>2, TransferStaysInv
<1>4. ASSUME NEW i \in DOMAIN Line, LosePacket(i)
      PROVE  StreamStays /\ ~Untouched
  <2>1. Inbox(i) # <<>> /\ Passes(i, FALSE)
    BY <1>1, <1>4, PassedOnPasses DEF LosePacket, SystemTypeOK
  <2>2. OthersFresh(i)
    BY <1>2 DEF OthersFresh, Fresh, Rebooted
  <2>3. StreamStays
    BY <1>1, <1>3, <2>1, <2>2, StreamPasses DEF SystemTypeOK
  <2> QED
    BY <2>1, <2>3, InboxUntouched
<1>5. ASSUME NEW r \in reports, LoseReport(r)
      PROVE  StreamStays /\ ~Untouched
  <2>1. UNCHANGED <<line, hop>>
    BY <1>5 DEF LoseReport
  <2>2. StreamStays
    BY <1>1, <1>2, <1>3, <2>1, StreamSame DEF SystemTypeOK, Fresh, Rebooted
  <2> QED
    BY <2>2 DEF Untouched
<1>6. StreamStays /\ ~Untouched
  BY <1>4, <1>5 DEF NetworkLoses, Losses
<1>7. StartedOnce'
  BY <1>1, <1>3, <1>6 DEF StartedOnce
<1>8. AnswersTrue'
  BY <1>1, <1>2, <1>3 DEF AnswersTrue, Opened, LastCommitted, Forward, TransferStays
<1>9. PagesCommitted'
  BY <1>1, <1>2 DEF PagesCommitted, SessionNodes, LastCommitted, CommittedToLast, TransferStays
<1> QED
  BY <1>2, <1>3, <1>6, <1>7, <1>8, <1>9, NodesLeftAlone

-----------------------------------------------------------------------------
(* What a node makes of a packet of the stream, on its record. *)

PageStored(m, p) ==
  Prefix(m.flash[host.target][p], PageLen(host.file.size, p)) = ImagePage(host.file, p)

KeepsPages(m) ==
  LET last == m.last_crc_committed_page_offset
  IN /\ last <= page_start_offset /\ last < host.file.size.pages
     /\ m.current_rx_page_offset <= page_start_offset
     /\ Len(m.running_fw_crc) <= last + 1
     /\ last # NoPage => m.running_fw_crc # <<>> /\ PageStored(m, last)
     /\ Len(m.running_fw_crc) = last + 1 => \A p \in 0 .. last : PageStored(m, p)
     /\ m.staged # NoStage =>
          /\ ~m.ota_session_active
          /\ \A p \in 0 .. host.file.size.pages - 1 : PageStored(m, p)

OfHost(m, after) ==
  m.ota_session_active =>
    /\ m.current_file_size = host.file.size /\ m.ota_target_slot = host.target
    /\ m.page_0_erased
    /\ \/ after
       \/ /\ m.last_crc_committed_page_offset <= m.current_rx_page_offset
          /\ SectorPages = 2 =>
               m.erased_sector_addr =
                 <<host.target, SectorBase(FirstPage(m.current_rx_page_offset))>>

ReportsCommitted(m, report) ==
  0 .. PageLen(host.file.size, report.page) - 1 \subseteq report.bitmap
    => report.page <= m.last_crc_committed_page_offset

\* It commits a page or none, stays in the session, and reports what it committed.
GoesOn(m, r) ==
  /\ \/ /\ r.last_crc_committed_page_offset = m.last_crc_committed_page_offset
        /\ Len(r.running_fw_crc) = Len(m.running_fw_crc)
     \/ /\ r.last_crc_committed_page_offset > m.last_crc_committed_page_offset
        /\ Len(r.running_fw_crc) = Len(m.running_fw_crc) + 1
  /\ ~Finished =>
       /\ m.ota_session_active => r.ota_session_active
       /\ r.report_to_send = m.report_to_send \/ ReportsCommitted(r, r.report_to_send)

HandledWell(m, r, after) == KeepsPages(r) /\ OfHost(r, after) /\ GoesOn(m, r)

LEMMA RecordFacts ==
  ASSUME NEW m \in Node
  PROVE  /\ m.last_crc_committed_page_offset \in Page \cup {NoPage}
         /\ m.last_crc_committed_page_offset \in Int
         /\ m.current_rx_page_offset \in Page \cup {NoPage}
         /\ m.current_rx_page_offset \in Int
         /\ m.running_fw_crc \in Seq(PageContent) /\ Len(m.running_fw_crc) \in Nat
BY DEF Node, Page, NoPage

LEMMA DataHandled ==
  ASSUME Base, SectorsOfBackend, NEW m \in Node, SlotOk(m), NEW pkt \in DataPkts,
         OfStream(pkt), KeepsPages(m), OfHost(m, FALSE)
  PROVE  HandledWell(m, OnData(m, pkt, TRUE, TRUE, TRUE), FALSE)
<1> PICK r : r = OnData(m, pkt, TRUE, TRUE, TRUE)
  OBVIOUS
<1>1. pkt.type = "DATA" /\ pkt.page \in Page /\ pkt.page \in Int
  BY DEF DataPkts, Page
<1>2. CASE ~InSession(m, pkt)
  <2>1. r = m
    BY <1>2 DEF OnData
  <2> QED
    BY <2>1, RecordFacts DEF HandledWell, GoesOn
<1>3. CASE InSession(m, pkt)
  <2>1. /\ m.ota_session_active /\ m.ota_target_slot = host.target
        /\ m.ota_target_slot \in Slots /\ m.page_0_erased
        /\ m.last_crc_committed_page_offset <= m.current_rx_page_offset
        /\ SectorPages = 2 =>
             m.erased_sector_addr =
               <<m.ota_target_slot, SectorBase(FirstPage(m.current_rx_page_offset))>>
    BY <1>3 DEF InSession, OfHost, SlotOk
  <2>2. /\ r \in Node /\ SameSession(r, m)
        /\ r.current_rx_page_offset \in {m.current_rx_page_offset, pkt.page}
    BY OnDataType
  <2>3. /\ m.current_rx_page_offset <= r.current_rx_page_offset
        /\ r.page_0_erased
        /\ SectorPages = 2 =>
             r.erased_sector_addr =
               <<m.ota_target_slot, SectorBase(FirstPage(r.current_rx_page_offset))>>
    BY <2>1, OnDataEffect DEF SectorsOfBackend
  <2>4. r.report_to_send = m.report_to_send
    BY OnDataWrites DEF WritesOnly
  <2>5. ASSUME NEW p \in Page, p <= m.current_rx_page_offset, PageStored(m, p)
        PROVE  PageStored(r, p)
    <3>1. /\ pkt.chunk < PageLen(host.file.size, pkt.page)
          /\ pkt.data = host.file.data[pkt.page][pkt.chunk]
      BY <1>1 DEF OfStream
    <3>2. host.file \in Image
      BY FileFacts
    <3>3. HasPage(m, host.file, p)
      BY <2>1, <2>5 DEF HasPage, PageStored
    <3>4. HasPage(r, host.file, p)
      BY <2>1, <2>5, <3>1, <3>2, <3>3, OnDataKeepsPages DEF SectorsOfBackend
    <3> QED
      BY <2>1, <2>2, <3>4 DEF HasPage, PageStored, SameSession
  <2>6. /\ r.last_crc_committed_page_offset = m.last_crc_committed_page_offset
        /\ r.running_fw_crc = m.running_fw_crc /\ r.staged = m.staged
        /\ r.ota_session_active = m.ota_session_active
        /\ r.current_file_size = m.current_file_size /\ r.ota_target_slot = m.ota_target_slot
    BY <2>2 DEF SameSession
  <2>7. KeepsPages(r)
    <3>1. r.current_rx_page_offset <= page_start_offset
      BY <1>1, <2>2 DEF KeepsPages, OfStream
    <3>2. ASSUME NEW p \in 0 .. m.last_crc_committed_page_offset
          PROVE  p \in Page /\ p <= m.current_rx_page_offset
      <4>1. PICK last \in Page \cup {NoPage} : last = m.last_crc_committed_page_offset
        BY RecordFacts
      <4>2. PICK rx \in Int : rx = m.current_rx_page_offset
        BY RecordFacts
      <4>3. p \in 0 .. last /\ last <= rx
        BY <2>1, <4>1, <4>2
      <4> QED
        BY <4>2, <4>3, WireAssumption DEF Page, NoPage
    <3>3. m.last_crc_committed_page_offset # NoPage =>
            m.last_crc_committed_page_offset \in 0 .. m.last_crc_committed_page_offset
      BY RecordFacts DEF Page
    <3>4. m.staged = NoStage
      BY <2>1 DEF KeepsPages
    <3> QED
      BY <2>5, <2>6, <3>1, <3>2, <3>3, <3>4 DEF KeepsPages
  <2>8. OfHost(r, FALSE)
    <3>1. PICK last \in Int, rx \in Int, now \in Int :
            /\ last = m.last_crc_committed_page_offset
            /\ rx = m.current_rx_page_offset /\ now = r.current_rx_page_offset
      BY <2>2, RecordFacts
    <3>2. last <= rx /\ rx <= now
      BY <2>1, <2>3, <3>1
    <3>3. last <= now
      BY <3>2
    <3>4. m.last_crc_committed_page_offset <= r.current_rx_page_offset
      BY <3>1, <3>3
    <3> QED
      BY <1>3, <2>1, <2>3, <2>6, <3>4 DEF OfHost, InSession
  <2> QED
    BY <2>4, <2>6, <2>7, <2>8 DEF HandledWell, GoesOn
<1> QED
  BY <1>2, <1>3

LEMMA StartHandled ==
  ASSUME Base, SectorsOfBackend, NEW m \in Node, NEW pkt \in StartPkts, OfStream(pkt),
         m.last_crc_committed_page_offset = NoPage, m.running_fw_crc = <<>>,
         m.staged = NoStage, ~m.ota_session_active
  PROVE  HandledWell(m, OnStart(m, pkt, TRUE), FALSE)
<1> PICK r : r = OnStart(m, pkt, TRUE)
  OBVIOUS
<1>1. pkt.target = host.target /\ pkt.size = host.file.size
  BY DEF OfStream, StartPkts
<1>2. /\ r.staged = NoStage /\ r.running_fw_crc = <<>>
      /\ r.last_crc_committed_page_offset = NoPage /\ r.current_rx_page_offset = NoPage
      /\ r.ota_target_slot = host.target /\ r.current_file_size = host.file.size
      /\ r.ota_session_active =>
           r.page_0_erased /\ (Backend = "dual" => r.erased_sector_addr = <<host.target, 0>>)
  <2>1. TRUE \in BOOLEAN
    OBVIOUS
  <2> HIDE <1>1
  <2>2. /\ r.staged = m.staged
        /\ r.ota_target_slot = pkt.target /\ r.current_file_size = pkt.size
        /\ r.running_fw_crc = <<>>
        /\ r.last_crc_committed_page_offset = NoPage
        /\ r.current_rx_page_offset = NoPage
        /\ r.ota_session_active =>
             r.page_0_erased
             /\ (Backend = "dual" /\ TRUE => r.erased_sector_addr = <<pkt.target, 0>>)
    BY <2>1, OnStartEffect, Zenon
  <2> QED
    BY <1>1, <2>2
<1>3. r.report_to_send = m.report_to_send
  BY OnStartWrites
<1>4. KeepsPages(r)
  <2>1. Len(r.running_fw_crc) = 0
    BY <1>2
  <2>2. /\ NoPage <= page_start_offset /\ NoPage < host.file.size.pages
        /\ 0 <= NoPage + 1 /\ 0 .. NoPage = {}
    BY FileFacts DEF NoPage
  <2> QED
    BY <1>2, <2>1, <2>2 DEF KeepsPages
<1>5. OfHost(r, FALSE)
  <2>1. SectorPages = 2 => SectorBase(FirstPage(NoPage)) = 0
    BY DEF SectorBase, FirstPage
  <2>2. NoPage <= NoPage
    BY DEF NoPage
  <2> QED
    BY <1>2, <2>1, <2>2 DEF OfHost, SectorsOfBackend
<1>6. GoesOn(m, r)
  BY <1>2, <1>3 DEF GoesOn
<1> QED
  BY <1>4, <1>5, <1>6 DEF HandledWell

LEMMA AppendLength ==
  ASSUME NEW S, NEW crc \in Seq(S), NEW page \in S
  PROVE  Len(Append(crc, page)) = Len(crc) + 1 /\ Append(crc, page) # <<>>
<1>1. Len(Append(crc, page)) = Len(crc) + 1
  OBVIOUS
<1>2. Len(crc) \in Nat /\ Len(<<>>) = 0
  OBVIOUS
<1> QED
  BY <1>1, <1>2

LEMMA VerifyHandled ==
  ASSUME Base, NEW m \in Node, SlotOk(m), NEW pkt \in VerifyPkts, OfStream(pkt),
         NEW leaf \in BOOLEAN, KeepsPages(m), OfHost(m, TRUE)
  PROVE  HandledWell(m, OnVerify(m, pkt, "ok", leaf), TRUE)
<1> PICK r : r = OnVerify(m, pkt, "ok", leaf)
  OBVIOUS
<1>1. /\ r \in Node /\ r.flash = m.flash /\ r.page_0_erased = m.page_0_erased
      /\ r.running_fw_crc = m.running_fw_crc
      /\ r.last_crc_committed_page_offset = m.last_crc_committed_page_offset
      /\ r.current_rx_page_offset \in {m.current_rx_page_offset, NoPage}
      /\ r.ota_session_active => SameSession(r, m)
      /\ r.staged # m.staged => InSession(m, pkt) /\ VerifyMatches(m, pkt)
                                  /\ r.ota_session_active = FALSE
  BY OnVerifyEffect, ZenonT(60)
<1>2. pkt.crc = ImageCrc(host.file) /\ Finished
  BY DEF OfStream, VerifyPkts
<1>3. \A p : PageStored(r, p) <=> PageStored(m, p)
  BY <1>1 DEF PageStored
<1>4. ASSUME r.staged # m.staged
      PROVE  \A p \in 0 .. host.file.size.pages - 1 : PageStored(m, p)
  <2>1. Len(m.running_fw_crc) = host.file.size.pages
    BY <1>1, <1>2, <1>4, FileFacts, ImageCrcType DEF VerifyMatches
  <2>2. m.last_crc_committed_page_offset = host.file.size.pages - 1
    BY <2>1, RecordFacts, FileFacts DEF KeepsPages
  <2>3. Len(m.running_fw_crc) = m.last_crc_committed_page_offset + 1
    BY <2>1, <2>2, FileFacts
  <2> QED
    BY <2>2, <2>3 DEF KeepsPages
<1>5. r.staged # NoStage =>
        /\ ~r.ota_session_active
        /\ \A p \in 0 .. host.file.size.pages - 1 : PageStored(r, p)
  <2>1. CASE r.staged # m.staged
    BY <1>1, <1>3, <1>4, <2>1
  <2>2. CASE r.staged = m.staged
    BY <1>1, <1>3, <2>2 DEF KeepsPages, SameSession
  <2> QED
    BY <2>1, <2>2
<1>6. KeepsPages(r)
  <2>1. r.current_rx_page_offset <= page_start_offset
    BY <1>1, FileFacts DEF KeepsPages, NoPage
  <2> QED
    BY <1>1, <1>3, <1>5, <2>1 DEF KeepsPages
<1>7. OfHost(r, TRUE)
  BY <1>1 DEF OfHost, SameSession
<1>8. GoesOn(m, r)
  BY <1>1, <1>2 DEF GoesOn
<1> QED
  BY <1>6, <1>7, <1>8 DEF HandledWell

LEMMA PageEndHandled ==
  ASSUME Base, NEW m \in Node, SlotOk(m), NEW pkt \in PageEndPkts, OfStream(pkt),
         KeepsPages(m), OfHost(m, FALSE)
  PROVE  HandledWell(m, OnPageEnd(m, pkt, TRUE), FALSE)
<1> PICK r : r = OnPageEnd(m, pkt, TRUE)
  OBVIOUS
<1>1. PICK p \in Page : p = pkt.page
  BY DEF PageEndPkts
<1>2. /\ p \in Nat /\ p <= page_start_offset /\ p < host.file.size.pages
      /\ pkt.crc = ImagePage(host.file, p)
  BY <1>1, WireAssumption DEF OfStream, PageEndPkts, Page
<1>3. r.report_to_send = m.report_to_send \/ ReportsCommitted(r, r.report_to_send)
  <2>1. CASE r.report_to_send = [page |-> pkt.page, bitmap |-> {}]
    <3>1. PageLen(host.file.size, p) \in Nat \ {0}
      BY <1>2, FilePageLen, FileFacts
    <3>2. 0 \in 0 .. PageLen(host.file.size, p) - 1
      BY <3>1
    <3>3. r.report_to_send.page = p /\ r.report_to_send.bitmap = {}
      <4>1. r.report_to_send = [page |-> p, bitmap |-> {}]
        BY <1>1, <2>1
      <4> HIDE <1>1, <2>1
      <4>2. [page |-> p, bitmap |-> {}].page = p /\ [page |-> p, bitmap |-> {}].bitmap = {}
        OBVIOUS
      <4> QED
        BY <4>1, <4>2, Zenon
    <3> QED
      BY <3>2, <3>3 DEF ReportsCommitted
  <2>2. CASE /\ r.report_to_send.page = pkt.page
             /\ r.last_crc_committed_page_offset = pkt.page
    <3>1. r.report_to_send.page = p /\ r.last_crc_committed_page_offset = p
      BY <1>1, <2>2
    <3>2. p <= p
      BY <1>2
    <3> QED
      BY <3>1, <3>2 DEF ReportsCommitted
  <2> QED
    BY <2>1, <2>2, OnPageEndReports
<1>4. CASE SameReception(r, m)
  <2>1. KeepsPages(r) /\ OfHost(r, FALSE)
    BY <1>4 DEF SameReception, SameSession, KeepsPages, OfHost, PageStored
  <2> QED
    BY <1>3, <1>4, <2>1 DEF HandledWell, GoesOn, SameReception, SameSession
<1>5. CASE /\ InSession(m, pkt) /\ m.current_rx_page_offset = pkt.page
           /\ FlashPage(m, pkt.page) = pkt.crc
           /\ SameReception(r, Commit(m))
  <2>1. /\ m.ota_session_active /\ m.ota_target_slot = host.target
        /\ m.ota_target_slot \in Slots /\ m.current_file_size = host.file.size
        /\ m.current_rx_page_offset = p /\ m.staged = NoStage
    BY <1>1, <1>5 DEF InSession, SlotOk, OfHost, KeepsPages
  <2>2. CASE m.last_crc_committed_page_offset = p
    <3>1. Commit(m) = m
      BY <2>1, <2>2, CommitEffect
    <3> QED
      BY <1>4, <1>5, <3>1
  <2>3. CASE m.last_crc_committed_page_offset # p
    <3>1. PICK last \in Int : last = m.last_crc_committed_page_offset
      BY RecordFacts
    <3>2. last < p
      BY <1>2, <2>1, <2>3, <3>1 DEF OfHost
    <3>3. /\ r.ota_session_active = m.ota_session_active
          /\ r.current_file_size = m.current_file_size
          /\ r.ota_target_slot = m.ota_target_slot
          /\ r.flash = m.flash /\ r.erased_sector_addr = m.erased_sector_addr
          /\ r.page_0_erased = m.page_0_erased /\ r.current_rx_page_offset = p
          /\ r.staged = m.staged /\ r.last_crc_committed_page_offset = p
          /\ r.running_fw_crc = Append(m.running_fw_crc, FlashPage(m, p))
      BY <1>5, <2>1, <2>3, CommitEffect DEF SameReception, SameSession
    <3>4. PICK len \in Nat : len = Len(m.running_fw_crc)
      BY RecordFacts
    <3>5. Len(r.running_fw_crc) = len + 1 /\ r.running_fw_crc # <<>>
      <4>1. m.running_fw_crc \in Seq(PageContent)
        BY RecordFacts
      <4>2. PICK page \in PageContent : page = FlashPage(m, p)
        BY <2>1, FlashPageType
      <4>3. PICK crc \in Seq(PageContent) : crc = m.running_fw_crc
        BY <4>1
      <4>4. Len(Append(crc, page)) = Len(crc) + 1 /\ Append(crc, page) # <<>>
        BY AppendLength
      <4> QED
        BY <3>3, <3>4, <4>2, <4>3, <4>4
    <3>6. len <= last + 1
      BY <3>1, <3>4 DEF KeepsPages
    <3>7. len = last + 1 => \A q \in 0 .. last : PageStored(m, q)
      BY <3>1, <3>4 DEF KeepsPages
    <3>8. \A q : PageStored(r, q) <=> PageStored(m, q)
      BY <3>3 DEF PageStored
    <3>9. PageStored(r, p)
      BY <1>1, <1>2, <1>5, <2>1, <3>8 DEF FlashPage, PageStored
    <3>10. ASSUME len + 1 = p + 1, NEW q \in 0 .. p
           PROVE  PageStored(r, q)
      <4>1. last + 1 = p /\ len = last + 1
        BY <1>2, <3>2, <3>6, <3>10
      <4>2. CASE q = p
        BY <3>9, <4>2
      <4>3. CASE q # p
        <5>1. q \in 0 .. last
          BY <1>2, <4>1, <4>3
        <5> QED
          BY <3>7, <3>8, <4>1, <5>1
      <4> QED
        BY <4>2, <4>3
    <3>11. len + 1 <= p + 1
      BY <1>2, <3>2, <3>6
    <3>12. KeepsPages(r)
      BY <1>2, <2>1, <3>3, <3>5, <3>9, <3>10, <3>11 DEF KeepsPages
    <3>13. OfHost(r, FALSE)
      <4>1. /\ m.page_0_erased
            /\ SectorPages = 2 =>
                 m.erased_sector_addr = <<host.target, SectorBase(FirstPage(p))>>
        BY <2>1 DEF OfHost
      <4>2. p <= p
        BY <1>2
      <4> QED
        BY <2>1, <3>3, <4>1, <4>2 DEF OfHost
    <3>14. p > last
      BY <1>2, <3>2
    <3>15. GoesOn(m, r)
      BY <1>3, <3>1, <3>3, <3>4, <3>5, <3>14 DEF GoesOn
    <3> QED
      BY <3>12, <3>13, <3>15 DEF HandledWell
  <2> QED
    BY <2>2, <2>3
<1> QED
  BY <1>4, <1>5, OnPageEndEffect

-----------------------------------------------------------------------------
(* One node acts. *)

\* The i-th node goes on, and adds only true reports.
OneNodeActs(i) ==
  LET n == Line[i]
  IN /\ TransferStays /\ UNCHANGED <<first_answer, complete>>
     /\ \A node \in Nodes \ {n} : nodes'[node] = nodes[node]
     /\ KeepsPages(nodes'[n]) /\ GoesOn(nodes[n], nodes'[n])
     /\ OfHost(nodes'[n], FALSE) \/ (AfterVerify(i) /\ OfHost(nodes'[n], TRUE))
     /\ \A q \in reports' \ reports :
          /\ q.node = n
          /\ q.type = "START_REPORT" /\ q.accepted => nodes'[n].ota_session_active
          /\ q.type = "BITMAP_REPORT" => q.report = nodes[n].report_to_send

LEMMA PagesOfNode ==
  ASSUME SystemTypeOK, SystemTypeOK', NEW i \in DOMAIN Line, OneNodeActs(i), NEW node \in Nodes
  PROVE  /\ \/ /\ LastCommitted(node)' = LastCommitted(node)
              /\ Len(nodes'[node].running_fw_crc) = Len(nodes[node].running_fw_crc)
           \/ /\ LastCommitted(node)' > LastCommitted(node)
              /\ Len(nodes'[node].running_fw_crc) = Len(nodes[node].running_fw_crc) + 1
         /\ LastCommitted(node) \in Int /\ LastCommitted(node)' \in Int
         /\ LastCommitted(node) <= LastCommitted(node)'
<1>1. LastCommitted(node) \in Int
  BY NodeFacts
<1>2. LastCommitted(node)' \in Int
  <2>1. nodes'[node] \in Node
    BY DEF SystemTypeOK
  <2> QED
    BY <2>1, RecordFacts DEF LastCommitted
<1>3. \/ /\ LastCommitted(node)' = LastCommitted(node)
         /\ Len(nodes'[node].running_fw_crc) = Len(nodes[node].running_fw_crc)
      \/ /\ LastCommitted(node)' > LastCommitted(node)
         /\ Len(nodes'[node].running_fw_crc) = Len(nodes[node].running_fw_crc) + 1
  BY DEF OneNodeActs, GoesOn, LastCommitted
<1> QED
  BY <1>1, <1>2, <1>3

LEMMA ActingNodeKeepsPages ==
  ASSUME NEW i \in DOMAIN Line, OneNodeActs(i)
  PROVE  NodeKeepsPages(Line[i])'
<1> PICK n : n = Line[i]
  OBVIOUS
<1> PICK r : r = nodes'[n]
  OBVIOUS
<1>1. KeepsPages(r) /\ UNCHANGED <<host, page_start_offset>>
  BY DEF OneNodeActs, TransferStays
<1>2. \A p : Holds(n, p)' <=> PageStored(r, p)
  BY <1>1 DEF Holds, PageStored
<1>3. LastCommitted(n)' = r.last_crc_committed_page_offset
  BY DEF LastCommitted
<1> QED
  BY <1>1, <1>2, <1>3 DEF KeepsPages, NodeKeepsPages, CommittedToLast

LEMMA OneNodeActsInv ==
  ASSUME TransferInv, SystemTypeOK', NEW i \in DOMAIN Line, OneNodeActs(i), StreamStays,
         \A node \in Nodes \ ToSet(Line) : Fresh(node)', ~Untouched
  PROVE  SystemInv'
<1>1. /\ StartedOnce /\ SessionOfHost /\ StreamInOrder /\ NodesInv /\ LinkInv
      /\ AnswersTrue /\ PagesCommitted /\ Base /\ SystemTypeOK /\ CoordinatorTypeOK
  BY InvParts DEF TransferInv, Base
<1>2. TransferStays /\ UNCHANGED <<first_answer, complete>>
  BY DEF OneNodeActs
<1>3. Forward /\ SessionOfHost' /\ starts' = starts /\ commands' = commands
  BY <1>2, TransferStaysInv
<1>4. \A node \in Nodes : node # Line[i] => nodes'[node] = nodes[node]
  BY DEF OneNodeActs
<1>5. Finished' <=> Finished
  BY <1>2 DEF Finished, TransferStays
<1>6. StartedOnce'
  BY <1>1, <1>3 DEF StartedOnce
<1>7. ASSUME NEW node \in Nodes
      PROVE  NodeKeepsPages(node)'
  <2>1. CASE node = Line[i]
    BY <2>1, ActingNodeKeepsPages
  <2>2. CASE node # Line[i]
    BY <1>1, <1>3, <1>4, <2>2, KeepsPagesStays DEF NodesInv
  <2> QED
    BY <2>1, <2>2
<1>8. ASSUME NEW j \in DOMAIN Line
      PROVE  NodeInSession(j)'
  <2>1. AfterVerify(j) => AfterVerify(j)'
    BY DEF StreamStays
  <2>2. CASE j = i
    <3>1. OfHost(nodes'[Line[i]], FALSE) \/ (AfterVerify(i)' /\ OfHost(nodes'[Line[i]], TRUE))
      BY <2>1, <2>2 DEF OneNodeActs
    <3> QED
      BY <1>2, <2>2, <3>1 DEF OfHost, NodeInSession, TransferStays
  <2>3. CASE j # i
    <3>1. nodes'[Line[j]] = nodes[Line[j]]
      BY <1>4, <2>3, LineType
    <3> QED
      BY <1>1, <1>2, <2>1, <3>1 DEF NodesInv, NodeInSession, TransferStays
  <2> QED
    BY <2>2, <2>3
<1>9. ASSUME NEW node \in Nodes, NEW report, TrueReport(node, report),
             report.page \in Int
      PROVE  TrueReport(node, report)'
  <2>1. LastCommitted(node) <= LastCommitted(node)' /\ LastCommitted(node) \in Int
        /\ LastCommitted(node)' \in Int
    BY <1>1, PagesOfNode
  <2> QED
    BY <1>2, <1>9, <2>1 DEF TrueReport, TransferStays
<1>10. ASSUME NEW node \in Nodes, Opened(node)
       PROVE  Opened(node)'
  <2>1. CASE node = Line[i]
    BY <1>5, <1>10, <2>1 DEF Opened, OneNodeActs, GoesOn
  <2>2. CASE node # Line[i]
    BY <1>4, <1>5, <1>10, <2>2 DEF Opened
  <2> QED
    BY <2>1, <2>2
<1>11. ASSUME NEW node \in Nodes
       PROVE  nodes[node].report_to_send.page \in Int
  <2>1. nodes[node] \in Node
    BY <1>1, NodeFacts
  <2> QED
    BY <2>1 DEF Node, Page, NoPage
<1>12. ReportsTrue'
  <2>1. ASSUME ~Finished, NEW node \in Nodes
        PROVE  TrueReport(node, nodes[node].report_to_send)'
    <3>1. TrueReport(node, nodes[node].report_to_send)
      BY <1>1, <2>1 DEF NodesInv, ReportsTrue
    <3>2. CASE nodes'[node].report_to_send = nodes[node].report_to_send
      <4>1. PICK report : report = nodes[node].report_to_send
        OBVIOUS
      <4>2. TrueReport(node, report)'
        BY <1>9, <1>11, <3>1, <4>1
      <4> QED
        BY <3>2, <4>1, <4>2 DEF TrueReport
    <3>3. CASE nodes'[node].report_to_send # nodes[node].report_to_send
      <4>1. node = Line[i]
        BY <1>4, <3>3
      <4>2. ReportsCommitted(nodes'[node], nodes'[node].report_to_send)
        BY <2>1, <3>3, <4>1 DEF OneNodeActs, GoesOn
      <4> QED
        BY <1>2, <4>2 DEF ReportsCommitted, TrueReport, LastCommitted, TransferStays
    <3> QED
      BY <3>2, <3>3
  <2>2. ASSUME ~Finished, NEW q \in reports', q.type = "BITMAP_REPORT"
        PROVE  TrueReport(q.node, q.report)'
    <3>1. q \in Reports
      BY <2>2 DEF SystemTypeOK
    <3>2. q.node \in Nodes /\ q.report.page \in Int
      BY <2>2, <3>1 DEF Reports, Page, NoPage
    <3>3. TrueReport(q.node, q.report)
      <4>1. CASE q \in reports
        BY <1>1, <2>2, <4>1 DEF NodesInv, ReportsTrue
      <4>2. CASE q \notin reports
        <5>1. q.report = nodes[q.node].report_to_send
          BY <2>2, <4>2 DEF OneNodeActs
        <5> QED
          BY <1>1, <2>2, <3>2, <5>1 DEF NodesInv, ReportsTrue
      <4> QED
        BY <4>1, <4>2
    <3> QED
      BY <1>9, <3>2, <3>3
  <2>3. ASSUME NEW q \in reports', q.type = "START_REPORT", q.accepted
        PROVE  Opened(q.node)'
    <3>1. q.node \in Nodes
      BY <2>3 DEF SystemTypeOK, Reports
    <3>2. CASE q \in reports
      BY <1>1, <1>10, <2>3, <3>1, <3>2 DEF NodesInv, ReportsTrue
    <3>3. CASE q \notin reports
      BY <2>3, <3>3 DEF OneNodeActs, Opened
    <3> QED
      BY <3>2, <3>3
  <2> QED
    BY <1>5, <2>1, <2>2, <2>3 DEF ReportsTrue
<1>13. AnswersTrue'
  <2>1. ASSUME pc # "idle", NEW node \in complete
        PROVE  LastCommitted(node)' = page_start_offset
    <3>1. node \in Nodes /\ LastCommitted(node) = page_start_offset
      BY <1>1, <2>1 DEF AnswersTrue, LinkInv, LinkTypeOK
    <3>2. LastCommitted(node)' <= page_start_offset
      BY <1>2, <1>7, <3>1 DEF NodeKeepsPages, TransferStays
    <3> QED
      BY <1>1, <3>1, <3>2, PagesOfNode
  <2> QED
    BY <1>1, <1>2, <1>10, <2>1 DEF AnswersTrue, TransferStays
<1>14. PagesCommitted'
  <2> SUFFICES ASSUME abandoned = {}, ~start_admission_in_progress, NEW node \in SessionNodes
               PROVE  /\ LastCommitted(node)' \in {page_start_offset - 1, page_start_offset}
                      /\ CommittedToLast(node)'
    BY <1>2 DEF PagesCommitted, SessionNodes, TransferStays
  <2>1. node \in Nodes
    BY <1>1 DEF SessionNodes, ToSet, CoordinatorTypeOK
  <2>2. PICK at \in Nat, last \in Int, now \in Int :
          /\ at = page_start_offset /\ last = LastCommitted(node) /\ now = LastCommitted(node)'
    BY <1>1, <2>1, PagesOfNode, FileFacts
  <2>3. last \in {at - 1, at} /\ Len(nodes[node].running_fw_crc) = last + 1
    BY <1>1, <2>2 DEF PagesCommitted, CommittedToLast
  <2>4. now <= at
    BY <1>2, <1>7, <2>1, <2>2 DEF NodeKeepsPages, TransferStays
  <2>5. \/ now = last /\ Len(nodes'[node].running_fw_crc) = last + 1
        \/ now > last /\ Len(nodes'[node].running_fw_crc) = last + 1 + 1
    BY <1>1, <2>1, <2>2, <2>3, PagesOfNode
  <2>6. now \in {at - 1, at} /\ Len(nodes'[node].running_fw_crc) = now + 1
    BY <2>3, <2>4, <2>5
  <2> QED
    BY <2>2, <2>6 DEF CommittedToLast
<1> QED
  BY <1>3, <1>6, <1>7, <1>8, <1>12, <1>13, <1>14 DEF StreamStays, SystemInv

\* What the i-th node makes of the packet at the head of its queue.
HandledInOrder(i, m, pkt, r) ==
  /\ KeepsPages(r) /\ GoesOn(m, r)
  /\ OfHost(r, FALSE) \/ (AfterVerify(i) /\ OfHost(r, TRUE))
  /\ pkt.type = "START" /\ StartStatus(m, pkt, TRUE) = "ACCEPTED" => r.ota_session_active

LEMMA HeadHandled ==
  ASSUME TransferInv, SectorsOfBackend, NEW i \in DOMAIN Line, Inbox(i) # <<>>,
         NEW m, m = nodes[Line[i]], NEW pkt, pkt = Head(Inbox(i)),
         NEW r, r = Handled(m, pkt, i = Len(Line))
  PROVE  HandledInOrder(i, m, pkt, r)
<1>1. /\ StreamInOrder /\ NodesInv /\ Base /\ SystemTypeOK
  BY InvParts DEF TransferInv
<1>2. Line[i] \in Nodes /\ i \in Nat /\ 1 .. i \subseteq DOMAIN Line
  BY LineType
<1>3. m \in Node /\ SlotOk(m) /\ KeepsPages(m)
  <2>1. NodeKeepsPages(Line[i])
    BY <1>1, <1>2 DEF NodesInv
  <2> QED
    BY <1>1, <1>2, <2>1, NodeFacts DEF NodeKeepsPages, KeepsPages, Holds, PageStored,
       LastCommitted, CommittedToLast
<1>4. pkt \in Packets /\ 1 \in DOMAIN Inbox(i) /\ Inbox(i)[1] = pkt
  BY <1>1, InboxType DEF SystemTypeOK
<1>5. OfStream(pkt)
  BY <1>1, <1>4 DEF StreamInOrder
<1>6. ASSUME pkt.type # "VERIFY"
      PROVE  OfHost(m, FALSE)
  <2>1. ~AfterVerify(i)
    BY <1>2, <1>4, <1>6 DEF AfterVerify, OnlyVerify
  <2> QED
    BY <1>1, <2>1 DEF NodesInv, NodeInSession, OfHost
<1>7. CASE pkt \in StartPkts
  <2>1. pkt.type = "START"
    BY <1>7 DEF StartPkts
  <2>2. r = OnStart(m, pkt, TRUE)
    BY <2>1 DEF Handled
  <2>3. Rebooted(Line[i])
    <3>1. \A j \in DOMAIN Line : j >= i => Fresh(Line[j])
      BY <1>1, <1>4, <2>1 DEF StreamInOrder
    <3>2. i >= i
      BY <1>2
    <3> QED
      BY <3>1, <3>2 DEF Fresh
  <2>4. /\ m.last_crc_committed_page_offset = NoPage /\ m.running_fw_crc = <<>>
        /\ m.staged = NoStage /\ ~m.ota_session_active
    BY <1>1, <1>2, <2>3, RebootedNode DEF LastCommitted
  <2>5. HandledWell(m, r, FALSE)
    BY <1>1, <1>3, <1>5, <1>7, <2>2, <2>4, StartHandled
  <2>6. StartStatus(m, pkt, TRUE) = "ACCEPTED" => OnStart(m, pkt, TRUE).ota_session_active
    BY <1>3, <1>7, OnStartEffect
  <2> QED
    BY <2>2, <2>5, <2>6 DEF HandledWell, HandledInOrder
<1>8. CASE pkt \in DataPkts
  <2>1. pkt.type = "DATA"
    BY <1>8 DEF DataPkts
  <2>2. r = OnData(m, pkt, TRUE, TRUE, TRUE)
    BY <2>1 DEF Handled
  <2>3. HandledWell(m, r, FALSE)
    BY <1>1, <1>3, <1>5, <1>6, <1>8, <2>1, <2>2, DataHandled
  <2> QED
    BY <2>1, <2>3 DEF HandledWell, HandledInOrder
<1>9. CASE pkt \in PageEndPkts
  <2>1. pkt.type = "PAGE_END"
    BY <1>9 DEF PageEndPkts
  <2>2. r = OnPageEnd(m, pkt, TRUE)
    BY <2>1 DEF Handled
  <2>3. HandledWell(m, r, FALSE)
    BY <1>1, <1>3, <1>5, <1>6, <1>9, <2>1, <2>2, PageEndHandled
  <2> QED
    BY <2>1, <2>3 DEF HandledWell, HandledInOrder
<1>10. CASE pkt \in VerifyPkts
  <2>1. pkt.type = "VERIFY"
    BY <1>10 DEF VerifyPkts
  <2>2. r = OnVerify(m, pkt, "ok", i = Len(Line))
    BY <2>1 DEF Handled
  <2>3. Finished
    BY <1>5, <2>1 DEF OfStream
  <2>4. \A j \in 1 .. i : OnlyVerify(j)
    <3>1. \A j \in DOMAIN Line : j < i => OnlyVerify(j)
      BY <1>1, <1>4, <2>1 DEF StreamInOrder
    <3>2. OnlyVerify(i)
      <4>1. \A l \in DOMAIN Inbox(i) : l >= 1
        BY <1>1, InboxType DEF SystemTypeOK
      <4> QED
        BY <1>1, <1>4, <2>1, <4>1 DEF StreamInOrder, OnlyVerify
    <3> QED
      BY <1>2, <3>1, <3>2
  <2>5. AfterVerify(i)
    BY <2>3, <2>4 DEF AfterVerify
  <2>6. OfHost(m, TRUE)
    BY <1>1, <2>5 DEF NodesInv, NodeInSession, OfHost
  <2>7. (i = Len(Line)) \in BOOLEAN
    OBVIOUS
  <2>8. HandledWell(m, r, TRUE)
    BY <1>1, <1>3, <1>5, <1>10, <2>2, <2>6, <2>7, VerifyHandled
  <2> QED
    BY <2>1, <2>5, <2>8 DEF HandledWell, HandledInOrder
<1> QED
  BY <1>4, <1>7, <1>8, <1>9, <1>10 DEF Packets

LEMMA ReceiveInv ==
  ASSUME TransferInv, SectorsOfBackend, SystemTypeOK', NEW i \in DOMAIN Line, Receive(i)
  PROVE  SystemInv'
<1>1. /\ StreamInOrder /\ NodesInv /\ SystemTypeOK
  BY InvParts DEF TransferInv
<1> PICK n : n = Line[i]
  OBVIOUS
<1> PICK m : m = nodes[n]
  OBVIOUS
<1> PICK pkt : pkt = Head(Inbox(i))
  OBVIOUS
<1> PICK r : r = Handled(m, pkt, i = Len(Line))
  OBVIOUS
<1>2. /\ n \in Nodes /\ nodes \in [Nodes -> Node]
      /\ \A j \in DOMAIN Line : j # i => Line[j] # n /\ Line[j] \in Nodes
  BY <1>1, LineType DEF SystemTypeOK
<1>3. /\ Inbox(i) # <<>> /\ PassedOn(i, TRUE)
      /\ nodes' = [nodes EXCEPT ![n] = r]
      /\ reports' = IF pkt.type = "START" THEN reports \cup {StartReportOf(n, pkt)} ELSE reports
  BY DEF Receive, Forwards
<1>4. nodes'[n] = r /\ \A node \in Nodes \ {n} : nodes'[node] = nodes[node]
  BY <1>2, <1>3
<1>5. TransferStays /\ UNCHANGED <<first_answer, complete>>
  BY DEF Receive, TransferStays, hostAndCoordinatorVars, transferVars, processVars, senderVars,
     sessionVars
<1>6. Forward
  BY <1>5, TransferStaysInv
<1>7. HandledInOrder(i, m, pkt, r)
  BY <1>3, HeadHandled
<1>8. \A q \in reports' \ reports :
        /\ q.node = n /\ q.type = "START_REPORT"
        /\ q.accepted => r.ota_session_active
  <2>1. CASE pkt.type = "START"
    <3>1. PICK q : q = StartReportOf(n, pkt)
      OBVIOUS
    <3>2. /\ q.node = n /\ q.type = "START_REPORT"
          /\ q.accepted => StartStatus(m, pkt, TRUE) = "ACCEPTED"
      BY <3>1, Zenon DEF StartReportOf
    <3>3. reports' \ reports \subseteq {q}
      BY <1>3, <2>1, <3>1
    <3> QED
      BY <1>7, <2>1, <3>2, <3>3 DEF HandledInOrder
  <2>2. CASE pkt.type # "START"
    BY <1>3, <2>2
  <2> QED
    BY <2>1, <2>2
<1>9. OneNodeActs(i)
  BY <1>4, <1>5, <1>7, <1>8 DEF OneNodeActs, HandledInOrder
<1>10. ASSUME NEW node \in Nodes, node # n, Fresh(node)
       PROVE  Fresh(node)'
  BY <1>4, <1>8, <1>10 DEF Fresh, Rebooted
<1>11. OthersFresh(i)
  BY <1>2, <1>10 DEF OthersFresh
<1>12. StreamStays
  <2>1. Passes(i, TRUE)
    BY <1>1, <1>3, PassedOnPasses DEF SystemTypeOK
  <2> QED
    BY <1>1, <1>3, <1>6, <1>11, <2>1, StreamPasses DEF SystemTypeOK
<1>13. \A node \in Nodes \ ToSet(Line) : Fresh(node)'
  <2>1. n \in ToSet(Line)
    BY DEF ToSet
  <2> QED
    BY <1>1, <1>10, <2>1 DEF NodesInv
<1>14. ~Untouched
  BY <1>3, InboxUntouched
<1> QED
  BY <1>9, <1>12, <1>13, <1>14, OneNodeActsInv

LEMMA SendReportInv ==
  ASSUME TransferInv, SystemTypeOK', NEW n \in Nodes, SendReport(n)
  PROVE  SystemInv'
<1>1. /\ StreamInOrder /\ NodesInv /\ SystemTypeOK /\ Base
  BY InvParts DEF TransferInv
<1> PICK m : m = nodes[n]
  OBVIOUS
<1> PICK r : r = ReportSent(m)
  OBVIOUS
<1>2. /\ m.report_to_send # NoReport
      /\ nodes' = [nodes EXCEPT ![n] = r]
      /\ reports' = reports \cup {BitmapReportOf(n, m.report_to_send)}
      /\ UNCHANGED <<line, hop>>
  BY DEF SendReport
<1>3. nodes'[n] = r /\ \A node \in Nodes \ {n} : nodes'[node] = nodes[node]
  BY <1>1, <1>2 DEF SystemTypeOK
<1>4. ~Rebooted(n)
  BY <1>1, <1>2, RebootedNode
<1>5. PICK i \in DOMAIN Line : n = Line[i]
  BY <1>1, <1>4 DEF NodesInv, Fresh, ToSet
<1>6. TransferStays /\ UNCHANGED <<first_answer, complete>>
  BY DEF SendReport, TransferStays, hostAndCoordinatorVars, transferVars, processVars, senderVars,
     sessionVars
<1>7. Forward
  BY <1>6, TransferStaysInv
<1>8. m \in Node /\ SlotOk(m) /\ KeepsPages(m)
  BY <1>1, NodeFacts DEF NodesInv, NodeKeepsPages, KeepsPages, Holds, PageStored,
     LastCommitted, CommittedToLast
<1>9. SameReception(r, m) /\ r.report_to_send = NoReport
  <2>1. r.report_to_send = NoReport
    BY <1>8 DEF ReportSent, Node
  <2> QED
    BY <1>8, <2>1, TimersEffect
<1>10. KeepsPages(r)
  BY <1>8, <1>9 DEF SameReception, SameSession, KeepsPages, PageStored
<1>11. OfHost(r, FALSE) \/ (AfterVerify(i) /\ OfHost(r, TRUE))
  <2>1. OfHost(m, FALSE) \/ (AfterVerify(i) /\ OfHost(m, TRUE))
    BY <1>1, <1>5 DEF NodesInv, NodeInSession, OfHost
  <2> QED
    BY <1>9, <2>1 DEF SameReception, SameSession, OfHost
<1>12. GoesOn(m, r)
  <2>1. ReportsCommitted(r, NoReport)
    <3>1. NoPage <= r.last_crc_committed_page_offset
      BY <1>8, <1>9, RecordFacts DEF SameReception, SameSession, Page, NoPage
    <3> QED
      BY <3>1 DEF ReportsCommitted, NoReport
  <2> QED
    BY <1>9, <2>1 DEF GoesOn, SameReception, SameSession
<1>13. \A q \in reports' \ reports :
         q.node = n /\ q.type = "BITMAP_REPORT" /\ q.report = m.report_to_send
  BY <1>2 DEF BitmapReportOf
<1>14. OneNodeActs(i)
  BY <1>3, <1>5, <1>6, <1>10, <1>11, <1>12, <1>13 DEF OneNodeActs
<1>15. \A node \in Nodes : Fresh(node) => Fresh(node)'
  BY <1>3, <1>4, <1>13 DEF Fresh, Rebooted
<1>16. StreamStays
  BY <1>1, <1>2, <1>7, <1>15, StreamSame DEF SystemTypeOK
<1>17. \A node \in Nodes \ ToSet(Line) : Fresh(node)'
  BY <1>1, <1>15 DEF NodesInv
<1>18. ~Untouched
  BY <1>4 DEF Untouched
<1> QED
  BY <1>14, <1>16, <1>17, <1>18, OneNodeActsInv

-----------------------------------------------------------------------------
(* Every step keeps the invariant. *)

LEMMA StutterInv ==
  ASSUME TransferInv, UNCHANGED allVars
  PROVE  SystemInv'
<1>1. /\ StartedOnce /\ SessionOfHost /\ StreamInOrder /\ NodesInv /\ AnswersTrue
      /\ PagesCommitted /\ SystemTypeOK
  BY InvParts DEF TransferInv
<1>2. /\ TransferStays
      /\ UNCHANGED <<line, hop, nodes, reports, first_answer, complete>>
  BY DEF allVars, systemVars, networkVars, vars, coordinatorVars, senderVars, sessionVars,
     transferVars, processVars, TransferStays
<1>3. Forward /\ SessionOfHost' /\ starts' = starts /\ commands' = commands
  BY <1>2, TransferStaysInv
<1>4. StreamStays
  BY <1>1, <1>2, <1>3, StreamSame DEF SystemTypeOK, Fresh, Rebooted
<1>5. StartedOnce'
  BY <1>1, <1>2, <1>3 DEF StartedOnce, Untouched, Rebooted, TransferStays
<1>6. AnswersTrue'
  BY <1>1, <1>2, <1>3 DEF AnswersTrue, Opened, LastCommitted, Forward, TransferStays
<1>7. PagesCommitted'
  BY <1>1, <1>2 DEF PagesCommitted, SessionNodes, LastCommitted, CommittedToLast, TransferStays
<1> QED
  BY <1>2, <1>3, <1>4, <1>5, <1>6, <1>7, NodesLeftAlone

LEMMA TransferStep ==
  ASSUME OneFile, TransferInv, [SystemNext]_allVars
  PROVE  TransferInv'
<1>1. [Next]_vars /\ SystemTypeOK'
  BY StepMaps DEF TransferInv, SystemAgrees
<1>2. Base' /\ InSync'
  BY <1>1, BaseStep, InSyncStep DEF TransferInv, OneFile
<1>3. SystemInv'
  <2>1. CASE HostActs
    BY <1>1, <1>2, <2>1, HostActsInv
  <2>2. CASE CommandArrives
    BY <1>1, <1>2, <2>2, CommandArrivesInv
  <2>3. CASE AdmissionTimesOut
    BY <2>3, AdmissionTimesOutInv
  <2>4. CASE ProcessRuns
    BY <2>4, ProcessRunsInv
  <2>5. ASSUME NEW i \in DOMAIN Line, Receive(i)
        PROVE  SystemInv'
    BY <1>1, <2>5, ReceiveInv DEF OneFile
  <2>6. ASSUME NEW node \in Nodes, SendReport(node)
        PROVE  SystemInv'
    BY <1>1, <2>6, SendReportInv
  <2>7. ASSUME NEW r \in reports, DeliverReport(r)
        PROVE  SystemInv'
    BY <2>7, DeliverReportInv
  <2>8. CASE NetworkLoses
    BY <2>8, NetworkLosesInv
  <2>9. CASE UNCHANGED allVars
    BY <2>9, StutterInv
  <2> QED
    BY <2>1, <2>2, <2>3, <2>4, <2>5, <2>6, <2>7, <2>8, <2>9 DEF SystemNext, Network
<1> QED
  BY <1>1, <1>2, <1>3 DEF TransferInv

LEMMA TransferInit ==
  ASSUME SystemInit
  PROVE  TransferInv
<1>1. Base /\ SystemTypeOK
  BY SystemInitType
<1>2. host.at = "off" /\ pc = "idle" /\ starts = 0
  BY DEF SystemInit, Init, SenderInit, CoordinatorInit
<1>3. InSync
  BY <1>2 DEF InSync, StartInSync, DataInSync, PageInSync, ProcessInSync
<1>4. Untouched
  BY DEF SystemInit, NetworkInit, Init, SenderInit, CoordinatorInit, Untouched, Rebooted
<1>5. NoneAccepted
  BY DEF SystemInit, Init, NoneAccepted
<1>6. StartedOnce
  BY <1>2, <1>4 DEF StartedOnce
<1>7. SystemInv
  BY <1>1, <1>2, <1>4, <1>5, <1>6, UntouchedInv
<1> QED
  BY <1>1, <1>3, <1>7 DEF TransferInv

LEMMA TransferInvariant == OneFile => (SystemSpec => []TransferInv)
<1> SUFFICES ASSUME OneFile
             PROVE  SystemSpec => []TransferInv
  OBVIOUS
<1>1. SystemInit => TransferInv
  BY TransferInit
<1>2. TransferInv /\ [SystemNext]_allVars => TransferInv'
  BY TransferStep
<1> QED
  BY <1>1, <1>2, PTL DEF SystemSpec

\* The whole transfer of a file, with every loss the network can make: what is under way
\* was cut from the host's file and comes in order, every node keeps the pages it
\* committed, and what the coordinator knows of a node is so.
THEOREM SystemCorrect == OneFile => (SystemSpec => []SystemInv)
<1>1. TransferInv => SystemInv
  BY DEF TransferInv
<1> QED
  BY <1>1, TransferInvariant, PTL

-----------------------------------------------------------------------------
(* What the transfer achieves. *)

\* A node of the session is one of the line that has accepted.
LEMMA SessionNode ==
  ASSUME TransferInv, pc # "idle", NEW node \in SessionNodes
  PROVE  /\ node \in Nodes /\ nodes[node].ota_session_active /\ ~Finished
         /\ \E i \in DOMAIN Line : node = Line[i]
         /\ abandoned = {} =>
              /\ LastCommitted(node) \in {page_start_offset - 1, page_start_offset}
              /\ CommittedToLast(node)
<1>1. /\ NodesInv /\ AnswersTrue /\ PagesCommitted /\ Base
      /\ CoordinatorTypeOK /\ CoordinatorInv
  BY InvParts DEF TransferInv, Base
<1>2. PICK w \in DOMAIN session_nodes : node = session_nodes[w]
  BY DEF SessionNodes, ToSet
<1>3. node \in Nodes
  BY <1>1, <1>2 DEF CoordinatorTypeOK
<1>4. ~start_admission_in_progress /\ ~Finished
  BY <1>1 DEF CoordinatorInv, FlagGuardsProcess, Finished
<1>5. first_answer[node] = "accept"
  BY <1>1, <1>2, <1>4 DEF CoordinatorInv, ActiveNodesAccepted
<1>6. nodes[node].ota_session_active
  BY <1>1, <1>3, <1>4, <1>5 DEF AnswersTrue, Opened
<1>7. node \in ToSet(Line)
  BY <1>1, <1>3, <1>6, RebootedNode DEF NodesInv, Fresh
<1> QED
  BY <1>1, <1>3, <1>4, <1>6, <1>7 DEF ToSet, PagesCommitted

LEMMA SessionAgrees ==
  ASSUME TransferInv
  PROVE  SessionAgreed
<1> SUFFICES ASSUME pc # "idle", NEW node \in SessionNodes
             PROVE  /\ nodes[node].ota_session_active
                    /\ nodes[node].current_file_size = current_file_size
                    /\ nodes[node].ota_target_slot = ota_target_slot
                    /\ abandoned = {} =>
                         nodes[node].current_rx_page_offset
                           \in {page_start_offset - 1, page_start_offset}
  BY DEF SessionAgreed
<1>1. NodesInv /\ SessionOfHost /\ Base /\ SystemTypeOK
  BY InvParts DEF TransferInv
<1>2. node \in Nodes /\ nodes[node].ota_session_active /\ ~Finished
  BY SessionNode
<1>3. PICK i \in DOMAIN Line : node = Line[i]
  BY SessionNode
<1>4. current_file_size = host.file.size /\ ota_target_slot = host.target
  BY <1>1 DEF SessionOfHost
<1>5. /\ nodes[node].current_file_size = host.file.size
      /\ nodes[node].ota_target_slot = host.target
      /\ LastCommitted(node) <= nodes[node].current_rx_page_offset
  BY <1>1, <1>2, <1>3 DEF NodesInv, NodeInSession, AfterVerify, LastCommitted
<1>6. nodes[node].current_rx_page_offset <= page_start_offset
  BY <1>1, <1>2 DEF NodesInv, NodeKeepsPages
<1>7. ASSUME abandoned = {}
      PROVE  nodes[node].current_rx_page_offset \in {page_start_offset - 1, page_start_offset}
  <2>1. PICK at \in Nat, last \in Int, rx \in Int :
          /\ at = page_start_offset /\ last = LastCommitted(node)
          /\ rx = nodes[node].current_rx_page_offset
    BY <1>1, <1>2, NodeFacts, FileFacts
  <2>2. last \in {at - 1, at} /\ last <= rx /\ rx <= at
    BY <1>5, <1>6, <1>7, <2>1, SessionNode
  <2>3. rx \in {at - 1, at}
    BY <2>2
  <2> QED
    BY <2>1, <2>3
<1> QED
  BY <1>2, <1>4, <1>5, <1>7

\* While a page is distributed every node of the session has opened it for the same file
\* and slot, and is at the coordinator's page or the one before it.
THEOREM SessionAgreedCorrect == OneFile => (SystemSpec => []SessionAgreed)
<1>1. TransferInv => SessionAgreed
  BY SessionAgrees
<1> QED
  BY <1>1, TransferInvariant, PTL

\* What a node stages is the host's file, whole.
THEOREM StagedImageCorrect == OneFile => (SystemSpec => []StagedImageIsHosts)
<1>1. TransferInv => StagedImageIsHosts
  BY InvParts DEF TransferInv, NodesInv, NodeKeepsPages, StagedImageIsHosts
<1> QED
  BY <1>1, TransferInvariant, PTL

LEMMA PageOkStored ==
  ASSUME TransferInv, [SystemNext]_allVars, PageOk, ~GivesUpPage,
         NEW node \in ToSet(session_nodes')
  PROVE  /\ Holds(node, page_start_offset)
         /\ nodes[node].last_crc_committed_page_offset = page_start_offset
         /\ abandoned = {} => Len(nodes[node].running_fw_crc) = page_start_offset + 1
<1>1. /\ NodesInv /\ SessionOfHost /\ AnswersTrue /\ Base /\ InSync /\ SystemTypeOK
      /\ CoordinatorTypeOK /\ CoordinatorInv
  BY InvParts DEF TransferInv, Base
<1>2. [Next]_vars
  BY <1>1, StepMaps DEF SystemAgrees
<1>3. pc # "idle" /\ pc' = "idle"
  BY DEF PageOk
<1>4. \A w \in DOMAIN session_nodes' : session_nodes'[w] \in complete
  BY <1>1, <1>2, <1>3, PageOkStep DEF GivesUpPage
<1>5. node \in complete
  BY <1>4 DEF ToSet
<1>6. LastCommitted(node) = page_start_offset
  BY <1>1, <1>3, <1>5 DEF AnswersTrue
<1>7. node \in SessionNodes
  <2>1. Distributes
    BY <1>1, <1>2, PageOkDistributes
  <2>2. SessionEffect
    BY <1>1, <2>1, DistributeEffect DEF Distributes, CoordinatorInv, AdmissionTracked
  <2>3. session_nodes # <<>>
    BY <1>1, <1>3 DEF SessionOfHost
  <2> QED
    BY <1>1, <2>2, <2>3, SessionShrinks DEF SessionNodes
<1>8. node \in Nodes
  BY <1>3, <1>7, SessionNode
<1>9. Holds(node, page_start_offset)
  <2>1. page_start_offset # NoPage
    BY <1>1, FileFacts DEF NoPage
  <2> QED
    BY <1>1, <1>6, <1>8, <2>1 DEF NodesInv, NodeKeepsPages
<1>10. abandoned = {} => CommittedToLast(node)
  BY <1>3, <1>7, SessionNode
<1> QED
  BY <1>6, <1>9, <1>10 DEF LastCommitted, CommittedToLast

\* FW:PAGE_OK, end to end: every node of the session has the page in its flash and
\* committed it, with every page before it if none was given up.
THEOREM PageOkStoredCorrect == OneFile => (SystemSpec => PageOkMeansStored)
<1> SUFFICES ASSUME OneFile
             PROVE  SystemSpec => PageOkMeansStored
  OBVIOUS
<1>1. TransferInv /\ [SystemNext]_allVars =>
        [PageOk /\ ~GivesUpPage =>
           \A node \in ToSet(session_nodes') :
             /\ Holds(node, page_start_offset)
             /\ nodes[node].last_crc_committed_page_offset = page_start_offset
             /\ abandoned = {} => Len(nodes[node].running_fw_crc) = page_start_offset + 1]_allVars
  BY PageOkStored
<1> QED
  BY <1>1, TransferInvariant, PTL DEF SystemSpec, PageOkMeansStored
=============================================================================
