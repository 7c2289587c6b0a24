---------------------------- MODULE OtaCoordinator ----------------------------
(***************************************************************************)
(* The coordinator (src/ota-coordinator.c, ota-coordinator-session.c): the *)
(* UART commands, START admission, the reports, and the process that       *)
(* distributes a page, one action per handler or per step of the process   *)
(* between two waits.  It talks to the host through `uart` (the lines it   *)
(* printed) and to its next hop through `line` (the packets in the MAC     *)
(* queue of that neighbour).                                               *)
(*                                                                         *)
(* Offsets are pairs (page, chunk); a UART chunk is one 64-byte chunk (two *)
(* 32-byte ones in the code).  page_start_offset is the page it lies on,   *)
(* or the number of pages of the file once past its end, and               *)
(* expected_page_size is always the length of that page.                   *)
(***************************************************************************)
EXTENDS OtaWire, SequencesExt

CONSTANTS Nodes,          \* the sensor nodes
          RouteTables,    \* what the routing table may hold: sequences of nodes
          MAX_NODES,
          MaxRounds,      \* OTA_MAX_PAGE_RECOVERY_ROUNDS
          MaxQueued       \* OTA_QUEUE_MAX_NEXT_HOP_PENDING

ASSUME CoordinatorAssumption ==
  /\ MAX_NODES \in Nat \ {0}
  /\ MaxRounds \in Nat \ {0}
  /\ MaxQueued \in Nat
  /\ RouteTables \subseteq Seq(Nodes)
  /\ \A table \in RouteTables : IsInjective(table)

VARIABLES
  \* the session
  session_nodes,               \* its nodes, in the order of the routing table
  node_replied, session_bitmaps, session_start_accepted,   \* parallel arrays
  start_admission_in_progress,
  \* the transfer
  current_file_size, ota_target_slot,
  page_buffer, page_start_offset, page_bytes_received, distribution_in_progress,
  \* distribute_process
  pc, dist_chunk_idx, total_chunks, end_pkt, recovery_round, retry_count,
  bitmap_event,                \* event_bitmap_received is in the event queue
  \* the outside
  uart, line

sessionVars == <<session_nodes, node_replied, session_bitmaps, session_start_accepted,
                 start_admission_in_progress>>
transferVars == <<current_file_size, page_start_offset, page_bytes_received,
                  distribution_in_progress>>
processVars == <<pc, dist_chunk_idx, total_chunks, end_pkt, recovery_round, retry_count>>
coordinatorVars == <<sessionVars, transferVars, processVars, ota_target_slot, page_buffer,
                     bitmap_event, uart, line>>

Index == 1 .. MAX_NODES

Answer(text) == uart' = Append(uart, text)
SendToAll(pkt) == line' = Append(line, pkt)
QueueReady == Len(line) <= MaxQueued

ExpectedPageSize == PageLen(current_file_size, page_start_offset)

CoordinatorInit ==
  /\ session_nodes = <<>>
  /\ node_replied = [i \in Index |-> FALSE]
  /\ session_bitmaps = [i \in Index |-> {}]
  /\ session_start_accepted = [i \in Index |-> FALSE]
  /\ start_admission_in_progress = FALSE
  /\ current_file_size = NoFile
  /\ ota_target_slot = NoTarget
  /\ page_buffer = [c \in Chunk |-> {}]
  /\ page_start_offset = 0
  /\ page_bytes_received = 0
  /\ distribution_in_progress = FALSE
  /\ pc = "idle" /\ dist_chunk_idx = 0 /\ total_chunks = 0
  /\ end_pkt = PageEndPkt(0, <<>>, NoTarget)
  /\ recovery_round = 0 /\ retry_count = 0
  /\ bitmap_event = FALSE
  /\ uart = <<>> /\ line = <<>>

(***************************************************************************)
(* The session.                                                            *)
(***************************************************************************)
ResetTransferState(size) ==
  /\ current_file_size' = size
  /\ page_start_offset' = 0
  /\ page_bytes_received' = 0
  /\ distribution_in_progress' = FALSE

PopulateSessionNodes(table) ==
  SubSeq(table, 1, IF Len(table) < MAX_NODES THEN Len(table) ELSE MAX_NODES)

FindSessionNode(node) == {i \in DOMAIN session_nodes : session_nodes[i] = node}

AllReplied(nodes, replied) == \A i \in DOMAIN nodes : replied[i]

\* The increasing enumeration of a set of indices.
InOrder(S) == {f \in [1 .. Cardinality(S) -> S] :
                 /\ \A x \in S : \E w \in DOMAIN f : f[w] = x
                 /\ \A v, w \in DOMAIN f : v < w => f[v] < f[w]}

\* The session is compacted to the nodes at the `kept` indices.  node_replied and
\* session_start_accepted are not compacted with it.
CompactNodes(nodes, kept) == [w \in DOMAIN kept |-> nodes[kept[w]]]
CompactBitmapsLost(bitmaps, kept) == bitmaps
CompactBitmaps(bitmaps, kept) ==
  [i \in Index |-> IF i \in DOMAIN kept THEN bitmaps[kept[i]] ELSE bitmaps[i]]

\* Admission ends: rejected and silent nodes leave the session.
FinishStartAdmissionAll(replied, accepted) ==
  /\ start_admission_in_progress' = FALSE
  /\ UNCHANGED <<session_nodes, session_bitmaps, transferVars>> /\ Answer("ACK")

FinishStartAdmissionOffByOne(replied, accepted) ==
  \E kept \in InOrder({i \in 1 .. Len(session_nodes) - 1 : replied[i] /\ accepted[i]}) :
    /\ start_admission_in_progress' = FALSE
    /\ session_nodes' = CompactNodes(session_nodes, kept)
    /\ session_bitmaps' = CompactBitmaps(session_bitmaps, kept)
    /\ IF session_nodes' = <<>> THEN ResetTransferState(NoFile) /\ Answer("NO_TARGETS")
                                ELSE UNCHANGED transferVars /\ Answer("ACK")

FinishStartAdmission(replied, accepted) ==
  \E kept \in InOrder({i \in DOMAIN session_nodes : replied[i] /\ accepted[i]}) :
    /\ start_admission_in_progress' = FALSE
    /\ session_nodes' = CompactNodes(session_nodes, kept)
    /\ session_bitmaps' = CompactBitmaps(session_bitmaps, kept)
    /\ IF session_nodes' = <<>> THEN ResetTransferState(NoFile) /\ Answer("NO_TARGETS")
                                ELSE UNCHANGED transferVars /\ Answer("ACK")

AdmissionTimeout ==
  /\ start_admission_in_progress
  /\ FinishStartAdmission(node_replied, session_start_accepted)
  /\ UNCHANGED <<node_replied, session_start_accepted, processVars, ota_target_slot,
                 page_buffer, bitmap_event, line>>

\* A START report; the last one missing ends admission at once.
IgnoresStartReport(node) ==
  \/ ~start_admission_in_progress
  \/ \A i \in FindSessionNode(node) : node_replied[i]

HandleStartReport(node, accepted) ==
  /\ IF IgnoresStartReport(node) THEN UNCHANGED <<sessionVars, transferVars, uart>>
     ELSE \E i \in FindSessionNode(node) :
       /\ node_replied' = [node_replied EXCEPT ![i] = TRUE]
       /\ session_start_accepted' = [session_start_accepted EXCEPT ![i] = accepted]
       /\ IF AllReplied(session_nodes, node_replied')
          THEN FinishStartAdmission(node_replied', session_start_accepted')
          ELSE UNCHANGED <<session_nodes, session_bitmaps, start_admission_in_progress,
                           transferVars, uart>>
  /\ UNCHANGED <<processVars, ota_target_slot, page_buffer, bitmap_event, line>>

\* A bitmap report counts for the current page, once per node and round; it is
\* handled whether or not a page is being distributed.  An event posted to a
\* process that does not run is dropped.
IgnoresBitmapReport(node, page) ==
  \/ page # page_start_offset
  \/ \A i \in FindSessionNode(node) : node_replied[i]

HandleBitmapReport(node, page, bitmap) ==
  /\ IF IgnoresBitmapReport(node, page) THEN UNCHANGED <<sessionVars, bitmap_event>>
     ELSE \E i \in FindSessionNode(node) :
       /\ node_replied' = [node_replied EXCEPT ![i] = TRUE]
       /\ session_bitmaps' = [session_bitmaps EXCEPT ![i] = bitmap]
       /\ bitmap_event' = (bitmap_event \/ (AllReplied(session_nodes, node_replied') /\ pc # "idle"))
       /\ UNCHANGED <<session_nodes, session_start_accepted, start_admission_in_progress>>
  /\ UNCHANGED <<transferVars, processVars, ota_target_slot, page_buffer, uart, line>>

(***************************************************************************)
(* The UART commands.                                                      *)
(***************************************************************************)

\* A START replaces the session, whatever the process is doing.
UartStart(table, size, sec_ver, target) ==
  /\ session_nodes' = PopulateSessionNodes(table)
  /\ IF session_nodes' = <<>>
     THEN /\ start_admission_in_progress' = FALSE
          /\ ResetTransferState(NoFile)
          /\ Answer("NO_TARGETS")
          /\ UNCHANGED <<ota_target_slot, node_replied, session_start_accepted, line>>
     ELSE /\ ota_target_slot' = target
          /\ SendToAll(StartPkt(size, sec_ver, target))
          /\ ResetTransferState(size)
          /\ start_admission_in_progress' = TRUE
          /\ node_replied' = [i \in Index |-> FALSE]
          /\ session_start_accepted' = [i \in Index |-> FALSE]
          /\ UNCHANGED uart
  /\ UNCHANGED <<session_bitmaps, page_buffer, bitmap_event, processVars>>

\* An invalid target is refused before the admission timer is stopped.
UartStartInvalidTarget ==
  /\ ResetTransferState(NoFile)
  /\ Answer("NO_TARGETS")
  /\ UNCHANGED <<sessionVars, ota_target_slot, page_buffer, bitmap_event, processVars, line>>

AcceptsData(page, chunk) ==
  /\ ~start_admission_in_progress
  /\ session_nodes # <<>>
  /\ ~distribution_in_progress
  /\ page = page_start_offset /\ chunk < ExpectedPageSize

\* process_start on a running process does nothing.  The process fixes the
\* length and the CRC of its page when it starts.
StartDistribution ==
  IF pc # "idle" THEN UNCHANGED <<processVars, session_bitmaps>>
  ELSE /\ pc' = "chunk" /\ dist_chunk_idx' = 0 /\ total_chunks' = ExpectedPageSize
       /\ end_pkt' = PageEndPkt(page_start_offset, Prefix(page_buffer', ExpectedPageSize),
                                ota_target_slot)
       /\ session_bitmaps' = [i \in Index |-> {}]
       /\ UNCHANGED <<recovery_round, retry_count>>

\* The page is complete when as many bytes were received as it has.
PageCompleteEarly(received) == received + 1 >= ExpectedPageSize
PageComplete(received) == received = ExpectedPageSize

UartData(page, chunk, data) ==
  /\ IF AcceptsData(page, chunk)
     THEN /\ page_buffer' = [page_buffer EXCEPT ![chunk] = data]
          /\ page_bytes_received' = page_bytes_received + 1
          /\ Answer("ACK")
          /\ IF PageComplete(page_bytes_received')
             THEN distribution_in_progress' = TRUE /\ StartDistribution
             ELSE UNCHANGED <<distribution_in_progress, processVars, session_bitmaps>>
     ELSE /\ IF ~start_admission_in_progress /\ session_nodes = <<>>
             THEN Answer("NO_TARGETS") ELSE UNCHANGED uart
          /\ UNCHANGED <<page_buffer, page_bytes_received, distribution_in_progress,
                         processVars, session_bitmaps>>
  /\ UNCHANGED <<session_nodes, node_replied, session_start_accepted,
                 start_admission_in_progress, current_file_size, ota_target_slot,
                 page_start_offset, bitmap_event, line>>

\* VERIFY is forwarded once and acknowledged, whatever the nodes make of it.
UartVerify(crc) ==
  /\ IF session_nodes = <<>> THEN Answer("NO_TARGETS") /\ UNCHANGED line
     ELSE SendToAll(VerifyPkt(crc, ota_target_slot)) /\ Answer("ACK")
  /\ UNCHANGED <<sessionVars, transferVars, processVars, ota_target_slot, page_buffer,
                 bitmap_event>>

(***************************************************************************)
(* distribute_process.  A step ends where the process waits: for a timer,  *)
(* for the queue, for reports.                                             *)
(***************************************************************************)
PageIsCompleteButLast(nodes, bitmaps) ==
  \A i \in 1 .. Len(nodes) - 1 : 0 .. total_chunks - 1 \subseteq bitmaps[i]
PageIsComplete(nodes, bitmaps) ==
  \A i \in DOMAIN nodes : 0 .. total_chunks - 1 \subseteq bitmaps[i]

\* The chunk that goes out is read from page_buffer when it is sent.
ChunkPkt(idx) == DataPkt(page_start_offset, idx, page_buffer[idx], ota_target_slot)

\* The end of the process: the next page, and PAGE_OK to the host.
AdvancePageKeepsCount ==
  /\ page_start_offset' = IF ExpectedPageSize = 0 THEN page_start_offset
                          ELSE page_start_offset + 1
  /\ UNCHANGED page_bytes_received
  /\ distribution_in_progress' = FALSE
  /\ pc' = "idle"
  /\ Answer("PAGE_OK")
  /\ UNCHANGED <<current_file_size, dist_chunk_idx, total_chunks, end_pkt, recovery_round,
                 retry_count, node_replied, line>>

AdvancePageKeepsFlag ==
  /\ page_start_offset' = IF ExpectedPageSize = 0 THEN page_start_offset
                          ELSE page_start_offset + 1
  /\ page_bytes_received' = 0
  /\ UNCHANGED distribution_in_progress
  /\ pc' = "idle"
  /\ Answer("PAGE_OK")
  /\ UNCHANGED <<current_file_size, dist_chunk_idx, total_chunks, end_pkt, recovery_round,
                 retry_count, node_replied, line>>

AdvancePage ==
  /\ page_start_offset' = IF ExpectedPageSize = 0 THEN page_start_offset
                          ELSE page_start_offset + 1
  /\ page_bytes_received' = 0
  /\ distribution_in_progress' = FALSE
  /\ pc' = "idle"
  /\ Answer("PAGE_OK")
  /\ recovery_round' = 0 /\ retry_count' = 0
  /\ UNCHANGED <<current_file_size, dist_chunk_idx, total_chunks, end_pkt, node_replied, line>>

\* PAGE_END goes out at once, or when the queue has drained.
PageEndOrWait(pkt) ==
  IF QueueReady THEN pc' = "wait" /\ SendToAll(pkt) ELSE pc' = "pageEnd" /\ UNCHANGED line

\* The head of the loop: done, given up, or another round of reports.
RoundHeadNoCount(round) ==
  IF PageIsComplete(session_nodes, session_bitmaps) \/ round >= MaxRounds
  THEN AdvancePage
  ELSE /\ recovery_round' = round
       /\ node_replied' = [i \in Index |-> FALSE]
       /\ retry_count' = 0
       /\ end_pkt' = PageEndPkt(page_start_offset, end_pkt.crc, ota_target_slot)
       /\ PageEndOrWait(end_pkt')
       /\ UNCHANGED <<transferVars, dist_chunk_idx, total_chunks, uart>>

RoundHead(round) ==
  IF PageIsComplete(session_nodes, session_bitmaps) \/ round >= MaxRounds
  THEN AdvancePage
  ELSE /\ recovery_round' = round + 1
       /\ node_replied' = [i \in Index |-> FALSE]
       /\ retry_count' = 0
       /\ end_pkt' = PageEndPkt(page_start_offset, end_pkt.crc, ota_target_slot)
       /\ PageEndOrWait(end_pkt')
       /\ UNCHANGED <<transferVars, dist_chunk_idx, total_chunks, uart>>

SendChunk ==
  /\ pc = "chunk" /\ dist_chunk_idx < total_chunks /\ QueueReady
  /\ SendToAll(ChunkPkt(dist_chunk_idx))
  /\ dist_chunk_idx' = dist_chunk_idx + 1
  /\ UNCHANGED <<sessionVars, transferVars, pc, total_chunks, end_pkt, recovery_round,
                 retry_count, ota_target_slot, page_buffer, bitmap_event, uart>>

ChunksSent ==
  /\ pc = "chunk" /\ dist_chunk_idx = total_chunks
  /\ RoundHead(0)
  /\ UNCHANGED <<session_nodes, session_bitmaps, session_start_accepted,
                 start_admission_in_progress, ota_target_slot, page_buffer, bitmap_event>>

SendPageEnd ==
  /\ pc = "pageEnd" /\ QueueReady
  /\ SendToAll(end_pkt)
  /\ pc' = "wait"
  /\ UNCHANGED <<sessionVars, transferVars, dist_chunk_idx, total_chunks, end_pkt,
                 recovery_round, retry_count, ota_target_slot, page_buffer, bitmap_event, uart>>

\* The wait is over: the page is done, or its missing chunks are sent again.
LeaveWait(nodes, bitmaps) ==
  IF PageIsComplete(nodes, bitmaps) THEN AdvancePage
  ELSE /\ pc' = "resend" /\ dist_chunk_idx' = 0
       /\ UNCHANGED <<transferVars, total_chunks, end_pkt, recovery_round, retry_count,
                      node_replied, uart, line>>

\* All reports are in.  The event finds the process waiting for them, or is lost.
AllRepliedEvent ==
  /\ bitmap_event
  /\ bitmap_event' = FALSE
  /\ IF pc = "wait" /\ AllReplied(session_nodes, node_replied)
     THEN LeaveWait(session_nodes, session_bitmaps)
     ELSE UNCHANGED <<transferVars, processVars, node_replied, uart, line>>
  /\ UNCHANGED <<session_nodes, session_bitmaps, session_start_accepted,
                 start_admission_in_progress, ota_target_slot, page_buffer>>

\* Reports are missing: PAGE_END is repeated, and with the third timeout the
\* nodes that did not reply are dropped, unless none did.
Replied == {i \in DOMAIN session_nodes : node_replied[i]}

DropSilentNodes ==
  /\ retry_count = 2 /\ Replied # {}
  /\ \E kept \in InOrder(Replied) :
       /\ session_nodes' = CompactNodes(session_nodes, kept)
       /\ session_bitmaps' = CompactBitmaps(session_bitmaps, kept)
  /\ LeaveWait(session_nodes', session_bitmaps')

RepeatPageEnd ==
  /\ retry_count < 2 \/ Replied = {}
  /\ retry_count' = (retry_count + 1) % 3
  /\ PageEndOrWait(end_pkt)
  /\ UNCHANGED <<session_nodes, session_bitmaps, node_replied, transferVars, dist_chunk_idx,
                 total_chunks, end_pkt, recovery_round, uart>>

ReportTimeout ==
  /\ pc = "wait"
  /\ DropSilentNodes \/ RepeatPageEnd
  /\ UNCHANGED <<session_start_accepted, start_admission_in_progress, ota_target_slot,
                 page_buffer, bitmap_event>>

\* The next chunk some node misses, then another round.  The queue is waited for
\* before a chunk is looked at, not at the end of the loop.
MissingChunks ==
  {c \in dist_chunk_idx .. total_chunks - 1 :
     \E i \in DOMAIN session_nodes : c \notin session_bitmaps[i]}

Resend ==
  /\ pc = "resend" /\ (QueueReady \/ dist_chunk_idx = total_chunks)
  /\ IF MissingChunks = {} THEN RoundHead(recovery_round)
     ELSE LET idx == Min(MissingChunks)
          IN /\ SendToAll(ChunkPkt(idx))
             /\ dist_chunk_idx' = idx + 1
             /\ UNCHANGED <<transferVars, pc, total_chunks, end_pkt, recovery_round,
                            retry_count, node_replied, uart>>
  /\ UNCHANGED <<session_nodes, session_bitmaps, session_start_accepted,
                 start_admission_in_progress, ota_target_slot, page_buffer, bitmap_event>>

Distribute == SendChunk \/ ChunksSent \/ SendPageEnd \/ AllRepliedEvent \/ ReportTimeout
                \/ Resend
=============================================================================
