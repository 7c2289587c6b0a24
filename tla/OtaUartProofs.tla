---------------------------- MODULE OtaUartProofs ----------------------------
(***************************************************************************)
(* Proofs about the coordinator: the nodes of its session are the ones     *)
(* that accepted, no command slips into a running distribution, and a page *)
(* that FW:PAGE_OK reports is the host's and was reported by every node.   *)
(***************************************************************************)
EXTENDS OtaUart, TLAPS, FiniteSetTheorems, WellFoundedInduction

\* The host does not run the script while the coordinator is busy: the run
\* uart_restart shows what happens otherwise.
WaitsForCoordinator == ~BusyStarts

-----------------------------------------------------------------------------
(* What the operators return. *)

LEMMA PageLenType ==
  ASSUME NEW size \in Size, NEW p \in Nat
  PROVE  /\ PageLen(size, p) \in 0 .. PageChunks
         /\ PageLen(size, p) > 0 => p \in Page /\ p < size.pages
BY WireAssumption DEF Size, PageLen, Page

LEMMA PrefixType ==
  ASSUME NEW page \in [Chunk -> Cell], NEW len \in 0 .. PageChunks
  PROVE  Prefix(page, len) \in PageContent
<1>1. Prefix(page, len) \in [0 .. len - 1 -> Cell]
  BY WireAssumption DEF Prefix, Chunk
<1> QED
  BY <1>1 DEF PageContent

\* The page the coordinator is at is one of the file's, unless it is past its end.
LEMMA PlaceType ==
  ASSUME CoordinatorTypeOK
  PROVE  /\ page_start_offset \in Nat /\ ExpectedPageSize \in 0 .. PageChunks
         /\ ExpectedPageSize > 0 =>
              page_start_offset \in Page /\ page_start_offset < current_file_size.pages
<1>1. current_file_size \in Size /\ page_start_offset \in 0 .. current_file_size.pages
  BY DEF CoordinatorTypeOK
<1>2. page_start_offset \in Nat
  BY <1>1 DEF Size
<1> QED
  BY <1>1, <1>2, PageLenType DEF ExpectedPageSize

\* A session compacted to the nodes of S: each of them with its bitmap, and no other.
CompactedTo(S, nodes, bitmaps) ==
  /\ nodes \in Seq(Nodes) /\ Len(nodes) <= MAX_NODES /\ IsInjective(nodes)
  /\ bitmaps \in [Index -> SUBSET Chunk]
  /\ \A w \in DOMAIN nodes : \E i \in S :
       nodes[w] = session_nodes[i] /\ bitmaps[w] = session_bitmaps[i]
  /\ \A i \in S : \E w \in DOMAIN nodes : nodes[w] = session_nodes[i]

LEMMA Compaction ==
  ASSUME CoordinatorTypeOK, IsInjective(session_nodes),
         NEW S \in SUBSET DOMAIN session_nodes, NEW kept \in InOrder(S)
  PROVE  CompactedTo(S, CompactNodes(session_nodes, kept), CompactBitmaps(session_bitmaps, kept))
<1> DEFINE nodes == CompactNodes(session_nodes, kept)
           bitmaps == CompactBitmaps(session_bitmaps, kept)
           k == Cardinality(S)
<1>1. /\ session_nodes \in Seq(Nodes) /\ session_bitmaps \in [Index -> SUBSET Chunk]
      /\ Len(session_nodes) \in Nat /\ Len(session_nodes) <= MAX_NODES
      /\ DOMAIN session_nodes = 1 .. Len(session_nodes)
  BY DEF CoordinatorTypeOK
<1>2. k \in Nat /\ k <= MAX_NODES
  <2> DEFINE len == Len(session_nodes)
  <2>0. len \in Nat /\ S \in SUBSET (1 .. len) /\ 1 \in Int /\ len \in Int
    BY <1>1
  <2> HIDE DEF len
  <2>1. IsFiniteSet(1 .. len) /\ Cardinality(1 .. len) = IF 1 > len THEN 0 ELSE len - 1 + 1
    BY <2>0, FS_Interval, Zenon
  <2>2. IsFiniteSet(S) /\ k <= Cardinality(1 .. len)
    BY <2>0, <2>1, FS_Subset, Zenon
  <2>3. k <= len
    BY <2>0, <2>1, <2>2, FS_CardinalityType
  <2> QED
    BY <1>1, <2>2, <2>3, FS_CardinalityType, CoordinatorAssumption DEF len
<1>3. /\ kept \in [1 .. k -> S]
      /\ \A x \in S : \E w \in 1 .. k : kept[w] = x
      /\ \A v, w \in 1 .. k : v < w => kept[v] < kept[w]
  BY DEF InOrder
<1>4. \A w \in 1 .. k : kept[w] \in 1 .. Len(session_nodes) /\ kept[w] \in Index
  BY <1>1, <1>3, CoordinatorAssumption DEF Index
<1>5. nodes = [w \in 1 .. k |-> session_nodes[kept[w]]]
  BY <1>3 DEF CompactNodes
<1> HIDE DEF k
<1>6. nodes \in [1 .. k -> Nodes]
  BY <1>1, <1>4, <1>5
<1>7. nodes \in Seq(Nodes) /\ Len(nodes) = k /\ DOMAIN nodes = 1 .. k
  BY <1>2, <1>6
<1>8. \A w \in 1 .. k : nodes[w] = session_nodes[kept[w]]
  BY <1>5
<1>9. bitmaps \in [Index -> SUBSET Chunk] /\ \A w \in 1 .. k : bitmaps[w] = session_bitmaps[kept[w]]
  <2>1. bitmaps = [i \in Index |-> IF i \in 1 .. k THEN session_bitmaps[kept[i]]
                                   ELSE session_bitmaps[i]]
    BY <1>3 DEF CompactBitmaps
  <2>2. 1 .. k \subseteq Index
    BY <1>2, CoordinatorAssumption DEF Index
  <2> QED
    BY <1>1, <1>4, <2>1, <2>2
<1> HIDE DEF nodes, bitmaps
<1>10. IsInjective(nodes)
  <2> SUFFICES ASSUME NEW v \in 1 .. k, NEW w \in 1 .. k, nodes[v] = nodes[w] PROVE v = w
    BY <1>7 DEF IsInjective
  <2>1. kept[v] = kept[w]
    BY <1>1, <1>4, <1>8 DEF IsInjective
  <2> QED
    BY <1>2, <1>3, <1>4, <2>1
<1>11. \A w \in DOMAIN nodes : \E i \in S :
         nodes[w] = session_nodes[i] /\ bitmaps[w] = session_bitmaps[i]
  BY <1>3, <1>7, <1>8, <1>9
<1>12. \A i \in S : \E w \in DOMAIN nodes : nodes[w] = session_nodes[i]
  BY <1>3, <1>7, <1>8
<1>13. CompactedTo(S, nodes, bitmaps)
  BY <1>2, <1>7, <1>9, <1>10, <1>11, <1>12 DEF CompactedTo
<1> QED
  BY <1>13 DEF nodes, bitmaps

-----------------------------------------------------------------------------
(* The steps of distribute_process: it goes on with its page, ends it, or  *)
(* was only told of reports it does not wait for.                          *)

Process == pc \in {"chunk", "pageEnd", "wait", "resend"}

KeepsPlace ==
  UNCHANGED <<current_file_size, page_start_offset, page_bytes_received,
              distribution_in_progress, uart>>

Continues ==
  /\ Process /\ Process'
  /\ KeepsPlace /\ UNCHANGED total_chunks
  /\ dist_chunk_idx' \in 0 .. total_chunks
  /\ end_pkt' \in [type : {"PAGE_END"}, page : Page, crc : PageContent \cup {<<>>},
                   target : Target \cup {NoTarget}]
  /\ end_pkt'.crc = end_pkt.crc
  /\ recovery_round' \in 0 .. MaxRounds /\ retry_count' \in 0 .. 2

Ends ==
  /\ Process /\ pc' = "idle"
  /\ page_start_offset' = page_start_offset + 1
  /\ page_bytes_received' = 0 /\ distribution_in_progress' = FALSE
  /\ uart' = Append(uart, "PAGE_OK")
  /\ UNCHANGED <<current_file_size, total_chunks, dist_chunk_idx, end_pkt>>
  /\ recovery_round' = 0 /\ retry_count' = 0

Rests == KeepsPlace /\ UNCHANGED <<sessionVars, processVars>>

\* Why it may end.
PageDone == PageIsComplete(session_nodes', session_bitmaps')
GivesUp == recovery_round = MaxRounds /\ pc = "resend"

ProcessEffect ==
  \/ Continues
  \/ Ends /\ (PageDone \/ GivesUp)
  \/ Rests

LEMMA AdvanceEnds ==
  ASSUME CoordinatorTypeOK, ProcessHasPage, Process, AdvancePage
  PROVE  Ends
<1>1. ExpectedPageSize # 0
  BY DEF Process, ProcessHasPage
<1> QED
  BY <1>1 DEF AdvancePage, Ends, Answer

LEMMA PageEndContinues ==
  ASSUME CoordinatorTypeOK, ProcessHasPage, Process,
         NEW pkt \in [type : {"PAGE_END"}, page : Page, crc : PageContent \cup {<<>>},
                      target : Target \cup {NoTarget}],
         pkt.crc = end_pkt.crc,
         end_pkt' = pkt, PageEndOrWait(pkt), UNCHANGED <<transferVars, total_chunks, uart>>,
         dist_chunk_idx' = dist_chunk_idx,
         recovery_round' \in 0 .. MaxRounds, retry_count' \in 0 .. 2
  PROVE  Continues
<1>1. Process'
  BY DEF PageEndOrWait, Process
<1>2. dist_chunk_idx' \in 0 .. total_chunks
  BY DEF CoordinatorTypeOK
<1> QED
  BY <1>1, <1>2 DEF Continues, KeepsPlace, transferVars

LEMMA RoundHeadEffect ==
  ASSUME CoordinatorTypeOK, ProcessHasPage, Process, UNCHANGED <<session_nodes, session_bitmaps>>,
         NEW round \in 0 .. MaxRounds, round >= MaxRounds => GivesUp,
         RoundHead(round)
  PROVE  ProcessEffect /\ node_replied' \in [Index -> BOOLEAN]
<1>1. CASE PageIsComplete(session_nodes, session_bitmaps) \/ round >= MaxRounds
  <2>1. AdvancePage
    BY <1>1 DEF RoundHead
  <2>2. PageDone \/ GivesUp
    BY <1>1, <2>1 DEF PageDone, PageIsComplete, AdvancePage
  <2>3. node_replied' = node_replied
    BY <2>1 DEF AdvancePage
  <2> QED
    BY <2>1, <2>2, <2>3, AdvanceEnds DEF ProcessEffect, CoordinatorTypeOK
<1>2. CASE ~(PageIsComplete(session_nodes, session_bitmaps) \/ round >= MaxRounds)
  <2>1. /\ recovery_round' = round + 1
        /\ node_replied' = [i \in Index |-> FALSE]
        /\ retry_count' = 0
        /\ end_pkt' = PageEndPkt(page_start_offset, end_pkt.crc, ota_target_slot)
        /\ PageEndOrWait(end_pkt')
        /\ UNCHANGED <<transferVars, dist_chunk_idx, total_chunks, uart>>
    BY <1>2 DEF RoundHead
  <2>2. page_start_offset \in Page
    BY PlaceType DEF Process, ProcessHasPage
  <2>3. /\ end_pkt' \in [type : {"PAGE_END"}, page : Page, crc : PageContent \cup {<<>>},
                         target : Target \cup {NoTarget}]
        /\ end_pkt'.crc = end_pkt.crc
    BY <2>1, <2>2 DEF PageEndPkt, CoordinatorTypeOK
  <2>4. recovery_round' \in 0 .. MaxRounds /\ retry_count' \in 0 .. 2
    BY <1>2, <2>1, CoordinatorAssumption
  <2> QED
    BY <2>1, <2>3, <2>4, PageEndContinues DEF ProcessEffect
<1> QED
  BY <1>1, <1>2

LEMMA LeaveWaitEffect ==
  ASSUME CoordinatorTypeOK, ProcessHasPage, Process, LeaveWait(session_nodes', session_bitmaps')
  PROVE  ProcessEffect /\ node_replied' \in [Index -> BOOLEAN]
<1>1. CASE PageIsComplete(session_nodes', session_bitmaps')
  <2>1. AdvancePage
    BY <1>1, Zenon DEF LeaveWait
  <2>2. node_replied' = node_replied
    BY <2>1 DEF AdvancePage
  <2> QED
    BY <1>1, <2>1, <2>2, AdvanceEnds DEF ProcessEffect, PageDone, CoordinatorTypeOK
<1>2. CASE ~PageIsComplete(session_nodes', session_bitmaps')
  <2>1. /\ pc' = "resend" /\ dist_chunk_idx' = 0
        /\ UNCHANGED <<transferVars, total_chunks, end_pkt, recovery_round, retry_count,
                       node_replied, uart>>
    BY <1>2, Zenon DEF LeaveWait
  <2>2. Continues
    BY <2>1 DEF Continues, KeepsPlace, Process, CoordinatorTypeOK, transferVars
  <2> QED
    BY <2>1, <2>2 DEF ProcessEffect, CoordinatorTypeOK
<1> QED
  BY <1>1, <1>2

\* The session is kept, or loses the nodes that did not reply, but not all.
SessionEffect ==
  \/ UNCHANGED <<session_nodes, session_bitmaps>>
  \/ /\ Process
     /\ \E S \in SUBSET DOMAIN session_nodes :
          S # {} /\ CompactedTo(S, session_nodes', session_bitmaps')

LEMMA DropEffect ==
  ASSUME CoordinatorTypeOK, ProcessHasPage, IsInjective(session_nodes), Process, DropSilentNodes
  PROVE  ProcessEffect /\ SessionEffect /\ node_replied' \in [Index -> BOOLEAN]
<1>1. Replied # {} /\ Replied \in SUBSET DOMAIN session_nodes
  BY DEF DropSilentNodes, Replied
<1>2. PICK kept \in InOrder(Replied) :
        /\ session_nodes' = CompactNodes(session_nodes, kept)
        /\ session_bitmaps' = CompactBitmaps(session_bitmaps, kept)
  BY DEF DropSilentNodes
<1>3. CompactedTo(Replied, session_nodes', session_bitmaps')
  BY <1>1, <1>2, Compaction
<1>4. LeaveWait(session_nodes', session_bitmaps')
  BY DEF DropSilentNodes
<1> QED
  BY <1>1, <1>3, <1>4, LeaveWaitEffect DEF SessionEffect

\* The next missing chunk is one: a set of natural numbers has a least element.
LEMMA MissingHasMin ==
  ASSUME CoordinatorTypeOK, MissingChunks # {}
  PROVE  Min(MissingChunks) \in MissingChunks
<1> DEFINE less == OpToRel(<, Nat)
<1>1. MissingChunks \subseteq Nat
  BY DEF MissingChunks, CoordinatorTypeOK
<1>2. \A x, y \in Nat : y < x => <<y, x>> \in less
  BY DEF OpToRel
<1>3. IsWellFoundedOn(less, Nat)
  BY NatLessThanWellFounded
<1> HIDE DEF less
<1>4. PICK x \in MissingChunks : \A y \in MissingChunks : ~(<<y, x>> \in less)
  BY <1>1, <1>3, WFMin, Zenon
<1>5. ASSUME NEW y \in MissingChunks PROVE x <= y
  <2>1. x \in Nat /\ y \in Nat
    BY <1>1
  <2>2. ~(y < x)
    BY <1>2, <1>4, <2>1, Zenon
  <2> QED
    BY <2>1, <2>2
<1> QED
  BY <1>5, Zenon DEF Min

\* What no step of the process changes.
ProcessLeaves ==
  UNCHANGED <<session_start_accepted, start_admission_in_progress, ota_target_slot,
              page_buffer>>

LEMMA DistributeEffect ==
  ASSUME CoordinatorTypeOK, ProcessHasPage, IsInjective(session_nodes), Distribute
  PROVE  /\ ProcessEffect /\ SessionEffect /\ ProcessLeaves
         /\ node_replied' \in [Index -> BOOLEAN] /\ bitmap_event' \in BOOLEAN
<1>1. CASE SendChunk
  <2>1. Continues
    <3>1. dist_chunk_idx' \in 0 .. total_chunks
      BY <1>1 DEF SendChunk, CoordinatorTypeOK
    <3> QED
      BY <1>1, <3>1 DEF SendChunk, Continues, KeepsPlace, Process, transferVars, CoordinatorTypeOK
  <2> QED
    BY <1>1, <2>1 DEF SendChunk, ProcessEffect, SessionEffect, ProcessLeaves, sessionVars,
       transferVars, CoordinatorTypeOK
<1>2. CASE ChunksSent
  <2>1. /\ Process /\ RoundHead(0) /\ UNCHANGED <<session_nodes, session_bitmaps>>
        /\ UNCHANGED <<session_start_accepted, start_admission_in_progress, ota_target_slot,
                       page_buffer, bitmap_event>>
    BY <1>2 DEF ChunksSent, Process
  <2>2. ProcessEffect /\ node_replied' \in [Index -> BOOLEAN]
    BY <2>1, RoundHeadEffect, CoordinatorAssumption
  <2> QED
    BY <2>1, <2>2 DEF SessionEffect, ProcessLeaves, CoordinatorTypeOK
<1>3. CASE SendPageEnd
  <2>1. Continues
    BY <1>3 DEF SendPageEnd, Continues, KeepsPlace, Process, transferVars, CoordinatorTypeOK
  <2> QED
    BY <1>3, <2>1 DEF SendPageEnd, ProcessEffect, SessionEffect, ProcessLeaves, sessionVars,
       transferVars, CoordinatorTypeOK
<1>4. CASE AllRepliedEvent
  <2>1. /\ bitmap_event' = FALSE /\ UNCHANGED <<session_nodes, session_bitmaps>>
        /\ ProcessLeaves
    BY <1>4 DEF AllRepliedEvent, ProcessLeaves
  <2>2. CASE pc = "wait" /\ AllReplied(session_nodes, node_replied)
    <3>1. LeaveWait(session_nodes, session_bitmaps)
      BY <1>4, <2>2, Zenon DEF AllRepliedEvent
    <3>2. LeaveWait(session_nodes', session_bitmaps')
      BY <2>1, <3>1
    <3> QED
      BY <2>1, <2>2, <3>2, LeaveWaitEffect DEF Process, SessionEffect
  <2>3. CASE ~(pc = "wait" /\ AllReplied(session_nodes, node_replied))
    <3>1. UNCHANGED <<transferVars, processVars, node_replied, uart>>
      BY <1>4, <2>3, Zenon DEF AllRepliedEvent
    <3>2. Rests
      BY <2>1, <3>1 DEF Rests, KeepsPlace, transferVars, sessionVars, ProcessLeaves
    <3> QED
      BY <2>1, <3>1, <3>2 DEF ProcessEffect, SessionEffect, CoordinatorTypeOK
  <2> QED
    BY <2>2, <2>3
<1>5. CASE ReportTimeout
  <2>1. /\ pc = "wait" /\ Process /\ ProcessLeaves /\ bitmap_event' = bitmap_event
        /\ DropSilentNodes \/ RepeatPageEnd
    BY <1>5 DEF ReportTimeout, Process, ProcessLeaves
  <2>2. CASE DropSilentNodes
    BY <2>1, <2>2, DropEffect DEF CoordinatorTypeOK
  <2>3. CASE RepeatPageEnd
    <3>1. /\ retry_count' \in 0 .. 2 /\ PageEndOrWait(end_pkt)
          /\ UNCHANGED <<session_nodes, session_bitmaps, node_replied, transferVars,
                         dist_chunk_idx, total_chunks, end_pkt, recovery_round, uart>>
      BY <2>3 DEF RepeatPageEnd, CoordinatorTypeOK
    <3>2. Continues
      BY <2>1, <3>1, PageEndContinues DEF CoordinatorTypeOK
    <3> QED
      BY <2>1, <3>1, <3>2 DEF ProcessEffect, SessionEffect, CoordinatorTypeOK
  <2> QED
    BY <2>1, <2>2, <2>3
<1>6. CASE Resend
  <2>1. /\ pc = "resend" /\ Process /\ ProcessLeaves
        /\ UNCHANGED <<session_nodes, session_bitmaps, bitmap_event>>
    BY <1>6 DEF Resend, Process, ProcessLeaves
  <2>2. CASE MissingChunks = {}
    <3>1. RoundHead(recovery_round)
      BY <1>6, <2>2, Zenon DEF Resend
    <3>2. recovery_round >= MaxRounds => GivesUp
      BY <2>1, CoordinatorAssumption DEF CoordinatorTypeOK, GivesUp
    <3>3. ProcessEffect /\ node_replied' \in [Index -> BOOLEAN]
      BY <2>1, <3>1, <3>2, RoundHeadEffect DEF CoordinatorTypeOK
    <3> QED
      BY <2>1, <3>3 DEF SessionEffect, CoordinatorTypeOK
  <2>3. CASE MissingChunks # {}
    <3> DEFINE idx == Min(MissingChunks)
    <3>1. /\ dist_chunk_idx' = idx + 1
          /\ UNCHANGED <<transferVars, pc, total_chunks, end_pkt, recovery_round,
                         retry_count, node_replied, uart>>
      BY <1>6, <2>3 DEF Resend
    <3>2. idx \in MissingChunks
      BY <2>3, MissingHasMin
    <3>3. dist_chunk_idx' \in 0 .. total_chunks
      BY <3>1, <3>2 DEF MissingChunks, CoordinatorTypeOK
    <3>4. Continues
      BY <2>1, <3>1, <3>3 DEF Continues, KeepsPlace, Process, transferVars, CoordinatorTypeOK
    <3> QED
      BY <2>1, <3>1, <3>4 DEF ProcessEffect, SessionEffect, CoordinatorTypeOK
  <2> QED
    BY <2>2, <2>3
<1> QED
  BY <1>1, <1>2, <1>3, <1>4, <1>5, <1>6 DEF Distribute

-----------------------------------------------------------------------------
(* One lemma per action: it keeps the coordinator's part of the invariant. *)

LEMMA DistributeKeepsTypes ==
  ASSUME CoordinatorTypeOK, CoordinatorInv, Distribute
  PROVE  CoordinatorTypeOK' /\ IsInjective(session_nodes)'
<1>1. /\ ProcessEffect /\ SessionEffect /\ ProcessLeaves
      /\ node_replied' \in [Index -> BOOLEAN] /\ bitmap_event' \in BOOLEAN
  BY DistributeEffect DEF CoordinatorInv, AdmissionTracked
<1>2. /\ session_nodes' \in Seq(Nodes) /\ Len(session_nodes') <= MAX_NODES
      /\ session_bitmaps' \in [Index -> SUBSET Chunk] /\ IsInjective(session_nodes')
  <2>1. CASE UNCHANGED <<session_nodes, session_bitmaps>>
    BY <2>1 DEF CoordinatorTypeOK, CoordinatorInv, AdmissionTracked
  <2> QED
    BY <1>1, <2>1 DEF SessionEffect, CompactedTo
<1>3. IsInjective(session_nodes)'
  BY <1>2 DEF IsInjective
<1>4. CASE Continues
  BY <1>1, <1>2, <1>3, <1>4 DEF CoordinatorTypeOK, Continues, KeepsPlace, Process, ProcessLeaves
<1>5. CASE Ends
  <2>1. page_start_offset \in Nat /\ page_start_offset < current_file_size.pages
    BY <1>5, PlaceType DEF Ends, Process, CoordinatorInv, ProcessHasPage
  <2>2. page_start_offset' \in 0 .. current_file_size'.pages
    BY <1>5, <2>1 DEF Ends, CoordinatorTypeOK, Size
  <2> QED
    <3>1. /\ page_bytes_received' \in 0 .. PageChunks
          /\ recovery_round' \in 0 .. MaxRounds /\ retry_count' \in 0 .. 2
      BY <1>5, WireAssumption, CoordinatorAssumption DEF Ends
    <3>2. /\ current_file_size' \in Size /\ distribution_in_progress' \in BOOLEAN
          /\ pc' \in {"idle", "chunk", "pageEnd", "wait", "resend"}
          /\ dist_chunk_idx' \in 0 .. total_chunks' /\ total_chunks' \in 0 .. PageChunks
          /\ end_pkt' \in [type : {"PAGE_END"}, page : Page, crc : PageContent \cup {<<>>},
                           target : Target \cup {NoTarget}]
      BY <1>5 DEF Ends, CoordinatorTypeOK
    <3>3. /\ session_start_accepted' \in [Index -> BOOLEAN]
          /\ start_admission_in_progress' \in BOOLEAN
          /\ ota_target_slot' \in Target \cup {NoTarget} /\ page_buffer' \in [Chunk -> Cell]
      BY <1>1 DEF ProcessLeaves, CoordinatorTypeOK
    <3> QED
      BY <1>1, <1>2, <1>3, <2>2, <3>1, <3>2, <3>3 DEF CoordinatorTypeOK
<1>6. CASE Rests
  BY <1>1, <1>2, <1>3, <1>6 DEF CoordinatorTypeOK, Rests, KeepsPlace, processVars, ProcessLeaves
<1> QED
  BY <1>1, <1>4, <1>5, <1>6 DEF ProcessEffect

LEMMA DistributeKeepsInv ==
  ASSUME CoordinatorTypeOK, CoordinatorInv, Distribute, UNCHANGED <<first_answer, complete>>
  PROVE  CoordinatorInv'
<1>1. /\ ProcessEffect /\ SessionEffect /\ ProcessLeaves
      /\ CoordinatorTypeOK' /\ IsInjective(session_nodes)'
  BY DistributeEffect, DistributeKeepsTypes DEF CoordinatorInv, AdmissionTracked
<1>2. ProcessHasPage'
  <2>1. CASE Continues \/ Rests
    BY <2>1 DEF Continues, Rests, KeepsPlace, processVars, Process, CoordinatorInv, ProcessHasPage,
       ExpectedPageSize
  <2>2. CASE Ends
    BY <2>2 DEF Ends, ProcessHasPage
  <2> QED
    BY <1>1, <2>1, <2>2 DEF ProcessEffect
<1>3. FlagGuardsProcess'
  BY <1>1 DEF ProcessEffect, Continues, Rests, Ends, KeepsPlace, processVars, Process,
     ProcessLeaves, CoordinatorInv, FlagGuardsProcess
<1>4. CASE Rests
  <2>1. UNCHANGED <<sessionVars, pc, total_chunks>>
    BY <1>4 DEF Rests, processVars
  <2> QED
    BY <1>2, <1>3, <2>1 DEF CoordinatorInv, AdmissionTracked, ActiveNodesAccepted,
       BitmapsOfNodes, sessionVars, IsInjective
<1>5. CASE Continues \/ Ends
  <2>1. ~start_admission_in_progress /\ ~start_admission_in_progress' /\ pc # "idle"
    BY <1>1, <1>5 DEF Continues, Ends, Process, CoordinatorInv, FlagGuardsProcess, ProcessLeaves
  <2>2. AdmissionTracked'
    BY <1>1, <2>1 DEF AdmissionTracked
  <2>3. \A w \in DOMAIN session_nodes' : \E i \in DOMAIN session_nodes :
          /\ session_nodes'[w] = session_nodes[i]
          /\ session_bitmaps'[w] = session_bitmaps[i]
    BY <1>1 DEF SessionEffect, CompactedTo
  <2>4. ActiveNodesAccepted'
    BY <2>1, <2>3 DEF CoordinatorInv, ActiveNodesAccepted
  <2>5. BitmapsOfNodes'
    <3>1. total_chunks' = total_chunks
      BY <1>5 DEF Continues, Ends
    <3> QED
      BY <2>1, <2>3, <3>1 DEF CoordinatorInv, BitmapsOfNodes
  <2> QED
    BY <1>2, <1>3, <2>2, <2>4, <2>5 DEF CoordinatorInv
<1> QED
  BY <1>1, <1>4, <1>5 DEF ProcessEffect

LEMMA ResetType ==
  ASSUME NEW size \in Size \cup {NoFile}, ResetTransferState(size)
  PROVE  /\ current_file_size' \in Size /\ page_start_offset' \in 0 .. current_file_size'.pages
         /\ page_bytes_received' \in 0 .. PageChunks /\ distribution_in_progress' \in BOOLEAN
<1>1. NoFile \in Size
  BY WireAssumption DEF NoFile, Size
<1>2. size \in Size /\ size.pages \in Nat
  BY <1>1 DEF Size
<1>3. /\ current_file_size' = size /\ page_start_offset' = 0 /\ page_bytes_received' = 0
      /\ distribution_in_progress' = FALSE
  BY DEF ResetTransferState
<1>4. 0 \in 0 .. size.pages /\ 0 \in 0 .. PageChunks
  BY <1>2, WireAssumption
<1> QED
  BY <1>2, <1>3, <1>4, Zenon

\* Admission ends with the nodes that accepted.
LEMMA FinishKeeps ==
  ASSUME CoordinatorTypeOK, CoordinatorInv, start_admission_in_progress,
         NEW replied \in [Index -> BOOLEAN], NEW accepted \in [Index -> BOOLEAN],
         \A i \in DOMAIN session_nodes :
           accepted[i] => first_answer'[session_nodes[i]] = "accept",
         FinishStartAdmission(replied, accepted),
         node_replied' = replied, session_start_accepted' = accepted,
         UNCHANGED <<processVars, ota_target_slot, page_buffer, bitmap_event, complete>>
  PROVE  CoordinatorTypeOK' /\ CoordinatorInv'
<1> DEFINE S == {i \in DOMAIN session_nodes : replied[i] /\ accepted[i]}
<1>1. PICK kept \in InOrder(S) :
        /\ start_admission_in_progress' = FALSE
        /\ session_nodes' = CompactNodes(session_nodes, kept)
        /\ session_bitmaps' = CompactBitmaps(session_bitmaps, kept)
        /\ \/ ResetTransferState(NoFile)
           \/ UNCHANGED transferVars
  BY DEF FinishStartAdmission
<1>2. CompactedTo(S, session_nodes', session_bitmaps')
  BY <1>1, Compaction DEF CoordinatorInv, AdmissionTracked
<1>3. pc = "idle" /\ pc' = "idle"
  BY DEF CoordinatorInv, FlagGuardsProcess, processVars
<1>4. CoordinatorTypeOK'
  <2>1. /\ current_file_size' \in Size /\ page_start_offset' \in 0 .. current_file_size'.pages
        /\ page_bytes_received' \in 0 .. PageChunks /\ distribution_in_progress' \in BOOLEAN
    <3>1. CASE ResetTransferState(NoFile)
      BY <3>1, ResetType
    <3>2. CASE UNCHANGED transferVars
      BY <3>2 DEF transferVars, CoordinatorTypeOK
    <3> QED
      BY <1>1, <3>1, <3>2
  <2> QED
    BY <1>1, <1>2, <2>1 DEF CoordinatorTypeOK, CompactedTo, processVars
<1>5. ProcessHasPage' /\ FlagGuardsProcess'
  BY <1>1, <1>3 DEF CoordinatorInv, ProcessHasPage, FlagGuardsProcess, ResetTransferState,
     transferVars, ExpectedPageSize
<1>6. AdmissionTracked'
  BY <1>1, <1>2 DEF AdmissionTracked, CompactedTo, IsInjective
<1>7. ActiveNodesAccepted'
  BY <1>2 DEF CompactedTo, ActiveNodesAccepted
<1>8. BitmapsOfNodes'
  BY <1>3 DEF BitmapsOfNodes
<1> QED
  BY <1>4, <1>5, <1>6, <1>7, <1>8 DEF CoordinatorInv

LEMMA AdmissionEndsKeeps ==
  ASSUME CoordinatorTypeOK, CoordinatorInv, AdmissionEnds
  PROVE  CoordinatorTypeOK' /\ CoordinatorInv'
<1>1. /\ start_admission_in_progress
      /\ FinishStartAdmission(node_replied, session_start_accepted)
      /\ UNCHANGED <<node_replied, session_start_accepted>>
      /\ UNCHANGED <<processVars, ota_target_slot, page_buffer, bitmap_event, complete>>
      /\ first_answer' = first_answer
  BY DEF AdmissionEnds, AdmissionTimeout
<1>2. \A i \in DOMAIN session_nodes :
        session_start_accepted[i] => first_answer'[session_nodes[i]] = "accept"
  BY <1>1 DEF CoordinatorInv, AdmissionTracked
<1>3. /\ node_replied \in [Index -> BOOLEAN] /\ session_start_accepted \in [Index -> BOOLEAN]
  BY DEF CoordinatorTypeOK
<1> QED
  BY <1>1, <1>2, <1>3, FinishKeeps

\* What a report leaves alone.
SameProcess ==
  UNCHANGED <<transferVars, processVars, ota_target_slot, page_buffer>>

LEMMA StartReportKeeps ==
  ASSUME CoordinatorTypeOK, CoordinatorInv, first_answer \in [Nodes -> {"none", "accept", "reject"}],
         NEW node \in Nodes, NEW accepted \in BOOLEAN, StartReport(node, accepted)
  PROVE  CoordinatorTypeOK' /\ CoordinatorInv'
<1>1. /\ UNCHANGED <<processVars, ota_target_slot, page_buffer, bitmap_event, complete>>
      /\ HandleStartReport(node, accepted)
      /\ first_answer' = IF start_admission_in_progress /\ first_answer[node] = "none"
                         THEN [first_answer EXCEPT ![node] = IF accepted THEN "accept" ELSE "reject"]
                         ELSE first_answer
  BY DEF StartReport, HandleStartReport
<1>2. /\ session_nodes \in Seq(Nodes) /\ IsInjective(session_nodes)
      /\ \A i \in DOMAIN session_nodes : session_nodes[i] \in Nodes /\ i \in Index
  BY CoordinatorAssumption DEF CoordinatorTypeOK, CoordinatorInv, AdmissionTracked, Index
<1>3. CASE IgnoresStartReport(node)
  <2>1. UNCHANGED <<sessionVars, transferVars>>
    BY <1>1, <1>3 DEF HandleStartReport
  <2>2. CoordinatorTypeOK'
    BY <1>1, <2>1 DEF CoordinatorTypeOK, sessionVars, transferVars, processVars
  <2>3. AdmissionTracked' /\ ActiveNodesAccepted'
    <3>1. CASE ~start_admission_in_progress
      BY <1>1, <2>1, <3>1 DEF CoordinatorInv, AdmissionTracked, ActiveNodesAccepted, sessionVars,
         IsInjective
    <3>2. CASE start_admission_in_progress
      <4>1. \A i \in DOMAIN session_nodes : session_nodes[i] = node => node_replied[i]
        BY <1>3, <3>2 DEF IgnoresStartReport, FindSessionNode
      <4>2. \A i \in DOMAIN session_nodes :
              \/ first_answer'[session_nodes[i]] = first_answer[session_nodes[i]]
              \/ /\ node_replied[i]
                 /\ first_answer[session_nodes[i]] = "none"
                 /\ first_answer'[session_nodes[i]] # "none"
        BY <1>1, <1>2, <4>1
      <4>3. AdmissionTracked'
        BY <2>1, <4>2 DEF CoordinatorInv, AdmissionTracked, sessionVars, IsInjective
      <4> QED
        BY <2>1, <3>2, <4>3 DEF ActiveNodesAccepted, sessionVars
    <3> QED
      BY <3>1, <3>2
  <2>4. ProcessHasPage' /\ FlagGuardsProcess' /\ BitmapsOfNodes'
    BY <1>1, <2>1 DEF CoordinatorInv, ProcessHasPage, FlagGuardsProcess, BitmapsOfNodes,
       sessionVars, transferVars, processVars, ExpectedPageSize
  <2> QED
    BY <2>2, <2>3, <2>4 DEF CoordinatorInv
<1>4. CASE ~IgnoresStartReport(node)
  <2>1. PICK i \in FindSessionNode(node) :
          /\ node_replied' = [node_replied EXCEPT ![i] = TRUE]
          /\ session_start_accepted' = [session_start_accepted EXCEPT ![i] = accepted]
          /\ IF AllReplied(session_nodes, node_replied')
             THEN FinishStartAdmission(node_replied', session_start_accepted')
             ELSE UNCHANGED <<session_nodes, session_bitmaps, start_admission_in_progress,
                              transferVars, uart>>
    BY <1>1, <1>4 DEF HandleStartReport
  <2>2. /\ start_admission_in_progress /\ i \in DOMAIN session_nodes /\ i \in Index
        /\ session_nodes[i] = node /\ ~node_replied[i]
        /\ \A j \in DOMAIN session_nodes : j # i => session_nodes[j] # node
    BY <1>2, <1>4 DEF IgnoresStartReport, FindSessionNode, IsInjective
  <2>3. first_answer[node] = "none"
    BY <2>2 DEF CoordinatorInv, AdmissionTracked
  <2>4. /\ first_answer'[node] = IF accepted THEN "accept" ELSE "reject"
        /\ \A j \in DOMAIN session_nodes :
             j # i => first_answer'[session_nodes[j]] = first_answer[session_nodes[j]]
    BY <1>1, <1>2, <2>2, <2>3
  <2>5. /\ node_replied' \in [Index -> BOOLEAN] /\ session_start_accepted' \in [Index -> BOOLEAN]
        /\ node_replied'[i] /\ session_start_accepted'[i] = accepted
        /\ \A j \in Index : j # i => /\ node_replied'[j] = node_replied[j]
                                     /\ session_start_accepted'[j] = session_start_accepted[j]
    BY <2>1, <2>2 DEF CoordinatorTypeOK
  <2>6. \A j \in DOMAIN session_nodes :
          session_start_accepted'[j] => first_answer'[session_nodes[j]] = "accept"
    BY <1>2, <2>2, <2>4, <2>5 DEF CoordinatorInv, AdmissionTracked
  <2>7. CASE AllReplied(session_nodes, node_replied')
    BY <1>1, <2>1, <2>2, <2>5, <2>6, <2>7, FinishKeeps
  <2>8. CASE ~AllReplied(session_nodes, node_replied')
    <3>1. UNCHANGED <<session_nodes, session_bitmaps, start_admission_in_progress, transferVars>>
      BY <2>1, <2>8
    <3>2. CoordinatorTypeOK'
      BY <1>1, <2>5, <3>1 DEF CoordinatorTypeOK, transferVars, processVars
    <3>3. AdmissionTracked'
      <4>1. \A j \in DOMAIN session_nodes :
              /\ first_answer'[session_nodes[j]] # "none" => node_replied'[j]
              /\ ~StaleReports /\ node_replied'[j] => first_answer'[session_nodes[j]] # "none"
              /\ ~StaleReports /\ first_answer'[session_nodes[j]] = "accept"
                   => session_start_accepted'[j]
        BY <1>2, <2>2, <2>4, <2>5 DEF CoordinatorInv, AdmissionTracked
      <4> QED
        BY <1>2, <2>6, <3>1, <4>1 DEF AdmissionTracked, IsInjective
    <3>4. ActiveNodesAccepted'
      BY <2>2, <3>1 DEF ActiveNodesAccepted
    <3>5. ProcessHasPage' /\ FlagGuardsProcess' /\ BitmapsOfNodes'
      BY <1>1, <3>1 DEF CoordinatorInv, ProcessHasPage, FlagGuardsProcess, BitmapsOfNodes,
         transferVars, processVars, ExpectedPageSize
    <3> QED
      BY <3>2, <3>3, <3>4, <3>5 DEF CoordinatorInv
  <2> QED
    BY <2>7, <2>8
<1> QED
  BY <1>3, <1>4

LEMMA BitmapReportKeeps ==
  ASSUME CoordinatorTypeOK, CoordinatorInv, complete \subseteq Nodes, NEW node \in Nodes, NEW page \in Page,
         NEW bitmap \in SUBSET Chunk, BitmapReport(node, page, bitmap)
  PROVE  CoordinatorTypeOK' /\ CoordinatorInv'
<1>1. /\ SameProcess /\ UNCHANGED first_answer
      /\ complete' = IF page = page_start_offset /\ 0 .. total_chunks - 1 \subseteq bitmap
                     THEN complete \cup {node} ELSE complete
      /\ start_admission_in_progress => StaleReports
      /\ HandleBitmapReport(node, page, bitmap)
  BY DEF BitmapReport, HandleBitmapReport, SameProcess
<1>2. ProcessHasPage'
  BY <1>1 DEF SameProcess, CoordinatorInv, ProcessHasPage, transferVars, processVars,
     ExpectedPageSize
<1>3. CASE IgnoresBitmapReport(node, page)
  <2>1. UNCHANGED <<sessionVars, bitmap_event>>
    BY <1>1, <1>3 DEF HandleBitmapReport
  <2>2. CoordinatorTypeOK'
    BY <1>1, <2>1 DEF SameProcess, CoordinatorTypeOK, sessionVars, transferVars, processVars
  <2>3. FlagGuardsProcess' /\ AdmissionTracked' /\ ActiveNodesAccepted'
    BY <1>1, <2>1 DEF SameProcess, CoordinatorInv, FlagGuardsProcess, AdmissionTracked,
       ActiveNodesAccepted, sessionVars, transferVars, processVars, IsInjective
  <2>4. BitmapsOfNodes'
    BY <1>1, <2>1 DEF SameProcess, CoordinatorInv, BitmapsOfNodes, sessionVars, processVars
  <2> QED
    BY <1>2, <2>2, <2>3, <2>4 DEF CoordinatorInv
<1>4. CASE ~IgnoresBitmapReport(node, page)
  <2>1. PICK i \in FindSessionNode(node) :
          /\ node_replied' = [node_replied EXCEPT ![i] = TRUE]
          /\ session_bitmaps' = [session_bitmaps EXCEPT ![i] = bitmap]
          /\ bitmap_event' =
               (bitmap_event \/ (AllReplied(session_nodes, node_replied') /\ pc # "idle"))
          /\ UNCHANGED <<session_nodes, session_start_accepted, start_admission_in_progress>>
    BY <1>1, <1>4 DEF HandleBitmapReport
  <2>2. /\ page = page_start_offset /\ i \in DOMAIN session_nodes /\ i \in Index
        /\ session_nodes[i] = node
        /\ \A j \in DOMAIN session_nodes : j \in Index
    BY <1>4, CoordinatorAssumption DEF IgnoresBitmapReport, FindSessionNode, CoordinatorTypeOK, Index
  <2>3. /\ node_replied' \in [Index -> BOOLEAN] /\ session_bitmaps' \in [Index -> SUBSET Chunk]
        /\ session_bitmaps'[i] = bitmap
        /\ \A j \in Index : /\ j # i => session_bitmaps'[j] = session_bitmaps[j]
                            /\ node_replied[j] => node_replied'[j]
    BY <2>1, <2>2 DEF CoordinatorTypeOK
  <2>4. bitmap_event' \in BOOLEAN
    BY <2>1 DEF CoordinatorTypeOK
  <2>5. CoordinatorTypeOK'
    BY <1>1, <2>1, <2>3, <2>4 DEF SameProcess, CoordinatorTypeOK, transferVars, processVars
  <2>6. FlagGuardsProcess' /\ ActiveNodesAccepted'
    BY <1>1, <2>1 DEF SameProcess, CoordinatorInv, FlagGuardsProcess, ActiveNodesAccepted,
       transferVars, processVars
  <2>7. AdmissionTracked'
    BY <1>1, <2>1, <2>2, <2>3 DEF CoordinatorInv, AdmissionTracked, IsInjective
  <2>8. BitmapsOfNodes'
    <3> SUFFICES ASSUME pc # "idle", NEW j \in DOMAIN session_nodes,
                        0 .. total_chunks - 1 \subseteq session_bitmaps'[j]
                 PROVE  session_nodes[j] \in complete'
      BY <1>1, <2>1 DEF SameProcess, BitmapsOfNodes, processVars
    <3>1. CASE j = i
      BY <1>1, <2>2, <2>3, <3>1
    <3>2. CASE j # i
      BY <1>1, <2>2, <2>3, <3>2 DEF CoordinatorInv, BitmapsOfNodes
    <3> QED
      BY <3>1, <3>2
  <2> QED
    BY <1>2, <2>5, <2>6, <2>7, <2>8 DEF CoordinatorInv
<1> QED
  BY <1>3, <1>4

\* A START opens a session; it does not come while the coordinator is busy.
LEMMA StartKeeps ==
  ASSUME CoordinatorTypeOK, CoordinatorInv, ~CoordinatorBusy,
         NEW table \in RouteTables, NEW size \in FileSize, NEW sec_ver, NEW target \in Target,
         UartStart(table, size, sec_ver, target),
         first_answer' = [node \in Nodes |-> "none"]
  PROVE  CoordinatorTypeOK' /\ CoordinatorInv'
<1>1. pc = "idle" /\ pc' = "idle"
  BY DEF CoordinatorBusy, UartStart, processVars
<1>2. /\ session_nodes' \in Seq(Nodes) /\ Len(session_nodes') <= MAX_NODES
      /\ IsInjective(session_nodes')
  <2>1. table \in Seq(Nodes) /\ IsInjective(table)
    BY CoordinatorAssumption
  <2>2. session_nodes' = PopulateSessionNodes(table)
    BY DEF UartStart
  <2> DEFINE len == IF Len(table) < MAX_NODES THEN Len(table) ELSE MAX_NODES
  <2>3. len \in Nat /\ len <= Len(table) /\ len <= MAX_NODES
    BY <2>1, CoordinatorAssumption
  <2>4. session_nodes' = SubSeq(table, 1, len)
    BY <2>2 DEF PopulateSessionNodes
  <2> HIDE DEF len
  <2>5. /\ session_nodes' \in Seq(Nodes) /\ Len(session_nodes') = len
        /\ DOMAIN session_nodes' = 1 .. len
        /\ \A i \in 1 .. len : session_nodes'[i] = table[i] /\ i \in DOMAIN table
    BY <2>1, <2>3, <2>4
  <2> QED
    BY <2>1, <2>3, <2>5 DEF IsInjective
<1>3. IsInjective(session_nodes)'
  BY <1>2 DEF IsInjective
<1>4. CASE session_nodes' = <<>>
  <2>1. /\ start_admission_in_progress' = FALSE /\ ResetTransferState(NoFile)
        /\ UNCHANGED <<ota_target_slot, node_replied, session_start_accepted>>
        /\ UNCHANGED <<session_bitmaps, page_buffer, bitmap_event, processVars>>
    BY <1>4 DEF UartStart
  <2>2. CoordinatorTypeOK'
    BY <1>2, <2>1, ResetType DEF CoordinatorTypeOK, processVars
  <2>3. CoordinatorInv'
    BY <1>1, <1>3, <1>4, <2>1 DEF CoordinatorInv, ProcessHasPage, FlagGuardsProcess,
       AdmissionTracked, ActiveNodesAccepted, BitmapsOfNodes, ResetTransferState
  <2> QED
    BY <2>2, <2>3
<1>5. CASE session_nodes' # <<>>
  <2>1. /\ start_admission_in_progress' = TRUE /\ ResetTransferState(size)
        /\ ota_target_slot' = target
        /\ node_replied' = [i \in Index |-> FALSE]
        /\ session_start_accepted' = [i \in Index |-> FALSE]
        /\ UNCHANGED <<session_bitmaps, page_buffer, bitmap_event, processVars>>
    BY <1>5 DEF UartStart
  <2>2. CoordinatorTypeOK'
    BY <1>2, <2>1, ResetType DEF CoordinatorTypeOK, processVars, FileSize
  <2>3. \A i \in DOMAIN session_nodes' : session_nodes'[i] \in Nodes /\ i \in Index
    BY <1>2, CoordinatorAssumption DEF Index
  <2>4. AdmissionTracked'
    BY <1>3, <2>1, <2>3 DEF AdmissionTracked
  <2>5. CoordinatorInv'
    BY <1>1, <2>1, <2>4 DEF CoordinatorInv, ProcessHasPage, FlagGuardsProcess,
       ActiveNodesAccepted, BitmapsOfNodes, ResetTransferState
  <2> QED
    BY <2>2, <2>5
<1> QED
  BY <1>4, <1>5

\* A chunk that is not accepted changes nothing.
LEMMA DataRefused ==
  ASSUME NEW page, NEW chunk, NEW data, ~AcceptsData(page, chunk), UartData(page, chunk, data)
  PROVE  /\ UNCHANGED <<sessionVars, transferVars, processVars, ota_target_slot, page_buffer,
                        bitmap_event>>
         /\ \/ uart' = uart
            \/ session_nodes = <<>> /\ uart' = Append(uart, "NO_TARGETS")
BY DEF UartData, Answer, sessionVars, transferVars, processVars

\* One that is accepted is buffered, counted and acknowledged.
LEMMA DataAccepted ==
  ASSUME CoordinatorTypeOK, CoordinatorInv, NEW page, NEW chunk, NEW data,
         AcceptsData(page, chunk), UartData(page, chunk, data)
  PROVE  /\ pc = "idle" /\ ~start_admission_in_progress /\ session_nodes # <<>>
         /\ page = page_start_offset /\ chunk < ExpectedPageSize
         /\ page_buffer' = [page_buffer EXCEPT ![chunk] = data]
         /\ page_bytes_received' = page_bytes_received + 1
         /\ uart' = Append(uart, "ACK")
         /\ UNCHANGED <<session_nodes, node_replied, session_start_accepted,
                        start_admission_in_progress, current_file_size, ota_target_slot,
                        page_start_offset, bitmap_event>>
         /\ \/ /\ page_bytes_received + 1 = ExpectedPageSize
               /\ distribution_in_progress' = TRUE
               /\ pc' = "chunk" /\ dist_chunk_idx' = 0 /\ total_chunks' = ExpectedPageSize
               /\ end_pkt' = PageEndPkt(page_start_offset, Prefix(page_buffer', ExpectedPageSize),
                                        ota_target_slot)
               /\ session_bitmaps' = [i \in Index |-> {}]
               /\ UNCHANGED <<recovery_round, retry_count>>
            \/ /\ page_bytes_received + 1 # ExpectedPageSize
               /\ UNCHANGED <<distribution_in_progress, processVars, session_bitmaps>>
<1>1. pc = "idle"
  BY DEF AcceptsData, CoordinatorInv, FlagGuardsProcess
<1>2. /\ page_buffer' = [page_buffer EXCEPT ![chunk] = data]
      /\ page_bytes_received' = page_bytes_received + 1
      /\ uart' = Append(uart, "ACK")
      /\ IF PageComplete(page_bytes_received')
         THEN distribution_in_progress' = TRUE /\ StartDistribution
         ELSE UNCHANGED <<distribution_in_progress, processVars, session_bitmaps>>
      /\ UNCHANGED <<session_nodes, node_replied, session_start_accepted,
                     start_admission_in_progress, current_file_size, ota_target_slot,
                     page_start_offset, bitmap_event>>
  BY DEF UartData, Answer
<1>3. PageComplete(page_bytes_received') <=> page_bytes_received + 1 = ExpectedPageSize
  BY <1>2 DEF PageComplete
<1>4. CASE PageComplete(page_bytes_received')
  <2>1. distribution_in_progress' = TRUE /\ StartDistribution
    BY <1>2, <1>4
  <2> QED
    BY <1>1, <1>2, <1>3, <1>4, <2>1 DEF StartDistribution, AcceptsData
<1>5. CASE ~PageComplete(page_bytes_received')
  BY <1>1, <1>2, <1>3, <1>5 DEF AcceptsData
<1> QED
  BY <1>4, <1>5

\* What nobody but the host and the link is concerned with.
LEMMA SameCoordinator ==
  ASSUME CoordinatorTypeOK, CoordinatorInv,
         UNCHANGED <<sessionVars, transferVars, processVars, ota_target_slot, page_buffer,
                     bitmap_event>>,
         UNCHANGED <<first_answer, complete>>
  PROVE  CoordinatorTypeOK' /\ CoordinatorInv'
<1> USE DEF sessionVars, transferVars, processVars
<1>1. CoordinatorTypeOK'
  BY DEF CoordinatorTypeOK
<1>2. ProcessHasPage' /\ FlagGuardsProcess' /\ BitmapsOfNodes'
  BY DEF CoordinatorInv, ProcessHasPage, FlagGuardsProcess, BitmapsOfNodes, ExpectedPageSize
<1>3. AdmissionTracked' /\ ActiveNodesAccepted'
  BY DEF CoordinatorInv, AdmissionTracked, ActiveNodesAccepted, IsInjective
<1> QED
  BY <1>1, <1>2, <1>3 DEF CoordinatorInv

LEMMA DataKeeps ==
  ASSUME CoordinatorTypeOK, CoordinatorInv,
         NEW page \in Page, NEW chunk \in Chunk, NEW data \in Cell,
         UartData(page, chunk, data),
         first_answer' = first_answer,
         complete' = IF pc = "idle" /\ pc' # "idle" THEN {} ELSE complete
  PROVE  CoordinatorTypeOK' /\ CoordinatorInv'
<1>1. CASE ~AcceptsData(page, chunk)
  <2>1. UNCHANGED <<sessionVars, transferVars, processVars, ota_target_slot, page_buffer,
                    bitmap_event>>
    BY <1>1, DataRefused
  <2>2. complete' = complete
    BY <2>1 DEF processVars
  <2> QED
    BY <2>1, <2>2, SameCoordinator
<1>2. CASE AcceptsData(page, chunk)
  <2>1. /\ pc = "idle" /\ ~start_admission_in_progress
        /\ chunk < ExpectedPageSize
        /\ page_buffer' = [page_buffer EXCEPT ![chunk] = data]
        /\ page_bytes_received' = page_bytes_received + 1
        /\ UNCHANGED <<session_nodes, node_replied, session_start_accepted,
                       start_admission_in_progress, current_file_size, ota_target_slot,
                       page_start_offset, bitmap_event>>
    BY <1>2, DataAccepted
  <2>7. page_buffer' \in [Chunk -> Cell]
    BY <2>1 DEF CoordinatorTypeOK
  <2>2. page_start_offset \in Page /\ ExpectedPageSize \in 1 .. PageChunks
    BY <2>1, PlaceType DEF Chunk
  <2>3. page_bytes_received' \in 0 .. PageChunks /\ page_bytes_received' <= ExpectedPageSize
    <3>1. page_bytes_received = 0 \/ page_bytes_received < ExpectedPageSize
      BY <2>1 DEF CoordinatorInv, ProcessHasPage
    <3>2. page_bytes_received \in Nat
      BY DEF CoordinatorTypeOK
    <3>3. PageChunks \in Nat /\ ExpectedPageSize \in Nat
      BY <2>2, WireAssumption
    <3> QED
      BY <2>1, <2>2, <3>1, <3>2, <3>3
  <2>4. AdmissionTracked' /\ ActiveNodesAccepted' /\ ExpectedPageSize' = ExpectedPageSize
    BY <2>1 DEF CoordinatorInv, AdmissionTracked, ActiveNodesAccepted, IsInjective, ExpectedPageSize
  <2>5. CASE /\ page_bytes_received + 1 = ExpectedPageSize
             /\ distribution_in_progress' = TRUE
             /\ pc' = "chunk" /\ dist_chunk_idx' = 0 /\ total_chunks' = ExpectedPageSize
             /\ end_pkt' = PageEndPkt(page_start_offset, Prefix(page_buffer', ExpectedPageSize),
                                      ota_target_slot)
             /\ session_bitmaps' = [i \in Index |-> {}]
             /\ UNCHANGED <<recovery_round, retry_count>>
    <3>1. end_pkt' \in [type : {"PAGE_END"}, page : Page, crc : PageContent \cup {<<>>},
                        target : Target \cup {NoTarget}]
      <4>1. Prefix(page_buffer', ExpectedPageSize) \in PageContent
        BY <2>7, <2>2, PrefixType
      <4> QED
        BY <2>2, <2>5, <4>1 DEF PageEndPkt, CoordinatorTypeOK
    <3>2. CoordinatorTypeOK'
      BY <2>7, <2>1, <2>2, <2>3, <2>5, <3>1 DEF CoordinatorTypeOK
    <3>3. ProcessHasPage' /\ FlagGuardsProcess'
      BY <2>1, <2>2, <2>4, <2>5 DEF ProcessHasPage, FlagGuardsProcess
    <3>4. BitmapsOfNodes'
      <4>1. \A i \in DOMAIN session_nodes' : i \in Index
        BY <2>1, CoordinatorAssumption DEF CoordinatorTypeOK, Index
      <4>2. 0 \in 0 .. total_chunks' - 1
        BY <2>2, <2>5
      <4> QED
        BY <2>5, <4>1, <4>2 DEF BitmapsOfNodes
    <3> QED
      BY <2>4, <3>2, <3>3, <3>4 DEF CoordinatorInv
  <2>6. CASE /\ page_bytes_received + 1 # ExpectedPageSize
             /\ UNCHANGED <<distribution_in_progress, processVars, session_bitmaps>>
    <3>1. CoordinatorTypeOK'
      BY <2>7, <2>1, <2>3, <2>6 DEF CoordinatorTypeOK, processVars
    <3>2. ProcessHasPage'
      BY <2>1, <2>2, <2>3, <2>4, <2>6 DEF ProcessHasPage, processVars, CoordinatorTypeOK
    <3>3. FlagGuardsProcess' /\ BitmapsOfNodes'
      BY <2>1, <2>6 DEF CoordinatorInv, FlagGuardsProcess, BitmapsOfNodes, processVars
    <3> QED
      BY <2>4, <3>1, <3>2, <3>3 DEF CoordinatorInv
  <2> QED
    BY <1>2, <2>5, <2>6, DataAccepted
<1> QED
  BY <1>1, <1>2

-----------------------------------------------------------------------------
(* The script and the link.                                                *)

LinkInv == LinkTypeOK /\ CommandOfHost /\ OneExchange

HostState ==
  [at : {"off", "start", "data", "page", "verify", "done", "failed"}, file : Images,
   target : SentTargets, page : Page, chunk : Chunk, attempt : Nat]
Texts == {"ACK", "NO_TARGETS", "PAGE_OK"}

\* Answers that come and go.
LEMMA Replies ==
  ASSUME NEW text \in Seq(Texts)
  PROVE  /\ NoReply(text) =>
              /\ OneReply(text)
              /\ \A t \in Texts : OneReply(Append(text, t))
              /\ NoReply(Append(text, "PAGE_OK"))
         /\ OneReply(text) => OneReply(Append(text, "PAGE_OK"))
         /\ text # <<>> =>
              /\ NoReply(text) => NoReply(Tail(text)) /\ Head(text) = "PAGE_OK"
              /\ OneReply(text) => OneReply(Tail(text))
              /\ OneReply(text) /\ Head(text) # "PAGE_OK" => NoReply(Tail(text))
         /\ NoReply(<<>>)
<1>1. \A t \in Texts :
        /\ DOMAIN Append(text, t) = 1 .. Len(text) + 1
        /\ \A k \in 1 .. Len(text) : Append(text, t)[k] = text[k]
        /\ Append(text, t)[Len(text) + 1] = t
  OBVIOUS
<1>2. DOMAIN text = 1 .. Len(text) /\ Len(text) \in Nat /\ "PAGE_OK" \in Texts
  BY DEF Texts
<1>3. NoReply(text) =>
        /\ OneReply(text)
        /\ \A t \in Texts : OneReply(Append(text, t))
        /\ NoReply(Append(text, "PAGE_OK"))
  BY <1>1, <1>2 DEF NoReply, OneReply
<1>4. OneReply(text) => OneReply(Append(text, "PAGE_OK"))
  BY <1>1, <1>2 DEF OneReply
<1>5. ASSUME text # <<>>
      PROVE  /\ NoReply(text) => NoReply(Tail(text)) /\ Head(text) = "PAGE_OK"
             /\ OneReply(text) => OneReply(Tail(text))
             /\ OneReply(text) /\ Head(text) # "PAGE_OK" => NoReply(Tail(text))
  <2>1. /\ DOMAIN Tail(text) = 1 .. Len(text) - 1 /\ Len(text) >= 1
        /\ \A k \in 1 .. Len(text) - 1 : Tail(text)[k] = text[k + 1]
        /\ Head(text) = text[1]
    BY <1>5
  <2>2. \A k \in 1 .. Len(text) - 1 : k + 1 \in DOMAIN text /\ k + 1 # 1
    BY <1>2
  <2>3. 1 \in DOMAIN text
    BY <1>2, <2>1
  <2>4. NoReply(text) => NoReply(Tail(text)) /\ Head(text) = "PAGE_OK"
    BY <2>1, <2>2, <2>3 DEF NoReply
  <2>5. OneReply(text) => OneReply(Tail(text))
    BY <2>1, <2>2 DEF OneReply
  <2>6. OneReply(text) /\ Head(text) # "PAGE_OK" => NoReply(Tail(text))
    BY <2>1, <2>2, <2>3 DEF OneReply, NoReply
  <2> QED
    BY <2>4, <2>5, <2>6
<1>6. NoReply(<<>>)
  BY DEF NoReply
<1> QED
  BY <1>3, <1>4, <1>5, <1>6

\* A page of a file has at least one chunk.
LEMMA FilePageLen ==
  ASSUME NEW size \in FileSize, NEW p \in 0 .. size.pages - 1
  PROVE  PageLen(size, p) \in 1 .. PageChunks /\ p \in Page
BY WireAssumption DEF FileSize, Size, PageLen, Page

LEMMA HostFile ==
  ASSUME LinkTypeOK
  PROVE  /\ host \in HostState /\ uart \in Seq(Texts) /\ host.file \in Image
         /\ host.file.size \in FileSize /\ 0 \in Page /\ 0 \in Chunk
         /\ PageLen(host.file.size, 0) > 0
<1>1. host \in HostState /\ uart \in Seq(Texts) /\ host.file \in Image
  BY SenderAssumption DEF LinkTypeOK, HostState, Texts
<1>2. host.file.size \in FileSize /\ 0 \in Page /\ 0 \in Chunk
  BY <1>1, WireAssumption DEF Image, Page, Chunk
<1>3. 0 \in 0 .. host.file.size.pages - 1
  BY <1>2 DEF FileSize, Size
<1> QED
  BY <1>1, <1>2, <1>3, FilePageLen

\* The script goes on with a command.
LEMMA SendKeeps ==
  ASSUME LinkInv, commands = <<>>, ~start_admission_in_progress',
         NEW next \in HostState, next.at \in {"data", "verify"},
         next.at = "data" => next.chunk < PageLen(next.file.size, next.page),
         Send(next), uart' \in Seq(Texts), NoReply(uart'),
         UNCHANGED <<first_answer, complete>>
  PROVE  LinkInv'
<1>1. host' = next /\ commands' = <<IF next.at = "data"
                                    THEN DataCmd(next.file, next.page, next.chunk)
                                    ELSE VerifyCmd(next.file)>>
  BY DEF Send
<1>2. LinkTypeOK'
  BY <1>1 DEF LinkInv, LinkTypeOK, HostState, Texts
<1>3. CommandOfHost'
  BY <1>1 DEF CommandOfHost
<1>4. OneReply(uart')
  BY Replies
<1>5. OneExchange'
  BY <1>1, <1>4 DEF OneExchange
<1> QED
  BY <1>2, <1>3, <1>5 DEF LinkInv

\* The script waits for a page, or for nothing.
LEMMA BecomeKeeps ==
  ASSUME LinkInv, commands = <<>>, ~start_admission_in_progress',
         NEW at \in {"page", "done", "failed"}, Become(at),
         uart' \in Seq(Texts), at = "page" => NoReply(uart'),
         UNCHANGED <<first_answer, complete>>
  PROVE  LinkInv'
<1>1. /\ commands' = <<>>
      /\ host'.at = at /\ host' \in HostState
  BY DEF Become, LinkInv, LinkTypeOK, HostState
<1>2. LinkTypeOK'
  BY <1>1 DEF LinkInv, LinkTypeOK, HostState, Texts
<1>3. CommandOfHost'
  BY <1>1 DEF CommandOfHost
<1>4. at = "page" => OneReply(uart')
  BY Replies
<1>5. OneExchange'
  BY <1>1, <1>4 DEF OneExchange
<1> QED
  BY <1>2, <1>3, <1>5 DEF LinkInv

\* The place in the file a script that reads an answer goes to.
LEMMA NextCommand ==
  ASSUME LinkTypeOK
  PROVE  /\ DataAt(0, 0) \in HostState
         /\ host.chunk + 1 < PageLen(host.file.size, host.page) =>
              DataAt(host.page, host.chunk + 1) \in HostState
         /\ host.page + 1 < host.file.size.pages =>
              /\ DataAt(host.page + 1, 0) \in HostState
              /\ PageLen(host.file.size, host.page + 1) > 0
         /\ [host EXCEPT !.at = "verify", !.attempt = 1] \in HostState
         /\ \A n \in Nat : [host EXCEPT !.attempt = n] \in HostState
<1>1. /\ host \in HostState /\ host.file.size \in FileSize /\ 0 \in Page /\ 0 \in Chunk
      /\ host.page \in Page /\ host.chunk \in Chunk
  BY HostFile DEF HostState
<1>2. \A p \in Page, c \in Chunk : DataAt(p, c) \in HostState
  BY <1>1 DEF DataAt, HostState
<1>3. ASSUME host.chunk + 1 < PageLen(host.file.size, host.page) PROVE host.chunk + 1 \in Chunk
  <2>1. PageLen(host.file.size, host.page) \in 0 .. PageChunks
    BY <1>1, PageLenType DEF FileSize, Page
  <2> QED
    BY <1>1, <1>3, <2>1, WireAssumption DEF Chunk
<1>4. ASSUME host.page + 1 < host.file.size.pages
      PROVE  host.page + 1 \in Page /\ PageLen(host.file.size, host.page + 1) > 0
  <2>1. host.page + 1 \in 0 .. host.file.size.pages - 1
    BY <1>1, <1>4 DEF FileSize, Size, Page
  <2> QED
    BY <1>1, <2>1, FilePageLen
<1>5. /\ [host EXCEPT !.at = "verify", !.attempt = 1] \in HostState
      /\ \A n \in Nat : [host EXCEPT !.attempt = n] \in HostState
  BY <1>1 DEF HostState
<1> QED
  BY <1>1, <1>2, <1>3, <1>4, <1>5

LEMMA ReadLineKeeps ==
  ASSUME LinkInv, ReadLine, UNCHANGED <<start_admission_in_progress, first_answer, complete>>
  PROVE  LinkInv'
<1> DEFINE text == Head(uart)
<1>1. /\ uart # <<>> /\ uart' = Tail(uart) /\ uart \in Seq(Texts) /\ uart' \in Seq(Texts)
  BY DEF ReadLine, LinkInv, LinkTypeOK, Texts
<1>2. ASSUME host.at \in {"start", "data", "verify"}, text # "PAGE_OK"
      PROVE  commands = <<>> /\ ~start_admission_in_progress /\ NoReply(uart')
  <2>1. ~NoReply(uart)
    BY <1>1, <1>2, Replies
  <2> QED
    BY <1>1, <1>2, <2>1, Replies DEF LinkInv, OneExchange
<1>3. CASE ReadInStart(text)
  <2>1. text \in {"ACK", "NO_TARGETS"} /\ host.at = "start"
    BY <1>3 DEF ReadInStart
  <2>2. commands = <<>> /\ ~start_admission_in_progress' /\ NoReply(uart')
    BY <1>2, <2>1
  <2>3. CASE Become("done")
    BY <1>1, <2>2, <2>3, BecomeKeeps
  <2>4. CASE Send(DataAt(0, 0))
    <3>1. /\ DataAt(0, 0) \in HostState /\ DataAt(0, 0).at = "data"
          /\ DataAt(0, 0).chunk < PageLen(DataAt(0, 0).file.size, DataAt(0, 0).page)
      BY HostFile, NextCommand DEF LinkInv, DataAt, HostState
    <3> QED
      BY <1>1, <2>2, <2>4, <3>1, SendKeeps
  <2> QED
    BY <1>3, <2>3, <2>4 DEF ReadInStart
<1>4. CASE ReadInData(text)
  <2>1. text = "ACK" /\ host.at = "data"
    BY <1>4 DEF ReadInData
  <2>2. commands = <<>> /\ ~start_admission_in_progress' /\ NoReply(uart')
    BY <1>2, <2>1
  <2>3. CASE Become("page")
    BY <1>1, <2>2, <2>3, BecomeKeeps
  <2>4. CASE /\ Send(DataAt(host.page, host.chunk + 1))
             /\ host.chunk + 1 < PageLen(host.file.size, host.page)
    <3> DEFINE next == DataAt(host.page, host.chunk + 1)
    <3>1. /\ next \in HostState /\ next.at = "data"
          /\ next.chunk < PageLen(next.file.size, next.page)
      BY <2>4, HostFile, NextCommand DEF LinkInv, DataAt, HostState
    <3> QED
      BY <1>1, <2>2, <2>4, <3>1, SendKeeps
  <2> QED
    BY <1>4, <2>3, <2>4 DEF ReadInData
<1>5. CASE ReadInPage(text)
  <2>1. text = "PAGE_OK" /\ host.at = "page"
    BY <1>5 DEF ReadInPage
  <2>2. commands = <<>> /\ ~start_admission_in_progress' /\ NoReply(uart')
    BY <1>1, <2>1, Replies DEF LinkInv, OneExchange, CommandOfHost
  <2>3. CASE /\ Send(DataAt(host.page + 1, 0))
             /\ host.page + 1 < host.file.size.pages
    <3> DEFINE next == DataAt(host.page + 1, 0)
    <3>1. /\ next \in HostState /\ next.at = "data"
          /\ next.chunk < PageLen(next.file.size, next.page)
      BY <2>3, HostFile, NextCommand DEF LinkInv, DataAt, HostState
    <3> QED
      BY <1>1, <2>2, <2>3, <3>1, SendKeeps
  <2>4. CASE Send([host EXCEPT !.at = "verify", !.attempt = 1])
    <3> DEFINE next == [host EXCEPT !.at = "verify", !.attempt = 1]
    <3>1. next \in HostState /\ next.at = "verify"
      BY HostFile, NextCommand DEF LinkInv, HostState
    <3> QED
      BY <1>1, <2>2, <2>4, <3>1, SendKeeps
  <2> QED
    BY <1>5, <2>3, <2>4 DEF ReadInPage
<1>6. CASE ReadInVerify(text)
  <2>1. text = "ACK" /\ host.at = "verify" /\ Become("done")
    BY <1>6 DEF ReadInVerify
  <2> QED
    BY <1>1, <1>2, <2>1, BecomeKeeps
<1>7. CASE UNCHANGED <<host, commands>>
  <2>1. LinkTypeOK' /\ CommandOfHost'
    BY <1>1, <1>7 DEF LinkInv, LinkTypeOK, Texts, CommandOfHost
  <2>2. OneExchange'
    BY <1>1, <1>7, Replies DEF LinkInv, OneExchange
  <2> QED
    BY <2>1, <2>2 DEF LinkInv
<1> QED
  BY <1>3, <1>4, <1>5, <1>6, <1>7 DEF ReadLine

LEMMA RunScriptKeeps ==
  ASSUME LinkInv, NEW img \in Images, NEW sec_ver \in SecVers, NEW target \in SentTargets,
         RunScript(img, sec_ver, target),
         UNCHANGED <<start_admission_in_progress, first_answer, complete>>
  PROVE  LinkInv'
<1>1. /\ host.at \in {"off", "done", "failed"} /\ uart' = <<>>
      /\ host' = [host EXCEPT !.at = "start", !.file = img, !.target = target,
                              !.page = 0, !.chunk = 0, !.attempt = 1]
      /\ commands' = Append(commands, StartCmd(img, sec_ver, target))
  BY DEF RunScript
<1>2. commands = <<>> /\ ~start_admission_in_progress
  BY <1>1 DEF LinkInv, CommandOfHost, OneExchange
<1>3. commands' = <<StartCmd(img, sec_ver, target)>>
  BY <1>1, <1>2
<1>4. /\ host' \in HostState /\ host'.at = "start" /\ host'.file = img /\ host'.target = target
  BY <1>1, HostFile DEF LinkInv, HostState
<1>5. LinkTypeOK'
  BY <1>1, <1>4 DEF LinkInv, LinkTypeOK, HostState
<1>6. CommandOfHost'
  BY <1>3, <1>4 DEF CommandOfHost
<1>7. NoReply(uart') /\ OneReply(uart')
  BY <1>1 DEF NoReply, OneReply
<1>8. OneExchange'
  BY <1>2, <1>4, <1>7 DEF OneExchange
<1> QED
  BY <1>5, <1>6, <1>8 DEF LinkInv

LEMMA CommandTimeoutKeeps ==
  ASSUME LinkInv, CommandTimeout,
         UNCHANGED <<start_admission_in_progress, first_answer, complete>>
  PROVE  LinkInv'
<1>1. /\ host.at \in {"data", "verify"} /\ commands = <<>> /\ uart = <<>> /\ uart' = uart
      /\ \/ Send([host EXCEPT !.attempt = host.attempt + 1])
         \/ Become("failed")
  BY DEF CommandTimeout, NothingOnLink
<1>2. ~start_admission_in_progress' /\ uart' \in Seq(Texts) /\ NoReply(uart')
  BY <1>1 DEF LinkInv, OneExchange, NoReply
<1>3. CASE Become("failed")
  BY <1>1, <1>2, <1>3, BecomeKeeps
<1>4. CASE Send([host EXCEPT !.attempt = host.attempt + 1])
  <2> DEFINE next == [host EXCEPT !.attempt = host.attempt + 1]
  <2>1. host \in HostState /\ next \in HostState
    BY HostFile, NextCommand DEF LinkInv, HostState
  <2>2. /\ next.at \in {"data", "verify"}
        /\ next.at = "data" => next.chunk < PageLen(next.file.size, next.page)
    BY <1>1, <2>1 DEF LinkInv, OneExchange, HostState
  <2> QED
    BY <1>1, <1>2, <1>4, <2>1, <2>2, SendKeeps
<1> QED
  BY <1>1, <1>3, <1>4

LEMMA LinkLosesKeeps ==
  ASSUME LinkInv, LinkLoses, UNCHANGED <<start_admission_in_progress, first_answer, complete>>
  PROVE  LinkInv'
<1>1. host' = host
  BY DEF LinkLoses
<1>2. uart \in Seq(Texts)
  BY HostFile DEF LinkInv
<1>3. CASE commands # <<>> /\ commands' = Tail(commands) /\ UNCHANGED uart
  <2>1. commands' = <<>>
    BY <1>3 DEF LinkInv, CommandOfHost
  <2> QED
    BY <1>1, <1>3, <2>1 DEF LinkInv, LinkTypeOK, CommandOfHost, OneExchange
<1>4. CASE uart # <<>> /\ uart' = Tail(uart) /\ UNCHANGED commands
  <2>1. uart' \in Seq(Texts)
    BY <1>2, <1>4
  <2>2. LinkTypeOK' /\ CommandOfHost'
    BY <1>1, <1>4, <2>1 DEF LinkInv, LinkTypeOK, Texts, CommandOfHost
  <2>3. OneExchange'
    BY <1>1, <1>2, <1>4, Replies DEF LinkInv, OneExchange
  <2> QED
    BY <2>2, <2>3 DEF LinkInv
<1> QED
  BY <1>3, <1>4 DEF LinkLoses

LEMMA HostStepKeeps ==
  ASSUME CoordinatorTypeOK, CoordinatorInv, LinkInv, HostStep
  PROVE  CoordinatorTypeOK' /\ CoordinatorInv' /\ LinkInv'
<1>1. /\ UNCHANGED <<sessionVars, transferVars, processVars, ota_target_slot, page_buffer,
                     bitmap_event>>
      /\ UNCHANGED <<first_answer, complete>> /\ SenderOnly
  BY DEF HostStep, SenderStep, coordinatorOnlyVars
<1>2. CoordinatorTypeOK' /\ CoordinatorInv'
  BY <1>1, SameCoordinator
<1>3. UNCHANGED <<start_admission_in_progress, first_answer, complete>>
  BY <1>1 DEF sessionVars
<1>4. CASE \E img \in Images, sec_ver \in SecVers, target \in SentTargets :
             RunScript(img, sec_ver, target)
  BY <1>2, <1>3, <1>4, RunScriptKeeps
<1>5. CASE StartTimeout \/ PageTimeout
  <2>1. /\ host.at \in {"start", "page"} /\ Become("failed") /\ uart' = uart
        /\ commands = <<>> /\ ~start_admission_in_progress
    BY <1>5 DEF StartTimeout, PageTimeout, NothingOnLink, LinkInv, CommandOfHost, OneExchange
  <2>2. uart' \in Seq(Texts)
    BY <2>1, HostFile DEF LinkInv
  <2> QED
    BY <1>2, <1>3, <2>1, <2>2, BecomeKeeps
<1> QED
  BY <1>1, <1>2, <1>3, <1>4, <1>5, ReadLineKeeps, CommandTimeoutKeeps, LinkLosesKeeps
     DEF SenderOnly

-----------------------------------------------------------------------------
(* What the coordinator answers.                                           *)

\* It answers a command, or ends the admission the command started.
LEMMA AnswerKeeps ==
  ASSUME LinkInv, NoReply(uart), commands' = <<>>, host' = host,
         host.at \in {"start", "data", "verify"},
         \/ uart' = uart
         \/ ~start_admission_in_progress' /\ \E t \in Texts : uart' = Append(uart, t),
         start_admission_in_progress' => host.at = "start",
         first_answer' \in [Nodes -> {"none", "accept", "reject"}], complete' \subseteq Nodes
  PROVE  LinkInv'
<1>1. uart \in Seq(Texts)
  BY HostFile DEF LinkInv
<1>2. uart' \in Seq(Texts) /\ OneReply(uart') /\ (start_admission_in_progress' => NoReply(uart'))
  <2>1. CASE uart' = uart
    BY <1>1, <2>1, Replies
  <2>2. ASSUME ~start_admission_in_progress', NEW t \in Texts, uart' = Append(uart, t)
        PROVE  uart' \in Seq(Texts) /\ OneReply(uart')
    BY <1>1, <2>2, Replies
  <2> QED
    BY <2>1, <2>2
<1>3. LinkTypeOK'
  BY <1>2 DEF LinkInv, LinkTypeOK, Texts
<1>4. CommandOfHost'
  BY DEF CommandOfHost
<1>5. OneExchange'
  BY <1>2 DEF LinkInv, OneExchange
<1> QED
  BY <1>3, <1>4, <1>5 DEF LinkInv

LEMMA CommandKeeps ==
  ASSUME CoordinatorTypeOK, CoordinatorInv, LinkInv, StartsIdle, Command
  PROVE  CoordinatorTypeOK' /\ CoordinatorInv' /\ LinkInv'
<1> DEFINE cmd == Head(commands)
<1>1. /\ commands # <<>> /\ commands' = Tail(commands) /\ UNCHANGED host
      /\ first_answer' = IF cmd.type = "S" THEN [node \in Nodes |-> "none"] ELSE first_answer
      /\ complete' = IF pc = "idle" /\ pc' # "idle" THEN {} ELSE complete
  BY DEF Command, TakeCommand
<1>2. /\ commands' = <<>> /\ NoReply(uart) /\ ~start_admission_in_progress
      /\ host.at \in {"start", "data", "verify"}
      /\ first_answer' \in [Nodes -> {"none", "accept", "reject"}] /\ complete' \subseteq Nodes
  BY <1>1 DEF LinkInv, CommandOfHost, OneExchange, LinkTypeOK
<1>3. /\ host \in HostState /\ host.file \in Image
  BY HostFile DEF LinkInv
<1>4. CASE cmd.type = "S"
  <2>1. PICK sec_ver \in SecVers : host.at = "start" /\ cmd = StartCmd(host.file, sec_ver, host.target)
    BY <1>1, <1>4 DEF LinkInv, CommandOfHost, StartCmd, DataCmd, VerifyCmd
  <2>2. PICK table \in RouteTables : UartStart(table, cmd.size, cmd.sec_ver, cmd.target)
    BY <1>4 DEF Command, TakeCommand
  <2>3. cmd.size \in FileSize /\ cmd.target \in Target
    BY <1>3, <2>1, SenderAssumption DEF StartCmd, Image, HostState
  <2>4. ~CoordinatorBusy /\ pc' = pc /\ complete' = complete
    BY <1>1, <1>2, <2>1, <2>2 DEF StartsIdle, CoordinatorBusy, UartStart, processVars
  <2>5. CoordinatorTypeOK' /\ CoordinatorInv'
    BY <1>1, <1>4, <2>2, <2>3, <2>4, StartKeeps
  <2>6. \/ uart' = uart
        \/ ~start_admission_in_progress' /\ uart' = Append(uart, "NO_TARGETS")
    BY <2>2 DEF UartStart, Answer
  <2> QED
    BY <1>1, <1>2, <2>1, <2>5, <2>6, AnswerKeeps DEF Texts
<1>5. CASE cmd.type = "D" /\ UartData(cmd.page, cmd.chunk, cmd.data)
  <2>1. cmd = DataCmd(host.file, host.page, host.chunk)
    BY <1>1, <1>5 DEF LinkInv, CommandOfHost, StartCmd, DataCmd, VerifyCmd
  <2>2. cmd.page \in Page /\ cmd.chunk \in Chunk /\ cmd.data \in Cell
    BY <1>3, <2>1 DEF DataCmd, HostState, Image
  <2>3. CoordinatorTypeOK' /\ CoordinatorInv'
    BY <1>1, <1>5, <2>2, DataKeeps
  <2>4. /\ start_admission_in_progress' = start_admission_in_progress
        /\ uart' = uart \/ uart' = Append(uart, "NO_TARGETS") \/ uart' = Append(uart, "ACK")
    BY <1>5, DataRefused, DataAccepted DEF sessionVars
  <2> QED
    BY <1>1, <1>2, <2>3, <2>4, AnswerKeeps DEF Texts
<1>6. CASE cmd.type = "V" /\ UartVerify(cmd.crc)
  <2>1. /\ UNCHANGED <<sessionVars, transferVars, processVars, ota_target_slot, page_buffer,
                       bitmap_event>>
        /\ uart' = Append(uart, "ACK") \/ uart' = Append(uart, "NO_TARGETS")
    BY <1>6 DEF UartVerify, Answer
  <2>2. UNCHANGED <<first_answer, complete, start_admission_in_progress>>
    BY <1>1, <1>6, <2>1 DEF sessionVars, processVars
  <2> QED
    BY <1>1, <1>2, <2>1, <2>2, SameCoordinator, AnswerKeeps DEF Texts
<1> QED
  BY <1>4, <1>5, <1>6 DEF Command, TakeCommand

\* A step of the coordinator that answers nothing, or reports a page.
LEMMA SilentKeeps ==
  ASSUME LinkInv, UNCHANGED <<host, commands>>,
         start_admission_in_progress' = start_admission_in_progress,
         uart' = uart \/ uart' = Append(uart, "PAGE_OK"),
         first_answer' \in [Nodes -> {"none", "accept", "reject"}], complete' \subseteq Nodes
  PROVE  LinkInv'
<1>1. uart \in Seq(Texts) /\ "PAGE_OK" \in Texts
  BY HostFile DEF LinkInv, Texts
<1>2. /\ uart' \in Seq(Texts)
      /\ NoReply(uart) => NoReply(uart')
      /\ OneReply(uart) => OneReply(uart')
  <2>1. CASE uart' = uart
    BY <1>1, <2>1
  <2>2. CASE uart' = Append(uart, "PAGE_OK")
    BY <1>1, <2>2, Replies
  <2> QED
    BY <2>1, <2>2
<1>3. LinkTypeOK' /\ CommandOfHost'
  BY <1>2 DEF LinkInv, LinkTypeOK, Texts, CommandOfHost
<1>4. OneExchange'
  BY <1>2 DEF LinkInv, OneExchange
<1> QED
  BY <1>3, <1>4 DEF LinkInv

\* The end of an admission is answered to the script that waits for it.
LEMMA FinishAnswers ==
  ASSUME LinkInv, start_admission_in_progress, NEW replied, NEW accepted,
         FinishStartAdmission(replied, accepted), UNCHANGED <<host, commands, complete>>,
         first_answer' \in [Nodes -> {"none", "accept", "reject"}]
  PROVE  LinkInv'
<1>1. /\ start_admission_in_progress' = FALSE
      /\ uart' = Append(uart, "ACK") \/ uart' = Append(uart, "NO_TARGETS")
  BY DEF FinishStartAdmission, Answer
<1>2. commands' = <<>> /\ host.at = "start" /\ NoReply(uart) /\ complete' \subseteq Nodes
  BY DEF LinkInv, OneExchange, LinkTypeOK
<1> QED
  BY <1>1, <1>2, AnswerKeeps DEF Texts

LEMMA TypedInvalidStartKeeps ==
  ASSUME WaitsForCoordinator, CoordinatorTypeOK, CoordinatorInv, LinkInv, TypedInvalidStart
  PROVE  CoordinatorTypeOK' /\ CoordinatorInv' /\ LinkInv'
<1>1. /\ host.at \in {"off", "done", "failed"} /\ ~CoordinatorBusy
      /\ ResetTransferState(NoFile) /\ uart' = Append(uart, "NO_TARGETS")
      /\ UNCHANGED <<sessionVars, ota_target_slot, page_buffer, bitmap_event, processVars>>
      /\ UNCHANGED <<host, commands, first_answer, complete>>
  BY DEF TypedInvalidStart, UartStartInvalidTarget, WaitsForCoordinator, Answer
<1>2. pc = "idle" /\ ~start_admission_in_progress /\ commands = <<>>
  BY <1>1 DEF CoordinatorBusy, LinkInv, CommandOfHost
<1>3. CoordinatorTypeOK'
  BY <1>1, ResetType DEF CoordinatorTypeOK, sessionVars, processVars
<1>4. CoordinatorInv'
  BY <1>1, <1>2 DEF CoordinatorInv, ProcessHasPage, FlagGuardsProcess, AdmissionTracked,
     ActiveNodesAccepted, BitmapsOfNodes, ResetTransferState, sessionVars, processVars,
     IsInjective
<1>5. uart \in Seq(Texts) /\ uart' \in Seq(Texts)
  BY <1>1, HostFile DEF LinkInv, Texts
<1>6. LinkInv'
  BY <1>1, <1>2, <1>5 DEF LinkInv, LinkTypeOK, Texts, CommandOfHost, OneExchange, sessionVars
<1> QED
  BY <1>3, <1>4, <1>6

LEMMA DistributesKeeps ==
  ASSUME CoordinatorTypeOK, CoordinatorInv, LinkInv, Distributes
  PROVE  CoordinatorTypeOK' /\ CoordinatorInv' /\ LinkInv'
<1>1. Distribute /\ UNCHANGED <<senderVars, first_answer, complete>>
  BY DEF Distributes
<1>2. CoordinatorTypeOK' /\ CoordinatorInv'
  BY <1>1, DistributeKeepsTypes, DistributeKeepsInv
<1>3. ProcessEffect /\ ProcessLeaves
  BY <1>1, DistributeEffect DEF CoordinatorInv, AdmissionTracked
<1>4. uart' = uart \/ uart' = Append(uart, "PAGE_OK")
  BY <1>3 DEF ProcessEffect, Continues, Ends, Rests, KeepsPlace
<1>5. LinkInv'
  BY <1>1, <1>3, <1>4, SilentKeeps DEF ProcessLeaves, senderVars, LinkInv, LinkTypeOK
<1> QED
  BY <1>2, <1>5

LEMMA StartReportLink ==
  ASSUME LinkInv, NEW node \in Nodes, NEW accepted \in BOOLEAN, StartReport(node, accepted)
  PROVE  LinkInv'
<1>1. /\ UNCHANGED <<host, commands, complete>>
      /\ first_answer' \in [Nodes -> {"none", "accept", "reject"}] /\ complete' \subseteq Nodes
      /\ HandleStartReport(node, accepted)
  BY DEF StartReport, senderVars, LinkInv, LinkTypeOK
<1>2. CASE UNCHANGED <<start_admission_in_progress, uart>>
  BY <1>1, <1>2, SilentKeeps
<1>3. CASE /\ start_admission_in_progress
           /\ FinishStartAdmission(node_replied', session_start_accepted')
  BY <1>1, <1>3, FinishAnswers
<1>4. \/ UNCHANGED <<start_admission_in_progress, uart>>
      \/ /\ start_admission_in_progress
         /\ FinishStartAdmission(node_replied', session_start_accepted')
  <2>1. CASE IgnoresStartReport(node)
    BY <1>1, <2>1 DEF HandleStartReport, sessionVars
  <2>2. CASE ~IgnoresStartReport(node)
    <3>1. start_admission_in_progress
      BY <2>2 DEF IgnoresStartReport
    <3>2. IF AllReplied(session_nodes, node_replied')
          THEN FinishStartAdmission(node_replied', session_start_accepted')
          ELSE UNCHANGED <<session_nodes, session_bitmaps, start_admission_in_progress,
                           transferVars, uart>>
      BY <1>1, <2>2 DEF HandleStartReport
    <3> QED
      BY <3>1, <3>2
  <2> QED
    BY <2>1, <2>2
<1> QED
  BY <1>2, <1>3, <1>4

LEMMA BitmapReportLink ==
  ASSUME LinkInv, NEW node \in Nodes, NEW page, NEW bitmap, BitmapReport(node, page, bitmap)
  PROVE  LinkInv'
<1>1. /\ UNCHANGED <<host, commands, uart, first_answer>>
      /\ complete' \subseteq Nodes
  BY DEF BitmapReport, HandleBitmapReport, senderVars, LinkInv, LinkTypeOK
<1>2. start_admission_in_progress' = start_admission_in_progress
  BY DEF BitmapReport, HandleBitmapReport, sessionVars
<1> QED
  BY <1>1, <1>2, SilentKeeps DEF LinkInv, LinkTypeOK

-----------------------------------------------------------------------------
(* The invariant, however many lines the link loses.                       *)

Base == CoordinatorTypeOK /\ CoordinatorInv /\ LinkInv /\ StartsIdle

LEMMA BaseInit == Init => Base
<1> SUFFICES ASSUME Init PROVE Base
  OBVIOUS
<1> USE DEF Init, CoordinatorInit, SenderInit
<1>1. /\ NoFile \in Size /\ NoFile.pages = 0 /\ 0 \in Page /\ 0 \in Chunk
      /\ 0 \in 0 .. PageChunks /\ 0 \in 0 .. MaxRounds /\ {} \in Cell /\ {} \in SUBSET Chunk
  BY WireAssumption, CoordinatorAssumption DEF NoFile, Size, Page, Chunk, Cell
<1>2. PageEndPkt(0, <<>>, NoTarget) \in
        [type : {"PAGE_END"}, page : Page, crc : PageContent \cup {<<>>},
         target : Target \cup {NoTarget}]
  BY <1>1 DEF PageEndPkt
<1>3. CoordinatorTypeOK
  BY <1>1, <1>2, CoordinatorAssumption, SMTT(30) DEF CoordinatorTypeOK
<1>4. CoordinatorInv
  BY DEF CoordinatorInv, ProcessHasPage, FlagGuardsProcess, AdmissionTracked,
     ActiveNodesAccepted, BitmapsOfNodes, IsInjective
<1>5. LinkTypeOK
  BY <1>1 DEF LinkTypeOK
<1>6. CommandOfHost /\ OneExchange /\ StartsIdle
  BY DEF CommandOfHost, OneExchange, StartsIdle
<1> QED
  BY <1>3, <1>4, <1>5, <1>6 DEF Base, LinkInv

LEMMA HostStarts ==
  ASSUME WaitsForCoordinator, LinkInv, StartsIdle, HostStep
  PROVE  StartsIdle'
<1>1. pc' = pc
  BY DEF HostStep, SenderStep, coordinatorOnlyVars, processVars
<1>2. host \in HostState
  BY HostFile DEF LinkInv
<1>3. CASE \E img \in Images, sec_ver \in SecVers, target \in SentTargets :
             RunScript(img, sec_ver, target)
  <2>1. pc = "idle"
    BY <1>3 DEF RunScript, CoordinatorBusy, WaitsForCoordinator
  <2> QED
    BY <1>1, <2>1 DEF StartsIdle
<1>4. CASE ReadLine
  <2>1. host' = host \/ host'.at # "start"
    BY <1>2, <1>4 DEF ReadLine, ReadInStart, ReadInData, ReadInPage, ReadInVerify, Become, Send,
       DataAt, HostState
  <2> QED
    BY <1>1, <2>1 DEF StartsIdle
<1>5. CASE CommandTimeout
  <2>1. host'.at # "start"
    BY <1>2, <1>5 DEF CommandTimeout, Become, Send, HostState
  <2> QED
    BY <2>1 DEF StartsIdle
<1>6. CASE StartTimeout \/ PageTimeout
  <2>1. host'.at # "start"
    BY <1>2, <1>6 DEF StartTimeout, PageTimeout, Become, HostState
  <2> QED
    BY <2>1 DEF StartsIdle
<1>7. CASE LinkLoses
  BY <1>1, <1>7 DEF LinkLoses, StartsIdle
<1> QED
  BY <1>3, <1>4, <1>5, <1>6, <1>7 DEF HostStep, SenderStep, SenderOnly

LEMMA CommandStarts ==
  ASSUME LinkInv, StartsIdle, Command
  PROVE  StartsIdle'
<1> DEFINE cmd == Head(commands)
<1>1. commands # <<>> /\ UNCHANGED host
  BY DEF Command, TakeCommand
<1>2. CASE cmd.type = "S"
  <2>1. pc' = pc
    BY <1>2 DEF Command, TakeCommand, UartStart, processVars
  <2> QED
    BY <1>1, <2>1 DEF StartsIdle
<1>3. CASE cmd.type # "S"
  <2>1. host.at # "start"
    BY <1>1, <1>3 DEF LinkInv, CommandOfHost, StartCmd
  <2> QED
    BY <1>1, <2>1 DEF StartsIdle
<1> QED
  BY <1>2, <1>3

\* The coordinator starts no process but for a chunk.
LEMMA ProcessStarts ==
  ASSUME StartsIdle, host' = host, CoordinatorTypeOK, CoordinatorInv, Distribute
  PROVE  StartsIdle'
<1>1. ProcessEffect
  BY DistributeEffect DEF CoordinatorInv, AdmissionTracked
<1> QED
  BY <1>1 DEF StartsIdle, ProcessEffect, Continues, Ends, Rests, Process, processVars

LEMMA BaseStep ==
  ASSUME WaitsForCoordinator, Base, [Next]_vars
  PROVE  Base'
<1> USE DEF Base
<1>1. CASE HostStep
  BY <1>1, HostStepKeeps, HostStarts
<1>2. CASE Command
  BY <1>2, CommandKeeps, CommandStarts
<1>3. CASE TypedInvalidStart
  <2>1. UNCHANGED <<host, pc>>
    BY <1>3 DEF TypedInvalidStart, UartStartInvalidTarget, processVars
  <2> QED
    BY <1>3, <2>1, TypedInvalidStartKeeps DEF StartsIdle
<1>4. CASE AdmissionEnds
  <2>1. /\ UNCHANGED <<host, commands, complete, pc>> /\ start_admission_in_progress
        /\ FinishStartAdmission(node_replied, session_start_accepted)
        /\ first_answer' \in [Nodes -> {"none", "accept", "reject"}]
    BY <1>4 DEF AdmissionEnds, AdmissionTimeout, processVars, senderVars, LinkInv, LinkTypeOK
  <2> QED
    BY <1>4, <2>1, AdmissionEndsKeeps, FinishAnswers DEF StartsIdle
<1>5. CASE Distributes
  <2>1. host' = host
    BY <1>5 DEF Distributes, senderVars
  <2> QED
    BY <1>5, <2>1, DistributesKeeps, ProcessStarts DEF Distributes
<1>6. CASE LineDrains
  <2>1. /\ UNCHANGED <<sessionVars, transferVars, processVars, ota_target_slot, page_buffer,
                       bitmap_event>>
        /\ UNCHANGED <<first_answer, complete>> /\ UNCHANGED <<host, commands, uart>>
    BY <1>6 DEF LineDrains, senderVars
  <2>2. LinkInv'
    BY <2>1, SilentKeeps DEF LinkInv, LinkTypeOK, sessionVars
  <2> QED
    BY <2>1, <2>2, SameCoordinator DEF StartsIdle, processVars
<1>7. ASSUME NEW node \in Nodes, NEW accepted \in BOOLEAN, StartReport(node, accepted)
      PROVE  Base'
  <2>1. UNCHANGED <<host, pc>>
    BY <1>7 DEF StartReport, HandleStartReport, senderVars, processVars
  <2> QED
    BY <1>7, <2>1, StartReportKeeps, StartReportLink DEF StartsIdle, LinkInv, LinkTypeOK
<1>8. ASSUME NEW node \in Nodes, NEW page \in Page, NEW bitmap \in SUBSET Chunk,
             BitmapReport(node, page, bitmap)
      PROVE  Base'
  <2>1. UNCHANGED <<host, pc>>
    BY <1>8 DEF BitmapReport, HandleBitmapReport, senderVars, processVars
  <2> QED
    BY <1>8, <2>1, BitmapReportKeeps, BitmapReportLink DEF StartsIdle, LinkInv, LinkTypeOK
<1>9. CASE UNCHANGED vars
  <2>1. /\ UNCHANGED <<sessionVars, transferVars, processVars, ota_target_slot, page_buffer,
                       bitmap_event>>
        /\ UNCHANGED <<first_answer, complete>> /\ UNCHANGED <<host, commands, uart>>
    BY <1>9 DEF vars, coordinatorVars, senderVars
  <2>2. LinkInv'
    BY <2>1, SilentKeeps DEF LinkInv, LinkTypeOK, sessionVars
  <2> QED
    BY <2>1, <2>2, SameCoordinator DEF StartsIdle, processVars
<1> QED
  BY <1>1, <1>2, <1>3, <1>4, <1>5, <1>6, <1>7, <1>8, <1>9 DEF Next

-----------------------------------------------------------------------------
(* The theorems that need no reliable link.                                *)

LEMMA BaseInvariant == WaitsForCoordinator => (Spec => []Base)
<1> SUFFICES ASSUME WaitsForCoordinator PROVE Spec => []Base
  OBVIOUS
<1>1. Init => Base
  BY BaseInit
<1>2. Base /\ [Next]_vars => Base'
  BY BaseStep
<1> QED
  BY <1>1, <1>2, PTL DEF Spec

\* The variables stay in the ranges of their C types, whatever the nodes report and
\* whatever lines the serial link loses.
THEOREM UartTypeCorrect == WaitsForCoordinator => (Spec => []TypeOK)
<1>1. Base => TypeOK
  BY DEF Base, LinkInv, TypeOK
<1> QED
  BY <1>1, BaseInvariant, PTL

\* distribution_in_progress, which keeps UART data out of the page buffer, is up
\* exactly while distribute_process runs, and it never runs during admission.
THEOREM FlagCorrect == WaitsForCoordinator => (Spec => []FlagGuardsProcess)
<1>1. Base => FlagGuardsProcess
  BY DEF Base, CoordinatorInv
<1> QED
  BY <1>1, BaseInvariant, PTL

\* After admission the session holds only nodes that accepted the START: those
\* finish_start_admission kept, and what drop_silent_nodes keeps of them.
THEOREM ActiveNodesCorrect == WaitsForCoordinator => (Spec => []ActiveNodesAccepted)
<1>1. Base => ActiveNodesAccepted
  BY DEF Base, CoordinatorInv
<1> QED
  BY <1>1, BaseInvariant, PTL

-----------------------------------------------------------------------------
(* Admission drops no node that accepted.                                  *)

LEMMA FinishStays ==
  ASSUME CoordinatorTypeOK, IsInjective(session_nodes), NEW replied, NEW accepted,
         FinishStartAdmission(replied, accepted),
         NEW i \in DOMAIN session_nodes, replied[i], accepted[i]
  PROVE  session_nodes[i] \in ToSet(session_nodes')
<1> DEFINE S == {j \in DOMAIN session_nodes : replied[j] /\ accepted[j]}
<1>1. PICK kept \in InOrder(S) :
        /\ session_nodes' = CompactNodes(session_nodes, kept)
        /\ session_bitmaps' = CompactBitmaps(session_bitmaps, kept)
  BY DEF FinishStartAdmission
<1>2. CompactedTo(S, session_nodes', session_bitmaps')
  BY <1>1, Compaction
<1> QED
  BY <1>2 DEF CompactedTo, ToSet

LEMMA AdmissionKeepsAccepted ==
  ASSUME WaitsForCoordinator, ~StaleReports, Base, [Next]_vars,
         start_admission_in_progress, ~start_admission_in_progress',
         NEW i \in DOMAIN session_nodes, first_answer'[session_nodes[i]] = "accept"
  PROVE  session_nodes[i] \in ToSet(session_nodes')
<1>1. /\ CoordinatorTypeOK /\ IsInjective(session_nodes) /\ AdmissionTracked
      /\ commands = <<>>
      /\ \A j \in DOMAIN session_nodes : session_nodes[j] \in Nodes /\ j \in Index
  BY CoordinatorAssumption DEF Base, CoordinatorInv, CoordinatorTypeOK, AdmissionTracked, LinkInv,
     OneExchange, Index
<1>2. CASE AdmissionEnds
  <2>1. /\ FinishStartAdmission(node_replied, session_start_accepted)
        /\ first_answer' = first_answer
    BY <1>2 DEF AdmissionEnds, AdmissionTimeout
  <2>2. node_replied[i] /\ session_start_accepted[i]
    BY <1>1, <2>1 DEF AdmissionTracked
  <2> QED
    BY <1>1, <2>1, <2>2, FinishStays
<1>3. ASSUME NEW node \in Nodes, NEW accepted \in BOOLEAN, StartReport(node, accepted)
      PROVE  session_nodes[i] \in ToSet(session_nodes')
  <2>1. ~IgnoresStartReport(node)
    BY <1>3 DEF StartReport, HandleStartReport, sessionVars
  <2>2. PICK k \in FindSessionNode(node) :
          /\ node_replied' = [node_replied EXCEPT ![k] = TRUE]
          /\ session_start_accepted' = [session_start_accepted EXCEPT ![k] = accepted]
          /\ IF AllReplied(session_nodes, node_replied')
             THEN FinishStartAdmission(node_replied', session_start_accepted')
             ELSE UNCHANGED <<session_nodes, session_bitmaps, start_admission_in_progress,
                              transferVars, uart>>
    BY <1>3, <2>1 DEF StartReport, HandleStartReport
  <2>3. FinishStartAdmission(node_replied', session_start_accepted')
    BY <2>2
  <2>4. /\ k \in DOMAIN session_nodes /\ session_nodes[k] = node /\ ~node_replied[k]
        /\ first_answer[node] = "none"
        /\ \A j \in DOMAIN session_nodes : session_nodes[j] = node => j = k
    BY <1>1, <2>1, <2>2 DEF IgnoresStartReport, FindSessionNode, AdmissionTracked, IsInjective
  <2>5. first_answer' = [first_answer EXCEPT ![node] = IF accepted THEN "accept" ELSE "reject"]
    BY <1>3, <2>4 DEF StartReport
  <2>6. node_replied'[i] /\ session_start_accepted'[i]
    <3>1. CASE i = k
      <4>1. accepted
        BY <1>1, <2>4, <2>5, <3>1 DEF Base, LinkInv, LinkTypeOK
      <4> QED
        BY <1>1, <2>2, <3>1, <4>1 DEF CoordinatorTypeOK
    <3>2. CASE i # k
      <4>1. first_answer[session_nodes[i]] = "accept"
        BY <1>1, <2>4, <2>5, <3>2
      <4>2. node_replied[i] /\ session_start_accepted[i]
        BY <1>1, <4>1 DEF AdmissionTracked
      <4> QED
        BY <1>1, <2>2, <3>2, <4>2 DEF CoordinatorTypeOK
    <3> QED
      BY <3>1, <3>2
  <2> QED
    BY <1>1, <2>3, <2>6, FinishStays
<1>4. CASE HostStep
  BY <1>4 DEF HostStep, SenderStep, coordinatorOnlyVars, sessionVars
<1>5. CASE Command
  BY <1>1, <1>5 DEF Command, TakeCommand
<1>6. CASE TypedInvalidStart \/ LineDrains
  BY <1>6 DEF TypedInvalidStart, UartStartInvalidTarget, LineDrains, sessionVars
<1>7. CASE Distributes
  BY <1>1, <1>7, DistributeEffect DEF Distributes, Base, CoordinatorInv, ProcessLeaves
<1>8. ASSUME NEW node \in Nodes, NEW page \in Page, NEW bitmap, BitmapReport(node, page, bitmap)
      PROVE  start_admission_in_progress' = start_admission_in_progress
  BY <1>8 DEF BitmapReport, HandleBitmapReport, sessionVars
<1>9. CASE UNCHANGED vars
  BY <1>9 DEF vars, coordinatorVars, sessionVars
<1> QED
  BY <1>2, <1>3, <1>4, <1>5, <1>6, <1>7, <1>8, <1>9 DEF Next

\* finish_start_admission drops rejected and silent nodes and no others: unless an old
\* bitmap report comes in between, which shares node_replied with the START reports.
THEOREM AcceptedStayCorrect ==
  WaitsForCoordinator /\ ~StaleReports => (Spec => AcceptedNodesStay)
<1> SUFFICES ASSUME WaitsForCoordinator, ~StaleReports PROVE Spec => AcceptedNodesStay
  OBVIOUS
<1>1. Base /\ [Next]_vars =>
        [start_admission_in_progress /\ ~start_admission_in_progress' =>
           \A i \in DOMAIN session_nodes :
             first_answer'[session_nodes[i]] = "accept"
               => session_nodes[i] \in ToSet(session_nodes')]_vars
  BY AdmissionKeepsAccepted
<1> QED
  BY <1>1, BaseInvariant, PTL DEF Spec, AcceptedNodesStay

-----------------------------------------------------------------------------
(* Host and coordinator stay at the same place, when no answer is lost.    *)

ReliableAnswers == "answers" \notin LossyLinks

\* What the place depends on.
LEMMA SyncFrame ==
  ASSUME InSync,
         UNCHANGED <<host, commands, uart, current_file_size, start_admission_in_progress,
                     page_start_offset, page_bytes_received, page_buffer, total_chunks>>,
         end_pkt'.crc = end_pkt.crc, pc = "idle" <=> pc' = "idle",
         session_nodes # <<>> => session_nodes' # <<>>
  PROVE  InSync'
<1>1. /\ SameFile => SameFile'
      /\ Distributing => Distributing'
      /\ Distributed => Distributed'
      /\ LastChunk' = LastChunk
      /\ \A k \in {0, host.chunk, host.chunk + 1} : Receiving(k) => Receiving(k)'
  BY DEF SameFile, Distributing, Distributed, Receiving, LastChunk
<1>2. StartInSync'
  BY <1>1 DEF InSync, StartInSync
<1>3. DataInSync'
  BY <1>1 DEF InSync, DataInSync
<1>4. PageInSync'
  BY <1>1 DEF InSync, PageInSync
<1>5. ProcessInSync'
  BY DEF InSync, ProcessInSync
<1> QED
  BY <1>2, <1>3, <1>4, <1>5 DEF InSync

LEMMA AckThenPageOk == Append(<<"ACK">>, "PAGE_OK") = <<"ACK", "PAGE_OK">>
<1>1. ASSUME NEW s \in Seq(Texts), NEW t \in Texts
      PROVE  /\ Append(s, t) \in Seq(Texts) /\ Len(Append(s, t)) = Len(s) + 1
             /\ Append(s, t)[Len(s) + 1] = t
             /\ \A k \in 1 .. Len(s) : Append(s, t)[k] = s[k]
  OBVIOUS
<1>2. ASSUME NEW s \in Seq(Texts), NEW t \in Seq(Texts), Len(s) = 2, Len(t) = 2,
             s[1] = t[1], s[2] = t[2]
      PROVE  s = t
  <2>1. s \in [1 .. 2 -> Texts] /\ t \in [1 .. 2 -> Texts]
    BY <1>2
  <2>2. \A k \in 1 .. 2 : s[k] = t[k]
    <3>1. \A k \in 1 .. 2 : k = 1 \/ k = 2
      OBVIOUS
    <3> QED
      BY <1>2, <3>1
  <2> QED
    BY <2>1, <2>2
<1>3. /\ <<"ACK">> \in Seq(Texts) /\ Len(<<"ACK">>) = 1 /\ <<"ACK">>[1] = "ACK"
      /\ <<"ACK", "PAGE_OK">> \in Seq(Texts) /\ Len(<<"ACK", "PAGE_OK">>) = 2
      /\ <<"ACK", "PAGE_OK">>[1] = "ACK" /\ <<"ACK", "PAGE_OK">>[2] = "PAGE_OK"
      /\ "PAGE_OK" \in Texts
  BY DEF Texts
<1> DEFINE one == <<"ACK">>  two == <<"ACK", "PAGE_OK">>
<1>4. one \in Seq(Texts) /\ Len(one) = 1 /\ one[1] = "ACK" /\ "PAGE_OK" \in Texts
  BY <1>3
<1>5. two \in Seq(Texts) /\ Len(two) = 2 /\ two[1] = "ACK" /\ two[2] = "PAGE_OK"
  BY <1>3
<1> HIDE DEF one, two
<1>6. /\ Append(one, "PAGE_OK") \in Seq(Texts) /\ Len(Append(one, "PAGE_OK")) = 2
      /\ Append(one, "PAGE_OK")[1] = "ACK" /\ Append(one, "PAGE_OK")[2] = "PAGE_OK"
  <2>1. /\ Append(one, "PAGE_OK") \in Seq(Texts)
        /\ Len(Append(one, "PAGE_OK")) = Len(one) + 1
        /\ Append(one, "PAGE_OK")[Len(one) + 1] = "PAGE_OK"
        /\ \A k \in 1 .. Len(one) : Append(one, "PAGE_OK")[k] = one[k]
    BY <1>1, <1>4
  <2> QED
    BY <1>4, <2>1
<1>7. Append(one, "PAGE_OK") = two
  BY <1>2, <1>5, <1>6
<1> QED
  BY <1>7 DEF one, two

LEMMA AckTails ==
  /\ Head(<<"ACK">>) = "ACK" /\ Tail(<<"ACK">>) = <<>>
  /\ Head(<<"ACK", "PAGE_OK">>) = "ACK" /\ Tail(<<"ACK", "PAGE_OK">>) = <<"PAGE_OK">>
  /\ Head(<<"PAGE_OK">>) = "PAGE_OK" /\ Tail(<<"PAGE_OK">>) = <<>>
  /\ <<"ACK">> # <<"ACK", "PAGE_OK">>
OBVIOUS

\* The process starts with the page the script waits for, or still learns that it sent.
LEMMA EndsInSync ==
  ASSUME InSync, StartsIdle, Ends, UNCHANGED <<host, commands>>,
         ~start_admission_in_progress', session_nodes # <<>> => session_nodes' # <<>>
  PROVE  InSync'
<1>1. pc # "idle" /\ pc' = "idle" /\ uart' = Append(uart, "PAGE_OK") /\ host.at # "start"
  BY DEF Ends, Process, StartsIdle
<1>2. Distributing => Distributed' /\ LastChunk' = LastChunk
  BY <1>1 DEF Distributing, Distributed, SameFile, Ends, LastChunk
<1>3. DataInSync'
  <2> SUFFICES ASSUME host.at = "data" PROVE DataInSync'
    BY DEF DataInSync
  <2>1. uart = <<"ACK">> /\ commands = <<>> /\ LastChunk /\ Distributing
    BY <1>1 DEF InSync, DataInSync, Receiving, Distributed
  <2>2. uart' = <<"ACK", "PAGE_OK">>
    BY <1>1, <2>1, AckThenPageOk
  <2> QED
    BY <1>2, <2>1, <2>2 DEF DataInSync, LastChunk
<1>4. PageInSync'
  <2> SUFFICES ASSUME host.at = "page" PROVE PageInSync'
    BY DEF PageInSync
  <2>1. uart = <<>> /\ Distributing
    BY <1>1 DEF InSync, PageInSync, Distributed
  <2>2. uart' = <<"PAGE_OK">>
    BY <1>1, <2>1
  <2> QED
    BY <1>2, <2>1, <2>2 DEF PageInSync
<1> QED
  BY <1>1, <1>3, <1>4 DEF InSync, StartInSync, ProcessInSync

LEMMA DistributesInSync ==
  ASSUME Base, InSync, Distributes
  PROVE  InSync'
<1>1. /\ ProcessEffect /\ SessionEffect /\ ProcessLeaves
      /\ UNCHANGED <<host, commands>>
  BY DistributeEffect DEF Distributes, senderVars, Base, CoordinatorInv, AdmissionTracked
<1>2. session_nodes # <<>> => session_nodes' # <<>>
  <2>1. CASE UNCHANGED <<session_nodes, session_bitmaps>>
    BY <2>1
  <2>2. ASSUME NEW S \in SUBSET DOMAIN session_nodes, S # {},
               CompactedTo(S, session_nodes', session_bitmaps')
        PROVE  session_nodes' # <<>>
    BY <2>2 DEF CompactedTo
  <2> QED
    BY <1>1, <2>1, <2>2 DEF SessionEffect
<1>3. CASE Continues
  BY <1>1, <1>2, <1>3, SyncFrame DEF Continues, KeepsPlace, Process, ProcessLeaves
<1>4. CASE Ends
  <2>1. ~start_admission_in_progress'
    BY <1>1, <1>4 DEF Ends, Process, ProcessLeaves, Base, CoordinatorInv, FlagGuardsProcess
  <2> QED
    BY <1>1, <1>2, <1>4, <2>1, EndsInSync DEF Base
<1>5. CASE Rests
  BY <1>1, <1>2, <1>5, SyncFrame DEF Rests, KeepsPlace, processVars, ProcessLeaves
<1> QED
  BY <1>1, <1>3, <1>4, <1>5 DEF ProcessEffect

\* Admission ends while the script waits for the answer to its START.
LEMMA FinishInSync ==
  ASSUME Base, InSync, start_admission_in_progress, NEW replied, NEW accepted,
         FinishStartAdmission(replied, accepted),
         UNCHANGED <<host, commands, processVars, page_buffer>>
  PROVE  InSync'
<1>1. host.at = "start" /\ uart = <<>> /\ pc = "idle" /\ pc' = "idle"
  <2>1. host.at = "start" /\ NoReply(uart)
    BY DEF Base, LinkInv, OneExchange
  <2>2. pc = "idle"
    BY <2>1 DEF Base, StartsIdle
  <2> QED
    BY <2>1, <2>2 DEF InSync, StartInSync, NoReply, processVars
<1>2. /\ host.page = 0 /\ current_file_size = host.file.size
      /\ page_start_offset = 0 /\ page_bytes_received = 0
  BY <1>1 DEF InSync, StartInSync, SameFile
<1>3. /\ ~start_admission_in_progress'
      /\ \/ uart' = Append(uart, "NO_TARGETS")
         \/ session_nodes' # <<>> /\ UNCHANGED transferVars /\ uart' = Append(uart, "ACK")
  BY DEF FinishStartAdmission, Answer
<1>4. \/ uart' = <<"NO_TARGETS">>
      \/ session_nodes' # <<>> /\ UNCHANGED transferVars /\ uart' = <<"ACK">>
  BY <1>1, <1>3
<1>5. uart' = <<"ACK">> => Receiving(0)'
  BY <1>1, <1>2, <1>3, <1>4 DEF Receiving, SameFile, transferVars
<1>6. StartInSync'
  BY <1>2, <1>3, <1>4, <1>5 DEF StartInSync
<1> QED
  BY <1>1, <1>6 DEF InSync, DataInSync, PageInSync, ProcessInSync

LEMMA StartReportInSync ==
  ASSUME Base, InSync, NEW node \in Nodes, NEW accepted \in BOOLEAN, StartReport(node, accepted)
  PROVE  InSync'
<1>1. /\ UNCHANGED <<host, commands>> /\ HandleStartReport(node, accepted)
      /\ UNCHANGED <<processVars, page_buffer>>
  BY DEF StartReport, HandleStartReport, senderVars
<1>2. CASE IgnoresStartReport(node)
  <2>1. UNCHANGED <<sessionVars, transferVars, uart>>
    BY <1>1, <1>2 DEF HandleStartReport
  <2> QED
    BY <1>1, <2>1, SyncFrame DEF sessionVars, transferVars, processVars
<1>3. CASE ~IgnoresStartReport(node)
  <2>1. IF AllReplied(session_nodes, node_replied')
        THEN FinishStartAdmission(node_replied', session_start_accepted')
        ELSE UNCHANGED <<session_nodes, session_bitmaps, start_admission_in_progress,
                         transferVars, uart>>
    BY <1>1, <1>3 DEF HandleStartReport
  <2>2. CASE FinishStartAdmission(node_replied', session_start_accepted')
    <3>1. start_admission_in_progress
      BY <1>3 DEF IgnoresStartReport
    <3> QED
      BY <1>1, <2>2, <3>1, FinishInSync
  <2>3. CASE UNCHANGED <<session_nodes, start_admission_in_progress, transferVars, uart>>
    BY <1>1, <2>3, SyncFrame DEF transferVars, processVars
  <2> QED
    BY <2>1, <2>2, <2>3
<1> QED
  BY <1>2, <1>3

LEMMA BitmapReportInSync ==
  ASSUME InSync, NEW node \in Nodes, NEW page, NEW bitmap, BitmapReport(node, page, bitmap)
  PROVE  InSync'
<1>1. /\ UNCHANGED <<host, commands, uart, transferVars, processVars, page_buffer>>
      /\ UNCHANGED <<session_nodes, start_admission_in_progress>>
  BY DEF BitmapReport, HandleBitmapReport, senderVars, sessionVars
<1> QED
  BY <1>1, SyncFrame DEF transferVars, processVars

\* The page buffer holds what the host sent up to this chunk: the page, if it is the last.
LEMMA DataInSyncStep ==
  ASSUME Base, InSync, host.at = "data", commands # <<>>, commands' = <<>>, host' = host,
         UartData(host.page, host.chunk, host.file.data[host.page][host.chunk])
  PROVE  InSync'
<1> DEFINE data == host.file.data[host.page][host.chunk]
<1>1. uart = <<>> /\ Receiving(host.chunk)
  BY DEF InSync, DataInSync
<1>2. /\ session_nodes # <<>> /\ pc = "idle" /\ ~start_admission_in_progress
      /\ current_file_size = host.file.size /\ page_start_offset = host.page
      /\ page_bytes_received = host.chunk
      /\ \A c \in 0 .. host.chunk - 1 : page_buffer[c] = host.file.data[host.page][c]
  BY <1>1 DEF Receiving, SameFile
<1>3. /\ ~distribution_in_progress
      /\ host.chunk < PageLen(host.file.size, host.page)
      /\ host.page \in Page /\ host.chunk \in Chunk
  BY <1>2, HostFile DEF Base, CoordinatorInv, FlagGuardsProcess, LinkInv, OneExchange, HostState
<1>4. /\ ExpectedPageSize = PageLen(host.file.size, host.page)
      /\ ExpectedPageSize \in 0 .. PageChunks
  BY <1>2, PlaceType DEF ExpectedPageSize, Base
<1>5. AcceptsData(host.page, host.chunk)
  BY <1>2, <1>3, <1>4 DEF AcceptsData
<1>6. /\ page_buffer' = [page_buffer EXCEPT ![host.chunk] = data]
      /\ page_bytes_received' = host.chunk + 1
      /\ uart' = Append(uart, "ACK")
      /\ UNCHANGED <<session_nodes, start_admission_in_progress, current_file_size,
                     page_start_offset>>
      /\ \/ /\ host.chunk + 1 = ExpectedPageSize
            /\ pc' = "chunk" /\ total_chunks' = ExpectedPageSize
            /\ end_pkt' = PageEndPkt(page_start_offset, Prefix(page_buffer', ExpectedPageSize),
                                     ota_target_slot)
         \/ host.chunk + 1 # ExpectedPageSize /\ pc' = pc
  BY <1>2, <1>5, DataAccepted DEF Base, processVars
<1>7. uart' = <<"ACK">>
  BY <1>1, <1>6
<1>8. \A c \in 0 .. host.chunk : page_buffer'[c] = host.file.data[host.page][c]
  <2>1. page_buffer \in [Chunk -> Cell] /\ host.chunk \in Nat /\ host.chunk < PageChunks
    BY <1>3, WireAssumption DEF Base, CoordinatorTypeOK, Chunk
  <2>2. page_buffer'[host.chunk] = data
    BY <1>3, <1>6, <2>1
  <2>3. ASSUME NEW c \in 0 .. host.chunk - 1 PROVE page_buffer'[c] = host.file.data[host.page][c]
    <3>1. c \in Chunk /\ c # host.chunk
      BY <2>1, WireAssumption DEF Chunk
    <3> QED
      BY <1>2, <1>6, <2>1, <3>1
  <2>4. \A c \in 0 .. host.chunk : c = host.chunk \/ c \in 0 .. host.chunk - 1
    BY <2>1
  <2> QED
    BY <2>2, <2>3, <2>4
<1>9. CASE host.chunk + 1 # ExpectedPageSize
  <2>1. Receiving(host.chunk + 1)' /\ ~LastChunk' /\ pc' = "idle"
    <3>1. \A c \in 0 .. (host.chunk + 1) - 1 : page_buffer'[c] = host.file.data[host.page][c]
      <4>1. (host.chunk + 1) - 1 = host.chunk
        BY <1>3 DEF Chunk
      <4> QED
        BY <1>8, <4>1
    <3> QED
      BY <1>2, <1>4, <1>6, <1>9, <3>1 DEF Receiving, SameFile, LastChunk
  <2> QED
    BY <1>7, <2>1 DEF InSync, StartInSync, DataInSync, PageInSync, ProcessInSync
<1>10. CASE host.chunk + 1 = ExpectedPageSize
  <2>1. /\ pc' = "chunk" /\ total_chunks' = ExpectedPageSize
        /\ end_pkt'.crc = Prefix(page_buffer', ExpectedPageSize)
    BY <1>6, <1>10 DEF PageEndPkt
  <2>2. Distributing' /\ LastChunk'
    BY <1>2, <1>4, <1>6, <1>10, <2>1 DEF Distributing, SameFile, LastChunk
  <2>3. Prefix(page_buffer', ExpectedPageSize) = ImagePage(host.file, host.page)
    <3>1. \A c \in 0 .. ExpectedPageSize - 1 : page_buffer'[c] = host.file.data[host.page][c]
      <4>1. ExpectedPageSize - 1 = host.chunk
        BY <1>3, <1>4, <1>10 DEF Chunk
      <4> QED
        BY <1>8, <4>1
    <3> QED
      BY <1>4, <3>1 DEF Prefix, ImagePage
  <2>4. ProcessInSync'
    BY <1>2, <1>6, <2>1, <2>3 DEF ProcessInSync
  <2> QED
    BY <1>7, <2>2, <2>4 DEF InSync, StartInSync, DataInSync, PageInSync
<1> QED
  BY <1>9, <1>10

LEMMA CommandInSync ==
  ASSUME Base, InSync, Command
  PROVE  InSync'
<1> DEFINE cmd == Head(commands)
<1>1. /\ commands # <<>> /\ commands' = <<>> /\ UNCHANGED host
      /\ ~start_admission_in_progress /\ NoReply(uart)
      /\ CommandOfHost /\ OneExchange
  BY DEF Command, TakeCommand, Base, LinkInv, CommandOfHost, OneExchange
<1>2. CASE cmd.type = "S"
  <2>1. PICK sec_ver \in SecVers : host.at = "start" /\ cmd = StartCmd(host.file, sec_ver, host.target)
    BY <1>1, <1>2 DEF CommandOfHost, StartCmd, DataCmd, VerifyCmd
  <2>2. PICK table \in RouteTables : UartStart(table, host.file.size, sec_ver, host.target)
    BY <1>2, <2>1 DEF Command, TakeCommand, StartCmd
  <2>3. uart = <<>> /\ host.page = 0 /\ pc = "idle" /\ pc' = "idle"
    BY <1>1, <2>1, <2>2 DEF InSync, StartInSync, NoReply, Base, StartsIdle, UartStart, processVars
  <2>4. \/ ~start_admission_in_progress' /\ uart' = <<"NO_TARGETS">>
        \/ session_nodes' # <<>> /\ ResetTransferState(host.file.size) /\ uart' = <<>>
    BY <2>2, <2>3 DEF UartStart, Answer
  <2>5. StartInSync'
    <3>1. CASE ~start_admission_in_progress' /\ uart' = <<"NO_TARGETS">>
      BY <1>1, <2>3, <3>1 DEF StartInSync
    <3>2. CASE session_nodes' # <<>> /\ ResetTransferState(host.file.size) /\ uart' = <<>>
      <4>1. /\ current_file_size' = host.file.size
            /\ page_start_offset' = 0 /\ page_bytes_received' = 0
        BY <3>2 DEF ResetTransferState
      <4> QED
        BY <1>1, <2>3, <3>2, <4>1 DEF StartInSync, SameFile
    <3> QED
      BY <2>4, <3>1, <3>2
  <2> QED
    BY <1>1, <2>1, <2>3, <2>5 DEF InSync, DataInSync, PageInSync, ProcessInSync
<1>3. CASE cmd.type = "D" /\ UartData(cmd.page, cmd.chunk, cmd.data)
  <2>1. host.at = "data" /\ cmd = DataCmd(host.file, host.page, host.chunk)
    BY <1>1, <1>3 DEF CommandOfHost, StartCmd, DataCmd, VerifyCmd
  <2>2. /\ cmd.page = host.page /\ cmd.chunk = host.chunk
        /\ cmd.data = host.file.data[host.page][host.chunk]
    BY <2>1 DEF DataCmd
  <2> QED
    BY <1>1, <1>3, <2>1, <2>2, DataInSyncStep
<1>4. CASE cmd.type = "V" /\ UartVerify(cmd.crc)
  <2>1. host.at = "verify"
    BY <1>1, <1>4 DEF CommandOfHost, StartCmd, DataCmd, VerifyCmd
  <2>2. UNCHANGED <<pc, end_pkt, page_start_offset, page_buffer, total_chunks>>
    BY <1>4 DEF UartVerify, transferVars, processVars
  <2> QED
    BY <1>1, <2>1, <2>2 DEF InSync, StartInSync, DataInSync, PageInSync, ProcessInSync
<1> QED
  BY <1>2, <1>3, <1>4 DEF Command, TakeCommand

LEMMA TypedInvalidStartInSync ==
  ASSUME WaitsForCoordinator, InSync, TypedInvalidStart
  PROVE  InSync'
<1>1. host.at \in {"off", "done", "failed"} /\ host' = host /\ pc = "idle" /\ pc' = "idle"
  BY DEF TypedInvalidStart, UartStartInvalidTarget, WaitsForCoordinator, CoordinatorBusy,
     processVars
<1> QED
  BY <1>1 DEF InSync, StartInSync, DataInSync, PageInSync, ProcessInSync

\* What the script reads tells it the place the coordinator is at.
LEMMA ReadLineInSync ==
  ASSUME Base, InSync, ReadLine, UNCHANGED coordinatorOnlyVars
  PROVE  InSync'
<1> DEFINE text == Head(uart)
<1>1. /\ UNCHANGED <<session_nodes, start_admission_in_progress, current_file_size,
                     page_start_offset, page_bytes_received, page_buffer, pc, total_chunks,
                     end_pkt>>
      /\ uart # <<>> /\ uart' = Tail(uart)
  BY DEF ReadLine, coordinatorOnlyVars, sessionVars, transferVars, processVars
<1>2. /\ host \in HostState /\ 0 \in Page /\ 0 \in Chunk
      /\ host.at = "data" => host.chunk < PageLen(host.file.size, host.page)
  BY HostFile DEF Base, LinkInv, OneExchange
<1>3. host'.file = host.file => ProcessInSync'
  BY <1>1 DEF InSync, ProcessInSync
<1>4. CASE ReadInStart(text)
  <2>1. host.at = "start" /\ pc = "idle" /\ host.page = 0
    BY <1>4 DEF ReadInStart, Base, StartsIdle, InSync, StartInSync
  <2>2. CASE text = "ACK" /\ Send(DataAt(0, 0))
    <3>1. uart = <<"ACK">> /\ Receiving(0)
      BY <1>1, <2>1, <2>2 DEF InSync, StartInSync
    <3>2. uart' = <<>>
      BY <1>1, <3>1
    <3>3. /\ host' = DataAt(0, 0) /\ host'.at = "data" /\ host'.page = 0 /\ host'.chunk = 0
          /\ host'.file = host.file
      BY <1>2, <2>2 DEF Send, DataAt, HostState
    <3>4. Receiving(0)'
      BY <1>1, <2>1, <3>1, <3>3 DEF Receiving, SameFile
    <3>5. Receiving(host.chunk)'
      BY <3>3, <3>4
    <3> QED
      BY <1>3, <3>2, <3>3, <3>5 DEF InSync, StartInSync, DataInSync, PageInSync
  <2>3. CASE Become("done")
    <3>1. host'.at = "done"
      BY <1>2, <2>3 DEF Become, HostState
    <3> QED
      BY <1>1, <2>1, <3>1 DEF InSync, StartInSync, DataInSync, PageInSync, ProcessInSync
  <2> QED
    BY <1>4, <2>2, <2>3 DEF ReadInStart
<1>5. CASE ReadInData(text)
  <2>1. host.at = "data" /\ text = "ACK" /\ host.chunk \in Nat
    BY <1>2, <1>5 DEF ReadInData, HostState, Chunk
  <2>2. CASE /\ Send(DataAt(host.page, host.chunk + 1))
             /\ host.chunk + 1 < PageLen(host.file.size, host.page)
    <3>1. uart = <<"ACK">> /\ Receiving(host.chunk + 1)
      BY <1>1, <2>1, <2>2, AckTails DEF InSync, DataInSync, LastChunk
    <3>2. /\ host'.at = "data" /\ host'.page = host.page /\ host'.chunk = host.chunk + 1
          /\ host'.file = host.file /\ uart' = <<>>
      BY <1>1, <1>2, <2>2, <3>1 DEF Send, DataAt, HostState
    <3>3. Receiving(host.chunk)'
      BY <1>1, <3>1, <3>2 DEF Receiving, SameFile
    <3> QED
      BY <1>3, <3>2, <3>3 DEF InSync, StartInSync, DataInSync, PageInSync
  <2>3. CASE /\ Become("page")
             /\ ~(host.chunk + 1 < PageLen(host.file.size, host.page))
    <3>1. /\ host'.at = "page" /\ host'.page = host.page /\ host'.file = host.file
      BY <1>2, <2>3 DEF Become, HostState
    <3>2. LastChunk
      <4>1. host.file.size \in Size /\ host.page \in Nat
        BY <1>2, HostFile, WireAssumption DEF Base, LinkInv, FileSize, HostState, Page
      <4>2. PageLen(host.file.size, host.page) \in Nat
        BY <4>1, PageLenType, WireAssumption
      <4> QED
        BY <1>2, <2>1, <2>3, <4>2 DEF LastChunk
    <3>3. \/ uart' = <<>> /\ Distributing
          \/ uart' = <<"PAGE_OK">> /\ Distributed
      BY <1>1, <2>1, <3>2, AckTails DEF InSync, DataInSync
    <3>4. \/ uart' = <<>> /\ Distributing'
          \/ uart' = <<"PAGE_OK">> /\ Distributed'
      BY <1>1, <3>1, <3>3 DEF Distributing, Distributed, SameFile
    <3> QED
      BY <1>3, <3>1, <3>4 DEF InSync, StartInSync, DataInSync, PageInSync
  <2> QED
    BY <1>5, <2>2, <2>3 DEF ReadInData
<1>6. CASE ReadInPage(text)
  <2>1. host.at = "page" /\ text = "PAGE_OK"
    BY <1>6 DEF ReadInPage
  <2>2. uart' = <<>> /\ Distributed
    BY <1>1, <2>1, AckTails DEF InSync, PageInSync
  <2>3. CASE Send(DataAt(host.page + 1, 0))
    <3>1. /\ host'.at = "data" /\ host'.page = host.page + 1 /\ host'.chunk = 0
          /\ host'.file = host.file
      BY <1>2, <2>3 DEF Send, DataAt, HostState
    <3>2. Receiving(host.chunk)'
      BY <1>1, <2>2, <3>1 DEF Receiving, Distributed, SameFile
    <3> QED
      BY <1>3, <2>2, <3>1, <3>2 DEF InSync, StartInSync, DataInSync, PageInSync
  <2>4. CASE Send([host EXCEPT !.at = "verify", !.attempt = 1])
    <3>1. host'.at = "verify" /\ host'.file = host.file
      BY <1>2, <2>4 DEF Send, HostState
    <3> QED
      BY <1>3, <3>1 DEF InSync, StartInSync, DataInSync, PageInSync
  <2> QED
    BY <1>6, <2>3, <2>4 DEF ReadInPage
<1>7. CASE ReadInVerify(text)
  <2>1. host'.at = "done" /\ host'.file = host.file
    BY <1>2, <1>7 DEF ReadInVerify, Become, HostState
  <2> QED
    BY <1>3, <2>1 DEF InSync, StartInSync, DataInSync, PageInSync
<1>8. CASE ~Understands(text) /\ UNCHANGED <<host, commands>>
  <2>1. host.at \notin {"start", "data", "page"}
    BY <1>1, <1>8, AckTails DEF InSync, StartInSync, DataInSync, PageInSync, Understands
  <2> QED
    BY <1>3, <1>8, <2>1 DEF InSync, StartInSync, DataInSync, PageInSync
<1> QED
  BY <1>4, <1>5, <1>6, <1>7, <1>8 DEF ReadLine

LEMMA HostStepInSync ==
  ASSUME WaitsForCoordinator, ReliableAnswers, Base, InSync, HostStep
  PROVE  InSync'
<1>1. /\ UNCHANGED <<session_nodes, start_admission_in_progress, current_file_size,
                     page_start_offset, page_bytes_received, page_buffer, pc, total_chunks,
                     end_pkt>>
      /\ UNCHANGED coordinatorOnlyVars /\ SenderOnly
  BY DEF HostStep, SenderStep, coordinatorOnlyVars, sessionVars, transferVars, processVars
<1>2. host \in HostState
  BY HostFile DEF Base, LinkInv
<1>3. ASSUME NEW img \in Images, NEW sec_ver \in SecVers, NEW target \in SentTargets,
             RunScript(img, sec_ver, target)
      PROVE  InSync'
  <2>1. /\ pc = "idle" /\ host.at \in {"off", "done", "failed"} /\ uart' = <<>>
        /\ host'.at = "start" /\ host'.page = 0
    BY <1>2, <1>3 DEF RunScript, CoordinatorBusy, WaitsForCoordinator, HostState
  <2>2. ~start_admission_in_progress
    BY <2>1 DEF Base, LinkInv, OneExchange
  <2>3. StartInSync'
    BY <1>1, <2>1, <2>2 DEF StartInSync
  <2> QED
    BY <1>1, <2>1, <2>3 DEF InSync, DataInSync, PageInSync, ProcessInSync
<1>4. CASE CommandTimeout
  <2>1. host.at \in {"data", "verify"} /\ uart = <<>> /\ uart' = <<>>
    BY <1>4 DEF CommandTimeout, NothingOnLink
  <2>2. CASE Send([host EXCEPT !.attempt = host.attempt + 1])
    <3>1. /\ host'.at = host.at /\ host'.file = host.file /\ host'.page = host.page
          /\ host'.chunk = host.chunk
      BY <1>2, <2>2 DEF Send, HostState
    <3>2. host.at = "data" => Receiving(host.chunk)
      BY <2>1 DEF InSync, DataInSync
    <3>3. host.at = "data" => Receiving(host.chunk)'
      BY <1>1, <3>1, <3>2 DEF Receiving, SameFile
    <3> QED
      BY <1>1, <2>1, <3>1, <3>3 DEF InSync, StartInSync, DataInSync, PageInSync, ProcessInSync
  <2>3. CASE Become("failed")
    <3>1. host'.at = "failed" /\ host'.file = host.file
      BY <1>2, <2>3 DEF Become, HostState
    <3> QED
      BY <1>1, <3>1 DEF InSync, StartInSync, DataInSync, PageInSync, ProcessInSync
  <2> QED
    BY <1>4, <2>2, <2>3 DEF CommandTimeout
<1>5. CASE StartTimeout \/ PageTimeout
  <2>1. host'.at = "failed" /\ host'.file = host.file
    BY <1>2, <1>5 DEF StartTimeout, PageTimeout, Become, HostState
  <2> QED
    BY <1>1, <2>1 DEF InSync, StartInSync, DataInSync, PageInSync, ProcessInSync
<1>6. CASE LinkLoses
  <2>1. UNCHANGED <<host, uart>> /\ commands # <<>>
    BY <1>6 DEF LinkLoses, ReliableAnswers
  <2>2. commands' = <<>>
    BY <1>6, <2>1 DEF LinkLoses, ReliableAnswers, Base, LinkInv, CommandOfHost
  <2>3. /\ \A k \in {0, host.chunk, host.chunk + 1} : Receiving(k) => Receiving(k)'
        /\ Distributing => Distributing'
        /\ Distributed => Distributed'
        /\ LastChunk' = LastChunk
    BY <1>1, <2>1 DEF Receiving, Distributing, Distributed, SameFile, LastChunk
  <2>4. StartInSync'
    BY <1>1, <2>1, <2>3 DEF InSync, StartInSync, SameFile
  <2>5. DataInSync' /\ PageInSync'
    BY <2>1, <2>2, <2>3 DEF InSync, DataInSync, PageInSync
  <2> QED
    BY <1>1, <2>1, <2>4, <2>5 DEF InSync, ProcessInSync
<1> QED
  BY <1>1, <1>3, <1>4, <1>5, <1>6, ReadLineInSync DEF SenderOnly

LEMMA InSyncStep ==
  ASSUME WaitsForCoordinator, ReliableAnswers, Base, InSync, [Next]_vars
  PROVE  InSync'
<1>1. CASE HostStep
  BY <1>1, HostStepInSync
<1>2. CASE Command
  BY <1>2, CommandInSync
<1>3. CASE TypedInvalidStart
  BY <1>3, TypedInvalidStartInSync
<1>4. CASE AdmissionEnds
  <2>1. /\ start_admission_in_progress
        /\ FinishStartAdmission(node_replied, session_start_accepted)
        /\ UNCHANGED <<host, commands, processVars, page_buffer>>
    BY <1>4 DEF AdmissionEnds, AdmissionTimeout, senderVars
  <2> QED
    BY <2>1, FinishInSync
<1>5. CASE Distributes
  BY <1>5, DistributesInSync
<1>6. CASE LineDrains
  BY <1>6, SyncFrame DEF LineDrains, senderVars, sessionVars, transferVars, processVars
<1>7. ASSUME NEW node \in Nodes, NEW accepted \in BOOLEAN, StartReport(node, accepted)
      PROVE  InSync'
  BY <1>7, StartReportInSync
<1>8. ASSUME NEW node \in Nodes, NEW page, NEW bitmap, BitmapReport(node, page, bitmap)
      PROVE  InSync'
  BY <1>8, BitmapReportInSync
<1>9. CASE UNCHANGED vars
  BY <1>9, SyncFrame DEF vars, coordinatorVars, senderVars, sessionVars, transferVars, processVars
<1> QED
  BY <1>1, <1>2, <1>3, <1>4, <1>5, <1>6, <1>7, <1>8, <1>9 DEF Next

LEMMA SyncInvariant == WaitsForCoordinator /\ ReliableAnswers => (Spec => [](Base /\ InSync))
<1> SUFFICES ASSUME WaitsForCoordinator, ReliableAnswers PROVE Spec => [](Base /\ InSync)
  OBVIOUS
<1>1. Init => Base /\ InSync
  <2> SUFFICES ASSUME Init PROVE InSync
    BY BaseInit
  <2>1. host.at = "off" /\ pc = "idle"
    BY DEF Init, SenderInit, CoordinatorInit
  <2> QED
    BY <2>1 DEF InSync, StartInSync, DataInSync, PageInSync, ProcessInSync
<1>2. Base /\ InSync /\ [Next]_vars => Base' /\ InSync'
  BY BaseStep, InSyncStep
<1> QED
  BY <1>1, <1>2, PTL DEF Spec

\* The invariant of the whole: also of a link that loses commands, and without its
\* last part of one that loses answers.
THEOREM UartInvariant == WaitsForCoordinator => (Spec => []IInv)
<1> SUFFICES ASSUME WaitsForCoordinator PROVE Spec => []IInv
  OBVIOUS
<1>1. CASE ReliableAnswers
  <2>1. Base /\ InSync => IInv
    BY DEF Base, LinkInv, IInv, TypeOK
  <2> QED
    BY <1>1, <2>1, SyncInvariant, PTL
<1>2. CASE ~ReliableAnswers
  <2>1. Base => IInv
    BY <1>2 DEF Base, LinkInv, IInv, TypeOK, ReliableAnswers
  <2> QED
    BY <2>1, BaseInvariant, PTL
<1> QED
  BY <1>1, <1>2

\* A chunk the host was told is acknowledged is in the page buffer and counted once:
\* when no answer is on its way, host and coordinator agree on their place in the file.
THEOREM AcknowledgedCorrect ==
  WaitsForCoordinator /\ ReliableAnswers => (Spec => []AcknowledgedChunksBuffered)
<1>1. Base /\ InSync => AcknowledgedChunksBuffered
  BY DEF Base, CoordinatorInv, FlagGuardsProcess, InSync, DataInSync, Receiving, SameFile,
     AcknowledgedChunksBuffered
<1> QED
  BY <1>1, SyncInvariant, PTL

-----------------------------------------------------------------------------
(* What FW:PAGE_OK says.                                                   *)

\* Only the process ends itself.
LEMMA PageOkDistributes ==
  ASSUME Base, [Next]_vars, PageOk
  PROVE  Distributes
<1>1. pc # "idle" /\ pc' = "idle"
  BY DEF PageOk
<1>2. CASE HostStep
  BY <1>1, <1>2 DEF HostStep, SenderStep, coordinatorOnlyVars, processVars
<1>3. CASE Command
  <2>1. CASE Head(commands).type = "D"
    <3>1. PICK page, chunk, data : UartData(page, chunk, data)
      BY <1>3, <2>1 DEF Command, TakeCommand
    <3> QED
      BY <1>1, <3>1, DataRefused, DataAccepted DEF Base, processVars
  <2>2. CASE Head(commands).type # "D"
    BY <1>1, <1>3, <2>2 DEF Command, TakeCommand, UartStart, UartVerify, processVars
  <2> QED
    BY <2>1, <2>2
<1>4. CASE TypedInvalidStart \/ LineDrains
  BY <1>1, <1>4 DEF TypedInvalidStart, UartStartInvalidTarget, LineDrains, processVars
<1>5. CASE AdmissionEnds
  BY <1>1, <1>5 DEF AdmissionEnds, AdmissionTimeout, processVars
<1>6. ASSUME NEW node \in Nodes, NEW accepted \in BOOLEAN, StartReport(node, accepted)
      PROVE  pc' = pc
  BY <1>6 DEF StartReport, HandleStartReport, processVars
<1>7. ASSUME NEW node \in Nodes, NEW page \in Page, NEW bitmap, BitmapReport(node, page, bitmap)
      PROVE  pc' = pc
  BY <1>7 DEF BitmapReport, HandleBitmapReport, processVars
<1>8. CASE UNCHANGED vars
  BY <1>1, <1>8 DEF vars, coordinatorVars, processVars
<1> QED
  BY <1>1, <1>2, <1>3, <1>4, <1>5, <1>6, <1>7, <1>8 DEF Next

LEMMA PageOkStep ==
  ASSUME Base, InSync, [Next]_vars, PageOk
  PROVE  /\ end_pkt.crc = ImagePage(host.file, page_start_offset)
         /\ Prefix(page_buffer, total_chunks) = ImagePage(host.file, page_start_offset)
         /\ \/ recovery_round = MaxRounds /\ pc = "resend"
            \/ \A i \in DOMAIN session_nodes' : session_nodes'[i] \in complete
<1>1. pc # "idle" /\ pc' = "idle"
  BY DEF PageOk
<1>2. Distributes
  BY PageOkDistributes
<1>3. /\ ProcessEffect /\ SessionEffect
      /\ CoordinatorInv' /\ BitmapsOfNodes
  BY <1>2, DistributeEffect, DistributesKeeps DEF Distributes, Base, CoordinatorInv,
     AdmissionTracked
<1>4. total_chunks' = total_chunks /\ (PageDone \/ GivesUp)
  BY <1>1, <1>3 DEF ProcessEffect, Continues, Ends, Rests, Process, processVars
<1>5. ASSUME PageDone PROVE \A i \in DOMAIN session_nodes' : session_nodes'[i] \in complete
  <2>1. \A w \in DOMAIN session_nodes' : \E i \in DOMAIN session_nodes :
          /\ session_nodes'[w] = session_nodes[i]
          /\ session_bitmaps'[w] = session_bitmaps[i]
    BY <1>3 DEF SessionEffect, CompactedTo
  <2>2. \A w \in DOMAIN session_nodes' : 0 .. total_chunks - 1 \subseteq session_bitmaps'[w]
    BY <1>4, <1>5 DEF PageDone, PageIsComplete
  <2> QED
    BY <1>1, <1>3, <2>1, <2>2 DEF BitmapsOfNodes
<1> QED
  BY <1>1, <1>4, <1>5 DEF GivesUp, InSync, ProcessInSync

\* FW:PAGE_OK means what README.md:310 says of it: the page that went out, and whose CRC
\* PAGE_END carried, is the host's, and every node of the session reported all of it,
\* unless the process gave up after its last round.
THEOREM PageOkCorrect ==
  WaitsForCoordinator /\ ReliableAnswers => (Spec => PageOkMeansDistributed)
<1> SUFFICES ASSUME WaitsForCoordinator, ReliableAnswers PROVE Spec => PageOkMeansDistributed
  OBVIOUS
<1>1. Base /\ InSync /\ [Next]_vars =>
        [PageOk =>
           /\ end_pkt.crc = ImagePage(host.file, page_start_offset)
           /\ Prefix(page_buffer, total_chunks) = ImagePage(host.file, page_start_offset)
           /\ \/ recovery_round = MaxRounds /\ pc = "resend"
              \/ \A i \in DOMAIN session_nodes' : session_nodes'[i] \in complete]_vars
  BY PageOkStep
<1> QED
  BY <1>1, SyncInvariant, PTL DEF Spec, PageOkMeansDistributed

-----------------------------------------------------------------------------
(* No page is skipped.                                                     *)

LEMMA PageNotSkipped ==
  ASSUME WaitsForCoordinator, Base, [Next]_vars, page_start_offset' > page_start_offset
  PROVE  page_bytes_received = ExpectedPageSize
<1>1. page_start_offset \in Nat
  BY PlaceType DEF Base
<1>2. ASSUME NEW size, ResetTransferState(size) PROVE FALSE
  BY <1>1, <1>2 DEF ResetTransferState
<1>3. page_start_offset' # page_start_offset
  BY <1>1
<1>4. ASSUME NEW replied, NEW accepted, FinishStartAdmission(replied, accepted) PROVE FALSE
  BY <1>2, <1>3, <1>4 DEF FinishStartAdmission, transferVars
<1>5. CASE HostStep
  BY <1>3, <1>5 DEF HostStep, SenderStep, coordinatorOnlyVars, transferVars
<1>6. CASE Command
  <2>1. CASE Head(commands).type = "S"
    BY <1>2, <1>6, <2>1 DEF Command, TakeCommand, UartStart
  <2>2. CASE Head(commands).type # "S"
    BY <1>3, <1>6, <2>2 DEF Command, TakeCommand, UartData, UartVerify, transferVars
  <2> QED
    BY <2>1, <2>2
<1>7. CASE TypedInvalidStart
  BY <1>2, <1>7 DEF TypedInvalidStart, UartStartInvalidTarget
<1>8. CASE AdmissionEnds
  BY <1>4, <1>8 DEF AdmissionEnds, AdmissionTimeout
<1>9. CASE Distributes
  <2>1. ProcessEffect
    BY <1>9, DistributeEffect DEF Distributes, Base, CoordinatorInv, AdmissionTracked
  <2>2. Ends
    BY <1>3, <2>1 DEF ProcessEffect, Continues, Rests, KeepsPlace
  <2> QED
    BY <2>2 DEF Ends, Process, Base, CoordinatorInv, ProcessHasPage
<1>10. CASE LineDrains
  BY <1>3, <1>10 DEF LineDrains, transferVars
<1>11. ASSUME NEW node \in Nodes, NEW accepted \in BOOLEAN, StartReport(node, accepted)
       PROVE  FALSE
  <2>1. CASE IgnoresStartReport(node)
    BY <1>3, <1>11, <2>1 DEF StartReport, HandleStartReport, transferVars
  <2>2. CASE ~IgnoresStartReport(node)
    BY <1>3, <1>4, <1>11, <2>2 DEF StartReport, HandleStartReport, transferVars
  <2> QED
    BY <2>1, <2>2
<1>12. ASSUME NEW node \in Nodes, NEW page \in Page, NEW bitmap, BitmapReport(node, page, bitmap)
       PROVE  FALSE
  BY <1>3, <1>12 DEF BitmapReport, HandleBitmapReport, transferVars
<1>13. CASE UNCHANGED vars
  BY <1>3, <1>13 DEF vars, coordinatorVars, transferVars
<1> QED
  BY <1>5, <1>6, <1>7, <1>8, <1>9, <1>10, <1>11, <1>12, <1>13 DEF Next

\* advance_page moves on only from a page the host has sent in full, as long as the script
\* is not run again in the middle of a distribution: the run uart_restart does that.
THEOREM NoPageSkippedCorrect == WaitsForCoordinator => (Spec => NoPageSkipped)
<1> SUFFICES ASSUME WaitsForCoordinator PROVE Spec => NoPageSkipped
  OBVIOUS
<1>1. Base /\ [Next]_vars =>
        [page_start_offset' > page_start_offset => page_bytes_received = ExpectedPageSize]_vars
  BY PageNotSkipped
<1> QED
  BY <1>1, BaseInvariant, PTL DEF Spec, NoPageSkipped
=============================================================================
