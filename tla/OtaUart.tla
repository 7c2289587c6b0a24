------------------------------- MODULE OtaUart -------------------------------
(***************************************************************************)
(* The host script, the serial link and the coordinator, with sensor nodes *)
(* that may answer anything, at any time, or not at all.                   *)
(***************************************************************************)
EXTENDS UartSender

CONSTANTS StaleReports   \* whether a bitmap report may arrive while nodes are admitted

ASSUME UartAssumption == StaleReports \in BOOLEAN

VARIABLES first_answer,  \* what each node answered first to the current START
          complete       \* the nodes that reported every chunk of the current page

vars == <<coordinatorVars, senderVars, first_answer, complete>>

Init ==
  /\ CoordinatorInit /\ SenderInit
  /\ first_answer = [node \in Nodes |-> "none"]
  /\ complete = {}

HostStep == SenderStep /\ UNCHANGED <<first_answer, complete>>

Command ==
  /\ TakeCommand
  /\ first_answer' = IF Head(commands).type = "S" THEN [node \in Nodes |-> "none"]
                     ELSE first_answer
  /\ complete' = IF pc = "idle" /\ pc' # "idle" THEN {} ELSE complete

\* Somebody types a START for a target that does not exist.
TypedInvalidStart ==
  /\ host.at \in {"off", "done", "failed"} /\ starts < MaxStarts
  /\ CoordinatorBusy => BusyStarts
  /\ starts' = starts + 1
  /\ UartStartInvalidTarget
  /\ UNCHANGED <<host, commands, losses, first_answer, complete>>

AdmissionEnds ==
  AdmissionTimeout /\ UNCHANGED <<senderVars, first_answer, complete>>

StartReport(node, accepted) ==
  /\ HandleStartReport(node, accepted)
  /\ first_answer' = IF start_admission_in_progress /\ first_answer[node] = "none"
                     THEN [first_answer EXCEPT ![node] = IF accepted THEN "accept" ELSE "reject"]
                     ELSE first_answer
  /\ UNCHANGED <<senderVars, complete>>

BitmapReport(node, page, bitmap) ==
  /\ start_admission_in_progress => StaleReports
  /\ HandleBitmapReport(node, page, bitmap)
  /\ complete' = IF page = page_start_offset /\ 0 .. total_chunks - 1 \subseteq bitmap
                 THEN complete \cup {node} ELSE complete
  /\ UNCHANGED <<senderVars, first_answer>>

Distributes == Distribute /\ UNCHANGED <<senderVars, first_answer, complete>>

\* The next hop acknowledges a packet, or the MAC gives up on it.
LineDrains ==
  /\ line # <<>>
  /\ line' = Tail(line)
  /\ UNCHANGED <<sessionVars, transferVars, processVars, ota_target_slot, page_buffer,
                 bitmap_event, uart, senderVars, first_answer, complete>>

Next ==
  \/ HostStep \/ Command \/ TypedInvalidStart
  \/ AdmissionEnds \/ Distributes \/ LineDrains
  \/ \E node \in Nodes, accepted \in BOOLEAN : StartReport(node, accepted)
  \/ \E node \in Nodes, page \in Page, bitmap \in SUBSET Chunk : BitmapReport(node, page, bitmap)

Spec == Init /\ [][Next]_vars

\* Processes and timers run, the queue drains, and a node that is asked for a
\* report again and again answers in the end.
Fairness ==
  /\ WF_vars(Distributes) /\ WF_vars(LineDrains)
  /\ \A node \in Nodes :
       WF_vars(pc \in {"wait", "pageEnd"} /\ \E bitmap \in SUBSET Chunk :
                                 BitmapReport(node, page_start_offset, bitmap))

FairSpec == Spec /\ Fairness

-----------------------------------------------------------------------------
(***************************************************************************)
(* Properties.                                                             *)
(***************************************************************************)
\* The coordinator's variables stay in the ranges their C types and uses give them.
CoordinatorTypeOK ==
  /\ session_nodes \in Seq(Nodes) /\ Len(session_nodes) <= MAX_NODES
  /\ node_replied \in [Index -> BOOLEAN]
  /\ session_bitmaps \in [Index -> SUBSET Chunk]
  /\ session_start_accepted \in [Index -> BOOLEAN]
  /\ start_admission_in_progress \in BOOLEAN
  /\ current_file_size \in Size /\ ota_target_slot \in Target \cup {NoTarget}
  /\ page_buffer \in [Chunk -> Cell]
  /\ page_start_offset \in 0 .. current_file_size.pages
  /\ page_bytes_received \in 0 .. PageChunks
  /\ distribution_in_progress \in BOOLEAN
  /\ pc \in {"idle", "chunk", "pageEnd", "wait", "resend"}
  /\ dist_chunk_idx \in 0 .. total_chunks /\ total_chunks \in 0 .. PageChunks
  /\ end_pkt \in [type : {"PAGE_END"}, page : Page, crc : PageContent \cup {<<>>},
                  target : Target \cup {NoTarget}]
  /\ recovery_round \in 0 .. MaxRounds /\ retry_count \in 0 .. 2
  /\ bitmap_event \in BOOLEAN

LinkTypeOK ==
  /\ host \in [at : {"off", "start", "data", "page", "verify", "done", "failed"}, file : Images,
               target : SentTargets, page : Page, chunk : Chunk, attempt : Nat]
  /\ uart \in Seq({"ACK", "NO_TARGETS", "PAGE_OK"})
  /\ first_answer \in [Nodes -> {"none", "accept", "reject"}] /\ complete \subseteq Nodes

TypeOK == CoordinatorTypeOK /\ LinkTypeOK

\* "FW:PAGE_OK: Current page was distributed to all active nodes" (README.md:310):
\* the page that went out is the host's page, and every node still in the session
\* has itself reported all of it, unless the process gave up after its last round.
PageOk == pc # "idle" /\ pc' = "idle"
PageOkMeansDistributed ==
  [][PageOk =>
       /\ end_pkt.crc = ImagePage(host.file, page_start_offset)
       /\ Prefix(page_buffer, total_chunks) = ImagePage(host.file, page_start_offset)
       /\ \/ recovery_round = MaxRounds /\ pc = "resend"
          \/ \A i \in DOMAIN session_nodes' : session_nodes'[i] \in complete]_vars

\* Every chunk that was acknowledged is in the page buffer, and counted once: when
\* no answer is on its way, host and coordinator agree on where they are in the file.
AcknowledgedChunksBuffered ==
  host.at = "data" /\ uart = <<>> =>
    /\ page_start_offset = host.page /\ page_bytes_received = host.chunk
    /\ ~distribution_in_progress
    /\ \A c \in 0 .. host.chunk - 1 : page_buffer[c] = host.file.data[host.page][c]

\* "The coordinator keeps only accepted nodes in the active OTA session"
\* (README.md:82), through admission and every later compaction of the arrays.
ActiveNodesAccepted ==
  ~start_admission_in_progress =>
    \A i \in DOMAIN session_nodes : first_answer[session_nodes[i]] = "accept"

\* "the coordinator removes rejected and silent nodes from the active session"
\* (README.md:355): only those.
AcceptedNodesStay ==
  [][start_admission_in_progress /\ ~start_admission_in_progress' =>
       \A i \in DOMAIN session_nodes :
         first_answer'[session_nodes[i]] = "accept"
           => session_nodes[i] \in ToSet(session_nodes')]_vars

\* "The coordinator distributes each page as 64-byte UDP DATA packets"
\* (README.md:85): it moves on to the next page only after the host has sent it
\* all of the current one.
NoPageSkipped ==
  [][page_start_offset' > page_start_offset => page_bytes_received = ExpectedPageSize]_vars

\* The flag that keeps UART data out of the page buffer is up exactly while the
\* process runs, and no process runs during admission.
FlagGuardsProcess ==
  /\ distribution_in_progress <=> pc # "idle"
  /\ pc # "idle" => ~start_admission_in_progress

(***************************************************************************)
(* The inductive invariant.                                                *)
(***************************************************************************)

\* The command on the link is the one the script waits for.
CommandOfHost ==
  commands # <<>> =>
    \/ /\ host.at = "start"
       /\ \E sec_ver \in SecVers : commands = <<StartCmd(host.file, sec_ver, host.target)>>
    \/ host.at = "data" /\ commands = <<DataCmd(host.file, host.page, host.chunk)>>
    \/ host.at = "verify" /\ commands = <<VerifyCmd(host.file)>>

\* A command, the admission it started, or one answer to it is under way, not two of
\* them: the coordinator answers a command once, and the script waits.
NoReply(text) == \A k \in DOMAIN text : text[k] = "PAGE_OK"
OneReply(text) ==
  \A k, l \in DOMAIN text : text[k] # "PAGE_OK" /\ text[l] # "PAGE_OK" => k = l

OneExchange ==
  /\ host.at \in {"start", "data", "page", "verify"} => OneReply(uart)
  /\ commands # <<>> \/ start_admission_in_progress \/ host.at = "page" => NoReply(uart)
  /\ start_admission_in_progress => host.at = "start" /\ commands = <<>>
  /\ host.at = "data" => host.chunk < PageLen(host.file.size, host.page)

\* The script that waits for an answer to START found the coordinator idle.
StartsIdle == host.at = "start" => pc = "idle"

\* The process works on the page the coordinator is at, all of which was received;
\* without it, that page is not complete.
ProcessHasPage ==
  IF pc = "idle" THEN page_bytes_received = 0 \/ page_bytes_received < ExpectedPageSize
                 ELSE /\ total_chunks = ExpectedPageSize /\ total_chunks > 0
                      /\ page_bytes_received = total_chunks

\* The arrays of the session during admission, against what the nodes said.
AdmissionTracked ==
  /\ IsInjective(session_nodes)
  /\ start_admission_in_progress => \A i \in DOMAIN session_nodes :
       LET answer == first_answer[session_nodes[i]]
       IN /\ answer # "none" => node_replied[i]
          /\ session_start_accepted[i] => answer = "accept"
          /\ ~StaleReports /\ node_replied[i] => answer # "none"
          /\ ~StaleReports /\ answer = "accept" => session_start_accepted[i]

\* A full bitmap is its node's, wherever compaction has moved the two.
BitmapsOfNodes ==
  pc # "idle" => \A i \in DOMAIN session_nodes :
    0 .. total_chunks - 1 \subseteq session_bitmaps[i] => session_nodes[i] \in complete

\* Host and coordinator are at the same place in the same file.
SameFile == current_file_size = host.file.size /\ session_nodes # <<>>
Receiving(chunks) ==
  /\ SameFile /\ pc = "idle" /\ ~start_admission_in_progress
  /\ page_start_offset = host.page /\ page_bytes_received = chunks
  /\ \A c \in 0 .. chunks - 1 : page_buffer[c] = host.file.data[host.page][c]
Distributing == SameFile /\ pc # "idle" /\ page_start_offset = host.page
Distributed ==
  /\ SameFile /\ pc = "idle" /\ ~start_admission_in_progress
  /\ page_start_offset = host.page + 1 /\ page_bytes_received = 0
LastChunk == host.chunk + 1 = PageLen(host.file.size, host.page)

StartInSync ==
  host.at = "start" =>
    /\ host.page = 0
    /\ start_admission_in_progress =>
         SameFile /\ page_start_offset = 0 /\ page_bytes_received = 0
    /\ uart \in {<<>>, <<"ACK">>, <<"NO_TARGETS">>}
    /\ uart = <<"ACK">> => Receiving(0)
DataInSync ==
  host.at = "data" =>
    \/ uart = <<>> /\ Receiving(host.chunk)
    \/ uart = <<"ACK">> /\ commands = <<>> /\ ~LastChunk /\ Receiving(host.chunk + 1)
    \/ uart = <<"ACK">> /\ commands = <<>> /\ LastChunk /\ Distributing
    \/ uart = <<"ACK", "PAGE_OK">> /\ commands = <<>> /\ LastChunk /\ Distributed
PageInSync ==
  host.at = "page" =>
    \/ uart = <<>> /\ Distributing
    \/ uart = <<"PAGE_OK">> /\ Distributed
ProcessInSync ==
  pc # "idle" =>
    /\ end_pkt.crc = ImagePage(host.file, page_start_offset)
    /\ Prefix(page_buffer, total_chunks) = ImagePage(host.file, page_start_offset)

InSync == StartInSync /\ DataInSync /\ PageInSync /\ ProcessInSync

CoordinatorInv ==
  /\ ProcessHasPage /\ FlagGuardsProcess
  /\ AdmissionTracked /\ ActiveNodesAccepted /\ BitmapsOfNodes

IInv ==
  /\ TypeOK /\ CommandOfHost /\ OneExchange /\ StartsIdle /\ CoordinatorInv
  /\ "answers" \notin LossyLinks => InSync

\* A page ends, however the nodes' reports come: every round ends, with all of
\* them or by dropping the silent ones, and the rounds are bounded.
PageEnds == pc # "idle" ~> pc = "idle"
=============================================================================
