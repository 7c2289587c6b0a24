------------------------------ MODULE LegacySystem ------------------------------
(***************************************************************************)
(* The transfer of the builds without a boot manager: the host script, the *)
(* legacy coordinator (LegacyCoordinator) and a line of legacy nodes       *)
(* (LegacyNode) behind a lossy network (LineNetwork).  Timers are slower   *)
(* than the network, as in OtaSystem.                                      *)
(*                                                                         *)
(* `lost` counts every fault: a lost packet or report, an erase or a write *)
(* that fails, and a chunk whose last byte, which is not sent, is not      *)
(* found behind the packet either.  The flash opens for reading.           *)
(***************************************************************************)
EXTENDS LegacyCoordinator, LegacyNode

CONSTANTS OldFlash   \* what the download area of a node holds at first

ASSUME LegacyAssumption == OldFlash \in [Page -> [Chunk -> Cell]]

VARIABLES nodes,      \* the sensor nodes
          abandoned   \* the pages given up after the last round

systemVars == <<nodes, networkVars>>
vars == <<coordinatorVars, senderVars, systemVars, abandoned>>

Init ==
  /\ CoordinatorInit /\ SenderInit /\ NetworkInit
  /\ nodes = [node \in Nodes |-> Boot(OldFlash)]
  /\ abandoned = {}

HostStep == SenderStep /\ UNCHANGED <<systemVars, abandoned>>
Command == LegacyTakeCommand /\ UNCHANGED <<systemVars, abandoned>>

NetworkQuiet ==
  NothingInFlight /\ \A node \in Nodes : nodes[node].report_to_send = NoReport

\* The process ends without all reports.
GivesUp == pc = "resend" /\ recovery_round = MaxRounds /\ pc' = "idle"

Distributes ==
  /\ SendPage \/ ResendMissing \/ WaitForReports(NetworkQuiet /\ ~bitmap_event)
  /\ abandoned' = IF GivesUp THEN abandoned \cup {page_start_offset} ELSE abandoned
  /\ UNCHANGED <<senderVars, systemVars>>

(***************************************************************************)
(* A node receives a packet.                                               *)
(***************************************************************************)
Handled(m, pkt, stale, opened, erased, written) ==
  CASE pkt.type = "START"    -> OnStart(m, pkt, opened, erased)
    [] pkt.type = "DATA"     -> OnData(m, pkt, stale, opened, erased, written)
    [] pkt.type = "PAGE_END" -> OnPageEnd(m, pkt, TRUE)
    [] pkt.type = "VERIFY"   -> OnVerify(m, pkt)

\* What the last byte of the packet should have been.
LastByteOf(pkt) == IF pkt.type = "DATA" THEN pkt.data \cap LastByte ELSE {}

Forwards(m, pkt) == ~(pkt.type = "DATA" /\ OlderPage(m, pkt))

Receive(i) ==
  /\ Inbox(i) # <<>>
  /\ LET pkt == Head(Inbox(i))
         m == nodes[Line[i]]
     IN /\ PassedOn(i, Forwards(m, pkt))
        /\ \E stale \in SUBSET LastByte, opened, erased, written \in BOOLEAN :
             LET got == Handled(m, pkt, stale, opened, erased, written)
             IN /\ nodes' = [nodes EXCEPT ![Line[i]] = got]
                /\ IF got = Handled(m, pkt, LastByteOf(pkt), TRUE, TRUE, TRUE)
                   THEN UNCHANGED lost ELSE Fault
  /\ UNCHANGED <<hostAndCoordinatorVars, reports, abandoned>>

\* The delayed bitmap report leaves.
SendReport(node) ==
  /\ nodes[node].report_to_send # NoReport
  /\ reports' = reports \cup {BitmapReportOf(node, nodes[node].report_to_send)}
  /\ nodes' = [nodes EXCEPT ![node] = ReportSent(@)]
  /\ UNCHANGED <<hostAndCoordinatorVars, line, hop, lost, abandoned>>

DeliverReport(r) ==
  /\ reports' = reports \ {r}
  /\ DeliverBitmapReport(r)
  /\ UNCHANGED <<senderVars, nodes, hop, lost, abandoned>>

-----------------------------------------------------------------------------
Network ==
  \/ \E i \in DOMAIN Line : Receive(i)
  \/ \E node \in Nodes : SendReport(node)
  \/ \E r \in reports : DeliverReport(r)

NetworkLoses == Losses /\ UNCHANGED <<nodes, abandoned>>

Next == HostStep \/ Command \/ Distributes \/ Network \/ NetworkLoses

Spec == Init /\ [][Next]_vars

\* Processes, timers and the network run; nothing has to be lost.
Fairness == WF_vars(Distributes) /\ WF_vars(Network)

FairSpec == Spec /\ Fairness

-----------------------------------------------------------------------------
(***************************************************************************)
(* Properties.                                                             *)
(***************************************************************************)
Holds(node, p) ==
  Prefix(nodes[node].flash[p], PageLen(host.file.size, p)) = ImagePage(host.file, p)

\* A page the coordinator has finished is in the flash of every node of the session
\* and stays there: although a chunk's bit is set whatever became of its write
\* (sensor-node-legacy.c:302-308), although its last byte was never sent, and
\* although later pages are erased and written while packets of this one are still
\* on their way.
StoredPagesStay ==
  \A p \in 0 .. page_start_offset - 1, node \in ToSet(session_nodes) :
    p \notin abandoned => Holds(node, p)

\* With no fault every node verifies the image, also those the coordinator does
\* not wait for because its session has no room for them (coordinator-legacy.c:291).
DoneMeansVerified ==
  host.at = "done" /\ lost = 0 /\ NetworkQuiet =>
    \A node \in ToSet(Line) : nodes[node].verified = "success"

\* A page ends, whatever was lost: a node also answers PAGE_END for a page none of
\* whose chunks it received (sensor-node-legacy.c:335-341).
PageEnds == pc # "idle" ~> pc = "idle"
=============================================================================
