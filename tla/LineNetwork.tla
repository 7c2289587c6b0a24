------------------------------ MODULE LineNetwork ------------------------------
(***************************************************************************)
(* The network between the coordinator and a line of sensor nodes          *)
(* (src/ota-common.c): each node is the next hop of the one before it, and *)
(* a packet goes down the line hop by hop.  Reports go up to the           *)
(* coordinator by the routing protocol and may overtake each other.  Any   *)
(* hop may lose a packet, any report may be lost.                          *)
(***************************************************************************)
EXTENDS UartSender

CONSTANTS Line,            \* the nodes in the order of the line
          MaxLoss          \* bound: faults of the network

ASSUME LineAssumption ==
  /\ Line \in Seq(Nodes) /\ Line # <<>> /\ IsInjective(Line)
  /\ RouteTables = {Line}
  /\ MaxLoss \in Nat

VARIABLES hop,       \* hop[i]: packets queued at the i-th node for the next one
          reports,   \* reports on their way to the coordinator
          lost       \* faults so far

networkVars == <<hop, reports, lost>>

\* What neither a hop nor a report in flight changes.
hostAndCoordinatorVars ==
  <<sessionVars, transferVars, processVars, ota_target_slot, page_buffer, bitmap_event,
    uart, senderVars>>

NetworkInit ==
  /\ hop = [i \in DOMAIN Line |-> <<>>]
  /\ reports = {}
  /\ lost = 0

NothingInFlight ==
  /\ line = <<>> /\ \A i \in DOMAIN Line : hop[i] = <<>>
  /\ reports = {}

\* What is queued for the i-th node: the queue of the coordinator or of the node before it.
Inbox(i) == IF i = 1 THEN line ELSE hop[i - 1]

\* The last node's default route is the coordinator.
PassedOnBack(i, forwarded) ==
  LET popped == IF i = 1 THEN hop ELSE [hop EXCEPT ![i - 1] = Tail(@)]
      pkt == Head(Inbox(i))
  IN /\ line' = (IF i = 1 THEN Tail(line) ELSE line)
                  \o (IF forwarded /\ i = Len(Line) THEN <<pkt>> ELSE <<>>)
     /\ hop' = IF forwarded /\ i < Len(Line)
               THEN [popped EXCEPT ![i] = Append(@, pkt)] ELSE popped

\* The packet that is passed on overtakes those before it.
PassedOnFirst(i, forwarded) ==
  LET popped == IF i = 1 THEN hop ELSE [hop EXCEPT ![i - 1] = Tail(@)]
  IN /\ line' = IF i = 1 THEN Tail(line) ELSE line
     /\ hop' = IF forwarded /\ i < Len(Line)
               THEN [popped EXCEPT ![i] = <<Head(Inbox(i))>> \o @] ELSE popped

\* The i-th node takes the packet off, and passes it on if `forwarded`; the last node
\* has no route to pass it to.
PassedOn(i, forwarded) ==
  LET popped == IF i = 1 THEN hop ELSE [hop EXCEPT ![i - 1] = Tail(@)]
  IN /\ line' = IF i = 1 THEN Tail(line) ELSE line
     /\ hop' = IF forwarded /\ i < Len(Line)
               THEN [popped EXCEPT ![i] = Append(@, Head(Inbox(i)))] ELSE popped

BitmapReportOf(node, report) == [type |-> "BITMAP_REPORT", node |-> node, report |-> report]

Fault == lost < MaxLoss /\ lost' = lost + 1

LosePacket(i) ==
  /\ Inbox(i) # <<>>
  /\ Fault
  /\ PassedOn(i, FALSE)
  /\ UNCHANGED <<hostAndCoordinatorVars, reports>>

LoseReport(r) ==
  /\ Fault
  /\ reports' = reports \ {r}
  /\ UNCHANGED <<hostAndCoordinatorVars, line, hop>>

Losses == \/ \E i \in DOMAIN Line : LosePacket(i)
          \/ \E r \in reports : LoseReport(r)

DeliverBitmapReport(r) ==
  /\ r.type = "BITMAP_REPORT"
  /\ HandleBitmapReport(r.node, r.report.page, r.report.bitmap)
=============================================================================
