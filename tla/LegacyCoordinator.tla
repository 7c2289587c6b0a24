--------------------------- MODULE LegacyCoordinator ---------------------------
(***************************************************************************)
(* The coordinator of the builds without a boot manager                    *)
(* (src/coordinator-legacy.c).  Its distribute_process and its handling of *)
(* reports are those of OtaCoordinator, but it paces chunks by a timer     *)
(* alone: MaxQueued is chosen so large that no queue is waited for.  Its   *)
(* UART commands know no admission, no target and no empty session:        *)
(* start_admission_in_progress, session_start_accepted and ota_target_slot *)
(* keep their initial values.                                              *)
(***************************************************************************)
EXTENDS LineNetwork

\* START goes out and is acknowledged whether or not there are routes.
LegacyUartStart(table, size) ==
  /\ SendToAll(StartPkt(size, OTA_START_SEC_VER_UNKNOWN, NoTarget))
  /\ session_nodes' = PopulateSessionNodes(table)
  /\ ResetTransferState(size)
  /\ Answer("ACK")
  /\ UNCHANGED <<node_replied, session_bitmaps, session_start_accepted,
                 start_admission_in_progress, ota_target_slot, page_buffer, bitmap_event,
                 processVars>>

LegacyAcceptsData(page, chunk) ==
  /\ ~distribution_in_progress
  /\ page = page_start_offset /\ chunk < ExpectedPageSize

\* A chunk that is not accepted is not answered.
LegacyUartData(page, chunk, data) ==
  /\ IF LegacyAcceptsData(page, chunk)
     THEN /\ page_buffer' = [page_buffer EXCEPT ![chunk] = data]
          /\ page_bytes_received' = page_bytes_received + 1
          /\ Answer("ACK")
          /\ IF PageComplete(page_bytes_received')
             THEN distribution_in_progress' = TRUE /\ StartDistribution
             ELSE UNCHANGED <<distribution_in_progress, processVars, session_bitmaps>>
     ELSE UNCHANGED <<page_buffer, page_bytes_received, uart, distribution_in_progress,
                      processVars, session_bitmaps>>
  /\ UNCHANGED <<session_nodes, node_replied, session_start_accepted,
                 start_admission_in_progress, current_file_size, ota_target_slot,
                 page_start_offset, bitmap_event, line>>

LegacyUartVerify(crc) ==
  /\ SendToAll(VerifyPkt(crc, NoTarget))
  /\ Answer("ACK")
  /\ UNCHANGED <<sessionVars, transferVars, processVars, ota_target_slot, page_buffer,
                 bitmap_event>>

LegacyTakeCommand ==
  /\ commands # <<>>
  /\ commands' = Tail(commands)
  /\ LET cmd == Head(commands)
     IN \/ /\ cmd.type = "S"
           /\ \E table \in RouteTables : LegacyUartStart(table, cmd.size)
        \/ cmd.type = "D" /\ LegacyUartData(cmd.page, cmd.chunk, cmd.data)
        \/ cmd.type = "V" /\ LegacyUartVerify(cmd.crc)
  /\ losses' = 0
  /\ UNCHANGED <<host, starts>>

(***************************************************************************)
(* distribute_process.                                                     *)
(***************************************************************************)
SendPage == SendChunk \/ ChunksSent
\* Until all reports are in; each timeout repeats PAGE_END.
WaitForReportsOnce(timeout) == AllRepliedEvent
WaitForReports(timeout) == AllRepliedEvent \/ (timeout /\ ReportTimeout)
ResendMissing == Resend
=============================================================================
