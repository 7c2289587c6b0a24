------------------------------ MODULE UartSender ------------------------------
(***************************************************************************)
(* The host script (src/uart_sender.py) and the serial link to the         *)
(* coordinator: START once, then each chunk until it is acknowledged, then *)
(* FW:PAGE_OK for each page, then VERIFY.                                  *)
(***************************************************************************)
EXTENDS OtaCoordinator

CONSTANTS Images,            \* the firmware files
          SecVers,           \* the secVers given on the command line
          SentTargets,       \* the targets given on the command line
          MaxAttempts,       \* attempts for a command (5)
          MaxStarts,         \* bound: runs of the script
          BusyStarts,        \* whether it may be run again while the coordinator is busy
          MaxLosses,         \* bound: lines the serial link loses in a row
          LossyLinks         \* which way it loses them, a subset of {"commands", "answers"}

ASSUME SenderAssumption ==
  /\ Images \subseteq Image
  /\ SecVers \subseteq Nat
  /\ SentTargets \subseteq Target
  /\ MaxAttempts \in Nat \ {0}
  /\ MaxStarts \in Nat
  /\ BusyStarts \in BOOLEAN
  /\ MaxLosses \in Nat
  /\ LossyLinks \subseteq {"commands", "answers"}

VARIABLES host,       \* the script: where it is, what it sends, the chunk it is at
          commands,   \* the lines on their way to the coordinator
          starts,     \* runs of the script
          losses      \* lines lost since one arrived

senderVars == <<host, commands, starts, losses>>

StartCmd(img, sec_ver, target) ==
  [type |-> "S", size |-> img.size, sec_ver |-> sec_ver, target |-> target]
DataCmd(img, page, chunk) ==
  [type |-> "D", page |-> page, chunk |-> chunk, data |-> img.data[page][chunk]]
VerifyCmd(img) == [type |-> "V", crc |-> ImageCrc(img)]

SenderInit ==
  /\ host \in [at : {"off"}, file : Images, target : SentTargets, page : {0}, chunk : {0},
               attempt : {0}]
  /\ commands = <<>>
  /\ starts = 0 /\ losses = 0

\* The script is run.  Opening the port drops what was received before.
CoordinatorBusy == pc # "idle" \/ start_admission_in_progress

RunScript(img, sec_ver, target) ==
  /\ host.at \in {"off", "done", "failed"}
  /\ starts < MaxStarts
  /\ CoordinatorBusy => BusyStarts
  /\ starts' = starts + 1
  /\ host' = [host EXCEPT !.at = "start", !.file = img, !.target = target,
                          !.page = 0, !.chunk = 0, !.attempt = 1]
  /\ commands' = Append(commands, StartCmd(img, sec_ver, target))
  /\ uart' = <<>>
  /\ UNCHANGED losses

\* Go on with a command.
Send(next) ==
  /\ host' = next
  /\ commands' = Append(commands, IF next.at = "data"
                                  THEN DataCmd(next.file, next.page, next.chunk)
                                  ELSE VerifyCmd(next.file))
Become(at) == host' = [host EXCEPT !.at = at, !.attempt = 0] /\ UNCHANGED commands

DataAt(page, chunk) ==
  [host EXCEPT !.at = "data", !.page = page, !.chunk = chunk, !.attempt = 1]

ReadInStart(text) ==
  /\ host.at = "start"
  /\ \/ text = "ACK" /\ Send(DataAt(0, 0))
     \/ text = "NO_TARGETS" /\ Become("done")

ReadInData(text) ==
  /\ host.at = "data" /\ text = "ACK"
  /\ IF host.chunk + 1 < PageLen(host.file.size, host.page)
     THEN Send(DataAt(host.page, host.chunk + 1))
     ELSE Become("page")

ReadInPage(text) ==
  /\ host.at = "page" /\ text = "PAGE_OK"
  /\ IF host.page + 1 < host.file.size.pages
     THEN Send(DataAt(host.page + 1, 0))
     ELSE Send([host EXCEPT !.at = "verify", !.attempt = 1])

ReadInVerify(text) == host.at = "verify" /\ text = "ACK" /\ Become("done")

Understands(text) ==
  \/ host.at = "start" /\ text \in {"ACK", "NO_TARGETS"}
  \/ host.at \in {"data", "verify"} /\ text = "ACK"
  \/ host.at = "page" /\ text = "PAGE_OK"

ReadLine ==
  /\ uart # <<>>
  /\ uart' = Tail(uart)
  /\ \/ ReadInStart(Head(uart)) \/ ReadInData(Head(uart)) \/ ReadInPage(Head(uart))
     \/ ReadInVerify(Head(uart))
     \/ ~Understands(Head(uart)) /\ UNCHANGED <<host, commands>>
  /\ losses' = 0
  /\ UNCHANGED starts

\* The coordinator answers a command at once: a command times out when neither
\* it nor its answer is on the link any more.
NothingOnLink == commands = <<>> /\ uart = <<>>

CommandTimeout ==
  /\ host.at \in {"data", "verify"} /\ NothingOnLink
  /\ IF host.attempt < MaxAttempts
     THEN Send([host EXCEPT !.attempt = host.attempt + 1])
     ELSE Become("failed")
  /\ UNCHANGED <<uart, starts, losses>>

\* 15 s for START, which admission takes 8 s of; 120 s for a page, which may take longer.
StartTimeout ==
  /\ host.at = "start" /\ NothingOnLink /\ ~start_admission_in_progress
  /\ Become("failed")
  /\ UNCHANGED <<uart, starts, losses>>

PageTimeout ==
  /\ host.at = "page"
  /\ Become("failed")
  /\ UNCHANGED <<uart, starts, losses>>

LinkLoses ==
  /\ losses < MaxLosses
  /\ losses' = losses + 1
  /\ \/ /\ "commands" \in LossyLinks /\ commands # <<>>
        /\ commands' = Tail(commands) /\ UNCHANGED uart
     \/ /\ "answers" \in LossyLinks /\ uart # <<>>
        /\ uart' = Tail(uart) /\ UNCHANGED commands
  /\ UNCHANGED <<host, starts>>

SenderOnly ==
  \/ \E img \in Images, sec_ver \in SecVers, target \in SentTargets :
       RunScript(img, sec_ver, target)
  \/ ReadLine \/ CommandTimeout \/ StartTimeout \/ PageTimeout \/ LinkLoses

\* Everything of the coordinator but the lines it printed.
coordinatorOnlyVars ==
  <<sessionVars, transferVars, processVars, ota_target_slot, page_buffer, bitmap_event, line>>

SenderStep == SenderOnly /\ UNCHANGED coordinatorOnlyVars

\* The coordinator reads a command.
TakeCommand ==
  /\ commands # <<>>
  /\ commands' = Tail(commands)
  /\ LET cmd == Head(commands)
     IN \/ /\ cmd.type = "S"
           /\ \E table \in RouteTables : UartStart(table, cmd.size, cmd.sec_ver, cmd.target)
        \/ cmd.type = "D" /\ UartData(cmd.page, cmd.chunk, cmd.data)
        \/ cmd.type = "V" /\ UartVerify(cmd.crc)
  /\ losses' = 0
  /\ UNCHANGED <<host, starts>>
=============================================================================
