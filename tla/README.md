# Verification of the 6TiSCH firmware distribution

TLA+ models, TLC runs and TLAPS proofs of the over-the-air (OTA) update in this
repository: a host script hands a firmware file to a coordinator over UART, the
coordinator distributes it page by page over a TSCH line of sensor nodes, each
node stores it in flash, verifies and stages it, and a boot manager starts it.

## 1. The system

| Part | Source | State it keeps | Operations | Speaks to |
|------|--------|----------------|------------|-----------|
| Host script | `uart_sender.py` | position in the file, attempts | START, chunks, wait for PAGE_OK, VERIFY | coordinator, by UART lines |
| Coordinator: session | `ota-coordinator-session.c` | `session_nodes` and its parallel arrays, admission timer | populate, admit, compact | nodes' START reports |
| Coordinator: distribution | `ota-coordinator.c`, `ota-common.c` | `page_buffer`, page offset and bytes received, the position of `distribute_process` | UART handler, send a page, collect reports, send again | next hop (packets), host (answers) |
| Sensor node | `ota-sensor.c` | session, current page and bitmap, running CRC, pending report, reboot timers | START, DATA, PAGE_END, VERIFY handlers, timers | next hop, coordinator |
| Storage backends | `sensor-node-dual-onchip.c` + `ota-flash.c`, `sensor-node-offchip.c` | flash, last erased sector, staged image | admit, erase, write, read, stage | sensor node |
| Boot metadata | `ota-metadata.c` | one record in flash | verified, staged, confirmed, invalid, attempts | boot check, staging |
| Boot check | `sensor-node-dual-onchip.c`, `ota-flash.c` | metadata in RAM, stability window | check at boot, fall back, confirm | BIM, through headers |
| Node process | `node.c` | — | UART dispatch, boot check, stability timer | all |
| Legacy node | `sensor-node-legacy.c` | current page and bitmap, running CRC, pending report | START, DATA, PAGE_END, VERIFY; nothing is staged | next hop, coordinator |
| Legacy coordinator | `coordinator-legacy.c` | nodes and bitmaps, page buffer, position of its process | UART handler, send a page, collect reports, send again; no admission | next hop, host |
| Build, linker scripts, network configuration | `Makefile`, `*.ld`, `project-conf.h`, `*.csc` | none | — | — |

Everything runs in cooperative Contiki processes: a handler runs to its end, and
`distribute_process` gives up the processor only where it waits for a timer, for
the MAC queue to drain or for reports. That is the grain of the actions.

What is hard here, and what the properties aim at:

* handlers that run between two waits of `distribute_process` and share its
  variables (a new START, bitmap reports, START reports);
* packets and reports that are lost, late or repeated, UART lines that are lost,
  and the retries of both;
* flash: programming clears bits only, an erase covers two pages on chip, and
  erase and program calls fail;
* a CRC of the image that is accumulated page by page and never recomputed;
* power loss between any two flash operations of the boot side.

`PROJECT.json` lists each hazard at its line, with the properties that cover it.

## 2. Modules

| Module | Models | Built on |
|--------|--------|----------|
| `OtaWire` | pages, chunks, flash cells, CRCs, packets (`ota.h`) | |
| `SensorBackend` | both storage backends, as operators on a node record | `OtaWire` |
| `SensorNode` | the handlers and timers of `ota-sensor.c`, as operators on a node record | `SensorBackend` |
| `OtaSensor` | one node that hears an arbitrary stream of one coordinator | `SensorNode` |
| `PageReceiver` | what a node promises, without chunks, CRCs and sectors | |
| `SensorReceives` | the mapping by which `OtaSensor` implements `PageReceiver` | `OtaSensor` |
| `SensorNodeProofs` | what each operator of `SensorBackend` and `SensorNode` changes and keeps, proved | `SensorNode`, `TLAPS` |
| `OtaSensorProofs` | invariants and steps of `OtaSensor`, and its refinement of `PageReceiver`, proved | `SensorReceives`, `SensorNodeProofs` |
| `OtaCoordinator` | UART commands, admission, reports and `distribute_process`, as actions | `OtaWire` |
| `UartSender` | `uart_sender.py` and the serial link | `OtaCoordinator` |
| `OtaUart` | host, link and coordinator with nodes that answer anything | `UartSender` |
| `OtaUartProofs` | invariants and steps of `OtaUart`, proved | `OtaUart`, `TLAPS` |
| `LineNetwork` | hops, forwarding, reports and their losses | `UartSender` |
| `OtaSystem` | host, coordinator and a line of nodes | `OtaUart`, `LineNetwork`, `SensorNode` |
| `OtaSystemProofs` | `OtaSystem` implements `OtaUart`; its invariants and steps, proved | `OtaSystem`, `OtaUartProofs`, `SensorNodeProofs` |
| `OtaDeliveryProofs` | what a transfer without losses delivers, proved | `OtaSystemProofs` |
| `OtaRecoveryProofs` | that a transfer without losses recovers nothing, proved | `OtaDeliveryProofs` |
| `LegacyNode` | the handlers of `sensor-node-legacy.c`, as operators on a node record | `OtaWire` |
| `LegacyCoordinator` | what `coordinator-legacy.c` does differently | `LineNetwork` |
| `LegacySystem` | script, legacy coordinator and a line of legacy nodes | `LegacyCoordinator`, `LegacyNode` |
| `LegacyProofs` | that a finished page stays in the flash of legacy nodes, and that a faultless transfer verifies everywhere, proved | `LegacySystem`, `TLAPS` |
| `BootMetadata` | `ota-metadata.c`, as functions on a record | |
| `DualOnchipBoot` | boot check, fallback, confirmation and staging, with power loss | `BootMetadata` |
| `BootProofs` | invariants and steps of `DualOnchipBoot`, proved | `DualOnchipBoot`, `TLAPS` |
| `MC*` | instances for TLC | |

How state and actions correspond to the code:

* **Offsets** are pairs (page, chunk of 64 bytes). The two 32-byte UART chunks that
  make up a 64-byte one are one chunk. `expected_page_size` and `page_len` are
  `PageLen`, the clipping both sides repeat.
* **Flash** is a set of set bits per chunk: erased is all bits, programming is
  intersection. So a write to a cell that was not erased has the effect it has in
  NOR flash, and "the page is in flash" is something a run can find false.
* **CRC-16** has no collisions in the model: the CRC of a page is its content, the
  running CRC the sequence of contents it was accumulated over.
* **A node** is a record with the static variables of `ota-sensor.c` and of its
  backend under their own names. `HearStart`, `HearData`, `HearPageEnd` and
  `HearVerify` are the four handlers, whole; the answers of the flash driver are
  their parameters.
* **The coordinator** has the global variables of the code under their names.
  `pc` is where `distribute_process` waits: `chunk` (queue or pacing of the first
  pass), `pageEnd` (queue before PAGE_END), `wait` (reports), `resend` (recovery).
  `RoundHead` is the head of its loop. `bitmap_event` is the posted event, and
  `AllRepliedEvent` loses it when the process does not wait for reports.
* **The system** takes the host and the coordinator of `OtaUart` as they are, and
  puts nodes and hops in the place of the reports `OtaUart` draws at random. A packet
  is taken off a hop, passed on and handled in one action (`Receive`), as in
  `udp_rx_callback`. `abandoned` is a history variable: the pages given up after the
  last round.
* **The boot side** keeps for each slot its header, whether all of the image is
  there, and `crcStat`; `flash_metadata` and `current_metadata` are the metadata
  page and its copy in RAM. A metadata write is an erase and a program: it may
  end with the page lost.

Outside `src/`, and modelled from how the code uses it: the boot image manager
(boots, of the slots with a whole image that is linked for the slot and not marked
invalid, the one with the highest secVer), the MAC queue and radio (FIFO per hop,
may lose), the flash driver, power.

## 3. Runs

| Run | What it asks | Result |
|-----|--------------|--------|
| `sensor_dual` | May a dual-onchip node's CRC, bitmap or report lie, its running slot be written, or an image be staged that is not whole, whatever it hears? | no: 7 properties hold |
| `sensor_offchip` | The same for an off-chip node, erases, reads, writes and staging failing | no: 4 properties hold |
| `sensor_erase` | ... and a dual-onchip node whose erases fail? | yes: VERIFY passes over an erased page |
| `sensor_reset` | ... and when the host starts again before a staged node has reset? | the node resets into an erased slot |
| `uart_transfer` | With a lossy link to the coordinator and arbitrary nodes: are pages the host's, sessions the accepted nodes, and does every page end? | 8 properties hold |
| `uart_retry` | ... and when an answer is lost? | a chunk is counted twice, a wrong page goes out |
| `uart_restart` | ... and when the host starts again while a page is distributed? | the new file's first page is skipped |
| `system_line` | End to end, over three nodes, with two losses: do host and coordinator stay within `OtaUart`, do nodes and coordinator agree, is what is staged the host's file, is it staged, and is anything recovered that was not lost? | 10 properties hold |
| `system_page_lost` | ... and when all DATA of a page is lost? | PAGE_END is repeated forever |
| `legacy_line` | The builds without a boot manager, end to end, with one fault anywhere | 3 properties hold |
| `boot_power` | Power loss anywhere, a crash-looping update | 7 properties hold |
| `boot_fallback` | ... and crashes of the old image during a download? | the only bootable image is invalidated |

The runs that end in a violation each check one statement of the repository's own
documentation or messages; `findings` in `PROJECT.json` quotes it.

### The properties

*Sensor node.* `VerifyImpliesIntact`: whenever the comparison in VERIFY would
succeed, the slot holds every page of the image. `CrcCountsEachPageOnce`.
`BitmapSound`: a set bit means that the chunk is in flash, and a chunk without its
bit is erased or already right, so it can be written. `ReportsOnlyCommittedPages`:
the coordinator moves on by full bitmaps alone, and a full bitmap is only sent
with the page committed. `RunningSlotUntouched`. `IInv` is the invariant of the
proof. `ReceivesPages`: the node implements `PageReceiver`.

*The abstract node.* `PageReceiver` says what a session is for: pages the node holds
are counted, in order and each once; the counted ones stay as long as none was
skipped; the boot metadata changes only with all pages counted. A START ends what
went before it. A node that missed a START goes on with the session it had, while
pages of another stream arrive: packets carry no session number (`ota.h:142`), so `PageReceiver` calls the session stray and promises nothing of it. The
mapping in `SensorReceives` reads "the node holds page p" off the flash, and "counted"
off the running CRC: that the two agree is what the refinement says.

*Coordinator.* `PageOkMeansDistributed`: at FW:PAGE_OK the page that went out is the
host's and each node of the session has reported all of it, or the rounds are used
up. `AcknowledgedChunksBuffered`, `ActiveNodesAccepted`, `AcceptedNodesStay`,
`FlagGuardsProcess`, `NoPageSkipped`, `PageEnds`. `IInv` is the invariant of the proof.

*System.* `PageOkMeansStored`: the same promise, about the nodes' flash and CRC.
`ImplementsUart`: with real nodes, host and coordinator do nothing they do not do with
the nodes of `OtaUart`, which answer anything at any time. `SessionAgreed`: while pages
are distributed, a node of the session has it open for the same file and is at most
one page behind. `StagedImageIsHosts`. `RecoveryFollowsLoss`: without
losses a page takes one round: no PAGE_END is repeated, no chunk sent again, no page
given up. `DoneMeansStaged`: with no loss, every older node stages.
`PageEnds`. `SystemInv`, `DeliveryInv` and `RoundInv` are the invariants of the proofs.

With losses nothing of the kind is claimed: not that only missing chunks are sent again
(`README.md:86`), nor that there is a loss for each round. A node that is asked twice in
a round answers twice, a report names its page but no round (`ota-sensor.c:269`), and a
second answer that comes late is taken for that of the next round, whose chunks are
then sent to nodes that have them. It costs a round, not the page: a full report stays
true (`ReportsTrue`), whenever it is counted.

*Legacy.* `StoredPagesStay`: a page that the coordinator finished without giving up
stays in the flash of every node of its session, although the node sets a chunk's
bit before it writes and never looks at the answer, and although the senders leave
out the last byte of each chunk (they count 7 bytes of header where the packet
has 8) and the receiver takes what lies behind the packet. `DoneMeansVerified`: with
no fault every node verifies, also one beyond `MAX_NODES`. `PageEnds`. What does
*not* hold of the legacy node is that VERIFY implies an intact image: with three
faults a page is counted, then written again and damaged. Nothing but a log line
depends on it, so no run is kept for it.

*Boot.* `SomethingBoots`, `RunningImageRecorded`, `AbandonedOnlyAfterCrashes`,
`StagedCandidateKept`, `CrashLoopEnds`, `AbandonedOnlyForFallback`. `IInv` is the
invariant of the proof.

### Bounds

* Sensor runs: two files (three pages, and two that share content with the first
  and contain an all-ones chunk), two chunks per page, the last page half full, two
  bits per chunk, flash that holds an old copy of the file at first, one missed
  START (none in `sensor_offchip`, where erases fail instead). Four pages are two
  erase sectors: enough for a second page in a sector, for a later sector, and for a
  file that ends inside one. The stream is unbounded.
* UART runs: two nodes, two pages of two chunks, two recovery rounds of the ten,
  two attempts of the five, two lines lost in a row, so that a command of the script
  can fail for good. Two nodes are enough for compaction to move one; a page of two
  chunks for a partial bitmap and for a count that is off by one. The depth of the
  MAC queue, `OTA_QUEUE_MAX_NEXT_HOP_PENDING`, is 1 in the code and in the other
  runs; `uart_transfer` has 0, so that every packet is waited for.
* System runs: three nodes in a line, the middle one refusing the image, two pages
  of three chunks, two losses and three rounds: a chunk and its recovery may both
  be lost, and the process never gives up, which is the case `PageOkMeansStored` is
  about. Timers fire only when the network is quiet, since they are seconds long
  and hops are milliseconds; reports later than that are in `OtaUart`.
* Legacy run: three nodes and a session of two, so that the last node hears all and
  is asked for nothing; two pages of two chunks over an old file; two rounds, so the
  process may give a page up; one fault, which is a lost packet or
  report, a failed erase or write, or a last byte that is not found.
* Boot runs: two images and two slots, `MAX_BOOT_ATTEMPTS` = 3 as in the code, three
  downloads, three power losses or failed writes. A fourth crash of the new image
  leads to the fallback, and faults can interrupt the fallback itself.

Deadlock is not checked: the script ends, a node that reset is not followed
further, and a node without an image is dead.

### Fairness

`OtaUart` assumes that processes and timers run and the MAC queue drains (the MAC
sends or gives up), and that a node that is asked again and again for its report
answers in the end. Without the last one, the code itself waits forever
(`ota-coordinator.c:177`). `OtaSystem` and `LegacySystem` need less: processes, timers
and the network run; that nodes answer is then a consequence, and `system_page_lost`
is a case where they do not. The legacy node answers PAGE_END for a page it has
nothing of, so `legacy_line` has no such case. `DualOnchipBoot` assumes that a
powered node boots and that a crash-looping image crashes. Nothing is assumed of
the host, of losses, of power cuts or of unstable images.

## 4. Proofs

### The sensor node

`OtaSensorProofs` is about `OtaSensor` for all values of its constants: any number of
pages and chunks, any images, either backend, any initial flash, any failures of
reads, writes and staging. It rests on `SensorNodeProofs`, which speaks
of one node record and so serves the system's proofs too: one lemma per operator
of `SensorBackend` and `SensorNode` says which fields it changes and keeps typed.

* `TypeCorrect`: `Spec => []TypeOK`; the step has one case per action.
* `VerifyCorrect`: `Spec => []VerifyImpliesIntact`, and `CrcOnceCorrect`:
  `Spec => []CrcCountsEachPageOnce`, both from `InductiveInvariant`, under
  `ReliableErase`: erases succeed (dual-onchip), or a sector is one page. The run
  `sensor_erase` is why the assumption is there.

`VerifyImpliesIntact` is not inductive. That the CRC equals the image's says nothing
of the flash unless each page in it was in flash when it was counted and still is.
`IInv` adds: an open session is the one of the stream (`SessionOfStream`); the CRC has
at most as many pages as were passed, and when it has all of them every page up to
the last committed one is in flash (`CommittedPagesInFlash`); the page being received
is not before the last committed one, so neither a write nor an erase can reach a
committed page; and with two pages in a sector the erased sector is the one being
filled (`ErasedSectorIsCurrent`), so the second page does not erase the first. A page
that was skipped makes the CRC too short for ever, hence the comparison fails
(`CompleteCrc`).

Two action properties are proved without `ReliableErase`:

* `RunningSlotCorrect`: `Spec => RunningSlotUntouched` for a dual-onchip node. START
  records its target before it judges it, so `ota_target_slot` itself may be the
  running slot; what is inductive is that an *open* session never is (`SlotSafe`),
  and each handler writes only to the slot of an open session (`WritesOnly`), or
  nothing (`WritesNothing`).
* `ReportsCorrect`: `Spec => ReportsOnlyCommittedPages`. While pages are sent only
  PAGE_END takes a report, and it is empty after a mismatch or of the page just
  committed; a page of a file has at least one chunk, so an empty one is not full.

The last one is `BitmapCorrect`: `Spec => []BitmapSound`, under `ReliableErase`
and, for either backend, `ErasesSucceed`: a failed erase leaves the page selected
(`ota-sensor.c:410`) and its next chunk is programmed over whatever is there. The
property speaks of the page being received; what makes it inductive is the pages that
are not received yet. `BitmapInv` adds `Ahead`: the later pages of the current sector
are erased, and dual-onchip remembers which sector that is. So a page selected without
an erase (page 0 after START, or the second page of an erased sector) is as empty as
one selected with it, its bitmap starts empty too, and from then on a cell changes only
to the chunk of the image that DATA brings, in the step that may set its bit.

### The refinement

`OtaSensorProofs` also proves `ReceivesPagesCorrect`: under `ReliableErase`,
`Spec => ReceivesPages`. Each action of the node is one step of `PageReceiver` or none:
START opens or closes, DATA is `Store`, PAGE_END is `Count` or nothing, VERIFY is
`StageImage` or `Close`; the timers and a node that hears nothing stutter. The
invariant `IInv` gives the guards: that a counted page is stored and later than the
last one, that counted pages stay while none was skipped, and that the CRCs agree
at VERIFY only if as many pages were counted as the image has.

`StagesWholeCorrect` says what the promise is worth for the node: under `ReliableErase`,
`Spec => Receiver!StagesOnlyWhole`, an image is staged only with all its pages stored.
Counting in order and without repetition, as many pages as there are means all of
them, and the counted ones are stored.

### Script, link and coordinator

`OtaUartProofs` is about `OtaUart` for any number of nodes, routes, files and rounds,
any page size and queue depth, any answers of the nodes and any losses. All its
theorems assume `WaitsForCoordinator`: the script is not run while the coordinator
distributes a page or admits nodes. The run `uart_restart` is why.

* Without more: `UartTypeCorrect`, `FlagCorrect` (`FlagGuardsProcess`),
  `ActiveNodesCorrect` (`ActiveNodesAccepted`), `NoPageSkippedCorrect`
  (`NoPageSkipped`).
* `AcceptedStayCorrect` (`AcceptedNodesStay`), if no bitmap report of an earlier
  session arrives during admission (`~StaleReports`): START and bitmap reports share
  `node_replied`.
* `AcknowledgedCorrect` (`AcknowledgedChunksBuffered`) and `PageOkCorrect`
  (`PageOkMeansDistributed`), if the link loses commands only (`ReliableAnswers`).
  The run `uart_retry` is why.
* `UartInvariant`: `Spec => []IInv`, the inductive invariant in one formula.

Three arguments make `IInv`. *One exchange*: the script waits, so at most one of a
command, its admission and its answer exists (`CommandOfHost`, `OneExchange`); this
alone keeps a START from coming during a distribution (`StartsIdle`). *The session*:
its nodes are distinct, an index that has not replied belongs to a node that has said
nothing since the START, and a full bitmap to a node that reported a full page
(`AdmissionTracked`, `BitmapsOfNodes`). Both compactions keep this because nodes and
bitmaps move together; the lemma `Compaction` says what moving does, for any
increasing choice of indices. `node_replied` and `session_start_accepted` do *not*
move, which is harmless since nothing reads them before they are reset.
*The same place* (`InSync`): for each state of the script and each text still on the link, where the
coordinator is in the file and what its page buffer holds. Losing an answer breaks
this and nothing else, hence the implication in `IInv`.

The steps of `distribute_process` are proved to be of three kinds (`ProcessEffect`):
it goes on with its page, it ends it, because all bitmaps are full or the rounds are used up,
or it ignores an event. The other lemmas use that, and not the steps.

### The whole transfer

`OtaSystemProofs` is about `OtaSystem` for any line of nodes, file, page size, number
of rounds, queue depth and secVers, and any number of lost packets and reports.

* `SystemImplementsUart` (`ImplementsUart`), under `WaitsForCoordinator`: each step of
  the system is a step of `OtaUart` or leaves its variables alone. What there is to
  show is that a report on its way is one `OtaUart` may draw: it has the type of
  an answer and comes from a node of the routing table. All of `OtaUartProofs` then
  holds of the system, and the rest of the module uses it.
* `SystemCorrect` (`SystemInv`), and from it `SessionAgreedCorrect`,
  `StagedImageCorrect` (`StagedImageIsHosts`) and `PageOkStoredCorrect`
  (`PageOkMeansStored`), under `OneFile`.

`OneFile` is `WaitsForCoordinator` and `ReliableAnswers` as above, and

* one run of the script (`MaxStarts <= 1`). Packets and reports name no session
  (`ota.h:142`). After a second run a report of the first counts as an answer to
  the second (the hazard at `ota-coordinator-session.c:253`), `host.file` is another
  file, and what was staged before is not it;
* `SectorPages = 2` only with the dual-onchip backend, as in the code: the off-chip
  backend keeps no erased sector.

None of the properties is inductive. A node compares a page with what PAGE_END says,
so what it keeps depends on what is on its way to it, and what the coordinator
concludes depends on reports that left before. `SystemInv` says of each part what the
others rely on:

* *Packets* (`StreamInOrder`): what is queued anywhere was cut from the host's
  file; a START has nothing in front of it, and nodes behind it are as they booted;
  behind a VERIFY there is only VERIFY, on this hop and on all hops before it. So no
  DATA reaches a node after VERIFY, and a staged image stays as it was.
* *Nodes* (`NodeKeepsPages`, `NodeInSession`): a committed page is in flash, and with
  as many pages as the last one's number says, all before it are. An open session is
  for the host's file and only goes forward, so that an erase never reaches a
  committed page; in sectors of two pages it erased the sector it is filling.
* *Reports* (`ReportsTrue`): a full bitmap, on its way or about to leave, is of a page
  that was committed; an acceptance comes from a node with an open session.
* *Coordinator* (`AnswersTrue`, `PagesCommitted`): a node that counts as complete has
  committed this page, and while no page was given up the nodes of the session have
  committed all pages before the coordinator's.

`PagesCommitted` holds across the end of a page because FW:PAGE_OK before the last
round needs a full bitmap of every node, and a full bitmap is a committed page; the
lemma of `OtaUartProofs` that shows the first (`PageOkDistributes`) is used here again.
The node's part of each step comes from one lemma on a node record
(`SensorNodeProofs`), the line's part from one on queues, so that the proof of a step
only puts them together.

### What a transfer delivers

The properties above are about what must not happen; a system that drops every packet
has them. `OtaDeliveryProofs` proves `DoneMeansStagedCorrect`
(`SystemSpec => []DoneMeansStaged`): when the script is done, no packet or report was
lost and nothing is on its way, every node of the line that runs an older image has
staged the file. It is a safety property, without fairness: the coordinator cannot get
to the end without every page having reached every such node. It assumes `Delivers`:

* `OneFile`, as above. Lost commands are allowed: the script repeats them;
* `Suited`: the target is a slot, the file fits it (`start_status` rejects it
  otherwise), and the secVer in the header of the file is newer than that of the
  nodes which would accept a secVer of the command line (`ota-sensor.c` compares the
  one, staging the other);
* `OlderInSession`: if the line has older nodes, one of them is among the first
  `MAX_NODES`. Otherwise all of the session rejects, the coordinator answers
  NO_TARGETS and the script ends, while nodes beyond the session wait for a file.

`Older` is older than every secVer the script may declare. A node beyond `MAX_NODES`
is never asked for a report, and is covered all the same: it hears what the session
hears, and nothing is lost.

The inductive invariant is `DeliveryInv` (`DeliveryCorrect`). It treats a packet as an
*event*, and relates events to nodes:

* *What a packet needs is in front of it* (`InSequence`): a chunk needs START and the
  PAGE_END before its page, a PAGE_END all chunks of its page, VERIFY the last
  PAGE_END (`Needs`). Each of them has arrived at the node or is queued nearer to it
  (`Ahead`). Queues are first in, first out, and a node passes packets on in the order
  it handles them, so this survives a hop (`KeptPasses`); the head of a node's queue
  has all it needs (`HeadTaken`).
* *A node that has what a packet needs takes it* (`StartTaken`, `DataTaken`,
  `PageEndTaken`, `VerifyTaken`): an older node's flash is the host's file up to the page it is at,
  chunk by chunk as its bitmap says, and erased beyond; its CRC is that of the file's
  first pages (`NodeDelivers`). So PAGE_END commits, and VERIFY stages.
* *What the coordinator is past was sent* (`StreamSent`): it is at the older nodes or on its way to
  them. `Due` says for each position of `distribute_process` what it is past. The
  process leaves the first pass through a page only with all chunks out
  (`DistributeOut`), and cannot skip PAGE_END: that would take a full bitmap of every
  node, which means a committed page (`SystemInv`), and no page is committed before its
  PAGE_END was sent (`NotEnded`).
* *Older nodes are admitted* (`OlderAdmitted`): until its report is in, the START or
  the report is on its way, so the admission timer, which is slower than the network,
  finds them all accepted, and NO_TARGETS is not answered.

`NotEnded` holds with losses too; the rest is stated for `lost = 0`.

### What a transfer recovers

`OtaRecoveryProofs` proves `RecoveryFollowsLossCorrect`
(`SystemSpec => []RecoveryFollowsLoss`): as long as nothing was lost, no page needs a
second round, whatever the order in which packets, reports and the steps of
`distribute_process` come. It assumes `Recovers`: `Delivers`, as above, and
`DeclaresSecVer`, that the script declares one secVer and not the "unknown" one, which
every node accepts (the backends compare no versions then). So the session is of
older nodes (`OlderOnly`), and those are the ones `DeliveryInv` speaks of.

The inductive invariant is `RoundInv` (`RoundsCorrect`); it follows a round around:

* *A node that is asked has the whole page* (`PagesFull`). PAGE_END is queued behind the
  chunks of its page (`InSequence`), so a node that gets it commits, and a report is of
  a page with all its chunks (`Full`). A committed page keeps its bitmap until the next
  page, so that a second report of it would be full as well (`CommittedFull`).
* *Every node that has not replied will* (`OneRound`): while the process waits, its PAGE_END is
  on its way to the node (`Asked`) or the answer on its way back (`Answers`). Each hop,
  each handler and each report passes this on (`ReportOrComing`); who has replied, replied
  with all chunks. The report timer fires when the network is quiet, and then no node is
  left to wait for; the event that all have replied is posted and not taken yet, so
  the timer finds it there.
* *Nobody answers too soon.* Before PAGE_END is sent no node has committed the page and no
  PAGE_END of it is queued (`Unasked`), so `node_replied` is clear when the round begins: reports of
  the page before are of another page and ignored.

So `AllRepliedEvent` always finds the page complete, `Resend` is never reached, and
neither `retry_count` nor a second `recovery_round` is used. The claim is stated until the
transfer is `Finished`, after which a VERIFY may close sessions and nothing is asked.

### The boot side

`BootProofs` is about `DualOnchipBoot` for any images, any number of downloads, power
losses and crashes. `BootTypeCorrect` (`Spec => []TypeOK`) needs nothing more. The
others assume `FailuresShow`:

* a metadata write that fails leaves no valid record, rather than the old one (there
  is no `"kept"` in `WriteOutcomes`). The fallback invalidates the running image
  whatever became of its write (`sensor-node-dual-onchip.c:337`), so after a failed erase the
  next boot would find the used-up attempts of the old record and give up the other image too;
* no update is accepted over an image that may crash: files are not newer than such
  an image and declare their secVer (`CrashersAreLast`). Crash-looping *updates* are
  what this leaves, and what the fallback is for. `boot_fallback` shows the other case.

Under it: `SomethingBootsCorrect`, `RecordedCorrect`, `AbandonedCorrect`,
`FallbackCorrect` (`AbandonedOnlyForFallback`), `StagedKeptCorrect`, and
`BootInvariant`, where the assumption is a part of `IInv`.

`IInv` rests on two facts. *Beside an image that may crash there is an older one that
boots, or nothing* (`CrasherHasFallback`): a download runs only while another image
does, and only into the other slot (`DownloadOfRunning`). So at most one slot holds
such an image (`OneCrasher`), BIM prefers it while its header is valid, and the
fallback finds something that boots. *Boot attempts are crashes* (`AttemptsInRam`,
`AttemptsInFlash`): at most one attempt is the first boot of the image, and while it
runs metadata in flash is the copy in RAM, or lost (`MetadataInStep`), so a lost page
only forgets attempts. An image that does not crash therefore has one attempt at
most and never reaches the fallback, and one that falls back has crashed three times.

### The legacy builds

`LegacyProofs` proves `StoredPagesCorrect` (`Spec => []StoredPagesStay`) and
`VerifiedCorrect` (`Spec => []DoneMeansVerified`) for any line of nodes, file, old
contents of the flash, page size and number of rounds, and any number of lost packets
and reports, failed erases and failed writes. It assumes `Transfers`:

* one run of the script (`OneRun`): reports name a page and no run, so that a report left
  over from the first run answers for the second, and TLC finds `StoredPagesStay`
  violated with `MaxStarts = 2` after one lost report;
* answers that are not lost (`ReliableAnswers`): a chunk sent again after its answer was
  lost is counted twice, as in the run `uart_retry`.

A legacy node writes before it looks: the bit of a chunk is set whatever became of the
write (`sensor-node-legacy.c:302`), and only PAGE_END compares. So "all bits are set"
says nothing about the flash by itself, and the first proof is about who has compared.

* *One exchange* (`InStep`): as for `OtaUart`, where script, link and coordinator are in
  the file.
* *The order of packets* (`StartFirst`, `VerifyLast`): what is queued was cut from the
  host's file; nothing comes before a START, and behind a VERIFY only VERIFY.
* *A node keeps a page* (`Keeps`): the page is in its flash, and it is at a later
  page, or has every bit of this one and has found it to match. Then no packet that
  is still to come changes it: chunks of it are repeated, chunks of earlier pages are
  refused, later ones erase only their own page.
* *Whoever reports a page in full keeps it* (`ReportsKept`, `BitmapsKept`), for a
  report about to leave, on its way, or counted by the coordinator. So a page that
  ends without being given up is kept by the whole session (`PagesKept`).
* *After VERIFY* (`Over`) a node forgets its page, but nothing except VERIFY follows.

The second proof is about what a transfer delivers as long as nothing fails. Its
invariant `DInv` adds `Delivered` to the first one while `lost` is 0:

* *The stream is unbroken* (`StreamUnbroken`): the packets have one order, START, the
  chunks of a page, its PAGE_END, the next page, VERIFY (`Follows`). Each node has a
  packet it took last, and its inbox holds exactly those from there up to the one the
  node before it took last; for the first node that is what the coordinator sent last,
  which follows from where script and process are (`SentLast`).
* *What a node took is what it holds* (`Took`): the chunks so far in an erased page, the
  CRC of the pages before. So PAGE_END matches, VERIFY finds the whole image, and no
  chunk is refused as one of an older page, which would keep it from the nodes behind.
* *The rounds end by their reports* (`RoundOpen`, `RoundClosed`): whoever has not replied
  is still to hear PAGE_END, through the inboxes before it, or has its answer on the
  way; every answer for a page that was ended is full (`ReportsAnswer`), and the event
  is posted exactly when the last one is in. So no timeout fires and no chunk is
  repeated, although the coordinator waits only for the nodes its session has room for.

When script and network have come to rest, every inbox is empty, so every node took
last what the coordinator sent last, which is VERIFY.

### Only model-checked

`PageEnds` and `CrashLoopEnds`: everything temporal under fairness is beyond the prover.

## 5. Not modelled

The routing protocol, TSCH and the radio, except as lossy FIFO hops; association at
start-up; the serial shell; STAGE reports, which their receiver only logs; byte
offsets inside a chunk and the hex format of UART lines; the contents of the OAD
header beyond what decides whether an image is staged or booted; energy
measurement, LEDs and logging. Four hazards in `PROJECT.json` have no property, each
with the reason.

## 6. Plan

1. Done: the sensor node with its proofs and its abstract specification, the
   coordinator with the script, the line of nodes, which implements it, the boot side,
   the legacy builds.
2. Extend: two STARTs over the network, for START reports of an earlier one; metadata
   writes that fail without effect during the fallback; a routing table that changes
   between sessions.
3. Prove: `RecoveryFollowsLoss` for nodes that accept an undeclared secVer.
