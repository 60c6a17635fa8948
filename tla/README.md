# A TLA+ model of the N-Break Econet gateway

N-Break is firmware for an ESP32-C6 that puts BBC Micros on an Econet in touch
with AUN hosts on an IP network. It answers on the Econet for the AUN stations it
is configured with, and on UDP ports for the Econet stations. This directory
holds TLA+ modules of its logic and of the file system it keeps its settings in, the
TLC runs that check them and the proofs TLAPS checks. Paths such as
`econet_tx.c:313` are relative to `src/main/`; `lfs.c` and `esp_littlefs.c` are
under `src/managed_components/joltwallet__littlefs/src/`, `ws.ts` under `src/web/src/lib/`.

Check a run with `tlc -config EconetUnicast.cfg MCEconet.tla`, the proofs of a
module with `tlapm EconetProofs.tla`; the eight `...Proofs` modules hold the proofs. `PROJECT.json` lists the runs, the source lines every
definition models, the hazards and the findings.

## 1. The system

### Components, state, operations

| Component | State | Operations | Modules |
|---|---|---|---|
| Receiver, `econet_rx.c` (interrupt) | shift register, CRC, `rx_idle_one_counter`, a ring of 3 frame buffers and its index, station and network bitmaps, `econet_rx_packet_queue` (4) | `_clk_bit` per bit, `_complete_frame` per frame, set bitmaps | `Hdlc`, `Econet`, `Outbound` |
| Transmitter, `econet_tx.c` (task `adlc_tx`, priority 24) | `tx_command_queue` (8), `is_data_ready`, `tx_is_in_progress`, `tx_is_awaiting_imm_reply`, `is_flagstream_queued`, `_imm_reply`, bit buffers | `_tx_task` loop; `econet_send` for its caller | `Econet`, `Hdlc` |
| AUN bridge, Econet to IP, `aun_bridge.c:141` (task, priority 1) | `rx_seq`, the packet held in place, `ack_queue` (10) | pair scout and data, offer to trunks, number, send, wait for the acknowledgement, retry 4 times | `Outbound` |
| AUN bridge, IP to Econet, `aun_bridge.c:270` (task, priority 1) | per AUN station `last_acked_seq`, `last_tx_result`; sockets, control pipe | select, look up, drop duplicates, `econet_send`, answer | `AunInbound`, `UdpTask` |
| Trunk bridge, `trunk.c` (in the two tasks above) | per trunk socket, key, `seq`, `last_acked_seq`, `last_tx_result`, networks learnt, update countdown | encrypt and send, receive, learn networks, tick | `Outbound`, `UdpTask` |
| Reconfiguration, `aun_bridge.c:542-600`, `trunk.c:408` | `is_running`, `shutdown_notify_handle`, control pipe, sockets, tables | stop both tasks, rebuild, start both | `Outbound`, `UdpTask` |
| Configuration store, `config.c` | parsed JSON, `/user/config.json`, secrets in NVS | load, save (temporary file and rename), migrate, reset | `ConfigStore` |
| Web server, `http.c`, `http_ws.c`, log task `logging.c` | WebSocket client table (4), broadcast message buffer, timers | sessions, requests, responses, broadcast worker | `WebServer` |
| Web interface, `ws.ts` | the socket, pending requests, timers | request, ping, reconnect | `WebClient` |
| littlefs, `lfs.c`, `esp_littlefs.c` | metadata pairs, list of directories, global state, block lists, lookahead window, open files, descriptors | commits, compaction, mkdir, remove, rename, open, read, write, truncate, sync, close, mount | `MetadataPair`, `LfsTree`, `CtzList`, `LittleFile` |
| WiFi `wifi.c`, encryption `crypt.c`, start-up `main.c`, clock `econet.c`, ParlIO driver | | | section 6 |

### How they interact

The receive interrupt talks to the two tasks only through the two queues, and to
the transmitter also through shared flags: it reads `tx_is_in_progress` and
`tx_is_awaiting_imm_reply`, and `econet_tx_pre_go` sets `tx_is_in_progress`,
starts the flag stream made ready and clears `is_flagstream_queued`. The
transmitter reports to the caller of `econet_send` with a task notification and
the global `tx_sent_ack`. Packets are never copied on their way to the bridge: the
queue carries pointers into the ring of receive buffers, and the bridge builds AUN
packets in place, so a packet must survive in the ring for as long as a
transaction takes. The two bridge tasks meet in `ack_queue`: the UDP task posts
the numbers acknowledged, the Econet task waits for its own. The web server's
task calls `aunbridge_reconfigure`, which stops both. It also saves settings, as do
the timer service and start-up; a save is a file replaced by rename on littlefs,
plus NVS. Log lines and statistics reach the pages through one broadcast buffer.

### What is hard

* The interrupt runs between any two steps of the tasks; one command queue carries
  requests, orders to acknowledge, acknowledgements, immediate replies and idle
  reports, and the transmitter interprets them by its position in the loop.
* A send is deferred while the bus is busy and resumed at a later command.
* Time-outs race with late events: the handshake waits, `econet_send`'s own wait,
  the AUN retries, the page's ping.
* Flash operations suspend tasks but not the interrupt, so queues run ahead of the tasks.
* UDP loses and repeats packets; either end may restart and count from the start.
* Reconfiguration takes place under live tasks and sockets; descriptors are reused.
* Power may fail between any two writes, and within one. What is half done on flash is
  told from what is there: erased units, revisions, xor-ed global state.

## 2. How the modules fit together, and what is next

`Econet` shows what the results of `econet_send` mean; `AunInbound` and `UdpTask` take it by
these results. `Econet` shows that a packet's bytes last, which `Outbound` relies on; `Hdlc` gives
`Econet` its events. `Outbound` and `UdpTask` divide the bridge's two tasks and their
reconfiguration between them: the acknowledgement queue and routing in one, sockets and the clock
in the other. `WebUi` composes `WebServer` and `WebClient` over `WebLink`. `MetadataPair` shows a
commit to be atomic, which is what `LfsTree` and `LittleFile` build on; `LittleFile`'s and
`LfsTree`'s atomic rename is what `ConfigStore` relies on.

Abstract specifications: `Delivery` (a link to a station: in order, at most once, acknowledged
only if accepted), implemented by `AunInbound` and, for trunks, by `UdpTask`; `AtomicUpdate` (a
change takes effect at one moment or not at all), by `MetadataPair` and `LfsTree`; `FilePromise`
(a program works on its own copy of a file, and what is saved is saved whole), by `LittleFile`.

The theorems of a module are in its `...Proofs` module (section 5). What is left: a proof that a
commit of `LfsTree` leaves list, tree and global state consistent when no repair is due, and one of
truthful results with broadcasts; of the code, WiFi and splits of directories.

## 3. The modules

### FreeRTOS

A non-blocking queue send drops the item when the queue is full, a blocking one waits for room.
External code, modelled from how the firmware uses it.

### Hdlc

`_generate_frame_bits` (flags, bit stuffing, CRC, bit lengths) and `_clk_bit` bit for bit. A byte
and the CRC register are functions from bit numbers to bits, the register steps as the loop of the
code does. The line is external: between frames it may carry noise, a frame may break off, a bit be
misread. This station and another send in turn. Ghosts: `got` holds the frames accepted since the
last one began, `whole` says whether that one got through untouched, `sent` holds all payloads sent.

* `FramesGetThrough` (of every step): a whole frame of an acceptable length is accepted as it was
  sent, at its last bit and only there, whatever its payload and whatever was on the line before;
  a whole one too short or too long is dropped.
* `NothingMadeUp`: nothing is accepted that was not sent, whatever breaks off or is misread.
* `IdleMeansNoFrame`: types, and fifteen ones are not counted while a frame is being received.

Run `hdlc`: two frames of five payloads (all ones, bytes like flags and aborts, too short, too long
for the buffer), `ECONET_MTU = 8`, two bits of noise, one fault. For `NothingMadeUp` two faults or
three bits of noise are no use: a damaged frame may then pass a 16-bit check sum by chance. The
other two are proved for any noise and any faults.
A frame that does not fit its buffer is not sent in the model (`Fits`): the code returns length
0, which nobody checks, and the driver's refusal restarts the device.

### Econet

One module for the interrupt, the transmitter task, the task that calls
`econet_send`, the task that takes packets, and the wire, because their shared
state is what can go wrong. Variables keep the names of the code. Every action is
the code between two points where another actor can be seen:

| Actions | Code |
|---|---|
| `BusActive`, `IdleBits`, `StoreByte` | `_clk_bit`: the idle counter leaves and reaches 15; a byte is stored |
| `AckReceived`, `FrameReceived` | `_complete_frame` for a frame for this station, with all it posts and `econet_tx_pre_go` |
| `TopOfLoop`, `ReceiveCommand`, `Defer`, `StartSend` | `_tx_task` up to the transmission of a scout or broadcast; `StartTransmit` is the start of `_transmit_bits` |
| `AckSent`, `BroadcastSent`, `ScoutSent`, `DataSent` | `parlio_tx_unit_wait_all_done` returns, and what the addressed station does about the frame |
| `WaitScout`, `WaitData`, `ScoutExpired`, `DataExpired` | the two waits of 200 ticks and what follows each answer |
| `Send`, `PostSend`, `PostExpired`, `SendReturns`, `SendExpired` | `econet_send` and `_start_send_and_wait` |
| `TakePacket`, `ReleasePacket` | the bridge's `_econet_rx`, and its return for the next packet |
| `OtherStarts`, `FrameLost`, `FlagsEnd` | the wire: other stations transmit, frames are damaged or for others, flags run out |

A frame received is its *stamp* (how many were accepted before it), the buffer it lies in and the
call it answers; a buffer is the stamp of the frame in it, or 0 once other bytes went in.
A frame to send is the number of the call it was built for. The wire is one value:
quiet, our flags, our frame, a clash, or the kind of frame another station sends.
`accepted`, `peer` and `inbound` are history and environment: what the
addressed stations have done. `REFUSED` is a packet `econet_send` turns down; a call of it in
state `abort` stands for the `ESP_ERROR_CHECK` of an empty frame (`econet_tx.c:233`).

An incoming broadcast to a network listened for (`econet_rx.c:91`) is left out: it would be delivered
unacknowledged, and the other stations of the model send none.

Two assumptions about time, both named in the module:

* *Priorities.* One core; the transmitter has the highest priority of the tasks, so
  sender and consumer move only while it is blocked (`TxBlocked`). The interrupt
  may come between any two steps.
* *Bits are slow.* Between the end of a frame and the fifteenth idle bit, or the end of
  the next frame, the transmitter gets from one blocking point to the next, unless
  it was woken late (`tx_run`): a flash operation may hold it back after an
  interrupt woke it. Without the first half an acknowledgement would have to be sent within no time.

Other stations start only when this station has seen the bus idle as well;
`EarlyIdle = TRUE` drops that, since a station counts its idle bits from the true
end of a frame and this one only from when `tx_is_in_progress` is cleared.

| Run | Bounds | Shows |
|---|---|---|
| `unicast` | 2 calls of any unicast kind, 1 foreign transmission, 8-place command queue, 3 buffers | `TruthfulResults`: ACK means accepted, a NACK is safe to retry, a reply returned answers that very call; nothing is accepted twice; `TransmitterUsable`: the transmitter never waits with `tx_is_in_progress` set and no acknowledgement queued, and a flag stream is ready; `FrameStable`: the frame being sent is not rebuilt; under fairness every call gets its result from the transmitter |
| `ring` | 2 calls of every kind, two of which may give up, 1 foreign transmission, command queue of 1, ring of 2 | types, and a packet keeps its bytes until one further frame was accepted (`FramesIntact`); an immediate reply meets no handshake that does not expect one (`NoStrayReply`) |

Two calls are enough for what one leaves to the next (buffers, notification, `_imm_reply`,
deferred command), one foreign transmission for every overlap with a handshake. Only in `unicast`
is the transmitter always usable: a command queue that fills loses acknowledgement
orders. `Finished` marks the states where the system may stop.

*Fairness* (`FairSpec`). The bit clock runs, so idle bits are counted, frames end,
flags run out and transmissions complete; the scheduler runs a task that is ready.
Nothing is assumed of the traffic, of the consumer or of the time-outs. The clock is an
external signal: without one the code relies on its 10-second time-out.

### AunInbound

The handler `_aun_udp_rx_process` (`aun_bridge.c:270-385`) with the table `aun_stations`; hosts
and network are its environment.

| Actions | Code |
|---|---|
| `Select` | `select` returns with the readable sockets; they are served in table order |
| `Receive` | `_aun_udp_rx_process` up to `econet_send`, or to the answer of a repetition; unknown types and callers are ignored |
| `SendReturns` | `econet_send` returns, the slot is updated, the answer sent to the address on file |
| `Reconfigure` | the task is stopped at its `select`, sockets are closed with what they hold, every slot set up anew |
| `HostSends`, `HostRepeats`, `HostGivesUp`, `HostAnswered`, `HostRestarts` | hosts, modelled on the bridge's own sender (`aun_bridge.c:200-267`): one packet at a time, repeated under its number; a restart counts from the start |
| `AnswerLost`, and `HostSends` without arrival | the network; datagrams to a socket stay in order, answers do not |

ACK and IMM_REPLY mean that the station took the packet, NACK that it did not, NACK_CORRUPT and
SEND_ERROR leave it open (`Possible`). Port, control byte and payload are the number of the packet.

Run `aun_inbound`: a known host with two packets of data, an unknown one with one of another kind,
two datagrams on the way, a restart of a host and a reconfiguration. ACK only for what was
accepted, answers only to the caller, nothing delivered twice or late, and every link refines
`Delivery` (`PromisesKept`). What a restart or reconfiguration makes the bridge forget, the properties
excuse: they speak of hosts untouched by either (`Untouched`), or of what was sent since. Liveness
(`HostIsAnswered`) assumes that the task is scheduled, `econet_send` returns (shown by `unicast`),
and the network lets some repetition and some answer through: without that no sender could promise
anything.

### Outbound

The task `aun_econet_rx`, `ack_queue`, the networks learnt from trunks, and the controller that
shuts both bridge tasks down and starts them anew. A packet is the exchange it belongs to and its
part, scout or data; stations send an exchange on an idle line and may stop after the scout. Far
ends (AUN hosts, hubs) take a number once and answer whatever they get; the network loses
and delays.

| Actions | Code |
|---|---|
| `Line` | the receiver queues scouts, data and idle reports it accepts by its bitmaps |
| `EconetRxTask` | `_aun_econet_rx_task`: wait for a scout, for its data (ten seconds), route, send, take up to five numbers from `ack_queue` per transmission, four transmissions |
| `UdpTask` | acknowledgements posted to `ack_queue`; bridge updates in two steps (reset of the networks, new bitmap) |
| `Controller` | `aunbridge_shutdown`, `aunbridge_reconfigure`: shutdown packet, notification, control pipe, tables, start |

`OwnScout`: data goes out under its own scout, unless the queue has overflowed. `InOrderOnce`.
`ListensWhereRouted`: the receiver answers for a network only while an open trunk leads
there. It is stated of configurations of which any two that have trunks have the same ones
(`SameTrunks`); otherwise it fails (section 4). `QuietWhileRebuilt`: no old task is at work while tables are rebuilt, and no shutdown
packet is left over. `ExchangeHandled`: a complete exchange is sent or given up, `ReconfigureEnds`.

Run `outbound`: one station, one host, two trunks, two networks, two exchanges, a queue of three
packets, an `ack_queue` of two, two tries, one update, one reconfiguration to or from a configuration
without trunks and with another network of our own. *Fairness*:
tasks are scheduled and time-outs expire; the controller, waiting in `xQueueSend` at a higher
priority, gets a place if places become free again and again (strong fairness).
Far ends and network promise nothing.

### UdpTask

The loop of `_aun_udp_rx_task` over all sockets: `select` with a one-second time-out, the control
pipe, stations in table order, then trunks, then `trunk_tick`; and `aunbridge_reconfigure`'s
closing and opening of sockets: `SetupStations` closes and opens those of the stations while the old
trunks' are still open, `SetupTrunks` those of the trunks. A new socket gets any free number, as lwip
serves others too, or none: a station without a socket leaves its slot to the next, a trunk leaves it
cleared. Closed slots keep their numbers as the code keeps them, and the loop looks them up in the
set like the others; one whose number another socket has got is `Haunted`. It takes the other's datagram,
which the model drops (the code takes it for the closed slot's), or waits for one. An update
that the clock of such a trunk sends through the other's socket is not modelled.

`ReceivesOwn`: whatever numbers pass between slots, every open slot has one of its own and no other socket is
open (`OwnSockets`); and a slot served is open and its socket has a datagram, unless the task is haunted.
`TrunkPromise`: the packets of a hub refine `Delivery` until the first reconfiguration.
`ShutdownEnds`: a task told to end does, unless it is haunted. `HubHears`: after each rebuild a hub gets an
update from an open trunk, whatever the countdown of the slot was when it was closed.

Run `udp_task`: one station and one trunk, either of which may fail to get its socket (so that slots
open, close and exchange the two numbers there are), two packets, updates every 2 rounds of
a counter modulo 3 (10 and 2^16), two reconfigurations, as it takes one to close a slot and one to open it
again. A reconfiguration starts the histories of `Delivery` and of updates anew. *Fairness*: the task
is scheduled, `select` times out again and again, not every update is lost.

### WebLink, WebServer, WebClient, WebUi

`WebLink` is what both sides rest on: connections that keep messages in order until they break
without telling either side. `WebServer` is `http_ws.c` with the close hook of `http.c` and the
log task: `Accept`, `Serve`, `CloseFrame`, `RecvError`, `EndSession` (client table), `Worker`,
`Stream` and `StreamQueues` (broadcast buffer), `ReconfigWifi`, `Reboot`. `WebClient` is `ws.ts`: one action per browser event,
timer and call. The log task and the statistics broadcast in two steps, the critical section and the queueing
of the worker, between which the other and the worker may come; a handler in one, as the worker is run by the
same task. A broadcast fails only on a broken connection; a run of the worker is one step; the network is lost only by `ReconfigWifi`. The
delay before a reconnection (`pendingRestart`) and `closeWebSocket` are left out; the
ping loop forgives `PongTicks` ticks (the code: 2).

`LiveSlots`: the client table names only live sessions, each once. `SentWithTheNext`: two messages never
wait unless a worker is queued or some task is about to queue it. `Settles`: every request's promise is settled. `Reconnects`.

Run `web`: two connections, one request, two client slots, two broadcasting tasks, a broadcast buffer of two. *Fairness*:
tasks, browser events and timers; TCP gives up a broken connection that is being sent to.

### ConfigStore

Start-up, the HTTP server's task and the timer service each have a list of steps `todo`; a step
writes the flash at most once. `Boot`, `OldPass`, `Retire` are `config_init` with the
migration; `Request`, `WifiTimer`, `ResetTimer` the handlers; `Update`, `Pass`, `Open`,
`PrintUnformatted`, `Close`, `Rename` are `config_save`; `Erase`, `Remove`, `Restart` the factory
reset; `Crash` a power failure. A setting is a number; stations, clock and the network's name and
password are kept. Run `config_store`: two values, a device with settings or one in the old format,
three saves, two failures: the file is whole (`FileWhole`), what a page was told is saved is what
the next start loads (`SavedSurvives`), nothing comes back after a factory reset (`ResetIsReset`).
`excused` marks two saves at a time and saves into a missing section (section 4).
Run `config_fresh`, a new device, violates `SavedIsKept`.

### MetadataPair, AtomicUpdate

A directory of littlefs as it lies on flash: two blocks of units, each unit erased, torn, part of
a commit or its check sum. `Begin`, `AppendUnit`, `AppendEnds`; `Compact`, `Erase`, `Write`,
`WriteEnds`; `Relocate`, `NoSpace`, `Parent`; `Create`, `Remove`; `Crash`, `Mount`. After `NoSpace` the
pair is `"refused"`, from where a call goes on as from `"idle"` (`Ready`). A unit may fail to hold
what is programmed; power may fail within a unit or an erase. `dir` is the directory structure
of the commit, `handle` the caller's copy; both keep `erased` as the code does, which sets it only in a fetch and in
`lfs_dir_alloc`, so that a copy may say less than the flash, or more when the block is full. Run `metadata_pair`: three blocks, two keys, two commits of two
units per block, eight revision counts so that they wrap, block cycles of 2, four changes, one
crash, two faults. `ChangesAreAtomic` refines `AtomicUpdate`, where a change that failed or was cut off
leaves the content `"broken"`: as it was or as wanted, but settled; `ProgOnlyErased`; `HandleAgrees` with
what a fetch would find in its pair, revision and end of log, and lets a commit append only where that flash is
erased, unless a commit has failed for want of a block (section 4). The parent's
commit is atomic; superblock pair and splits are left out.

### LfsTree

`mkdir`, `remove`, `rename` and the creation of files over directories that are blocks' contents
here: entries, tail, revision, and what they store of the global state. `todo` holds the commits
still to be made by the call, so that a crash can come between any two. `Outcomes` and
`RelocatingCommit` are one commit (appended, compacted, or moved to another block);
`TellParent` and `TellPred` the loop of `lfs_dir_orphaningcommit`; `Demove`, `Deorphan`, `Scan`
the repair every call starts with; `Mount` reads the state stored back after `Crash`. The exclusive or of the global state is a symmetric difference
of facts. `TreeChangesAreAtomic`: the set of paths refines `AtomicUpdate`, whatever the repair does.
`Consistent`: memory knows what is stored; and when no repair is due, every directory on the list
has one parent that names it by the same blocks.

Run `lfs_tree`: seven blocks of which two are the root, three directories, two names, four calls,
one rewrite (a compaction of an erased pair, or a relocation) and one power failure: enough for
every call to be cut by the failure with a relocation before or after. Nested relocations need two
rewrites and are not reached by it; what more bounds find is in section 4. Not modelled:
split directories, the shift of ids, the expansion of the superblock, commits that fail, and
a directory renamed below itself, which the code does not guard against.

### CtzList, LittleFile, FilePromise

`CtzList` is the arithmetic of a file's block list (`lfs_ctz_index`, `_find`, `_extend`,
`_traverse`). `LittleFile` is the files of a volume by the calls of `esp_littlefs.c`: open with its
modes, read, write, seek, truncate, sync, close, rename, unlink, on files inline or in blocks,
with the lookahead allocator and bad blocks found when erased. A call is atomic, as every call
holds the volume's lock, except that power may fail between the flush and the commit. Caches and
the reading state are not modelled; words are four bytes; a descriptor is the lowest free one.
`FilesArePromised` refines `FilePromise`; `FreeIsFree`: nothing in use is given out;
`RoomIsFound`: "no space" only when there is none.

Run `little_file`: eight blocks of six words, a window of three, two names, two descriptors, one
possible bad block, writes of one and of 13 words (three blocks, so that block 2 has two
pointers), five calls, one restart, from a volume with one file of three blocks.

## 4. Findings

`config_fresh`: items of the configuration are *replaced*, and on a device freshly flashed there
is none to replace: stations and trunks that are saved are acknowledged and dropped, a clock or a
network's name is gone at the next start.

The following were met while modelling. Each is excluded from the runs by a bound or by a ghost
named here; where a recipe is given, TLC shows the trace.

Econet:
* A send deferred at `econet_tx.c:313` is carried out with the flags of the command that arrives
  later: a broadcast becomes a repetition of the old scout, against `econet.h:163` (add `INVARIANT
  BroadcastNeedsNoAck` and `Kinds <- Everything` to `EconetUnicast.cfg`).
* `_imm_reply_len` is never reset (`econet_tx.c:458-465`): a plain acknowledgement hands out the
  previous reply (`INVARIANT ReplyOnlyWithReply`).
* After `econet_send`'s time-out the command is still queued, its late notification is taken by
  the next call as its own result (`MaxTimeouts = 1`: `TruthfulResults`).
* With `EarlyIdle = TRUE` `TruthfulResults` fails: any command but `I` counts as the
  acknowledgement awaited (`econet_tx.c:374-388`).
* The closing flag of a frame is not the opening flag of the next; no check that a frame ends on
  an octet.

AUN and trunks:
* One number is remembered per host: with packets under way to two Econet stations a
  repetition is delivered again (`BeebCount = 2`, links of one host to both: `DeliveredOnce`).
* Hosts are recognised by port only (`aun_bridge.c:81-91`): of two with one port the first gets the
  second's answers (`AnswerGoesToCaller`).
* A packet for another network whose trunk is gone is looked up among the local AUN stations
  (`MaxUpdates = 2`: `RemoteStaysRemote`).
* Retries to a trunk encrypt the packet again, in place (`trunk.c:40-52, 179-200`: `TakenIntact`).
* Networks of a trunk that was removed are kept, and the next update of a trunk that stays has the
  receiver listen for them; what it accepts goes to the removed trunk, whose socket is closed (`trunk.c:92-104, 411-418`;
  `MaxUpdates = 2`, `MaxExchanges = 1` and configurations with trunks {1, 2} and {1}:
  `ListensWhereRouted`). AUN and trunk numbers share a queue that is
  never cleared; a NACK counts as an acknowledgement; a queue that overflows shifts the pairing of
  scouts and data (ghost `overflowed`).
* When a reconfiguration leaves fewer stations or trunks, or one gets no socket, closed slots keep their
  numbers and are still looked up in `select`'s set; the task may wait in `recvfrom` for ever for what
  another slot received, against "Shut down receivers so we can safely modify state"
  (`aun_bridge.c:438-456, 562`; drop `~Haunted` from `ShutdownEnds`).

Web:
* `is_empty` is inverted (`http_ws.c:606`): a single message waits for the next one.
* The close event of an old socket discards the newer one (`ws.ts:74-76`), which stays open and
  holds one of four slots; a client beyond the fourth never gets broadcasts.

Configuration:
* After a migration `config_wifi` has its defaults (`config.c:486-493`), and the next save writes
  them over the migrated ones; a power failure between retiring the old file (`config.c:472`) and the
  save loses the stations.
* Two tasks that save at once may lose a save that was acknowledged (ghost `excused`); the results of
  `fputs`, `fclose` and of the save are not looked at; an empty password is not saved; trunk
  keys are stored by position.

littlefs:
* After a commit that failed, an open file's copy of the directory still says "erased", and the
  next commit programs over it (`lfs.c:3695`; ghost `failed`).
* `sync` and `close` of a file in error return 0 without saving; a failed `close` leaks the
  descriptor; `pread` and `pwrite` skip `sem_give` after a failed seek; a reader's blocks are not protected once
  the file is replaced through another descriptor; a dirty file that has just left the inline state marks
  a block that is no block as used.
* A worn pair with no free block is rewritten in place, but reported as relocated: the
  global state is not written with it although the commit counts (`lfs.c:1974-1977, 2050-2056,
  2109-2119`). Power failing before the parent's commit leaves a renamed entry in both
  directories (six blocks instead of seven).
* Two power failures and a relocation: after an interrupted rmdir the next mkdir's first commit,
  to a directory not yet on the list, absorbs the clearing of the orphan bit; a relocation
  of the parent then cancels the bit, and a failure leaves a half-orphan unmarked (`lfs.c:2655-2672,
  2329-2331`; `MaxCrashes = 2`).
* Two relocations in one rename: the directory renamed into is relocated, then the renamed one
  while its predecessor is told; `lfs_fs_parent` does not find the parent, which is not on the list at its
  new place yet (`lfs.c:2501-2506`; `MaxRewrites = 2`).
* `lfs_remove_` clears the orphan mark before the commit that drops the directory, which may
  fail (`lfs.c:3941-3952`).

## 5. Proofs

A theorem holds for every value of the constants that satisfies the module's assumptions, where
a run shows the property for one small instance. Every theorem's module proves an invariant that
the initial states satisfy and every step keeps, and derives the property from it; TLC checked
these invariants on the run's instance before they were proved. There is one lemma per part of the
invariant or per group of actions, and one step per action. A module starts with the facts it
needs about queues (what is in `Append(q, x)` and `Tail(q)`, and where) and least elements. The only
hypotheses are the assumptions the modules make of their constants, and the conditions named below.

### EconetProofs

* `TypeCorrect`: `Spec => []TypeOK`. `TypeInv` adds that a call under way is recorded in `calls`.
* `FramesStayIntact`: `Spec => []FramesIntact`, of which the types are a part. That the next byte stored spares a live frame
  depends on where the frame lies, so `RingInv` says of every reference in the system that a live
  frame lies as many slots behind `rx_packet_buffer_index` as frames were accepted since, modulo
  `BufferCount`.
* `ResultsAreTruthful` (`TruthfulResults`), `SentOnce` (`AcceptedAtMostOnce`), `RepliesAwaited`
  (`NoStrayReply`), `FramesUndisturbed` (`FrameStable`), under `Orderly`: no wait of the caller runs
  out, no station starts before this one has counted its idle bits, nothing is broadcast.
  Time-outs and early stations make results untrue and a broadcast may repeat an earlier packet:
  section 4. Queue lengths, calls and traffic are arbitrary, so command queues that fill
  are included.
* `TransmitterReturns` (`TransmitterUsable`), under `Orderly` and `[]HasRoom(tx_command_queue, ...)`:
  a full queue loses the order to acknowledge that would clear `tx_is_in_progress`.

The transmitter takes any command but `I` and `R` for the acknowledgement it waits for, so
truthful results depend on which commands can be in the queue at all. `TruthInv` says so, in
eleven parts. A call is in one place: queued, made ready, under way or notified (`StagePart`).
An order to acknowledge is queued only while the flags it is to replace hold the line, or after
a call's data was answered and before the transmitter has run (`Fresh`, `Stale` in `QueuePart`);
either way no frame of the next call starts in between. What comes in behind a call that is queued or
deferred keeps the bus busy until it has been taken (`PendingPart`). A command at the head while
the transmitter waits for an answer is then an idle report or the addressed station's answer
(`ReplyPart`, `ScoutPart`, `DataPart`), and the rest counts who has accepted what.

### HdlcProofs

* `WholeFramesArrive` (`FramesGetThrough`) and `NoFrameOnIdle` (`IdleMeansNoFrame`), for any set of
  payloads, any buffer sizes, any noise and any number of frames and faults. That covers the bit
  stuffing and the check sum for every payload, of which the run has five.

Check sum and stuffing are recursive functions, which are CHOOSE expressions to the prover:
`RecursionExists` shows that functions with such equations exist. The register is linear
(`StepIsLinear`), so a frame followed by the complement of its own check sum leaves the constant residue
(`FcsLeavesResidual`); five ones are always followed by a zero (`StuffedNext`, `LineOf`).
The invariant `FollowsFrame` says where the receiver is when so many bits of a whole frame are sent: after
the first flag no byte of a frame is held, whatever came before; after the second a frame has begun; after `n` bits of the
body that were not stuffed the bytes, the bits of the next one and the CRC register are those of
the first `n` bits; and the shift register shows a flag only where the sender put one. The first
seven ones counted are also in the shift register (`OnesAreSeen`), and the seventh ends any frame.

### AunInboundProofs

* `CallersAnswered` (`AnswerGoesToCaller`) and `AcksAreTrue` (`AckedDelivered`), under
  `PortsDistinct`: hosts differ in their ports, as that is all the code looks at (section 4).
* `OnceAndInOrder` (`DeliveredOnce`) and `LinksDeliver` (`PromisesKept`: every step of a
  link is a step of `Delivery` or a stutter) also under `OneStation`: a host talks to one Econet station,
  as the bridge remembers one number per host.

The invariant says of every datagram, in a socket, to be repeated, or in the bridge's hands, that its
number is not ahead of what its host has sent (`TypeInv`); up to the first restart of a host, of every
answer and of the remembered result that they tell the truth about the packet of that number
(`AckInv`); and up to the first reconfiguration, that the packets of a host wait in order behind those
accepted, and that a repetition of an accepted one finds its number in the slot (`OrderInv`).

### OutboundProofs

`PairsOwnFrames` (`OwnScout`), `TakenInOrderOnce` (`InOrderOnce`), `AcceptsOnlyRouted`
(`ListensWhereRouted`, under `SameTrunks`), `RebuildsInPeace` (`QuietWhileRebuilt`), the others without a
hypothesis.
`OutboundInv` relates the queue of the receiver to the scout the task holds (until `overflowed`),
the numbers under way to those taken, every network accepted to an open trunk that announced it, and the
controller's place in the handshake to what the two tasks have still to see.

### UdpTaskProofs

* `TaskReceivesOwn` (`ReceivesOwn`), without a hypothesis. The invariant `SocketInv` says that the
  tables change only while the task is gone (`Peace`), that numbers in use are those of the open slots,
  each of one (`OwnSockets`), in between `SetupStations` and `SetupTrunks` too, and that what select
  announced and has not been served is still there (`Announced`).
* `TrunksDeliver` (`TrunkPromise`: every trunk implements `Delivery` until the first reconfiguration),
  under `FreshNumbers`: no packet has number 1. A trunk just opened holds 1 as the last number
  acknowledged, with the result ACK (`trunk.c:401`); numbers go up in fours.

### WebUiProofs, ConfigStoreProofs

* `SlotsAreLive` (`LiveSlots`) and `NoTwoMessagesWait` (`SentWithTheNext`), for any number of
  slots, connections, messages and requests.
* `TheFileIsWhole` (`FileWhole`), `SavesSurvive` (`SavedSurvives`), `ResetForgets`
  (`ResetIsReset`), for any values, saves and power failures. `ConfigInv` has a part for whose turn
  it is (`Turns`), what each list `todo` has still to do to the files (`Whole`, `Saved`), what the migration
  leaves behind (`Retired`), and what a reset has erased (`Forgotten`).

### MetadataPairProofs

`OnlyErasedIsProgrammed` (`ProgOnlyErased`), `HandlesAgree` (`HandleAgrees`: the `erased` of a copy is only
shown to be no more than the flash wherever it is acted on), and `PairIsAtomic`
(`ChangesAreAtomic`: every step of the pair maps to a step of `AtomicUpdate` or to a stutter), for any
number of blocks, commits per block, units per commit, values and faults. `WearAssumption`: the
revision a compaction may skip to is less than half the range of the revision count ahead
(`lfs_alignup`, `lfs.c:1837-1842`; 2^31 against block cycles in the hundreds). `PairInv` says of each block
whether it is dead, whole up to some commit, or being written; that of the two one is what `Fetch`
finds; and, at each place within a commit or compaction, what a power failure there would leave.

### Only model-checked

* Every liveness property: fairness and `ENABLED` are out of the prover's reach.
* `Hdlc`'s `NothingMadeUp`: it is about the errors a check sum detects, and true only of as few as the
  run allows.
* `LittleFile`: its recursive definitions and those of `CtzList` need induction over data.
* `LfsTree`: the repair of the list of directories is checked on its instance only.
* `Orderly` is not needed for everything it is assumed for: with broadcasts TLC finds
  `TruthfulResults` and `NoStrayReply` kept for two calls; `AcceptedAtMostOnce` is not (section 4).

## 6. Not modelled

* WiFi (`wifi.c`): the order of the driver's events is not in the repository.
* Encryption (`crypt.c`): a library around padding arithmetic. (A packet with an empty
  plaintext is encrypted but cannot be decrypted.)
* Peripheral set-up (`econet.c`, `parlio_tx_econet.c`), start-up and statistics (`main.c`), static
  files (`http.c`), escaping of log lines: register I/O or straight lines.
* littlefs: splits, superblock, attributes, directory listing, migration from version 1,
  `lfs_fs_grow` and garbage collection; the parts of `esp_littlefs.c` for partitions,
  formatting and SD cards.
* The programs littlefs tests itself with (`runners/`, `bd/`), other vendored code, the Svelte
  pages, and the earlier attempts and tools under `misc/` and `contrib/`.
