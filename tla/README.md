# TLA+ models of zweidraehte

zweidraehte is a KNX device stack in Rust with a client, a persistence library
and product tooling. This directory holds TLA+ models of its stateful core, the
TLC runs that check them on small instances, and TLAPS proofs of the most
important properties for every size. `PROJECT.json` lists components, runs,
findings, hazards and theorems, and maps every definition to the source lines
it stands for.

## 1. Inventory of the system

| Part | State | Operations | Hard behaviour |
|---|---|---|---|
| Transport state machine (`zweidraehte-proto/src/transport/sm.rs`) | per connection: state, two sequence numbers, repetition count | classify an event, look up a cell of one of four style tables, execute its action | long sequences of legal frames, wrong or repeated numbers, foreign peers |
| Device transport layer (`zweidraehte-device/src/layers/transport/`) | connection table, timers, stored and queued response, access level per connection | frame received, data request, deadline, cEMI takeover | slot reuse, late ACKs, retransmission, empty buffer pool |
| Router and runner (`router.rs`, `runner.rs`) | outbox, three channels of one message | select over channels, services and deadlines; drain the outbox | awaits on bounded channels, outbox bound |
| Network layer (`layers/network.rs`) | FIFO of address types | requests down, confirmations up | FIFO overflow and desynchronisation |
| Group data and user API (`layers/application/group_data.rs`, `stack_handle.rs`) | status per communication object, one pending group send | update an object, receive a group write, confirm | user tasks racing the router, one slot for many sends |
| TP-UART link layer (`layers/linklayers/tpuart/`) | main and send state machines, frame in transmission, next frame | receive, send, displace, confirm, reset | order of confirmations, blocked channels, timeouts |
| Append log and key-value store (`zweidraehte-nv/src/log.rs`, `kv.rs`, `mirror.rs`) | flash banks, active bank, cursor, generation, RAM mirror | open, put, remove, append, compact | power cut or I/O error inside every medium call |
| Sequence-number store (`zweidraehte-nv/src/stores/sequence/siat.rs`, `zweidraehte-proto/src/security/seq.rs`) | live counter and durable watermark, receiving floor per sender | reserve a number, save a floor, write and clear rows, boot | reuse or replay after a power cut, end of the number range |
| Secure application layer (`layers/secure_application/`) | pending sync, failure log | secure and unsecure frames, S-A_Sync, tool properties | order of check, save and delivery; partial failure |
| Configuration persistence (`zweidraehte-nv/src/stores/config/`, `storage/`) | dirty flag and ranges, Records and Images on one of two media | flush, compact, boot, restart with erase code | lost dirty ranges, torn writes, restart racing the outbox |
| KNXnet/IP connections (`layers/linklayers/knxip/`) | connection table, tunnel slots, occupancy, TCP streams, secure sessions | connect, disconnect, time out, accept and close streams, cEMI events | five ways for a connection to end, ids that wrap, a channel that drops events |
| Tunnelling (`knxip/connections/`, `zweidraehte-client/src/connector/ip_tunnel/`) | a sequence counter per direction at each end, the frame kept for a repeat | request, acknowledge, repeat, heartbeat | lost, duplicated and reordered datagrams, empty buffer pool |
| RF and USB links | history of received frames | receive, send | – |
| Micro device (`zweidraehte-microdevice`) | the same protocol on a superloop with EEPROM | as above | as above |
| Client bus task (`zweidraehte-client/src/bus/driver.rs`) | one pending command, a transport connection, secure channel, pending synchronisation, keyring | open, request, rotate the Tool Key, close | lost frames, late answers, retransmissions, a connector that fails |
| Project store (`zweidraehte-project/src/storage/`) | lock, key file, snapshot, journal, state in memory | open, reserve, record, recover, compact | two programs, a crash between any two file operations |
| Commissioning compiler, ETS tooling, macros, firmware, conformance suite | files and generated code | – | not concurrent |

The layers of the device call each other through messages: each handler pushes
into the router's outbox, and the router dispatches until it is empty before it
looks at the next external event. The link layer is a task of its own behind
three channels (`ll_req`, `ll_ind`, `ll_conf`). User tasks share the
communication objects with the layers. Everything runs on one cooperative
executor, so tasks interleave only where one of them awaits. The stores are
called synchronously from handlers.

What makes each part correct: the connection state, its timers and its stored
message agree, and every connection of a silent peer ends; exactly the frames
on their way have an entry in the confirmation FIFOs; an operation of a store
that returned Ok survives every power cut and none is half applied; no secure
sequence number is sent twice and no frame is delivered twice, across power
cuts too; a configuration change is durable before its response leaves; the
tables that know of an IP connection agree on it; a tunnel delivers in order and
at most once; what the client reports as done was done, once.

## 2. Modules

| Module | Models | Used by |
|---|---|---|
| `TransportSM` | the tables, classification and actions of the transport state machine, as operators | `TransportLayer` |
| `TransportLayer` | the device transport layer, cEMI switch, router loop | `MCTransportLayer`, `TransportProofs` |
| `ConfirmPath` | requests down and confirmations up through application, transport and network layer, router, channels and TP-UART task | `ConfirmProofs` |
| `Mirror` | the map in RAM and its operations | both of the next |
| `DurableMap` | abstract: what a key-value store promises | instantiated by `WearLeveledKv` |
| `WearLeveledKv` | the store on flash, one step per medium call | `MCWearLeveledKv`, `KvProofs` |
| `SequenceStore` | the sequence-number store on a durable map and the secure layer's handlers that use it | `MCSequenceStore`, `SequenceProofs` |
| `ConfigStore` | device state, router pass, flusher over two media, storage task, restart | `MCConfigStore`, `ConfigProofs` |
| `ConnectionManager` | the life of KNXnet/IP connections, streams and sessions on the device | `MCConnectionManager`, `ConnectionProofs` |
| `Tunnelling` | client session and device handler over a bad network | `TunnelProofs` |
| `BusDriver` | client bus task and a device over a lossy bus; both ends are `TransportSM` | run as it is |
| `ProjectStore` | two programs on the files of one project | `MCProjectStore`, `ProjectProofs` |

The eight modules named `...Proofs` hold the theorems. Operators named `Mut_...`
are faulty variants of the definition after them, used to confirm that a property
can fail.

### Transport

State: `conns` is the connection table (state, peer, numbers, repetitions,
timers, stored and queued response of each slot), `access` the level per slot,
`active` and `incoming_locked` the cEMI switch, `outbox` the router's outbox.
Each received PDU, cEMI event, timer expiry and drained message is one action
and does what its handler does to the end. An external event is taken only when
the outbox is empty, as in the router. A deadline is `off`, `running` or
`expired`; the connection deadline (6 s, restarted with every PDU) cannot come
before the ACK deadline (3 s) of a message sent with it.

`check_timeouts` is a loop in the code, so it is several steps here
(`PollStart`, `PollStep`, `PollEnd`) and its termination is a liveness property.
Every buffer allocation may fail: `starved` says which of the messages of a
step find no buffer. A response is its sequence number, the number its MAC was
computed over, and the request it answers.

Left out: rows that only a local T_Connect or T_Disconnect request reaches (no
built-in device makes one), malformed control PDUs (ignored before any state
changes), and `queued_incoming` (nothing fills it).

### Confirmation path

The router's dispatch of one event is one step; `out` holds the L_Data requests
it then sends one at a time, awaiting room each time. The link-layer task is
`blocked` with the message it cannot hand up. A frame is an object's write, a
response or a control PDU: that decides what its confirmation does. The content
of the network layer's FIFO only renames a confirmation, so its length models it.

`SlowUart = TRUE` lets a UART write suspend the link layer anywhere, a superset
of the schedules. `FALSE` is the stricter schedule in which `join` polls the
link layer first and the router yields after each send; the runs that exhibit a
disagreement use it, so that no counterexample rests on an unlikely suspension.

Left out: group reads, disabled or unlinked objects (they end before any state
is shared), frames too large for the chip, waiting for a buffer in
`start_transmission`.

### Key-value store

`banks` is the medium: a header (its generation, 0 if invalid) and cells, one
per record. `WriteRecord`, `Erase`, `Push` and `WriteHeader` are the calls on
the medium, each with a variant that reports an error, and `Crash` cuts the
power between two calls or inside the next. The medium is external and modelled
from `log.rs`: a write that did not finish leaves a prefix (nothing, a torn
length, a torn payload, or all), a write over programmed octets corrupts them,
an interrupted erase has destroyed the header no later than the records. Every
record has the length of the longest one, for which a bank must be sized. A remove
of a key that the mirror does not hold returns Ok at once (`ReturnAbsent`): it
settles nothing about a failed put of that key, and `DurableMap` says so.

### Sequence numbers

The store sits on the promise of `DurableMap`, not on flash. Handlers are
atomic except where the medium can fail or lose power between two puts of one
handler (`job`). `top` and `high` are history variables: the highest number
sent, and delivered per sender. Re-initialisation and a rewritten row start a
new history, as they are meant to.

A put that reports an error may have landed (`maybe`); the next put that succeeds
or the next boot decides. A write to a lower number that reported an error takes
effect, and starts its new history, only when a power cut lets it surface
(`Crash`). Until then it is `Undecided`: the only state in which `SentIsCovered`
and `DeliveredIsCovered` let a boot go back, and the one `seq_reinit` reaches. Row
positions, gaps, `set_count` and the rate limit of sync responses are left out.

### Configuration persistence and restart

A location is a Record or one chunk of an Image; `ram` is the live state and
`touched` (history) what was written since a flush last succeeded. `pass` is the
router's place between taking a message, flushing for it (`runner.rs`) and
sending it. A flush has no await, so no task moves while one runs, but every
write is a step, may fail and may be cut: `flush.todo` is the set of writes still
to do, taken section by section and chunk by chunk, the Records last. On `"flash"` a write is an append to a
log with room for `BankRecs` (the log itself is `WearLeveledKv`); on `"byte"` a
Record has two slots with a generation that wraps and an Image is written in
place under a CRC. `WriteTorn` and `PowerCut` are external. `TaskRestart` to
`TaskReset` are the storage task: drain, erase, flush, compact, reset. `partial`
(history) holds the tables whose image the last boot found half written.
Left out: first formatting, a boot that fails, a restart hook that suspends,
lifecycle events, the erase codes ResetAP and ResetParam (`device_state/mod.rs`).

### KNXnet/IP connections

The link layer's loop takes one event at a time, so a handler is one step; the
layer stack takes cEMI events in steps of its own (`TakeEvent`). `ConnectTunnel`,
`ConnectManagement` and `ConnectRefused` are the outcomes of a CONNECT_REQUEST;
`Disconnect`, `HeartbeatTimeout`, `AckTimeout`, `CloseStream`, `EndSession` the
ways to end; all go through `TearDown`. `ConnectRefused` is any refusal of the
handlers (no slot, no access, a type or layer that is not supported): it only uses
up a channel id. `leaks` (history) counts the requests refused after the handler
accepted, and `SlotsAccounted` counts them exactly. `Surplus` is by how much the
table of connections is longer than a stream's list of channels: one by default
(`MAX_CONNECTIONS = TUNNEL_CAPACITY + 1`, `MAX_TCP_CHANNELS = TUNNEL_CAPACITY`),
and the number of channels a stream may miss. Left out: the contents of secure wrappers,
routing, discovery, the multicast timer.

### Tunnelling

Datagrams are sets that only grow: what was sent may arrive any number of times,
in any order, or never. Timers that are armed may fire. A frame is its number
in the order of `send_cemi` or of the bus; `injected`, `delivered`, `forwarded`
and `outcome` are histories. `Starve` is an empty buffer pool or a full network
layer, where the code drops. A client may start a new session while the device
still holds the connection of the last one; the last request of a session that
gave up may then be injected behind frames of the next, so the order is promised
only for frames that were not reported as failed. Left out: channel ids that
wrap, TCP, wrappers, and the forward of an injected frame to the other open
tunnels (`connections/mod.rs:267-279`), which goes through the same
`send_tunneling_request` as a frame from the bus.

### Client bus task and device

`d` is the bus task: its transport connection (run on the tables of
`TransportSM`), the one pending command, the pending synchronisation, the key it
knows. `dev` is the same state machine and an application that answers each
request once (external; the device's transport layer proper is
`TransportLayer`). `up` and `down` are FIFOs from which the bus loses up to
`MaxLost` frames. `Execute` performs one event with all its actions, as
`execute_tl` does. Two assumptions on time: a conversation is opened when what
the last one sent has been delivered or lost, and the 6 s connection timer
expires only when the bus is silent. Left out: group telegrams, scans,
connectionless requests, frames of other devices.

### Project store

Each file operation that a crash can separate is a step: the JSON of an event,
its newline, the fsync, the snapshot's rename, the journal's truncation. `Disk`
is what a program starting now would load. `sent` and `owed` are histories: the
numbers handed out, and whether a recovery has begun and not been finished.
Between sessions keys may be replaced and state lost. Left out: editing of
authored text.

## 3. Runs

| Run | Question | Bounds | Distinct states |
|---|---|---|---|
| `tl_style3` | do timers, stored and queued responses follow the state, does the timeout loop end, is a silent peer's slot freed? | 1 slot, 2 peers, numbers mod 3, 1 repetition, Style 3 | 61 thousand |
| `tl_two_slots` | is the right slot found, access not inherited, cEMI exclusive, the outbox bounded? | 2 slots, 2 peers, numbers mod 2, Style 1 | 370 thousand |
| `kv` | recovery, reprogramming, replay size, refinement of `DurableMap` | 2 keys, 2 values, 1 entry, 3 banks of 2 records, 4 generations | 199 thousand |
| `seq_store` | reuse, replay, agreement of RAM and medium | 2 rows and the tool, numbers to 3, batch 2 | 768 thousand |
| `cp_fifos` | do the FIFOs hold exactly the frames on their way, does everything drain? | 1 object, FIFOs of 3 | 412 thousand |
| `cfg_store` | does acknowledged configuration survive, does nothing leave before it is durable, does a boot restore it, do refused changes and restarts end? | both media, 2 tables (1 and 2 chunks), bank of 4, generations mod 4, 2 requests, 1 fault, 1 power cut | 690 thousand |
| `conn_manager` | do all tables agree on every connection, is none orphaned, does cEMI mode follow, is an address used once? | 2 slots, 3 connections, 3 ids, 1 stream of 2 channels, 1 session slot, 4 connects | 965 thousand |
| `tunnel` | in order and once in both directions, true acknowledgements, no endless wait for one frame | counters mod 256, 2 channels of which 1 open, 2 frames each way, 1 starvation | 309 thousand |
| `bus_driver` | do answers belong to their requests, is what is reported executed once, is the key committed, is nothing left behind? | plain and FDSK, 3 kinds, 2 opens, 2 requests, 2 frames lost, 2 under way | 964 thousand |
| `project_store` | is a number reused, is a reload exact, does recovery block, do floors stay? | 2 programs, 2 identities, 1 device, 2 group keys, numbers to 3, 2 events of 10 kinds, 2 faults | 396 thousand |
| `project_marker`, `seq_reinit` | the two disagreements of section 5 that are runs | 2 programs, 2 identities; 2 rows, numbers to 4 | – |

A property of a run may be a conjunction of named parts, each stated with its own
comment and each with a mutant of its own: `WriteThrough` (`TypeOK`,
`AckedSurvives`, `RecordsNeverTear`, `PendingIsFlagged`), `NothingLeavesEarly`
(`DurableBeforeResponse`, `RestartIsDurable`), `Progress`
(`RefusedBecomesDurable`, `RestartEnds`), `TablesAgree` (`TypeOK`,
`DistinctChannels`, `SlotsAccounted`, `ChannelsTracked`), `OnceInOrder`
(`DeliveredIsPrefix`, `InjectedOnce`), `AcksTrue` (`TypeOK`, `CompletionsTrue`,
`InStep`), `ExchangesEnd` (`SendsComplete`, `KeptFrameLetGo`), `ExecutedAsReported`
(`AckedExecuted`, `ExecutedOnce`), `NothingLeftBehind` (`TypeOK`, `Owned`,
`DeadlineArmed`), `CountersSafe` (`TypeOK`, `NeverReused`). The types of
`TransportLayer`, `SequenceStore` and `ConfirmPath` are proved (section 4) and
not checked again.

Why the bounds are enough. Sequence numbers wrap and repetitions run out at the
small values; two slots give an old closed slot in front of an open one, and two
peers a foreign one. Numbers mod 3 keep "next", "repeated" and "wrong" distinct. In
`kv` the mirror has fewer entries than there are keys, banks fill in
two records, and with three banks and four generations there are stale and
half-erased banks and one is reused. In `seq_store` the counter reaches its end, so clamp, exhaustion and
re-initialisation happen, and with two rows clearing can stop half way. FIFOs of 3 are filled by the frame in transmission,
the next one and the one in the channel, so refusal happens. An outbox of 8
covers up to 3 slots: activation of cEMI pushes two messages per slot and one
more. In `cfg_store` one flush meets both a fault and a cut, a bank of four fills
within one master reset, and the Record generations wrap in the first write. In
`conn_manager` the capacities have the default shape, three connections on one
stream of two channels; ids and session ids wrap while connections hold them, and
the table is full while slots are free. A second user, without the management
right, and an address list shorter than the slots were checked once (1.9 million
states) and passed. A channel list longer than the table was checked
before with two connections (818 thousand states). In `tunnel` a repeated CONNECT_REQUEST opens a
second channel; counters do not wrap there, since nothing is ever removed from
the network and a counter that wraps would meet datagrams of its last lap, which
the code cannot tell apart either. A second session, while the device still holds
the connection of the first, multiplies the states; it was checked once with both
connections open, with 2 frames up and none down (196 thousand states), and with 2
up, 1 down and no starvation (1.67 million), and the theorems of section 4 cover
it. In `bus_driver` two losses are what it takes
to lose both a T_Disconnect and the T_Connect after it, or a request and its
repetition; a connection opened with an FDSK goes on with the Tool Key it wrote,
so the third mode adds only a connection that starts with one. That mode too
(2.97 million states), and three frames under way, were checked once and passed.
In `project_store` two faults are a crash after replaced keys, or two crashes; two
events do not let the group key change twice, so programming and unloading alone
were checked once with three events (177 thousand states) and passed.

Deadlock is checked in the store and sequence runs. The transport and
confirmation runs have a `quiet` state after which nothing arrives, in which the
system may stop; `cp_fifos` also contains the mutual wait of section 5. The five
later runs bound what users and networks do, and may stop when that is used up.

Fairness. `TransportLayer!FairSpec`: the router drains its outbox without
waiting, time passes, an expired deadline wakes the router. `ConfirmPath!FairSpec`:
both tasks run when they can, a frame on the bus ends, and the chip answers a
transmission or its timeout does. These are the executor, the clock and the
timeouts of `state_machine.rs`. `ConfigStore!Spec`: router, flush and storage
task are polled when ready, timers fire, a device without power gets it again.
`Tunnelling!Spec`: armed timers fire; nothing is assumed of the network, so every
datagram may be lost. No fairness is assumed of peers or users. `BusDriver` states
none: TLC does not finish its liveness in reasonable time, and `DeadlineArmed`
with the bounded retries is the argument that every command ends.

## 4. Proofs

The theorems hold for every value of the constants that the named assumptions of
the modules allow; where a theorem has a further hypothesis it is said here.
Every strengthened invariant was checked with TLC before it was proved; the
numbers below are the distinct states of those checks.

`TransportProofs` (any style, number of slots, peers and number range). The
invariant is `TypeOK`, `TableOK` (of two slots with one address only the first may
be open), `CemiExclusive` and `AccessNotInherited`: the lookup that includes
closed slots is only right because allocation reuses a closed slot of the same
peer, and that holds together with the lock of the cEMI switch. The argument
goes from the cells of the tables (`CellOK`: what each cell does to timers and
stored message) to one event on one connection, to `execute_actions` on the
table, to the actions. `TimersCorrect` and `PendingCorrect` hold for Styles 1, 1R
and 3; Style 2 has cells that leave the waiting state without stopping the ACK
timer, and no built-in device uses it.

Its second part builds on that invariant. `OutboxSuffices`: the assertion of
`Outbox::push` never fires, in any style, if `OUTBOX_CAPACITY` is at least
2 * `MAX_INCOMING` + 1; the code's 8 allows 3 slots. This is about the transport
layer's own pushes: a group read answered by every associated object
(`group_data.rs:334-428`) is bounded by the pool of 8 buffers only and not modelled. The bound needs `OutboxRoom`,
which in the loop of `check_timeouts` counts the slots still to be handled.
`MacAlwaysMatches`: every data PDU leaves with the number its MAC was computed
over. The stamp is taken two outbox messages before the response is stored, so
the invariant says that at most one data message is under way and nothing touches
the table meanwhile. It is proved for Styles 3 (the one device profiles select)
and 1R, and it is not true of the other two: in Style 1 a request received while a
response is unacknowledged disconnects, and its answer was stamped with the next
number. `NeverReplaced` (an unacknowledged response goes only with its
connection or its acknowledgement) holds outside Style 2. The invariants were
checked with one slot in all four styles and with two in Styles 1 and 1R (2.78 and
2.63 million states).

`SequenceProofs` (any width, batch, set of senders; a failed put may land or not).
The invariant relates history to the one durable number from which a boot resumes:
what was sent lies below it, and while the device runs that number is the
watermark, above the live counter. A failed put that may surface keeps this unless
it lowers the number, and then it is the undecided re-initialisation that the
property names. The half-done sync response needs `JobInv`: the counter it still
has to save is above the numbers sent.

`ConfirmProofs` (any capacity, set of objects). `TypeOK` and `FifosTrackFrames`
together are inductive: both FIFOs have the same length before a dispatch, so
both refuse the same frames, and these are not sent; the link layer hands up one
confirmation for each frame that leaves its places.

`KvProofs` (any keys, values, number of banks from 2, bank size that `open`
accepts). `RecoverySafe`, `NeverReprogrammed` and `ReplayFits` say something of a
state the next power cut would leave, so the invariant says what each bank is good
for: the active one replays to the mirror up to the cursor, the others are older,
except that a failed header write may have left the next one newer, and then it
holds the whole mirror; while the power is off one bank is newest and its replay
ends at a blank or torn cell. From it every step of the store is a step of
`DurableMap` or a stutter (`StoreIsDurable`, the refinement). A remove in its
early return has the mirror without its key; it is the one operation whose return
leaves `maybe` as it was.

`ConnectionProofs` (any number of slots, connections, ids, streams and sessions;
no more connections than ids, fewer session slots than session ids). Beside the
properties themselves the invariant has the agreement slot by slot
(`TunnelsHeld`), one Device Management connection (`OneManagement`) and unique
session ids (`SessionsHeld`): a search for a free id ends because there are more
ids than holders. That a stream misses at most `Surplus` channels is inductive as
it stands: a channel goes untracked only when the list is full, and then the table
has no more than `Surplus` entries beside it (`FullList`); every other step only
takes from the missing ones, because ids are unique. `UniqueAddress` is an action property and follows from the
invariant. Checked with two streams and one tracked channel (1.05 million states).

`TunnelProofs` (any number of sessions, connections and frames; `MaxUp + 1` and
`MaxDown` below the modulus, so that no counter wraps: section 3 says why).
Nothing leaves the network, so the invariant says what every datagram in it
still means. A channel belongs to one socket and a session sends on one channel
(`Owned`); number and frame of a request determine each other (`Numbering`); a
frame that was taken is behind the device's counter (`Taking`); the device waits
for the session's number, or for number 0 that the session skipped, and then for
ever (`Gap`, the consequence of the feature query of section 5);
an acknowledgement of either kind in the network says what became of its frame
(`AckMeans`). `OnceInOrder` and `AcksTrue` follow. Checked on 196 thousand,
1.67 million and 81 thousand states, the first two with two sessions. The
exception in `InjectedOnce` for frames reported as failed is needed only from the
second session on.

`ConfigProofs` (any non-empty finite set of tables, any image sizes, both media,
any number of requests, faults and power cuts; Record generations even in number
and at least 4, a distinct section for every table). `WriteThrough`,
`AnsweredFromOldAddress`, `NothingLeavesEarly` and `BootRestores` follow from one
invariant. A property about "what was written since the last flush" is not
inductive: the flush takes the dirty flag and the ranges before it writes, so
`AckedSurvives` and `ChangeFlagged` say of every location that the medium has the
live value, or the location is flagged, or the running flush still has it to
write; `RangesTouched` and `ImageKnown` say the same chunk by chunk. On a byte
medium a CRC covers a whole image: `CrcFollows` says that a CRC is wrong only
while the flush that will write it is under way or after a fault, and
`StaleExcused` which table may then come up in Err. `IndexExact` (the index of the
log) and `RecordsValid` (of the two slots of a Record the newer generation, modulo
`Gens`, is whole) make a torn Record harmless. `ResponsesDue` carries the promise
of a response from the request to the moment it is sent. The invariant was
checked on 690 thousand (two tables), 817 thousand (one table, four requests)
and 475 thousand states (three tables). The proof of `BootRestores` found two cases
that the run's bounds exclude (section 5); it is stated with both.

`ProjectProofs` (any number of programs, identities, devices, keys, events and
faults, journals of any length; the model values `None` and `Err` are not states or
journals). `CountersSafe`, `RecoveryBlocks`, `ReloadIsExact` and the action
property `FloorsMonotone` follow from one invariant, `ProjectInv`. `DiskOk` says
what a load now would give: a floor above every number handed out and, once a
recovery has begun, a state in recovery, not only over the snapshot but over any
state in recovery, because a compaction replaces the snapshot before it truncates
the journal. `MemoryOk` says the same of the writer's memory, which that compaction
will publish; `PhaseOk` ties each half-done operation to the files; `MirrorOk` says
that the memory of a writer without a failed append is the replay of the
journal over some state, and what a reload gives, if it gives one. That the same
journal may be replayed over its own result rests on `ReplayAgain`: one event sets
a field to a value that does not depend on the field, or leaves it alone, or raises
it to a bound (`SameEffect`), and so does a whole journal; every event is
accepted the second time unless the group key changed in between, the exception
`ReloadIsExact` makes. Facts about every journal are proved with
`JournalInduction`, an induction over sets of journals that needs no operator as a
parameter, and `ReplayAppend` (one more line is one more step). The invariant was
checked on 396 thousand states (the bounds of `project_store`), 16 thousand with
two devices, and 110 thousand with four events of programming and unloading.

Only model-checked. Liveness (`PollTerminates`, `SilentPeerFreed`,
`DrainsUnlessMutualWait`, `Progress`, `ExchangesEnd`), because fairness is outside
the prover. The safety properties of `BusDriver`: what two transport state
machines and a lossy bus may be in together was not put into an inductive
invariant (section 6).

## 5. Where code and comments disagree

### Two runs

- `project_marker` (`ProjectStore!MarkerBlocks`): `begin_recovery` writes a blank
  snapshot with the recovery marker and then truncates the journal. If the
  journal still holds an earlier, finished recovery and the program dies in
  between, the next open replays it over the blank snapshot and clears the
  marker ("the recovery marker blocks secure transmission until
  `finish_recovery`", `store.rs`). `RecoveryBlocks` shows that the promise holds
  from the return of `begin_recovery` on.
- `seq_reinit` (`SequenceStore!LeavesCovered`): a write of a lower sending number
  (PID 59, or the re-initialisation) that reports an error but landed leaves the
  counter and the watermark in RAM as they were, so the next frames leave inside
  the old batch while the medium holds the lower number ("a frame must never leave
  the device carrying a sequence number the store has not durably advanced past",
  `seq.rs:188`). A power cut then brings their numbers back. `SentIsCovered` and
  the theorem `SentCovered` show that this is the only way.

### Formulas that the code does not meet

Each is a definition of its module. TLC finds a counterexample when it is given
as an INVARIANT (or PROPERTY) instead of those of the named run's cfg.

- `TransportLayer!QueuedIsSent` (PROPERTY, `tl_style3`): the answer to a third
  request replaces the queued answer to the second, which was already confirmed
  (`transport/mod.rs:686` "it will be sent when the pending message is
  acknowledged").
- `WearLeveledKv!RemoveIsDurable` (`kv`): a put reports an error but lands; the
  mirror does not have its key, so `remove` returns Ok without touching the medium,
  and a power cut brings the key back (`kv.rs:72` "Durably remove"). `SiatStore`
  gets there with a failed `write_entry` of a gap row followed by `clear`.
- `ConfirmPath!NoMutualWait` (`cp_fifos` with `SlowUart = FALSE`, as the next
  three): router and TP-UART task wait for each other's channel. It
  takes a backlog of two received frames while an acknowledgement waits in
  `ll_req` and its response is to follow (`layers/mod.rs:163` "eliminates
  deadlocks"). `DrainsUnlessMutualWait` shows it is the only way this path hangs.
- `ConfirmPath!ConfirmsInOrder`: a displaced frame is confirmed before the older
  one in transmission (`transport/mod.rs:104`).
- `ConfirmPath!BusyMeansTransmitting`: an object stays Busy after an empty buffer
  pool, or after a second write overwrote its pending group send and its own
  confirmation resolved the other object (`stack_handle.rs:167`).
- `ConfirmPath!AcceptedStaysClaimed`: a group write received before the router's
  turn takes an accepted update's claim, and the update is not sent
  (`stack_handle.rs:166`).
- `ConnectionManager!CemiModeEnds` (`conn_manager`): a full cEMI channel loses Deactivate, and the transport layer stays in cEMI mode
  (`cemi.rs:53` "Capacity 2 ensures a pending Frame + Deactivate can coexist").
  `CemiFollows` is the property up to that, and does not catch the loss.
- `ConnectionManager!IdleStreamUnused` (`conn_manager`): two tunnels and a Device
  Management connection on one stream, whose list takes two channels; when those
  two have closed, the stream counts as idle and is closed after 10 s without a
  frame, under the third (`tcp_manager.rs:103` "only applies when no inner
  connections are active"; `definition.rs:95` knows of the silent drop for a list
  of none). `ChannelsTracked` bounds what is missed.
- `ConnectionManager!OccupancyCounts` (`conn_manager`): a TCP request whose
  endpoint is not Route Back is refused after the handler took a slot
  (`mod.rs:711`), and nothing gives it back: the device goes on acknowledging group
  frames for a tunnel that is not open (`occupancy.rs:9` "Counts how many tunnel
  connections are currently open"). `SlotsAccounted` is the count with them.
- `Tunnelling!SequencesAgree` (`tunnel`): the client gives its feature query number
  0 and goes on with 1 (`session.rs:402` "consumes sequence number 0 only if the
  interface answers", and its test at 611 "FeatureGet consumed seq 0"); the device
  answers and does not count it, waits for 0 and refuses the first request, and the
  two counters never agree again. The last case of `InStep` is this gap.
- `Tunnelling!KeptUntilSettled` (PROPERTY, `tunnel`): the next frame replaces the
  one kept for a repeat, neither acknowledged nor given up, and starts the attempts
  and the timer anew (`mod.rs:600`), so steady traffic keeps a connection that
  acknowledges nothing (`mod.rs:327` "If retries are exhausted, send a
  DISCONNECT_REQUEST and tear down the connection"). `KeptFrameLetGo` is what holds
  of each frame, for any traffic.
- `BusDriver!BusyIsOwned`: in the Style 3 table a late data PDU while Connecting
  (`sm.rs:606`) fails the open and stops its timer but leaves the state, so every
  later `connect_device` finds the connection busy although none is open
  (`bus/mod.rs:230`).
- `BusDriver!Correlates`: when a T_Disconnect is lost and the next T_Connect is
  lost too, or ignored by a Style 3 device that still has the old connection, an
  old response may answer a new request, or a request with a repeated number be
  acknowledged and not executed (`driver.rs:1364`). `AnswersCorrelate` and
  `AckedExecuted` are the properties up to that (`stale`) and do not catch it;
  `ExecutedOnce` holds there too.

### Seen while modelling

These are in the models, and excused in a property or noted in its comment.

- Connections: the refusal after the handler accepted also leaves the Device
  Management channel taken (`leaks`). A later write of the address list can give
  two open tunnels one address.
- Tunnelling: the overwritten frame is a gap that stays until the heartbeat ends
  the connection; a frame the device drops
  for want of a buffer for its acknowledgement is acknowledged when it is
  repeated; a repeated CONNECT_REQUEST opens a second connection.
- Bus task: after a key write whose answer is lost, an open within the 2 s in
  which the last synchronisation counts as fresh reports acknowledged requests
  as done although the device drops them; a late answer to the first challenge
  fails the open after its retry.
- Configuration: after any failed write the next flush rewrites every Image; a
  power cut in that makes an untouched Loaded table come up in Err on a byte
  medium. The answer to an erasing restart that the transport layer still holds
  when the drain ends is sent from the erased address (`late`). A failed
  compaction is retried at the next flush, not by itself. A power cut in the
  middle of a download leaves a half-written image under a table in Loading, which
  the boot accepts; a load completed without writing that image again is durable
  as Loaded, and the next boot makes it Err (`partial`). More changed images than
  a flush collects ranges for make it rewrite every image, so a cut then hits
  untouched tables too (`Overflow`).
- Project: a journal line cut before its newline makes the next open fail, and
  `begin_recovery` with it, or is joined to the next line; a group key that
  changed within one journal makes the project unopenable after a crash between
  rename and truncation of a compaction.

Not a run of its own, because no built-in device selects the style: Style 1
Rationalised starts the ACK timer (action A7 is shared by all styles) but has no
event for its expiry ("Style 1R has no ACK timer", `sm.rs`), so the loop of
`check_timeouts` would find the slot timed out again and again.

## 6. Plan

Done, in this order because connections, counters and flash carry the device's
correctness: transport, key-value store, sequence numbers, confirmation path;
then configuration persistence and restart, KNXnet/IP connections, tunnelling,
the client's bus task against the device, the project store.

Next proofs: `BusDriver`'s `NothingLeftBehind`, over table lemmas like those of
`TransportProofs` for the client's table.

Next models: the positions of SIAT rows (`write_entry`, `set_count`) and the
packed store; the IP Secure multicast timer; the octet-level TP-UART state
machines and the reference counting of the buffer pool (whether
`start_transmission` can wait for a buffer that only it can free); the micro
device's transport on the same tables; the RF and USB links.

## 7. Not modelled

Most of the repository's lines hold no state that interleaves, fails or is
persisted: product definitions and generated parameter code under `examples/`,
the ETS file formats and generators (`zweidraehte-ets-files`,
`zweidraehte-knxprod`), the terminal tools, procedural macros, octet encodings
and datapoint types, cryptographic primitives, the commissioning compiler, the
conformance suite. They are sequential transformations of large inputs, better
served by their own tests than by TLC, and the share of the repository's lines
the models cover stays small for that reason. Firmware and platform crates are
thin drivers of external hardware.

Hazards known and without a property: two styles no built-in device selects
(Style 2 has cells that leave the waiting state without stopping the ACK timer;
Style 1 Rationalised, section 5); a bank generation that wraps after 2^32
compactions, beyond the endurance of the flash; SIAT rows that only fill a gap
and exist in RAM only; `start_transmission` waiting for a buffer.
