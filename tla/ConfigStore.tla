----------------------------- MODULE ConfigStore -----------------------------
(***************************************************************************)
(* Write-through configuration persistence: the device state and its       *)
(* dirty tracking, the router pass that flushes before a frame leaves      *)
(* (runner.rs), the Flusher (nv_store.rs) over one of two media, and the   *)
(* storage task with maintenance and restart (storage/task.rs).            *)
(*                                                                         *)
(* A location is a Record section or one chunk of an Image section; a      *)
(* chunk is what one medium write carries.  A flush runs without an await, *)
(* so no other task moves while one is under way, but power may fail       *)
(* between two of its writes and any write may fail.                       *)
(*                                                                         *)
(* The media.  "flash" is FlashLog: a log whose replay gives the latest    *)
(* value of each location, with room for BankRecs appends after a snapshot *)
(* (the log itself is WearLeveledKv's subject; a compaction here commits   *)
(* or leaves the old bank, as that module shows).  "byte" is ByteNv:       *)
(* two slots per Record, Images in place with a CRC over the whole image.  *)
(* What a write leaves when power fails or the medium reports an error is  *)
(* external: a prefix, so a Record slot is old, invalid or complete.       *)
(***************************************************************************)
EXTENDS Integers, Sequences, FiniteSets

CONSTANTS
    Media,       \* the kinds of medium, a subset of {"flash", "byte"}
    Tables,      \* load-controlled tables with a data image
    LinkTables,  \* those ResetLinks erases
    Size,        \* chunks of each table's image
    SectionId,   \* the tables' image sections persist in this order
    Values,      \* contents of a chunk; 0 is the erased content
    Codes,       \* restarts requested: "basic" and erase codes
    BankRecs,    \* flash: appends that fit behind a snapshot
    Gens,        \* byte: slot generations wrap modulo this (256)
    DirtyRanges, \* ranges one flush collects (DIRTY_RANGES)
    MaxOps,      \* bound: requests the device handles
    MaxFaults,   \* bound: writes and compactions that fail
    MaxCuts      \* bound: power cuts

ASSUME MediaAssumption == Media \subseteq {"flash", "byte"}
ASSUME TablesAssumption == IsFiniteSet(Tables) /\ Tables # {} /\ LinkTables \subseteq Tables
ASSUME SectionIdAssumption ==
    /\ SectionId \in [Tables -> Nat]
    /\ \A t, u \in Tables : SectionId[t] = SectionId[u] => t = u
ASSUME CodesAssumption ==
    Codes \subseteq {"basic", "confirmed", "resetIA", "resetLinks", "factory", "factoryKeepIA"}
ASSUME SizeAssumption == Size \in [Tables -> Nat \ {0}]
ASSUME ValuesAssumption == {0, 1} \subseteq Values
ASSUME BoundsAssumption ==
    /\ {BankRecs, DirtyRanges, MaxOps, MaxFaults, MaxCuts} \subseteq Nat
    /\ Gens \in Nat /\ Gens >= 4 /\ Gens % 2 = 0

VARIABLES
    kind,         \* the medium this device has
    ram,          \* the live state, by location
    dirty,        \* DeviceState.dirty
    ranges,       \* Table.dirty: chunks of each image marked changed
    resync,       \* Flusher.resync
    img, crc,     \* medium: image chunks; byte: what each image CRC covers
    rec, idx,     \* flash: latest Record in the log; the one RecordIndex names
    slots,        \* byte: the two slots of each Record
    used,         \* flash: appends since the snapshot
    pending,      \* flash: AppendLog.compaction_pending
    blocked,      \* flash: FlashLog.admission_blocked
    flush,        \* the flush under way, or NoFlush
    pass,         \* where the router is in its pass
    outbox,       \* frames the pass has still to send
    parked,       \* a restart response the transport layer holds for an ACK
    signal,       \* LayerContext.maintenance
    request,      \* restart_channel, one entry
    task,         \* where the storage task is
    left,         \* remaining bounds: requests, faults, cuts
    touched,      \* history: locations written since a flush succeeded
    answer,       \* history: the restart response about to be sent
    late,         \* history: a drain timed out or a response was parked
    partial       \* history: images a boot found half written, no CRC since

deviceVars == <<ram, dirty, ranges>>
mediumVars == <<img, crc, rec, idx, slots, used, pending, blocked>>
routerVars == <<pass, outbox, parked>>
taskVars == <<signal, request, task>>
historyVars == <<touched, answer, late, partial>>
vars == <<kind, deviceVars, resync, mediumVars, flush, routerVars, taskVars,
          left, historyVars>>

-----------------------------------------------------------------------------
(* Sections.                                                               *)

IA == <<"ia">>           \* the device record: individual address
Count == <<"count">>     \* security failure counters, not dirty-tracked
Ctl(t) == <<"ctl", t>>   \* a table's control record
Chunk(t, c) == <<"img", t, c>>

RecordLocs == {IA, Count} \cup {Ctl(t) : t \in Tables}
ChunksOf(t) == {Chunk(t, c) : c \in 1 .. Size[t]}
ImageLocs == UNION {ChunksOf(t) : t \in Tables}
Locs == RecordLocs \cup ImageLocs
LoadStates == {"unloaded", "loading", "loaded", "err"}

Factory == [l \in Locs |-> IF l \in {Ctl(t) : t \in Tables} THEN "unloaded" ELSE 0]

\* Table::mark_dirty_range: the marked range grows to one interval.
Merge(t, S) == {c \in 1 .. Size[t] : \E a, b \in ranges[t] \cup S : a <= c /\ c <= b}

\* The newest valid slot of a Record; generations compare modulo Gens.
Valid(r) == {s \in {0, 1} : slots[r][s].ok}
Newest(r) ==
    LET ahead == (slots[r][1].gen - slots[r][0].gen) % Gens
    IN  CASE Valid(r) = {0} -> 0
          [] Valid(r) = {1} -> 1
          [] OTHER -> IF ahead \in 1 .. (Gens \div 2 - 1) THEN 1 ELSE 0

\* What the medium would restore for a location.
Durable(l) ==
    IF l \in ImageLocs THEN img[l]
    ELSE IF kind = "flash" THEN rec[l]
    ELSE IF Valid(l) = {} THEN Factory[l] ELSE slots[l][Newest(l)].val

-----------------------------------------------------------------------------
(* The live state.                                                         *)

\* The state becomes new, the chunks M[t] are marked, and the change is
\* dirty-tracked or not.
Apply(new, M, tracked) ==
    /\ ram' = new
    /\ ranges' = [t \in Tables |-> Merge(t, M[t])]
    /\ dirty' = (dirty \/ tracked)
    /\ touched' = touched \cup {l \in Locs : new[l] # ram[l]}
                  \cup UNION {{Chunk(t, c) : c \in M[t]} : t \in Tables}

NoMark == [t \in Tables |-> {}]
AllOf(t) == 1 .. Size[t]
MarkOnly(t, S) == [NoMark EXCEPT ![t] = S]

\* load_control_transition.
LoadNext(s, e) ==
    CASE e = "start" /\ s \in {"unloaded", "loaded"} -> "loading"
      [] e = "complete" /\ s = "loading" -> "loaded"
      [] e = "alloc" /\ s = "loaded" -> "err"
      [] e = "unload" -> "unloaded"
      [] OTHER -> s

WriteAddress == \E v \in Values : Apply([ram EXCEPT ![IA] = v], NoMark, TRUE)

\* Table::write_lsm.  An allocation may fill the image with a pattern or be
\* refused; it and an unload, which keeps the bytes, mark the whole image.
WriteLsm(t) ==
    \/ \E e \in {"start", "complete", "alloc", "unload"} :
        /\ e = "alloc" => ram[Ctl(t)] # "loading"
        /\ Apply([ram EXCEPT ![Ctl(t)] = LoadNext(@, e)],
                 IF e = "unload" THEN MarkOnly(t, AllOf(t)) ELSE NoMark, TRUE)
    \/ /\ ram[Ctl(t)] = "loading"
       /\ \E v \in Values :
            Apply([l \in Locs |-> IF l \in ChunksOf(t) THEN v ELSE ram[l]],
                  MarkOnly(t, AllOf(t)), TRUE)
    \/ /\ ram[Ctl(t)] = "loading"
       /\ Apply([ram EXCEPT ![Ctl(t)] = "err"], MarkOnly(t, AllOf(t)), TRUE)

MemoryWrite(t) ==
    \E c \in AllOf(t), v \in Values :
        Apply([ram EXCEPT ![Chunk(t, c)] = v], MarkOnly(t, {c}), TRUE)

\* A rejected secure frame counts without mark_dirty.
CountFailure == Apply([ram EXCEPT ![Count] = 1], NoMark, FALSE)

\* DeviceState::apply_erase_code; ResetAP and ResetParam are left out.
ErasedTables(code) ==
    CASE code \in {"factory", "factoryKeepIA"} -> Tables
      [] code = "resetLinks" -> LinkTables
      [] OTHER -> {}
ErasedLocs(code) ==
    (UNION {ChunksOf(t) \cup {Ctl(t)} : t \in ErasedTables(code)})
      \cup (IF code \in {"resetIA", "factory"} THEN {IA} ELSE {})
Erase(code) ==
    Apply([l \in Locs |-> IF l \in ErasedLocs(code) THEN Factory[l] ELSE ram[l]],
          [t \in Tables |-> IF t \in ErasedTables(code) THEN AllOf(t) ELSE {}],
          code # "confirmed")

-----------------------------------------------------------------------------
(* The router pass (runner.rs).                                            *)

NoFlush == [by |-> "none", todo |-> {}]
NoRequest == "none"
NoAnswer == [src |-> 0, due |-> 0]

\* A task runs only where the router awaits.
AtAwait == flush = NoFlush /\ pass \in {"idle", "send", "yield"}

\* A request is dispatched; an acknowledgement and a response may be queued.
Dispatch ==
    /\ pass = "idle" /\ left.ops > 0 /\ flush = NoFlush
    /\ \/ WriteAddress
       \/ \E t \in Tables : WriteLsm(t) \/ MemoryWrite(t)
       \/ CountFailure
    /\ outbox' \in {<<>>, <<[k |-> "resp"]>>}
    /\ pass' = "take"
    /\ left' = [left EXCEPT !.ops = @ - 1]
    /\ UNCHANGED <<kind, resync, mediumVars, flush, parked, taskVars, answer, late, partial>>

\* handle_restart: the request goes to the one-entry channel, dropped when
\* full; a master reset is answered either way.  The response follows the
\* T_ACK, unless the transport layer still waits for an ACK and holds it.
DispatchRestart ==
    /\ pass = "idle" /\ left.ops > 0 /\ flush = NoFlush
    /\ \E code \in Codes, park \in BOOLEAN :
        LET answerFrame == [k |-> "restart", due |-> ram[IA]]
            answered == code # "basic"
        IN  /\ park => answered /\ parked = <<>>
            /\ request' = IF request = NoRequest THEN code ELSE request
            /\ outbox' = IF answered /\ ~park THEN <<[k |-> "ack"], answerFrame>>
                         ELSE <<[k |-> "ack"]>>
            /\ parked' = IF park THEN <<answerFrame>> ELSE parked
            /\ late' = (late \/ park)
    /\ pass' = "take"
    /\ left' = [left EXCEPT !.ops = @ - 1]
    /\ UNCHANGED <<kind, deviceVars, resync, mediumVars, flush, signal, task,
                   touched, answer, partial>>

\* The awaited ACK arrives and the transport layer releases what it held.
ReleaseParked ==
    /\ pass = "idle" /\ flush = NoFlush /\ parked # <<>>
    /\ outbox' = parked /\ parked' = <<>> /\ pass' = "take"
    /\ UNCHANGED <<kind, deviceVars, resync, mediumVars, flush, taskVars, left,
                   historyVars>>

-----------------------------------------------------------------------------
(* The Flusher and the medium.                                             *)

\* One medium write: a chunk, the CRC behind the last chunk, a Record.
ChunkWrite(t, c) == [w |-> "chunk", t |-> t, c |-> c]
CrcWrite(t) == [w |-> "crc", t |-> t, c |-> Size[t] + 1]
RecordWrite(r) == [w |-> "record", l |-> r]

\* persist of a range of an Image: its chunks, on a byte medium then the CRC.
ImageWrites(t, S) ==
    {ChunkWrite(t, c) : c \in S}
      \cup (IF kind = "byte" /\ S # {} THEN {CrcWrite(t)} ELSE {})

RecordMatches(r) ==
    IF kind = "flash" THEN idx[r] = ram[r]
    ELSE Valid(r) # {} /\ slots[r][Newest(r)].val = ram[r]

\* Mutant: a resync does not write the Images whole.
Mut_Plan(whole) ==
    (UNION {ImageWrites(t, ranges[t]) : t \in Tables})
      \cup {RecordWrite(r) : r \in {q \in RecordLocs : ~RecordMatches(q)}}
\* persist_changes: marked ranges, or every Image whole, then the Records
\* that differ from their durable copy.
Plan(whole) ==
    (UNION {ImageWrites(t, IF whole THEN AllOf(t) ELSE ranges[t]) : t \in Tables})
      \cup {RecordWrite(r) : r \in {q \in RecordLocs : ~RecordMatches(q)}}

\* Image after image, each from its first chunk on; then the Records, whose
\* order no property here tells apart.
Before(j, i) ==
    IF i.w = "record" THEN j.w # "record"
    ELSE /\ j.w # "record"
         /\ \/ SectionId[j.t] < SectionId[i.t]
            \/ j.t = i.t /\ j.c < i.c
NextWrites == {i \in flush.todo : \A j \in flush.todo : ~Before(j, i)}

\* Flusher::flush: taking the ranges consumes them; too many force a resync.
StartFlush(by) ==
    LET whole == resync \/ Cardinality({t \in Tables : ranges[t] # {}}) > DirtyRanges
    IN  /\ flush' = [by |-> by, todo |-> Plan(whole)]
        /\ ranges' = NoMark
        /\ resync' = whole

NeedsCompaction(u, p, b) == kind = "flash" /\ (b \/ p \/ 4 * u > 3 * BankRecs)

\* Mutant: the dirty flag is cleared whatever the flush returned.
Mut_Finish(ok) ==
    /\ dirty' = FALSE /\ resync' = ~ok /\ touched' = IF ok THEN {} ELSE touched
    /\ signal' = (signal \/ NeedsCompaction(used', pending', blocked'))
\* Mutant: only a successful flush asks for maintenance.
Mut_FinishSilently(ok) ==
    /\ IF ok THEN dirty' = FALSE /\ resync' = FALSE /\ touched' = {}
             ELSE resync' = TRUE /\ UNCHANGED <<dirty, touched>>
    /\ signal' = (signal \/ (ok /\ NeedsCompaction(used', pending', blocked')))
\* Flusher::flush returns: Ok clears the dirty flag, an error asks the next
\* flush to write every Image (stack_handle.rs flush_config).
Finish(ok) ==
    /\ IF ok THEN dirty' = FALSE /\ resync' = FALSE /\ touched' = {}
             ELSE resync' = TRUE /\ UNCHANGED <<dirty, touched>>
    /\ signal' = (signal \/ NeedsCompaction(used', pending', blocked'))

\* Mutant: a restart resets after a deferred flush without compacting.
Mut_Return(deferred) ==
    /\ pass' = CASE flush.by = "send" -> "send" [] flush.by = "end" -> "idle" [] OTHER -> pass
    /\ flush' = NoFlush
    /\ task' = IF flush.by = "task" THEN [task EXCEPT !.at = "reset"] ELSE task
\* Mutant: a restart repeats a deferred flush instead of compacting.
Mut_ReturnRetry(deferred) ==
    /\ pass' = CASE flush.by = "send" -> "send" [] flush.by = "end" -> "idle" [] OTHER -> pass
    /\ flush' = NoFlush
    /\ task' = IF flush.by = "task" /\ ~deferred THEN [task EXCEPT !.at = "reset"] ELSE task
\* Who asked for the flush goes on.
Return(deferred) ==
    /\ pass' = CASE flush.by = "send" -> "send" [] flush.by = "end" -> "idle" [] OTHER -> pass
    /\ flush' = IF flush.by = "task" /\ deferred THEN [by |-> "compact", todo |-> {}]
                ELSE NoFlush
    /\ task' = IF flush.by = "task" /\ ~deferred THEN [task EXCEPT !.at = "reset"] ELSE task

Flushing == flush.by \in {"send", "end", "task"}
flushFrame == <<kind, ram, ranges, outbox, parked, request, answer, late>>

\* Mutant: the newest copy is overwritten in place.
Mut_TargetSlot(r) == IF Valid(r) = {} THEN 0 ELSE Newest(r)
\* write_record: the slot that does not hold the newest valid copy.
TargetSlot(r) == IF Valid(r) = {} THEN 0 ELSE 1 - Newest(r)
NextGen(r) == IF Valid(r) = {} THEN 0 ELSE (slots[r][Newest(r)].gen + 1) % Gens
SlotWritten(r, ok) ==
    [slots EXCEPT ![r][TargetSlot(r)] = [gen |-> NextGen(r), val |-> ram[r], ok |-> ok]]

ImageNow(t) == [c \in AllOf(t) |-> ram[Chunk(t, c)]]
TornCrc == <<>>

\* One write completes.
WriteDone(i) ==
    /\ img' = IF i.w = "chunk" THEN [img EXCEPT ![Chunk(i.t, i.c)] = ram[Chunk(i.t, i.c)]]
              ELSE img
    /\ crc' = IF i.w = "crc" THEN [crc EXCEPT ![i.t] = ImageNow(i.t)] ELSE crc
    /\ rec' = IF i.w = "record" /\ kind = "flash" THEN [rec EXCEPT ![i.l] = ram[i.l]] ELSE rec
    /\ slots' = IF i.w = "record" /\ kind = "byte" THEN SlotWritten(i.l, TRUE) ELSE slots

\* One write is cut short: a torn log record is skipped at replay, a torn
\* slot is invalid, a torn image CRC matches nothing.
WriteTorn(i) ==
    /\ crc' = IF i.w = "crc" THEN [crc EXCEPT ![i.t] = TornCrc] ELSE crc
    /\ slots' = IF i.w = "record" /\ kind = "byte" THEN SlotWritten(i.l, FALSE) ELSE slots
    /\ UNCHANGED <<img, rec>>

\* Mutant: a bank takes one append too many.
Mut_Room == kind = "byte" \/ (~pending /\ used <= BankRecs)
Room == kind = "byte" \/ (~pending /\ used < BankRecs)

WriteOk ==
    /\ Flushing /\ Room
    /\ \E i \in NextWrites :
        /\ WriteDone(i)
        /\ idx' = IF i.w = "record" /\ kind = "flash" THEN [idx EXCEPT ![i.l] = ram[i.l]] ELSE idx
        /\ flush' = [flush EXCEPT !.todo = @ \ {i}]
        /\ partial' = IF i.w = "crc" THEN partial \ {i.t} ELSE partial
    /\ used' = IF kind = "flash" THEN used + 1 ELSE used
    /\ UNCHANGED <<flushFrame, dirty, resync, pending, blocked, pass, signal, task,
                   left, touched>>

\* The medium reports an error: the write may be absent, torn or complete.
WriteFails ==
    /\ Flushing /\ Room /\ left.faults > 0
    /\ \E i \in NextWrites :
        WriteDone(i) \/ WriteTorn(i) \/ UNCHANGED <<img, crc, rec, slots>>
    /\ pending' = (kind = "flash")
    /\ left' = [left EXCEPT !.faults = @ - 1]
    /\ UNCHANGED <<flushFrame, idx, used, blocked, partial>>
    /\ Finish(FALSE) /\ Return(FALSE)

\* FlashLog::append: a full bank refuses and asks for guarded compaction.
Refused ==
    /\ Flushing /\ flush.todo # {} /\ ~Room
    /\ blocked' = TRUE
    /\ UNCHANGED <<flushFrame, img, crc, rec, idx, slots, used, pending, left, partial>>
    /\ Finish(FALSE) /\ Return(TRUE)

Flushed ==
    /\ Flushing /\ flush.todo = {}
    /\ UNCHANGED <<flushFrame, mediumVars, left, partial>>
    /\ Finish(TRUE) /\ Return(FALSE)

FlushStep == WriteOk \/ WriteFails \/ Refused \/ Flushed

\* NvConfig::compact: the snapshot of the live state replaces the log; then
\* the dirty ranges, the resync and the dirty flag are dropped.
CompactOk ==
    /\ img' = [l \in ImageLocs |-> ram[l]]
    /\ rec' = [l \in RecordLocs |-> ram[l]]
    /\ idx' = rec'
    /\ used' = 0 /\ pending' = FALSE /\ blocked' = FALSE
    /\ ranges' = NoMark /\ resync' = FALSE /\ dirty' = FALSE
    /\ touched' = {}
    /\ UNCHANGED <<crc, slots, left>>

\* The old bank stays the valid one; nothing is appended before a retry.
CompactFails ==
    /\ left.faults > 0
    /\ left' = [left EXCEPT !.faults = @ - 1]
    /\ pending' = TRUE
    /\ UNCHANGED <<img, crc, rec, idx, slots, used, blocked, ranges, resync, dirty, touched>>

Compact == CompactOk \/ CompactFails

-----------------------------------------------------------------------------
(* The router pass, continued.                                             *)

\* Mutant: the state is flushed only at the end of the pass.
Mut_RouterTake ==
    /\ pass = "take" /\ flush = NoFlush
    /\ IF dirty /\ outbox = <<>>
       THEN StartFlush("end") /\ UNCHANGED pass
       ELSE /\ pass' = IF outbox = <<>> THEN "idle" ELSE "send"
            /\ UNCHANGED <<flush, ranges, resync>>
    /\ outbox' = IF outbox = <<>> THEN <<>> ELSE Tail(outbox)
    /\ UNCHANGED <<kind, ram, dirty, mediumVars, parked, taskVars, left, historyVars>>
\* The next frame is taken and its source address stamped; before it leaves,
\* and once more at the end of the pass, a dirty state is flushed.
RouterTake ==
    /\ pass = "take" /\ flush = NoFlush
    /\ IF dirty
       THEN /\ StartFlush(IF outbox = <<>> THEN "end" ELSE "send")
            /\ UNCHANGED pass
       ELSE /\ pass' = IF outbox = <<>> THEN "idle" ELSE "send"
            /\ UNCHANGED <<flush, ranges, resync>>
    /\ outbox' = IF outbox = <<>> THEN <<>> ELSE Tail(outbox)
    /\ answer' = IF outbox # <<>> /\ Head(outbox).k = "restart"
                 THEN [src |-> ram[IA], due |-> Head(outbox).due]
                 ELSE answer
    /\ UNCHANGED <<kind, ram, dirty, mediumVars, parked, taskVars, left, touched, late,
                   partial>>

\* The frame is handed to the link layer, then the router yields.
Send ==
    /\ pass = "send" /\ flush = NoFlush
    /\ pass' = "yield" /\ answer' = NoAnswer
    /\ UNCHANGED <<kind, deviceVars, resync, mediumVars, flush, outbox, parked, taskVars,
                   left, touched, late, partial>>

RouterResume ==
    /\ pass = "yield" /\ flush = NoFlush
    /\ pass' = "take"
    /\ UNCHANGED <<kind, deviceVars, resync, mediumVars, flush, outbox, parked, taskVars,
                   left, historyVars>>

-----------------------------------------------------------------------------
(* The storage task (storage/task.rs).                                     *)

TaskIdle == [at |-> "idle", code |-> NoRequest]
taskFrame == <<kind, routerVars, answer, partial>>

\* compact_if_needed, woken by the maintenance signal.
TaskMaintain ==
    /\ AtAwait /\ task = TaskIdle /\ signal
    /\ signal' = FALSE
    /\ IF NeedsCompaction(used, pending, blocked) THEN Compact
       ELSE UNCHANGED <<deviceVars, resync, mediumVars, left, touched>>
    /\ UNCHANGED <<taskFrame, ram, flush, request, task, late>>

TaskRestart ==
    /\ AtAwait /\ task = TaskIdle /\ request # NoRequest
    /\ task' = [at |-> "drain", code |-> request]
    /\ request' = NoRequest
    /\ UNCHANGED <<taskFrame, deviceVars, resync, mediumVars, flush, signal, left,
                   touched, late>>

\* restart(): once the outbox has drained, or the drain timed out, a master
\* reset erases; a basic restart does not.
EraseAndSettle ==
    /\ AtAwait /\ task.at = "drain"
    /\ IF task.code = "basic" THEN UNCHANGED <<deviceVars, touched>> ELSE Erase(task.code)
    /\ task' = [task EXCEPT !.at = "settle"]
    /\ UNCHANGED <<taskFrame, resync, mediumVars, flush, signal, request, left>>
\* Mutant: the erase does not wait for the outbox.
Mut_TaskDrained == EraseAndSettle /\ UNCHANGED late
TaskDrained == outbox = <<>> /\ EraseAndSettle /\ UNCHANGED late
TaskDrainTimeout == outbox # <<>> /\ EraseAndSettle /\ late' = TRUE

\* After the settle delay the flush runs under the guard, dirty or not.
TaskFlush ==
    /\ AtAwait /\ task.at = "settle"
    /\ StartFlush("task")
    /\ UNCHANGED <<taskFrame, ram, dirty, mediumVars, taskVars, left, touched, late>>

\* A deferred flush is completed by a compaction in the same turn.
TaskCompact ==
    /\ flush.by = "compact"
    /\ Compact
    /\ flush' = NoFlush
    /\ task' = [task EXCEPT !.at = "reset"]
    /\ UNCHANGED <<taskFrame, ram, signal, request, late>>

\* Everything volatile is gone; ram keeps the last live state for comparison.
PowerOff ==
    /\ pass' = "off" /\ flush' = NoFlush
    /\ outbox' = <<>> /\ parked' = <<>>
    /\ signal' = FALSE /\ request' = NoRequest /\ task' = TaskIdle
    /\ dirty' = FALSE /\ ranges' = NoMark /\ resync' = FALSE
    /\ blocked' = FALSE
    /\ late' = FALSE /\ answer' = NoAnswer
    /\ UNCHANGED <<kind, ram, used, idx, touched, partial>>

\* The platform resets the device, or fails to.
TaskReset ==
    /\ AtAwait /\ task.at = "reset"
    /\ \/ PowerOff /\ UNCHANGED <<img, crc, rec, slots, pending, left>>
       \/ /\ task' = TaskIdle
          /\ UNCHANGED <<taskFrame, deviceVars, resync, mediumVars, flush, signal, request,
                         left, touched, late>>

\* Power fails, perhaps inside a write.
PowerCut ==
    /\ pass # "off" /\ left.cuts > 0
    /\ left' = [left EXCEPT !.cuts = @ - 1]
    /\ PowerOff
    /\ \/ UNCHANGED <<img, crc, rec, slots, pending>>
       \/ /\ Flushing /\ Room
          /\ \E i \in NextWrites : WriteTorn(i)
          /\ pending' = (kind = "flash")

\* DeviceStorage::load over a factory-fresh state.  A byte medium reports an
\* image whose CRC differs, and a table that was Loaded becomes Err durably;
\* a log that asks for it is compacted.
Stale(t) == kind = "byte" /\ crc[t] # [c \in AllOf(t) |-> img[Chunk(t, c)]]
\* Mutant: a partial image invalidates a table that is still loading, too.
Mut_Invalidated ==
    {Ctl(t) : t \in {u \in Tables : Stale(u) /\ Durable(Ctl(u)) \in {"loaded", "loading"}}}
Invalidated == {Ctl(t) : t \in {u \in Tables : Stale(u) /\ Durable(Ctl(u)) = "loaded"}}
Boot ==
    /\ pass = "off"
    /\ ram' = [l \in Locs |-> IF l \in Invalidated THEN "err" ELSE Durable(l)]
    /\ slots' = [r \in RecordLocs |->
                   IF r \in Invalidated
                   THEN [slots[r] EXCEPT ![TargetSlot(r)] =
                            [gen |-> NextGen(r), val |-> "err", ok |-> TRUE]]
                   ELSE slots[r]]
    /\ IF NeedsCompaction(used, pending, blocked)
       THEN used' = 0 /\ pending' = FALSE
       ELSE UNCHANGED <<used, pending>>
    /\ idx' = rec
    /\ pass' = "idle" /\ touched' = {}
    /\ partial' = {t \in Tables : Stale(t)}
    /\ UNCHANGED <<kind, dirty, ranges, resync, img, crc, rec, blocked, flush,
                   outbox, parked, taskVars, left, answer, late>>

-----------------------------------------------------------------------------
\* A commissioned device at rest: every table Loaded, everything durable, the
\* Record generations about to wrap.
Commissioned == [l \in Locs |-> IF l \in {Ctl(t) : t \in Tables} THEN "loaded"
                               ELSE IF l = Count THEN 0 ELSE 1]
Init ==
    /\ kind \in Media
    /\ ram = Commissioned /\ dirty = FALSE /\ ranges = NoMark /\ resync = FALSE
    /\ img = [l \in ImageLocs |-> Commissioned[l]]
    /\ crc = [t \in Tables |-> [c \in AllOf(t) |-> 1]]
    /\ rec = [l \in RecordLocs |-> Commissioned[l]] /\ idx = rec
    /\ slots = [r \in RecordLocs |->
                  [s \in {0, 1} |-> [gen |-> Gens - 1, val |-> Commissioned[r], ok |-> s = 0]]]
    /\ used = 0 /\ pending = FALSE /\ blocked = FALSE
    /\ flush = NoFlush /\ pass = "idle" /\ outbox = <<>> /\ parked = <<>>
    /\ signal = FALSE /\ request = NoRequest /\ task = TaskIdle
    /\ left = [ops |-> MaxOps, faults |-> MaxFaults, cuts |-> MaxCuts]
    /\ touched = {} /\ answer = NoAnswer /\ late = FALSE /\ partial = {}

RouterStep == RouterTake \/ Send \/ RouterResume
TaskStep == TaskMaintain \/ TaskRestart \/ TaskDrained \/ TaskDrainTimeout
            \/ TaskFlush \/ TaskCompact \/ TaskReset

Next ==
    \/ Dispatch \/ DispatchRestart \/ ReleaseParked
    \/ RouterTake \/ Send \/ RouterResume
    \/ WriteOk \/ WriteFails \/ Refused \/ Flushed
    \/ TaskMaintain \/ TaskRestart \/ TaskDrained \/ TaskDrainTimeout
    \/ TaskFlush \/ TaskCompact \/ TaskReset
    \/ PowerCut \/ Boot

\* The executor polls every task that is ready, timers fire and the device is
\* powered again; nobody owes the device requests, faults or cuts.
Spec ==
    /\ Init /\ [][Next]_vars
    /\ WF_vars(RouterStep) /\ WF_vars(FlushStep) /\ WF_vars(TaskStep) /\ WF_vars(Boot)

-----------------------------------------------------------------------------
(* Properties.                                                             *)

TypeOK ==
    /\ kind \in Media
    /\ \A l \in Locs : ram[l] \in IF l \in {Ctl(t) : t \in Tables} THEN LoadStates
                                  ELSE Values \cup {0, 1}
    /\ dirty \in BOOLEAN /\ resync \in BOOLEAN /\ signal \in BOOLEAN
    /\ \A t \in Tables : ranges[t] \subseteq AllOf(t)
    /\ used \in 0 .. BankRecs /\ pending \in BOOLEAN /\ blocked \in BOOLEAN
    /\ flush.by \in {"none", "send", "end", "task", "compact"}
    /\ pass \in {"idle", "take", "send", "yield", "off"}
    /\ request \in Codes \cup {NoRequest}
    /\ task.at \in {"idle", "drain", "settle", "reset"}
    /\ touched \subseteq Locs

\* Write-through, at every point of a power cut: a location the device has not
\* written since a flush or compaction last succeeded is on the medium as it
\* is in RAM, whatever failed, was deferred or was cut since then.
AckedSurvives == \A l \in Locs \ touched : Durable(l) = ram[l]

\* Records never tear: at every moment a byte medium holds a valid copy of
\* each, the one before the write under way or the one after it.
RecordsNeverTear == kind = "byte" => \A r \in RecordLocs : Valid(r) # {}

\* A tracked change that is not durable is still flagged: wherever another
\* task can run, the next flush knows there is something to write.
PendingIsFlagged == AtAwait /\ touched \ {Count} # {} => dirty

\* The configuration is written through: what was flushed is durable, Records
\* do not tear, and what is not durable is flagged.
WriteThrough == TypeOK /\ AckedSurvives /\ RecordsNeverTear /\ PendingIsFlagged

\* No response leaves ahead of its change: when the router lets a frame go,
\* every tracked change is durable, or the flush reported an error.
DurableBeforeResponse ==
    [][pass # "send" /\ pass' = "send" => touched' \ {Count} = {} \/ resync']_vars

\* More images changed than one flush collects ranges for.
Overflow == Cardinality({t \in Tables : touched \cap ChunksOf(t) # {}}) > DirtyRanges

\* A boot restores what was acknowledged.  Only a table whose image a flush
\* was writing may change, and then only from Loaded to Err: its own change,
\* or the rewrite of every image after a write of any section failed or after
\* more images changed than a flush collects.  The cut may also lie one boot
\* back: a table still Loading keeps its half-written image, and completing
\* the load without writing the image again leaves it to the next boot.
BootRestores ==
    [][Boot => \A l \in Locs \ touched :
                 \/ ram'[l] = ram[l]
                 \/ \E t \in Tables : /\ l = Ctl(t) /\ ram[l] = "loaded" /\ ram'[l] = "err"
                                      /\ \/ touched \cap ChunksOf(t) # {}
                                         \/ left.faults < MaxFaults
                                         \/ Overflow
                                         \/ t \in partial]_vars

\* A master reset that erases the individual address is still answered from
\* the address the request was sent to, unless the drain timed out or the
\* transport layer held the response.
AnsweredFromOldAddress == ~late => answer.src = answer.due

\* A restart leaves nothing behind: when its flush is over and the device is
\* about to reset, everything, untracked counters included, is durable, even
\* if the log had no room for the erase, unless the medium failed.
RestartIsDurable ==
    [][task.at = "settle" /\ task'.at = "reset" /\ left'.faults = MaxFaults
         => touched' = {}]_vars

\* Nothing leaves ahead of the medium: neither a response nor the reset that
\* ends a restart overtakes the change it stands for.
NothingLeavesEarly == DurableBeforeResponse /\ RestartIsDurable

\* A change a full log refused becomes durable without another request,
\* unless the medium fails.
RefusedBecomesDurable ==
    blocked /\ left.faults = MaxFaults ~> ~blocked \/ left.faults < MaxFaults

\* An accepted restart ends.
RestartEnds == task.at = "drain" ~> task.at = "idle"

\* Neither a refused change nor an accepted restart waits for ever.
Progress == RefusedBecomesDurable /\ RestartEnds

=============================================================================
