---------------------------- MODULE WearLeveledKv ----------------------------
(***************************************************************************)
(* The key-value store over erase-block flash: WearLeveledKv (kv.rs) over  *)
(* AppendLog (log.rs), zweidraehte-nv.                                     *)
(*                                                                         *)
(* One step is one call on the medium (SectorIo: erase, or one write of a  *)
(* record or of a bank header), because a power cut or an I/O error can    *)
(* fall inside each of them.  A bank is its header and BankRecs cells, one *)
(* per record of KV_RECORD octets, the longest record.                     *)
(*                                                                         *)
(* What the medium does is external: a write that is interrupted or that   *)
(* reports an error leaves a prefix of its octets (nothing, a torn length  *)
(* pair, a torn payload or everything), a write over programmed octets     *)
(* corrupts them (NOR flash only clears bits), and an interrupted erase    *)
(* has destroyed the header no later than the records.                     *)
(***************************************************************************)
EXTENDS Mirror, FiniteSetsExt

CONSTANTS Banks,     \* banks of the region (LogGeometry::banks)
          BankRecs,  \* records one bank holds behind its header
          MaxGen     \* bound: compactions a behaviour commits

\* AppendLog::open: rotation needs at least two banks.
ASSUME BanksAssumption == Banks \in Nat /\ Banks >= 2
\* WearLeveledKv::open: a full mirror and one more record fit one bank.
ASSUME BankRecsAssumption == BankRecs \in Nat /\ Entries + 1 <= BankRecs
ASSUME MaxGenAssumption == MaxGen \in Nat

VARIABLES
    banks,               \* the medium: header and cells of every bank
    up,                  \* the device is powered and has opened the store
    active,              \* AppendLog.active
    cursor,              \* AppendLog.cursor, in records
    generation,          \* AppendLog.generation
    compaction_pending,  \* AppendLog.compaction_pending
    mirror,              \* WearLeveledKv.mirror
    op,                  \* the put or remove under way, or NoOp
    pc,                  \* the medium call it makes next
    todo,                \* keys the snapshot closure has still to push
    wcur,                \* Compactor.cursor, in records
    failed               \* history: the last operation whose record write
                         \* returned Err, until a record write returns Ok

logVars == <<active, cursor, generation, compaction_pending>>
opVars == <<op, pc, todo, wcur>>
vars == <<banks, up, logVars, mirror, opVars, failed>>

BankIds == 0 .. Banks - 1
Cells == 1 .. BankRecs

-----------------------------------------------------------------------------
(* The medium.                                                             *)

Blank == [kind |-> "blank"]            \* erased: the length pair reads FF FF
TornLength == [kind |-> "tornlen"]     \* the length pair is no complement
TornPayload == [kind |-> "torn"]       \* length pair good, CRC bad
Record(o) == [kind |-> "rec", op |-> o]
Records == [kind: {"rec"}, op: Ops]
CellStates == {Blank, TornLength, TornPayload} \cup Records

\* A header is its generation; 0 stands for one that is not valid.
BlankBank == [hdr |-> 0, cells |-> [i \in Cells |-> Blank]]

\* What a region taken over from another use holds: nothing valid under this
\* magic, and no blank cell.
ForeignBank == [hdr |-> 0, cells |-> [i \in Cells |-> TornLength]]

\* A complete write of cell content c over old content.
Programmed(old, c) == IF old = Blank THEN {c} ELSE {TornLength, TornPayload}

\* A write that was interrupted or reported an error.
PartlyProgrammed(old, c) ==
    {old} \cup IF old = Blank THEN {TornLength, TornPayload, c}
                              ELSE {TornLength, TornPayload}

\* An erase that was interrupted or reported an error.
PartlyErased(b) == {b, [b EXCEPT !.hdr = 0], BlankBank}

-----------------------------------------------------------------------------
(* Recovery: AppendLog::newest_bank, AppendLog::replay, WearLeveledKv::apply *)

ValidBanks(bs) == {b \in BankIds : bs[b].hdr > 0}

\* newest_bank: the first of the banks with the highest generation.
Mut_IsNewest(bs, b) ==                 \* the first valid bank
    b \in ValidBanks(bs) /\ \A c \in ValidBanks(bs) : b <= c
IsNewest(bs, b) ==
    /\ b \in ValidBanks(bs)
    /\ \A c \in ValidBanks(bs) : \/ bs[c].hdr < bs[b].hdr
                                 \/ bs[c].hdr = bs[b].hdr /\ b <= c
NewestBank(bs) == CHOOSE b \in BankIds : IsNewest(bs, b)

\* The replay loop walks over position i when nothing stops it up to there.
Stops(c) == c \in {Blank, TornLength}
Walked(cells, i) == \A j \in 1 .. i : ~Stops(cells[j])

\* The number of records it walks over, and whether a torn length stopped it.
Mut_ReplayEnd(cells) ==                \* the cursor one record too far
    Cardinality({i \in Cells : Walked(cells, i)}) + 1
ReplayEnd(cells) == Cardinality({i \in Cells : Walked(cells, i)})
ReplayTorn(cells) == \E i \in Cells : /\ i = ReplayEnd(cells) + 1
                                      /\ cells[i] = TornLength

\* The map after the first n positions: on each key the last intact record
\* wins, a torn payload is skipped.
IntactOn(cells, n, k) ==
    {i \in 1 .. n : /\ cells[i].kind = "rec"
                    /\ cells[i].op.key = k
                    /\ Walked(cells, i)}
ReplayTo(cells, n) ==
    [k \in Keys |-> IF IntactOn(cells, n, k) = {} THEN Absent
                    ELSE LET last == cells[Max(IntactOn(cells, n, k))]
                         IN  Apply(EmptyMap, last.op)[k]]

\* The map a boot rebuilds from the medium.
Recovered(bs) ==
    IF ValidBanks(bs) = {} THEN EmptyMap
    ELSE ReplayTo(bs[NewestBank(bs)].cells, BankRecs)

-----------------------------------------------------------------------------

NextBank == (active + 1) % Banks

Idle == op' = NoOp /\ pc' = "idle" /\ todo' = {} /\ wcur' = 0

\* RAM that a power cut loses.  The values are never read before Open.
PowerOff ==
    /\ up' = FALSE
    /\ active' = Banks - 1 /\ cursor' = 0 /\ generation' = 0
    /\ compaction_pending' = TRUE
    /\ mirror' = EmptyMap
    /\ Idle
    /\ failed' = NoOp

Init ==
    /\ banks \in [BankIds -> {BlankBank, ForeignBank}]
    /\ up = FALSE
    /\ active = Banks - 1 /\ cursor = 0 /\ generation = 0
    /\ compaction_pending = TRUE
    /\ mirror = EmptyMap
    /\ op = NoOp /\ pc = "idle" /\ todo = {} /\ wcur = 0
    /\ failed = NoOp

\* AppendLog::open and WearLeveledKv::open: no medium call changes anything.
Open ==
    /\ ~up
    /\ up' = TRUE
    /\ IF ValidBanks(banks) = {}
       THEN UNCHANGED logVars
       ELSE LET b == NewestBank(banks)
            IN  /\ active' = b
                /\ generation' = banks[b].hdr
                /\ cursor' = ReplayEnd(banks[b].cells)
                /\ compaction_pending' = ReplayTorn(banks[b].cells)
    /\ mirror' = Recovered(banks)
    /\ UNCHANGED <<banks, opVars, failed>>

\* put and remove, AppendLog::append: a put needs room in the mirror (the
\* code panics before touching flash otherwise), a remove of an absent key
\* returns at once.  append_if_space decides whether to compact first, and
\* compact() sets compaction_pending before it erases.
Begin(o) ==
    /\ up /\ op = NoOp
    /\ o \in Puts => CanUpsert(mirror, o.key)
    /\ op' = o
    /\ \/ /\ RemovesAbsent(mirror, o)
          /\ pc' = "return"
          /\ UNCHANGED compaction_pending
       \/ /\ ~RemovesAbsent(mirror, o)
          /\ ~compaction_pending /\ cursor < BankRecs
          /\ pc' = "record"
          /\ UNCHANGED compaction_pending
       \/ /\ ~RemovesAbsent(mirror, o)
          /\ compaction_pending \/ cursor = BankRecs
          /\ generation < MaxGen
          /\ pc' = "erase"
          /\ compaction_pending' = TRUE
    /\ UNCHANGED <<banks, up, active, cursor, generation, mirror, todo, wcur, failed>>

\* The early return of remove: Ok, the medium and the log as they were.
ReturnAbsent ==
    /\ pc = "return"
    /\ Idle
    /\ UNCHANGED <<banks, up, logVars, mirror, failed>>

\* append_if_space writes the record, put or remove updates the mirror.
WriteRecord ==
    /\ pc = "record"
    /\ \E c \in Programmed(banks[active].cells[cursor + 1], Record(op)) :
          banks' = [banks EXCEPT ![active].cells[cursor + 1] = c]
    /\ cursor' = cursor + 1
    /\ mirror' = Apply(mirror, op)
    /\ failed' = NoOp
    /\ Idle
    /\ UNCHANGED <<up, active, generation, compaction_pending>>

\* The record write reports an error: the octets at the cursor are unknown.
Mut_WriteRecordError ==                \* the next append goes behind the damage
    /\ pc = "record"
    /\ \E c \in PartlyProgrammed(banks[active].cells[cursor + 1], Record(op)) :
          banks' = [banks EXCEPT ![active].cells[cursor + 1] = c]
    /\ cursor' = cursor + 1
    /\ failed' = op
    /\ Idle
    /\ UNCHANGED <<up, active, compaction_pending, generation, mirror>>
Mut2_WriteRecordError ==               \* the next append goes over the damage
    /\ pc = "record"
    /\ \E c \in PartlyProgrammed(banks[active].cells[cursor + 1], Record(op)) :
          banks' = [banks EXCEPT ![active].cells[cursor + 1] = c]
    /\ failed' = op
    /\ Idle
    /\ UNCHANGED <<up, active, cursor, compaction_pending, generation, mirror>>
WriteRecordError ==
    /\ pc = "record"
    /\ \E c \in PartlyProgrammed(banks[active].cells[cursor + 1], Record(op)) :
          banks' = [banks EXCEPT ![active].cells[cursor + 1] = c]
    /\ compaction_pending' = TRUE
    /\ failed' = op
    /\ Idle
    /\ UNCHANGED <<up, active, cursor, generation, mirror>>

\* compact(): erase the next bank.
Mut_Erase ==                           \* the header before the snapshot
    /\ pc = "erase"
    /\ banks' = [banks EXCEPT ![NextBank] = [BlankBank EXCEPT !.hdr = generation + 1]]
    /\ pc' = "snapshot"
    /\ todo' = LiveKeys(mirror)
    /\ wcur' = 0
    /\ UNCHANGED <<up, logVars, mirror, op, failed>>
Erase ==
    /\ pc = "erase"
    /\ banks' = [banks EXCEPT ![NextBank] = BlankBank]
    /\ pc' = "snapshot"
    /\ todo' = LiveKeys(mirror)
    /\ wcur' = 0
    /\ UNCHANGED <<up, logVars, mirror, op, failed>>

EraseError ==
    /\ pc = "erase"
    /\ \E b \in PartlyErased(banks[NextBank]) : banks' = [banks EXCEPT ![NextBank] = b]
    /\ Idle
    /\ UNCHANGED <<up, logVars, mirror, failed>>

\* Compactor::push of one mirror entry, in the mirror's unspecified order.
SnapshotRecord(k) == Record([kind |-> "put", key |-> k, val |-> mirror[k]])
Push(k) ==
    /\ pc = "snapshot" /\ k \in todo
    /\ \E c \in Programmed(banks[NextBank].cells[wcur + 1], SnapshotRecord(k)) :
          banks' = [banks EXCEPT ![NextBank].cells[wcur + 1] = c]
    /\ wcur' = wcur + 1
    /\ todo' = todo \ {k}
    /\ UNCHANGED <<up, logVars, mirror, op, pc, failed>>

PushError(k) ==
    /\ pc = "snapshot" /\ k \in todo
    /\ \E c \in PartlyProgrammed(banks[NextBank].cells[wcur + 1], SnapshotRecord(k)) :
          banks' = [banks EXCEPT ![NextBank].cells[wcur + 1] = c]
    /\ Idle
    /\ UNCHANGED <<up, logVars, mirror, failed>>

\* compact(): the header goes last and commits the bank; append then retries.
WriteHeader ==
    /\ pc = "snapshot" /\ todo = {}
    /\ banks' = [banks EXCEPT ![NextBank].hdr = generation + 1]
    /\ active' = NextBank
    /\ generation' = generation + 1
    /\ cursor' = wcur
    /\ compaction_pending' = FALSE
    /\ pc' = "record"
    /\ wcur' = 0
    /\ UNCHANGED <<up, mirror, op, todo, failed>>

WriteHeaderError ==
    /\ pc = "snapshot" /\ todo = {}
    /\ \E h \in {0, generation + 1} : banks' = [banks EXCEPT ![NextBank].hdr = h]
    /\ Idle
    /\ UNCHANGED <<up, logVars, mirror, failed>>

\* A power cut between two medium calls or inside the next one.
CrashInCall ==
    \/ banks' = banks
    \/ /\ pc = "record"
       /\ \E c \in PartlyProgrammed(banks[active].cells[cursor + 1], Record(op)) :
             banks' = [banks EXCEPT ![active].cells[cursor + 1] = c]
    \/ /\ pc = "erase"
       /\ \E b \in PartlyErased(banks[NextBank]) : banks' = [banks EXCEPT ![NextBank] = b]
    \/ /\ pc = "snapshot"
       /\ \E k \in todo :
          \E c \in PartlyProgrammed(banks[NextBank].cells[wcur + 1], SnapshotRecord(k)) :
             banks' = [banks EXCEPT ![NextBank].cells[wcur + 1] = c]
    \/ /\ pc = "snapshot" /\ todo = {}
       /\ banks' = [banks EXCEPT ![NextBank].hdr = generation + 1]

Crash ==
    /\ up
    /\ CrashInCall
    /\ PowerOff

Next ==
    \/ Open
    \/ \E o \in Ops : Begin(o)
    \/ ReturnAbsent
    \/ WriteRecord \/ WriteRecordError
    \/ Erase \/ EraseError
    \/ \E k \in Keys : Push(k) \/ PushError(k)
    \/ WriteHeader \/ WriteHeaderError
    \/ Crash

Spec == Init /\ [][Next]_vars

-----------------------------------------------------------------------------
(* Properties.                                                             *)

TypeOK ==
    /\ banks \in [BankIds -> [hdr: 0 .. MaxGen, cells: [Cells -> CellStates]]]
    /\ up \in BOOLEAN
    /\ active \in BankIds
    /\ cursor \in 0 .. BankRecs
    /\ generation \in 0 .. MaxGen
    /\ compaction_pending \in BOOLEAN
    /\ mirror \in Maps
    /\ op \in Ops \cup {NoOp}
    /\ pc \in {"idle", "return", "record", "erase", "snapshot"}
    /\ todo \in SUBSET Keys
    /\ wcur \in 0 .. BankRecs
    /\ failed \in Ops \cup {NoOp}

\* log.rs promises that "every possible interrupted state replays to either
\* the state before or the state after the interrupted operation": whenever
\* the power is cut, what a boot would rebuild is the mirror, or the mirror
\* with the one operation whose record write had reported an error.
RecoverySafe ==
    up => Recovered(banks) \in {mirror, Apply(mirror, failed)}

\* No record is ever programmed on top of octets that are not erased (it
\* could not be repaired), and none past the end of its bank: the expect in
\* append and the assertion in Compactor::push cannot fire.
NeverReprogrammed ==
    /\ pc = "record" => /\ cursor < BankRecs
                        /\ banks[active].cells[cursor + 1] = Blank
    /\ pc = "snapshot" /\ todo # {} => /\ wcur < BankRecs
                                       /\ banks[NextBank].cells[wcur + 1] = Blank

\* Replay never needs more room than the mirror has, at no record on its way:
\* Mirror::upsert panics on a full mirror, which would stop every later boot.
ReplayFits ==
    ~up /\ ValidBanks(banks) # {} =>
        LET cells == banks[NewestBank(banks)].cells
        IN  \A n \in Cells : Cardinality(LiveKeys(ReplayTo(cells, n))) <= Entries

\* The abstract map is the mirror while the device runs and what a boot would
\* rebuild while it is off.
Abs == INSTANCE DurableMap WITH
           value <- IF up THEN mirror ELSE Recovered(banks),
           inflight <- op, maybe <- failed, up <- up

\* WearLeveledKv is a durable map: every put, and every remove of a key it
\* holds, that returned Ok survives every power cut and every failed
\* compaction, and no operation is ever half applied.
ImplementsDurableMap == Abs!AbsSpec

\* KeyValueStore::remove: "Durably remove `(ns, key)`. A no-op if the key is
\* absent", so a key whose remove returns Ok would stay away after a power
\* cut.  The code does not meet it: absent is judged by the mirror, and a put
\* that reported an error but landed is on the medium and not in the mirror.
RemoveIsDurable ==
    pc = "return" => ~Contains(Recovered(banks), op.key)
=============================================================================
