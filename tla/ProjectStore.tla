---------------------------- MODULE ProjectStore ----------------------------
(***************************************************************************)
(* The client's project store: a mutable session holds the project lock,   *)
(* appends factual events to a journal, and compacts the replayed state    *)
(* into a snapshot (zweidraehte-project, storage/store.rs, replay.rs).     *)
(*                                                                         *)
(* The disk is keys.toml (its state_id), snapshot.json and journal.jsonl.  *)
(* Processes open the project without the lock, then take it.  The file    *)
(* operations that a crash can separate are separate actions: the JSON of  *)
(* an event, its newline and its fsync; the snapshot's rename and the      *)
(* journal's truncation.  Authored text is not modelled, except that       *)
(* nobody edits it while a process is between open and into_writer.        *)
(***************************************************************************)
EXTENDS Integers, Sequences

CONSTANTS
    Procs,        \* programs that open the project
    Ids,          \* state identities (random 128-bit strings)
    Devices,      \* devices of the project, each with a known serial number
    GroupKeys,    \* commitments to the key of the one secure group
    MaxSequence,  \* the 48-bit limit MAX_SEQUENCE
    Recorded,     \* the observations a run records, out of all Observations
    None,         \* absent file, state, key or holder
    Err,          \* the result of a load that fails
    MaxOps,       \* bound: events appended
    MaxFaults     \* bound: crashes, failed file operations, and files replaced
                  \* behind the program's back

ASSUME ConstantsAssumption ==
    /\ MaxSequence \in Nat \ {0}
    /\ None # Err /\ None \notin Ids \cup GroupKeys \cup Procs

VARIABLES
    keys,     \* state_id of keys.toml, or None
    snap,     \* snapshot.json: a state, or None
    jnl,      \* journal.jsonl: a sequence of lines, or None
    holder,   \* the process holding project.lock
    proc,     \* per process: what it has loaded and where it is
    sent,     \* history: client sequence numbers handed out
    owed,     \* history: how far a recovery that has not been finished got
    ops, faults

vars == <<keys, snap, jnl, holder, proc, sent, owed, ops, faults>>

-----------------------------------------------------------------------------
(* Mutable state and the events that change it.                            *)

FactoryDeployment == [image |-> FALSE, key |-> None, unloaded |-> FALSE,
                      inconsistent |-> FALSE, floor |-> 0]

NewState(id) == [id |-> id, recovery |-> FALSE, next |-> 1,
                 dev |-> [d \in Devices |-> FactoryDeployment]]

Deployments == [image : BOOLEAN, key : GroupKeys \cup {None}, unloaded : BOOLEAN,
                inconsistent : BOOLEAN, floor : 0 .. 2]

States == [id : Ids, recovery : BOOLEAN, next : 1 .. MaxSequence,
           dev : [Devices -> Deployments]]

Observations ==
    [t : {"observe"}, dev : Devices, n : 1 .. 2]
    \cup [t : {"programmed"}, dev : Devices, key : GroupKeys \cup {None}, verified : BOOLEAN]
    \cup [t : {"unloaded"}, dev : Devices, preserve : BOOLEAN]
    \cup [t : {"indeterminate"}, dev : Devices, key : GroupKeys \cup {None}]
    \cup [t : {"inconsistent"}, dev : Devices]

ASSUME RecordedAssumption == Recorded \subseteq Observations

Advance(n) == [t |-> "advance", n |-> n]
Begin == [t |-> "begin"]
Complete == [t |-> "complete"]

Events == Observations \cup {Begin, Complete} \cup {Advance(n) : n \in 1 .. MaxSequence}

CarriesKey(e) == e.t \in {"programmed", "indeterminate"} /\ e.key # None

\* A group key that differs from the one any device is known to hold is refused.
ValidEvent(s, e) ==
    CarriesKey(e) => \A d \in Devices : s.dev[d].key \in {None, e.key}

Larger(a, b) == IF a >= b THEN a ELSE b

\* How one device's evidence changes.  An image stands for the section digests
\* and the deployment record; the key survives all but a factory unload.
ApplyToDevice(x, e) ==
    CASE e.t = "observe" -> [x EXCEPT !.floor = Larger(@, e.n)]
      [] e.t = "programmed" ->
            [x EXCEPT !.image = TRUE, !.unloaded = FALSE,
                      !.key = IF e.key # None THEN e.key ELSE @,
                      !.inconsistent = @ /\ ~e.verified]
      [] e.t = "unloaded" /\ e.preserve -> [x EXCEPT !.image = FALSE, !.unloaded = TRUE]
      [] e.t = "unloaded" /\ ~e.preserve -> [FactoryDeployment EXCEPT !.unloaded = TRUE]
      [] e.t = "indeterminate" ->
            [x EXCEPT !.image = FALSE, !.unloaded = FALSE,
                      !.key = IF e.key # None THEN e.key ELSE @]
      [] e.t = "inconsistent" -> [x EXCEPT !.inconsistent = TRUE]

Apply(s, e) ==
    CASE e.t = "advance" -> [s EXCEPT !.next = Larger(@, e.n)]
      [] e.t = "begin" -> [s EXCEPT !.recovery = TRUE]
      [] e.t = "complete" -> [s EXCEPT !.recovery = FALSE]
      [] OTHER -> [s EXCEPT !.dev[e.dev] = ApplyToDevice(@, e)]

-----------------------------------------------------------------------------
(* The files.                                                              *)

\* A line is one event or unparsable text, with or without its newline.
LineSet == [ok : BOOLEAN, ev : Events, nl : BOOLEAN]

ASSUME FilesAssumption == None \notin States \cup Seq(LineSet) /\ Err \notin States

Line(e) == [ok |-> TRUE, ev |-> e, nl |-> TRUE]
Garbage(nl) == [ok |-> FALSE, ev |-> Begin, nl |-> nl]

Unterminated(j) == j # <<>> /\ ~j[Len(j)].nl

\* The journal after writing the text of e: a new line, or, when the last one
\* has no newline, a longer line that does not parse.
Written(j, line) ==
    IF Unterminated(j) THEN [j EXCEPT ![Len(j)] = Garbage(line.nl)] ELSE Append(j, line)

\* What a write of e that was cut short, or not synced, may have left.
Partial(j, e) ==
    {j, Written(j, Garbage(FALSE)), Written(j, [Line(e) EXCEPT !.nl = FALSE]), Written(j, Line(e))}

Lines(j) == IF j = None THEN <<>> ELSE j

ReplayLine(s, line) ==
    IF s = Err \/ ~line.ok THEN Err
    ELSE IF ValidEvent(s, line.ev) THEN Apply(s, line.ev) ELSE Err

\* The state after the lines of j, in order.
Replay(s, j) ==
    LET state[n \in 0 .. Len(j)] == IF n = 0 THEN s ELSE ReplayLine(state[n - 1], j[n])
    IN  state[Len(j)]

SnapshotConsistent(s) ==
    \A d, e \in Devices : None \in {s.dev[d].key, s.dev[e].key} \/ s.dev[d].key = s.dev[e].key

\* load_state: the snapshot, then every journal line, parsed and validated.
Load(s, j) ==
    CASE s = None /\ j = None -> None
      [] s = None /\ j # None -> Err
      [] s # None /\ ~SnapshotConsistent(s) -> Err
      [] OTHER -> Replay(s, Lines(j))

Disk == Load(snap, jnl)

\* ProjectStore: what open() found.
View(k, s) == [keys |-> k, st |-> s,
               match |-> IF k = None \/ s = None THEN k = None /\ s = None ELSE k = s.id]

Ready(v) == v.match /\ v.keys # None /\ v.st # None /\ ~v.st.recovery

Out == [pc |-> "out", view |-> View(None, None), open |-> FALSE,
        ev |-> Begin, ret |-> 0, refused |-> FALSE]

Init ==
    /\ keys = None /\ snap = None /\ jnl = None
    /\ holder = None
    /\ proc = [p \in Procs |-> Out]
    /\ sent = {} /\ owed = "no"
    /\ ops = 0 /\ faults = 0

-----------------------------------------------------------------------------
(* Opening and locking.                                                    *)

Bounds == <<ops, faults>>
Ghosts == <<sent, owed>>

\* open() reads without the lock, possibly in the middle of a writer's line.
\* (A snapshot and a journal from either side of a compaction make an older
\* state; the view is only a basis for into_writer, which reloads.)
Open(p) ==
    /\ proc[p].pc = "out"
    /\ \E j \in IF holder # None /\ proc[holder].pc = "append"
                   THEN Partial(jnl, proc[holder].ev) ELSE {jnl} :
         /\ Load(snap, j) # Err
         /\ proc' = [proc EXCEPT ![p] =
                      [Out EXCEPT !.pc = "reader", !.view = View(keys, Load(snap, j))]]
    /\ UNCHANGED <<keys, snap, jnl, holder, Ghosts, Bounds>>

\* The view and journal handle after refresh().
Refreshed(x) == [x EXCEPT !.view = View(keys, Disk), !.open = FALSE, !.refused = FALSE]

\* A writer that trusts what it read before it held the lock.
Mut_IntoWriter(p) ==
    /\ proc[p].pc = "reader"
    /\ IF holder # None
         THEN proc' = [proc EXCEPT ![p] = Out] /\ UNCHANGED holder
         ELSE holder' = p /\ proc' = [proc EXCEPT ![p].pc = "idle"]
    /\ UNCHANGED <<keys, snap, jnl, Ghosts, Bounds>>

\* into_writer: try the lock, then reload under it.  Both failures drop the store.
IntoWriter(p) ==
    /\ proc[p].pc = "reader"
    /\ IF holder # None \/ Disk = Err
         THEN proc' = [proc EXCEPT ![p] = Out] /\ UNCHANGED holder
         ELSE holder' = p /\ proc' = [proc EXCEPT ![p] = [Refreshed(@) EXCEPT !.pc = "idle"]]
    /\ UNCHANGED <<keys, snap, jnl, Ghosts, Bounds>>

\* The last owner of the writer goes: the journal closes, the lock is released.
DropWriter(p) ==
    /\ proc[p].pc \in {"idle", "reader"}
    /\ holder' = IF holder = p THEN None ELSE holder
    /\ proc' = [proc EXCEPT ![p] = Out]
    /\ UNCHANGED <<keys, snap, jnl, Ghosts, Bounds>>

-----------------------------------------------------------------------------
(* Initialization: keys.toml, then the snapshot, then the journal.         *)

InitializeKeys(p) ==
    /\ proc[p].pc = "idle" /\ proc[p].view.keys = None /\ proc[p].view.st = None
    /\ keys = None
    /\ \E id \in Ids :
         /\ keys' = id
         /\ proc' = [proc EXCEPT ![p].pc = "initSnapshot",
                                 ![p].view = [@ EXCEPT !.keys = id, !.match = FALSE]]
    /\ UNCHANGED <<snap, jnl, holder, Ghosts, Bounds>>

InitializeSnapshot(p) ==
    /\ proc[p].pc = "initSnapshot"
    /\ snap' = NewState(proc[p].view.keys)
    /\ proc' = [proc EXCEPT ![p].pc = "initJournal"]
    /\ UNCHANGED <<keys, jnl, holder, Ghosts, Bounds>>

InitializeJournal(p) ==
    /\ proc[p].pc = "initJournal"
    /\ jnl = None                                      \* create_new
    /\ jnl' = <<>>
    /\ proc' = [proc EXCEPT ![p].pc = "idle", ![p].view = View(@.keys, NewState(@.keys))]
    /\ UNCHANGED <<keys, snap, holder, Ghosts, Bounds>>

-----------------------------------------------------------------------------
(* Events: validated, written, synced, and only then applied.              *)

\* A process about to append e; ret is the sequence number it will hand out.
Appending(x, e, ret) == [x EXCEPT !.pc = "append", !.ev = e, !.ret = ret]

Returned(x) == [x EXCEPT !.pc = "idle", !.ev = Begin, !.ret = 0]

Applied(x) == [Returned(x) EXCEPT !.view.st = Apply(x.view.st, x.ev)]

StartAppend(p, e, ret) ==
    /\ proc[p].pc = "idle" /\ proc[p].view.st # None /\ proc[p].open
    /\ ValidEvent(proc[p].view.st, e)
    /\ ops < MaxOps /\ ops' = ops + 1
    /\ proc' = [proc EXCEPT ![p] = Appending(@, e, ret)]
    /\ UNCHANGED <<keys, snap, jnl, holder, sent, faults>>

AppendOk(p) ==
    /\ proc[p].pc = "append"
    /\ jnl' = Written(jnl, Line(proc[p].ev))
    /\ proc' = [proc EXCEPT ![p] = Applied(@)]
    /\ sent' = IF proc[p].ret > 0 THEN sent \cup {proc[p].ret} ELSE sent
    /\ owed' = IF proc[p].ev = Begin THEN "begun" ELSE owed
    /\ UNCHANGED <<keys, snap, holder, Bounds>>

\* A write or the fsync fails: the caller gets an error, nothing is applied, and
\* the file keeps whatever was written.
AppendFail(p) ==
    /\ proc[p].pc = "append" /\ faults < MaxFaults
    /\ \E j \in Partial(jnl, proc[p].ev) : jnl' = j
    /\ proc' = [proc EXCEPT ![p] = [Returned(@) EXCEPT !.refused = TRUE]]
    /\ faults' = faults + 1
    /\ UNCHANGED <<keys, snap, holder, Ghosts, ops>>

\* The reserved number is journalled instead of its successor.
Mut_ReserveClient(p) ==
    /\ Ready(proc[p].view) /\ proc[p].view.st.next < MaxSequence
    /\ StartAppend(p, Advance(proc[p].view.st.next), proc[p].view.st.next)
    /\ UNCHANGED owed

\* The 48-bit limit is checked one too late.
Mut_ReserveUnbounded(p) ==
    /\ Ready(proc[p].view)
    /\ StartAppend(p, Advance(proc[p].view.st.next + 1), proc[p].view.st.next)
    /\ UNCHANGED owed

\* reserve_client_sequence: the successor is durable before the value is used.
ReserveClient(p) ==
    /\ Ready(proc[p].view) /\ proc[p].view.st.next < MaxSequence
    /\ StartAppend(p, Advance(proc[p].view.st.next + 1), proc[p].view.st.next)
    /\ UNCHANGED owed

\* reserve_recovery_management_sequence while recovery is required.
ReserveManagement(p) ==
    /\ proc[p].view.match /\ proc[p].view.keys # None
    /\ proc[p].view.st # None /\ proc[p].view.st.recovery
    /\ proc[p].view.st.next < MaxSequence
    /\ StartAppend(p, Advance(proc[p].view.st.next + 1), proc[p].view.st.next)
    /\ UNCHANGED owed

\* A sync response or an import moves the floor forward; a lower one is ignored.
AdvanceClient(p) ==
    /\ proc[p].view.st # None
    /\ \E n \in 1 .. MaxSequence :
         n > proc[p].view.st.next /\ StartAppend(p, Advance(n), 0)
    /\ UNCHANGED owed

Record(p) == (\E e \in Recorded : StartAppend(p, e, 0)) /\ UNCHANGED owed

-----------------------------------------------------------------------------
(* Sessions.                                                               *)

\* begin_mutation: reload; a mismatched or recovering state refuses the journal.
BeginMutation(p) ==
    /\ proc[p].pc = "idle" /\ Disk # Err
    /\ LET v == View(keys, Disk)
           ok == v.st # None /\ v.keys # None /\ v.match /\ ~v.st.recovery
       IN  /\ proc' = [proc EXCEPT ![p] = [Refreshed(@) EXCEPT !.open = ok]]
           /\ jnl' = IF ok /\ jnl = None THEN <<>> ELSE jnl
    /\ UNCHANGED <<keys, snap, holder, Ghosts, Bounds>>

\* begin_recovery with a usable state: keep it, and record that recovery began.
BeginRecovery(p) ==
    /\ proc[p].pc = "idle" /\ Disk # Err
    /\ LET v == View(keys, Disk)
       IN  /\ v.keys # None /\ v.match /\ v.st # None
           /\ jnl' = Lines(jnl)
           /\ IF v.st.recovery
                THEN /\ proc' = [proc EXCEPT ![p] = [Refreshed(@) EXCEPT !.open = TRUE]]
                     /\ UNCHANGED ops
                ELSE /\ ops < MaxOps /\ ops' = ops + 1
                     /\ proc' = [proc EXCEPT ![p] =
                          Appending([Refreshed(@) EXCEPT !.open = TRUE], Begin, 0)]
    /\ UNCHANGED <<keys, snap, holder, Ghosts, faults>>

\* begin_recovery without one: a blank state under the key file's identity.
Mut_BlankState(id) == NewState(id)

BlankState(id) == [NewState(id) EXCEPT !.recovery = TRUE]

\* The numbers handed out under the lost state are no longer known here;
\* synchronization relearns the floor from the devices.
RebindSnapshot(p) ==
    /\ proc[p].pc = "idle" /\ Disk # Err
    /\ keys # None /\ (~View(keys, Disk).match \/ Disk = None)
    /\ snap' = BlankState(keys)
    /\ proc' = [proc EXCEPT ![p] = [Refreshed(@) EXCEPT !.pc = "rebind"]]
    /\ sent' = {} /\ owed' = "marked"
    /\ UNCHANGED <<keys, jnl, holder, Bounds>>

RebindTruncate(p) ==
    /\ proc[p].pc = "rebind"
    /\ jnl' = <<>>
    /\ proc' = [proc EXCEPT ![p].pc = "idle", ![p].open = TRUE,
                            ![p].view = View(@.keys, BlankState(@.keys))]
    /\ owed' = "begun"
    /\ UNCHANGED <<keys, snap, holder, sent, Bounds>>

\* finish_recovery: from here on the session no longer asks for the block.
FinishRecovery(p) ==
    /\ proc[p].view.st # None /\ proc[p].view.st.recovery
    /\ StartAppend(p, Complete, 0)
    /\ owed' = "no"

\* Compaction that empties the journal before the snapshot holds its events.
Mut_CompactSnapshot(p) ==
    /\ proc[p].pc = "idle" /\ proc[p].view.st # None
    /\ jnl' = <<>>
    /\ proc' = [proc EXCEPT ![p].pc = "compact"]
    /\ UNCHANGED <<keys, snap, holder, Ghosts, Bounds>>

CompactSnapshot(p) ==
    /\ proc[p].pc = "idle" /\ proc[p].view.st # None
    /\ snap' = proc[p].view.st
    /\ proc' = [proc EXCEPT ![p].pc = "compact"]
    /\ UNCHANGED <<keys, jnl, holder, Ghosts, Bounds>>

\* The journal is opened without `create`: compaction fails if it is missing.
CompactTruncate(p) ==
    /\ proc[p].pc = "compact"
    /\ jnl' = IF jnl = None THEN None ELSE <<>>
    /\ proc' = [proc EXCEPT ![p].pc = "idle", ![p].open = @ \/ jnl # None,
                            ![p].refused = @ /\ jnl = None]
    /\ UNCHANGED <<keys, snap, holder, Ghosts, Bounds>>

-----------------------------------------------------------------------------
(* Faults.                                                                 *)

\* A file operation of initialization, recovery or compaction fails.  What was
\* published before it stays; the writer keeps what it held in memory.
IoFail(p) ==
    /\ proc[p].pc \in {"initSnapshot", "initJournal", "rebind", "compact"}
    /\ faults < MaxFaults /\ faults' = faults + 1
    /\ proc' = [proc EXCEPT ![p].pc = "idle"]
    /\ UNCHANGED <<keys, snap, jnl, holder, Ghosts, ops>>

\* The process dies inside an operation, or the machine does: the lock goes with
\* it.  (Between operations its death leaves what DropWriter leaves.)
Crash(p) ==
    /\ proc[p].pc \notin {"out", "reader", "idle"} /\ faults < MaxFaults
    /\ \E j \in IF proc[p].pc = "append" THEN Partial(jnl, proc[p].ev) ELSE {jnl} : jnl' = j
    /\ holder' = IF holder = p THEN None ELSE holder
    /\ proc' = [proc EXCEPT ![p] = Out]
    /\ faults' = faults + 1
    /\ UNCHANGED <<keys, snap, Ghosts, ops>>

\* Between sessions the user restores another keys.toml, or loses the state.
ReplaceKeys ==
    /\ holder = None /\ faults < MaxFaults /\ keys # None
    /\ \E id \in Ids \ {keys} : keys' = id
    /\ faults' = faults + 1
    /\ UNCHANGED <<snap, jnl, holder, proc, Ghosts, ops>>

LoseState ==
    /\ holder = None /\ faults < MaxFaults /\ snap # None
    /\ snap' = None /\ jnl' = None /\ sent' = {} /\ owed' = "no"
    /\ faults' = faults + 1
    /\ UNCHANGED <<keys, holder, proc, ops>>

Next ==
    \/ \E p \in Procs :
         \/ Open(p) \/ IntoWriter(p) \/ DropWriter(p)
         \/ InitializeKeys(p) \/ InitializeSnapshot(p) \/ InitializeJournal(p)
         \/ AppendOk(p) \/ AppendFail(p)
         \/ ReserveClient(p) \/ ReserveManagement(p) \/ AdvanceClient(p) \/ Record(p)
         \/ BeginMutation(p) \/ BeginRecovery(p)
         \/ RebindSnapshot(p) \/ RebindTruncate(p) \/ FinishRecovery(p)
         \/ CompactSnapshot(p) \/ CompactTruncate(p)
         \/ IoFail(p) \/ Crash(p)
    \/ ReplaceKeys \/ LoseState

Spec == Init /\ [][Next]_vars

-----------------------------------------------------------------------------
(* Properties.                                                             *)

\* Every floor stays within the 48-bit space, the journal holds lines of known
\* events, and only the holder of the lock is past `into_writer`.
TypeOK ==
    /\ keys \in Ids \cup {None}
    /\ snap = None \/ snap \in States
    /\ jnl = None \/ \A i \in DOMAIN jnl : jnl[i] \in LineSet
    /\ holder \in Procs \cup {None}
    /\ \A p \in Procs :
         /\ proc[p].view.st = None \/ proc[p].view.st \in States
         /\ (proc[p].pc \notin {"out", "reader"}) <=> (holder = p)
    /\ sent \subseteq 1 .. MaxSequence - 1

\* A number handed out to secure a telegram is below the floor that the next
\* session will load, wherever the program was killed and whatever a reader saw
\* before it took the lock, and the number a reservation is about to hand out
\* was not handed out before (store.rs, reserve_client_sequence and append).
NeverReused ==
    /\ sent # {} => LET disk == Disk IN disk \notin {None, Err} => \A n \in sent : n < disk.next
    /\ \A p \in Procs : proc[p].pc = "append" => proc[p].ret \notin sent

\* The client counter stays in its 48-bit space and gives no number twice.
CountersSafe == TypeOK /\ NeverReused

Rotates(j) == \E a, b \in DOMAIN j :
    /\ CarriesKey(j[a].ev) /\ CarriesKey(j[b].ev) /\ j[a].ev.key # j[b].ev.key

\* What the writer believes is what a crash at this moment would load, also
\* between the snapshot's rename and the journal's truncation, when the events
\* are replayed over the state that already holds them.  Excepted: a journal
\* line spoiled by an earlier cut, an append that reported an error, and a
\* journal in which a factory unload let the group key change, replayed over a
\* snapshot that holds a key: after a compaction that was not finished it is refused.
ReloadIsExact ==
    \A p \in Procs :
        (/\ proc[p].pc \in {"idle", "compact"} /\ proc[p].open /\ ~proc[p].refused
         /\ \A i \in DOMAIN jnl : jnl[i].ok
         /\ ~(Rotates(jnl) /\ \E d \in Devices : snap.dev[d].key # None))
        => Disk = proc[p].view.st

\* From the moment begin_recovery returns until finish_recovery is called, no
\* crash, reopening or further session finds a state that permits normal secure
\* sending.
RecoveryBlocks == owed = "begun" => LET disk == Disk IN disk # Err => ~Ready(View(keys, disk))

\* The same from the moment the blank state is written: "the recovery marker
\* blocks secure transmission until `finish_recovery`" (store.rs).
MarkerBlocks ==
    owed \in {"marked", "begun"} => LET disk == Disk IN disk # Err => ~Ready(View(keys, disk))

\* A factory unload of device d is being journalled.
Unloads(d) == \E p \in Procs :
    /\ proc[p].pc = "append" /\ proc[p].ev.t = "unloaded"
    /\ ~proc[p].ev.preserve /\ proc[p].ev.dev = d

\* One step, between two states that load under the same identity.
FloorsKept ==
    LET old == Disk
        new == Disk'
    IN  (/\ sent \subseteq sent' /\ owed # "marked" /\ \A p \in Procs : ~proc[p].refused
         /\ old \notin {None, Err} /\ new \notin {None, Err} /\ new.id = old.id)
        => /\ new.next >= old.next
           /\ \A d \in Devices : new.dev[d].floor >= old.dev[d].floor \/ Unloads(d)

\* The durable sender floors and the client floor never move back, except that
\* a factory unload forgets the device, that a lost state is replaced, and that
\* compaction drops an event whose append reported an error.
FloorsMonotone == [][FloorsKept]_<<snap, jnl>>
=============================================================================
