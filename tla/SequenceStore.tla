---------------------------- MODULE SequenceStore ----------------------------
(***************************************************************************)
(* The KNX Data Secure sequence numbers: SiatStore (zweidraehte-nv,        *)
(* siat.rs) over a durable map, and the paths of the Secure Application    *)
(* Layer that read and move them: sending a secure frame, accepting one,   *)
(* answering and finishing S-A_Sync, the property writes of a tool, the    *)
(* factory reset, power cuts.                                              *)
(*                                                                         *)
(* A handler runs to its end on one task.  The medium can report an error  *)
(* to it, or lose power inside it, at each put, so an action is a handler  *)
(* with one put, or one put of a handler that makes several; `job` is what *)
(* such a handler has still to do, and nothing but a power cut comes       *)
(* before it.  The map behaves as DurableMap says, the promise             *)
(* WearLeveledKv implements.  A SIAT row is named by its sender; its       *)
(* position, which selects the P2P key, plays no part here.                *)
(***************************************************************************)
EXTENDS Integers, FiniteSets

CONSTANTS Peers,      \* senders that may have a SIAT row
          Tool,       \* the tool-access sender: its own counter, no row
          Sending,    \* the key of the sending counter
          Absent,     \* no value stored
          SeqMax,     \* SEQ6_MAX, 2^48 - 1 in the code
          Batch,      \* K: a put per Batch sends
          Threshold,  \* SEQ_EXHAUSTION_THRESHOLD
          Reinit      \* SEQ_REINIT_VALUE

ASSUME NumberAssumption ==
    /\ SeqMax \in Nat /\ Batch \in Nat \ {0}
    /\ Threshold \in 1 .. SeqMax /\ Reinit \in 1 .. SeqMax /\ Reinit < Threshold
ASSUME KeyAssumption == /\ Sending \notin Peers \cup {Tool} /\ Tool \notin Peers
                        /\ Absent \notin 0 .. SeqMax

Senders == Peers \cup {Tool}
Keys == Senders \cup {Sending}
Numbers == 0 .. SeqMax
Default == 1                       \* DEFAULT_SENDING
NoPut == [key |-> Sending, val |-> Absent, none |-> TRUE]
Idle == [kind |-> "idle"]
Clearing == [kind |-> "clear"]
SaveLocal(v) == [kind |-> "sync", local |-> v]

VARIABLES
    kv,       \* the durable map
    maybe,    \* the failed put that may still surface after a power cut
    up,       \* the device runs
    live,     \* SiatStore.sending_live: the number of the next frame
    mark,     \* SiatStore.sending_watermark
    recv,     \* SiatStore.entries and tool: last valid number per sender
    pending,  \* pending_sync: the sender a sync request went to, or Absent
    job,      \* what the running handler has still to do, or Idle
    top,      \* history: highest number sent since a re-init took effect
    high      \* history: highest number delivered per sender since a write
              \* or a removal of its row took effect

ram == <<live, mark, recv, pending, job>>
vars == <<kv, maybe, up, ram, top, high>>

-----------------------------------------------------------------------------
(* The durable map (DurableMap, with the call that starts an operation and *)
(* its return joined: nothing else runs in between).                       *)

Stored(k) == kv[k] # Absent
Lowers(k, v) == Stored(k) /\ v # Absent /\ v < kv[k]

\* A number for k below the stored one was written, the write reported an
\* error, and a power cut will tell whether it took effect.
Undecided(k) == maybe # NoPut /\ maybe.key = k /\ Lowers(k, maybe.val)

ValueAfter(m, p) == IF p = NoPut THEN m ELSE [m EXCEPT ![p.key] = p.val]

Put(k, v) == [key |-> k, val |-> v, none |-> FALSE]

PutOk(k, v) ==
    /\ kv' = [kv EXCEPT ![k] = v]
    /\ maybe' = NoPut
    /\ UNCHANGED up

PutErr(k, v) ==
    /\ maybe' \in {maybe, Put(k, v)}
    /\ UNCHANGED <<kv, up>>

\* RAM is lost; what follows never reads these values before Boot.
PowerOff ==
    /\ up' = FALSE
    /\ maybe' = NoPut
    /\ live' = Default /\ mark' = Default
    /\ recv' = [s \in Senders |-> Absent]
    /\ pending' = Absent
    /\ job' = Idle

\* Power is lost after the put has reached the medium.
PutCut(k, v) ==
    /\ kv' = [kv EXCEPT ![k] = v]
    /\ PowerOff

-----------------------------------------------------------------------------
(* SiatStore.                                                              *)

\* u64_to_seq6 keeps the low 48 bits.
ToSeq6(v) == v % (SeqMax + 1)

\* The watermark save_sending stores for a step to v: skip ahead, clamped.
Mut_Watermark(v) == v + Batch         \* not clamped
Watermark(v) == IF v + Batch > SeqMax THEN SeqMax ELSE v + Batch

\* The number save_sending(v) puts, or Absent when the batch covers v.
SendingPut(v) ==
    IF v >= mark THEN ToSeq6(Watermark(v))
    ELSE IF v < live THEN v
    ELSE Absent

\* save_sending returns Ok.
Mut_SaveSendingOk(v) ==               \* a step back moves live and not mark
    /\ IF SendingPut(v) = Absent
       THEN UNCHANGED <<kv, maybe, up, mark>>
       ELSE /\ PutOk(Sending, SendingPut(v))
            /\ mark' = IF v >= mark THEN Watermark(v) ELSE mark
    /\ live' = v
SaveSendingOk(v) ==
    /\ IF SendingPut(v) = Absent
       THEN UNCHANGED <<kv, maybe, up, mark>>
       ELSE /\ PutOk(Sending, SendingPut(v))
            /\ mark' = IF v >= mark THEN Watermark(v) ELSE v
    /\ live' = v

\* save_sending returns the put's error and changes nothing in RAM.
SaveSendingErr(v) ==
    /\ SendingPut(v) # Absent
    /\ PutErr(Sending, SendingPut(v))
    /\ UNCHANGED <<live, mark>>

SaveSendingCut(v) ==
    /\ SendingPut(v) # Absent
    /\ PutCut(Sending, SendingPut(v))

\* siat_index_of: a sender without a row; tool access needs none.
Known(s) == s = Tool \/ recv[s] # Absent

\* load_receiving_sequence, no history comparing as zero.
Floor(s) == IF recv[s] = Absent THEN 0 ELSE recv[s]

\* check_receiving_seq: number n of sender s is new.
Accepts(s, n) == Known(s) /\ n > Floor(s)

\* save_seq and save_tool: write through, then the RAM entry.
Mut_SaveReceivingOk(s, v) ==          \* RAM only
    /\ recv' = [recv EXCEPT ![s] = v]
    /\ UNCHANGED <<kv, maybe, up>>
SaveReceivingOk(s, v) ==
    /\ PutOk(s, v)
    /\ recv' = [recv EXCEPT ![s] = v]

Init ==
    /\ kv = [k \in Keys |-> Absent]
    /\ maybe = NoPut
    /\ up = FALSE
    /\ live = Default /\ mark = Default
    /\ recv = [s \in Senders |-> Absent]
    /\ pending = Absent
    /\ job = Idle
    /\ top = 0
    /\ high = [s \in Senders |-> 0]

\* The number SiatStore::boot resumes sending from when the medium holds m.
Resume(m) == IF m[Sending] = Absent THEN Default ELSE m[Sending]

\* SiatStore::boot: the sending counter resumes from the stored watermark.
Boot ==
    /\ ~up
    /\ up' = TRUE
    /\ live' = Resume(kv)
    /\ mark' = live'
    /\ recv' = [s \in Senders |-> kv[s]]
    /\ UNCHANGED <<kv, maybe, pending, job, top, high>>

\* A power cut between two handlers: a failed put may surface.  When it is a
\* re-initialisation, or the write or removal of a row, the history it starts
\* begins here.
Crash ==
    /\ up
    /\ kv' \in {kv, ValueAfter(kv, maybe)}
    /\ PowerOff
    /\ top' = IF Lowers(Sending, kv'[Sending]) THEN 0 ELSE top
    /\ high' = [s \in Senders |->
                  IF s \in Peers /\ (kv'[s] = Absent \/ Lowers(s, kv'[s])) THEN 0 ELSE high[s]]

-----------------------------------------------------------------------------
(* Handlers.  Each outcome of a put is one disjunct.                       *)

Ready == up /\ job = Idle

\* reserve_next_seq_nr and the frame that carries the reserved number.  At
\* SeqMax the counter is exhausted and nothing is sent.
SendSecure ==
    /\ Ready /\ live < SeqMax
    /\ \/ SaveSendingOk(live + 1) /\ top' = live /\ UNCHANGED <<recv, pending, job>>
       \/ SaveSendingErr(live + 1) /\ UNCHANGED <<recv, pending, job, top>>
       \/ SaveSendingCut(live + 1) /\ UNCHANGED top
    /\ UNCHANGED high

\* A write that moves the counter back starts a new history: the numbers
\* above it are meant to be used again.
Restarted(v) == IF v < live THEN 0 ELSE top

SetSending(v) ==
    /\ \/ SaveSendingOk(v) /\ top' = Restarted(v) /\ UNCHANGED <<recv, pending, job>>
       \/ SaveSendingErr(v) /\ UNCHANGED <<recv, pending, job, top>>
       \/ SaveSendingCut(v) /\ top' = Restarted(v)
    /\ UNCHANGED high

\* PID 59 SEQUENCE_NUMBER_SENDING, zero refused.
WriteSending(v) == Ready /\ v > 0 /\ SetSending(v)

\* erase_seq_on_factory_reset with the factory-reset code.
FactoryReset == Ready /\ live >= Threshold /\ SetSending(Reinit)

\* The three outcomes of saving a sender's floor, for a handler that leaves
\* pending_sync as it is.
SaveFloor(s, v) ==
    \/ SaveReceivingOk(s, v) /\ UNCHANGED <<live, mark, pending, job>>
    \/ PutErr(s, v) /\ UNCHANGED ram
    \/ PutCut(s, v)

\* An authenticated S-A_Data frame with number n: it is checked, then the
\* floor is saved, then the plaintext is delivered.  Every other verdict and a
\* failed save drop the frame.
ReceiveSecure(s, n) ==
    /\ Ready /\ Accepts(s, n)
    /\ SaveFloor(s, n)
    /\ high' = IF up' /\ recv'[s] = n THEN [high EXCEPT ![s] = n] ELSE high
    /\ UNCHANGED top

\* S-A_Sync_Req: prepare_sync_response_sequences raises the floor to the
\* predecessor of the requester's next number and answers; a request that
\* raises nothing is answered too, and at SeqMax there is no answer.
ReceiveSyncReq(s, next) ==
    /\ Ready /\ Known(s)
    /\ next - 1 > Floor(s)
    /\ SaveFloor(s, next - 1)
    /\ UNCHANGED <<top, high>>

\* initiate_sync; a second request replaces the pending one.
InitiateSync(s) ==
    /\ Ready /\ Known(s)
    /\ pending' = s
    /\ UNCHANGED <<kv, maybe, up, live, mark, recv, job, top, high>>

\* A response that comes too late, fails its MAC or carries a zero counter.
SyncResRejected ==
    /\ Ready /\ pending # Absent
    /\ pending' = Absent
    /\ UNCHANGED <<kv, maybe, up, live, mark, recv, job, top, high>>

\* apply_sync_response_sequences, the receiving floor: raised to the remote
\* side's last number, and written even when it is zero if none is stored.
\* save_seq ignores a sender whose row has gone since the request.  An error
\* ends the handler.
ReceiveSyncRes(remote, local) ==
    LET s == pending
        floor == IF remote - 1 > Floor(s) THEN remote - 1 ELSE Floor(s)
        stores == Known(s) /\ (recv[s] = Absent \/ floor # Floor(s))
    IN  /\ Ready /\ pending # Absent /\ remote > 0 /\ local > 0
        /\ \/ /\ IF stores THEN SaveReceivingOk(s, floor)
                           ELSE UNCHANGED <<kv, maybe, up, recv>>
              /\ job' = IF local > live THEN SaveLocal(local) ELSE Idle
              /\ pending' = Absent
              /\ UNCHANGED <<live, mark>>
           \/ stores /\ PutErr(s, floor) /\ pending' = Absent /\ UNCHANGED <<live, mark, recv, job>>
           \/ stores /\ PutCut(s, floor)
        /\ UNCHANGED <<top, high>>

\* ... and then the sending counter, when the remote side expects a higher one.
SyncSending ==
    /\ up /\ job.kind = "sync"
    /\ \/ SaveSendingOk(job.local) /\ job' = Idle /\ UNCHANGED <<recv, pending>>
       \/ SaveSendingErr(job.local) /\ job' = Idle /\ UNCHANGED <<recv, pending>>
       \/ SaveSendingCut(job.local)
    /\ UNCHANGED <<top, high>>

\* PID 54 entry write: the tool gives a sender a row, any number in it.  The
\* history of that sender starts anew.
WriteEntry(p, n) ==
    /\ Ready
    /\ \/ SaveReceivingOk(p, n) /\ UNCHANGED <<live, mark, pending, job>>
          /\ high' = [high EXCEPT ![p] = 0]
       \/ PutErr(p, n) /\ UNCHANGED <<ram, high>>
       \/ PutCut(p, n) /\ high' = [high EXCEPT ![p] = 0]
    /\ UNCHANGED top

\* SiatStore::clear, for an unload of the security object: the rows go one by
\* one; an error ends it with the other rows still there.
Rows == {p \in Peers : recv[p] # Absent}
ClearSiat ==
    /\ Ready /\ Rows # {}
    /\ job' = Clearing
    /\ UNCHANGED <<kv, maybe, up, live, mark, recv, pending, top, high>>
RemoveRow(p) ==
    /\ up /\ job = Clearing /\ p \in Rows
    /\ \/ /\ SaveReceivingOk(p, Absent)
          /\ high' = [high EXCEPT ![p] = 0]
          /\ job' = IF Rows = {p} THEN Idle ELSE Clearing
          /\ UNCHANGED <<live, mark, pending>>
       \/ PutErr(p, Absent) /\ job' = Idle /\ UNCHANGED <<live, mark, recv, pending, high>>
       \/ PutCut(p, Absent) /\ high' = [high EXCEPT ![p] = 0]
    /\ UNCHANGED top

Next ==
    \/ Boot \/ Crash
    \/ SendSecure \/ FactoryReset \/ \E v \in Numbers : WriteSending(v)
    \/ \E s \in Senders :
          \/ \E n \in Numbers : ReceiveSecure(s, n) \/ ReceiveSyncReq(s, n)
          \/ InitiateSync(s)
    \/ SyncResRejected \/ SyncSending \/ ClearSiat
    \/ \E remote, local \in Numbers : ReceiveSyncRes(remote, local)
    \/ \E p \in Peers : RemoveRow(p) \/ \E n \in Numbers : WriteEntry(p, n)

Spec == Init /\ [][Next]_vars

-----------------------------------------------------------------------------
(* Properties.                                                             *)

TypeOK ==
    /\ kv \in [Keys -> Numbers \cup {Absent}]
    /\ maybe \in {NoPut} \cup [key: Keys, val: Numbers \cup {Absent}, none: {FALSE}]
    /\ up \in BOOLEAN
    /\ live \in Numbers /\ mark \in Numbers
    /\ recv \in [Senders -> Numbers \cup {Absent}]
    /\ pending \in Senders \cup {Absent}
    /\ job \in {Idle, Clearing} \cup {SaveLocal(v) : v \in Numbers}
    /\ top \in Numbers
    /\ high \in [Senders -> Numbers]

\* The map a power cut leaves when the failed put surfaces.
Surfaced == ValueAfter(kv, maybe)

\* The next frame and, whatever a power cut leaves, the first frame of the
\* next boot carry a number above every number sent since a re-initialisation
\* took effect: save_sending's batches, failed puts and power cuts never bring
\* a number back.  Only a re-initialisation whose own put reported an error
\* can, and only until the next put that succeeds.
SentIsCovered ==
    /\ up => top < live
    /\ top < Resume(kv)
    /\ Resume(Surfaced) <= top => Undecided(Sending)

\* reserve_next_seq_nr: "a frame must never leave the device carrying a
\* sequence number the store has not durably advanced past".  A frame inside
\* the batch leaves without a put, so the store must be past its number
\* already, whatever a power cut leaves.  The code does not meet it: a write
\* to a lower number that reported an error but landed leaves the counter and
\* the watermark in RAM above the stored number.
LeavesCovered ==
    up /\ live < SeqMax /\ SendingPut(live + 1) = Absent
        => live < Resume(kv) /\ live < Resume(Surfaced)

\* What was delivered from a sender is not accepted again, now or after the
\* next boot, whatever a power cut leaves on the medium: no frame is delivered
\* twice, and none after a later one.  A sender without a row is not heard.
\* Only a tool that wrote a lower number into the row and was told that the
\* write failed can find it accepted again; the tool's own counter has no such
\* exception.
Admits(m, s, n) == IF m[s] = Absent THEN s = Tool ELSE n > m[s]
DeliveredIsCovered ==
    \A s \in Senders :
        high[s] > 0 =>
            /\ up => ~Accepts(s, high[s])
            /\ ~Admits(kv, s, high[s])
            /\ Admits(Surfaced, s, high[s]) => s \in Peers /\ Undecided(s)

\* The RAM view never promises less than the medium holds: the live counter
\* stays within the batch the durable watermark covers, and a floor in RAM is
\* the stored one.
MirrorsStore ==
    up => /\ live <= mark
          /\ Stored(Sending) => mark = kv[Sending]
          /\ \A s \in Senders : recv[s] = kv[s]
=============================================================================
