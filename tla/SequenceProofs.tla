---------------------------- MODULE SequenceProofs ----------------------------
(***************************************************************************)
(* For every width of the counter, every batch, every set of senders: no   *)
(* sending number is used twice and no frame is delivered twice, whatever  *)
(* puts fail and whenever the power is cut, unless a write to a lower      *)
(* number that reported an error took effect all the same.                 *)
(*                                                                         *)
(* The invariant relates the history to the one durable number, not to RAM *)
(* alone: what was sent lies below the number a boot resumes from, and     *)
(* while the device runs that number is the watermark, above the live      *)
(* counter.  A failed put that may surface later keeps it when it does not *)
(* lower what is stored; one that does starts a new history if it          *)
(* surfaces.                                                               *)
(***************************************************************************)
EXTENDS SequenceStore, TLAPS

SendInv ==
    /\ top < Resume(kv)
    /\ up => top < live /\ live <= mark /\ mark = Resume(kv)

RecvInv ==
    /\ up => \A s \in Senders : recv[s] = kv[s]
    /\ \A s \in Senders : high[s] > 0 => kv[s] # Absent /\ high[s] <= kv[s]

MaybeInv ==
    maybe # NoPut =>
        /\ maybe.val = Absent => maybe.key \in Peers
        /\ maybe.key = Sending => maybe.val > 0
        /\ maybe.key = Tool => ~Lowers(Tool, maybe.val)

\* The counter a half-finished sync response still has to save is above the
\* numbers sent.
JobInv == job.kind = "sync" => top < job.local

IInv == TypeOK /\ SendInv /\ RecvInv /\ MaybeInv
Inv == IInv /\ JobInv

-----------------------------------------------------------------------------

\* The watermark save_sending stores is a number not below the step it covers,
\* and its 6-octet encoding keeps it.
LEMMA WatermarkCovers ==
    ASSUME NEW v \in Numbers
    PROVE  /\ Watermark(v) \in Numbers
           /\ v <= Watermark(v)
           /\ ToSeq6(Watermark(v)) = Watermark(v)
<1>1. Watermark(v) \in Numbers /\ v <= Watermark(v)
  BY NumberAssumption DEF Watermark, Numbers
<1>2. ASSUME NEW w \in Numbers PROVE w % (SeqMax + 1) = w
  BY <1>2, NumberAssumption DEF Numbers
<1> QED BY <1>1, <1>2 DEF ToSeq6

\* What save_sending puts: the watermark of a step over the batch, the number
\* itself for a step back, nothing inside the batch.
LEMMA SendingPutCases ==
    ASSUME NEW v \in Numbers, TypeOK
    PROVE  /\ SendingPut(v) # Absent => SendingPut(v) \in Numbers
           /\ SendingPut(v) = Absent => live <= v /\ v < mark
           /\ v >= mark => SendingPut(v) = Watermark(v)
           /\ v < mark /\ SendingPut(v) # Absent => v < live /\ SendingPut(v) = v
<1>1. Absent \notin Numbers
  BY KeyAssumption DEF Numbers
<1> QED BY <1>1, WatermarkCovers, NumberAssumption DEF SendingPut, TypeOK, Numbers

\* An empty medium satisfies the invariant.
LEMMA InitOK == Init => IInv
<1> SUFFICES ASSUME Init PROVE IInv
  OBVIOUS
<1>1. Default \in Numbers /\ 0 \in Numbers
  BY NumberAssumption DEF Default, Numbers
<1>2. TypeOK
  BY <1>1 DEF Init, TypeOK
<1>3. Sending \in Keys /\ \A s \in Senders : s \in Keys
  BY DEF Keys
<1>4. SendInv /\ RecvInv /\ MaybeInv
  BY <1>3 DEF Init, SendInv, RecvInv, MaybeInv, Resume, Lowers, Stored, Default
<1> QED BY <1>2, <1>4 DEF IInv

\* A boot resumes from the stored numbers.
LEMMA BootOK == IInv /\ Boot => IInv'
<1> SUFFICES ASSUME IInv, Boot PROVE IInv'
  OBVIOUS
<1>1. Default \in Numbers /\ 0 \in Numbers /\ Sending \in Keys /\ \A s \in Senders : s \in Keys
  BY NumberAssumption DEF Default, Numbers, Keys
<1>2. TypeOK'
  BY <1>1 DEF IInv, TypeOK, Boot, Resume
<1>3. SendInv'
  BY <1>1 DEF IInv, TypeOK, SendInv, Boot, Resume, Numbers
<1>4. RecvInv' /\ MaybeInv'
  BY DEF IInv, RecvInv, MaybeInv, Boot, Lowers, Stored
<1> QED BY <1>2, <1>3, <1>4 DEF IInv

\* Facts every step below needs about the constants.
LEMMA ConstantFacts ==
    /\ Default \in Numbers /\ 0 \in Numbers /\ SeqMax \in Nat
    /\ Absent \notin Numbers
    /\ Sending \in Keys /\ Sending \notin Senders /\ Tool \in Senders /\ Tool \notin Peers
    /\ \A s \in Senders : s \in Keys /\ s # Sending
    /\ \A p \in Peers : p \in Senders
    /\ Numbers \subseteq Nat
BY NumberAssumption, KeyAssumption DEF Default, Numbers, Keys, Senders

\* A power cut leaves RAM at rest.
LEMMA PowerOffOK ==
    ASSUME PowerOff
    PROVE  /\ ~up' /\ up' \in BOOLEAN /\ maybe' = NoPut
           /\ live' \in Numbers /\ mark' \in Numbers
           /\ recv' \in [Senders -> Numbers \cup {Absent}]
           /\ pending' \in Senders \cup {Absent}
           /\ job' \in {Idle, Clearing} \cup {SaveLocal(v) : v \in Numbers}
BY ConstantFacts DEF PowerOff

\* A power cut keeps the invariant when what it leaves on the medium covers
\* the history.
LEMMA CutOK ==
    ASSUME IInv, PowerOff, top' \in Numbers, high' \in [Senders -> Numbers],
           kv' \in [Keys -> Numbers \cup {Absent}],
           top' < Resume(kv'),
           \A s \in Senders : high'[s] > 0 => kv'[s] # Absent /\ high'[s] <= kv'[s]
    PROVE  IInv'
<1>1. TypeOK'
  BY PowerOffOK DEF TypeOK
<1>2. SendInv'
  BY PowerOffOK DEF SendInv, Resume
<1>3. RecvInv' /\ MaybeInv'
  BY PowerOffOK DEF RecvInv, MaybeInv
<1> QED BY <1>1, <1>2, <1>3 DEF IInv

\* A power cut between two handlers, with a failed put surfacing or not.
LEMMA CrashOK == IInv /\ Crash => IInv'
<1> SUFFICES ASSUME IInv, Crash PROVE IInv'
  OBVIOUS
<1>1. /\ PowerOff
      /\ top' = IF Lowers(Sending, kv'[Sending]) THEN 0 ELSE top
      /\ high' = [s \in Senders |->
                    IF s \in Peers /\ (kv'[s] = Absent \/ Lowers(s, kv'[s])) THEN 0 ELSE high[s]]
  BY DEF Crash
<1>2. /\ kv \in [Keys -> Numbers \cup {Absent}] /\ top \in Numbers /\ high \in [Senders -> Numbers]
      /\ top < Resume(kv)
      /\ \A s \in Senders : high[s] > 0 => kv[s] # Absent /\ high[s] <= kv[s]
  BY DEF IInv, TypeOK, SendInv, RecvInv
<1>3. high' \in [Senders -> Numbers] /\ top' \in Numbers
  BY <1>1, <1>2, ConstantFacts
<1>4. CASE kv' = kv
  <2>1. ~Lowers(Sending, kv'[Sending])
    BY <1>2, <1>4, ConstantFacts DEF Lowers, Stored, Numbers
  <2>2. kv' \in [Keys -> Numbers \cup {Absent}] /\ top' < Resume(kv')
    BY <1>1, <1>2, <1>4, <2>1
  <2>3. \A s \in Senders : high'[s] > 0 => kv'[s] # Absent /\ high'[s] <= kv'[s]
    BY <1>1, <1>2, <1>4, ConstantFacts
  <2> QED BY <1>1, <1>3, <2>2, <2>3, CutOK
<1>5. CASE kv' # kv
  <2>0. maybe # NoPut /\ kv' = [kv EXCEPT ![maybe.key] = maybe.val]
    BY <1>5 DEF Crash, ValueAfter
  <2> DEFINE k == maybe.key
             v == maybe.val
  <2>1. k \in Keys /\ v \in Numbers \cup {Absent} /\ kv' = [kv EXCEPT ![k] = v]
    BY <2>0 DEF IInv, TypeOK
  <2>2. (v = Absent => k \in Peers) /\ (k = Sending => v > 0) /\ (k = Tool => ~Lowers(Tool, v))
    BY <2>0 DEF IInv, MaybeInv
  <2> HIDE DEF k, v
  <2>3. kv' \in [Keys -> Numbers \cup {Absent}]
    BY <1>2, <2>1
  <2>4. top' < Resume(kv')
    <3>1. CASE k = Sending
      <4>1. v \in Numbers /\ kv'[Sending] = v /\ Resume(kv') = v /\ v > 0
        BY <1>2, <2>1, <2>2, <3>1, ConstantFacts DEF Resume
      <4>2. CASE Lowers(Sending, v)
        BY <1>1, <4>1, <4>2
      <4>3. CASE ~Lowers(Sending, v)
        <5>1. top' = top
          BY <1>1, <4>1, <4>3
        <5>2. CASE kv[Sending] = Absent
          BY <1>2, <4>1, <5>1, <5>2 DEF Resume, Default, Numbers
        <5>3. CASE kv[Sending] # Absent
          <6>1. kv[Sending] \in Numbers
            BY <1>2, <5>3, ConstantFacts
          <6>2. kv[Sending] <= v
            BY <4>1, <4>3, <5>3, <6>1, ConstantFacts DEF Lowers, Stored, Numbers
          <6> QED BY <1>2, <4>1, <5>1, <5>3, <6>1, <6>2 DEF Resume, Numbers
        <5> QED BY <5>2, <5>3
      <4> QED BY <4>2, <4>3
    <3>2. CASE k # Sending
      <4>1. kv'[Sending] = kv[Sending] /\ Resume(kv') = Resume(kv)
        BY <1>2, <2>1, <3>2, ConstantFacts DEF Resume
      <4>2. ~Lowers(Sending, kv'[Sending])
        BY <1>2, <4>1, ConstantFacts DEF Lowers, Stored, Numbers
      <4> QED BY <1>1, <1>2, <4>1, <4>2
    <3> QED BY <3>1, <3>2
  <2>5. ASSUME NEW s \in Senders, high'[s] > 0
        PROVE  kv'[s] # Absent /\ high'[s] <= kv'[s]
    <3>1. high'[s] = high[s] /\ ~(s \in Peers /\ (kv'[s] = Absent \/ Lowers(s, kv'[s])))
      BY <1>1, <2>5
    <3>2. kv[s] # Absent /\ high[s] <= kv[s] /\ s \in Keys
      BY <1>2, <2>5, <3>1, ConstantFacts
    <3>3. CASE k # s
      BY <1>2, <2>1, <3>1, <3>2, <3>3
    <3>4. CASE k = s
      <4>1. kv'[s] = v
        BY <1>2, <2>1, <3>2, <3>4
      <4>2. v # Absent /\ ~Lowers(s, v)
        <5>1. CASE s \in Peers
          BY <3>1, <4>1, <5>1
        <5>2. CASE s = Tool
          BY <2>2, <3>4, <5>2, ConstantFacts
        <5> QED BY <5>1, <5>2 DEF Senders
      <4>3. high[s] \in Numbers /\ kv[s] \in Numbers /\ v \in Numbers
        BY <1>2, <2>1, <3>2, <4>2, ConstantFacts
      <4>4. kv[s] <= v
        BY <3>2, <4>2, <4>3 DEF Lowers, Stored, Numbers
      <4> QED BY <3>1, <3>2, <4>1, <4>2, <4>3, <4>4 DEF Numbers
    <3> QED BY <3>3, <3>4
  <2> QED BY <1>1, <1>3, <2>3, <2>4, <2>5, CutOK
<1> QED BY <1>4, <1>5

\* Saving the sending counter as v keeps the invariant when every number in
\* the history is below v: the frame that goes out carries the one before v, a
\* step back restarts the history, and the other steps move forward.
LEMMA SaveSendingOkOK ==
    ASSUME IInv, up, NEW v \in Numbers, SaveSendingOk(v),
           top' \in Numbers, top' < v,
           recv' = recv, pending' \in Senders \cup {Absent}, high' = high,
           job' \in {Idle, Clearing} \cup {SaveLocal(n) : n \in Numbers}
    PROVE  IInv'
<1>1. CASE SendingPut(v) = Absent
  <2>1. live <= v /\ v < mark /\ live' = v /\ UNCHANGED <<kv, maybe, up, mark>>
    BY <1>1, SendingPutCases DEF SaveSendingOk, IInv
  <2>2. TypeOK'
    BY <2>1 DEF IInv, TypeOK
  <2>3. SendInv'
    BY <2>1, ConstantFacts DEF IInv, TypeOK, SendInv, Resume, Numbers
  <2>4. RecvInv' /\ MaybeInv'
    BY <2>1 DEF IInv, RecvInv, MaybeInv, Resume, Lowers, Stored
  <2> QED BY <2>2, <2>3, <2>4 DEF IInv
<1>2. CASE SendingPut(v) # Absent
  <2>1. /\ SendingPut(v) \in Numbers /\ live' = v /\ up'
        /\ kv' = [kv EXCEPT ![Sending] = SendingPut(v)] /\ maybe' = NoPut
        /\ mark' = SendingPut(v) /\ v <= SendingPut(v)
    <3>1. /\ kv' = [kv EXCEPT ![Sending] = SendingPut(v)] /\ maybe' = NoPut
          /\ up' = up /\ live' = v /\ mark' = IF v >= mark THEN Watermark(v) ELSE v
      BY <1>2 DEF SaveSendingOk, PutOk
    <3>2. TypeOK
      BY DEF IInv
    <3>3. mark \in Nat /\ v \in Nat /\ Watermark(v) \in Nat
      BY <3>2, WatermarkCovers, ConstantFacts DEF TypeOK
    <3>4. CASE v >= mark
      BY <3>1, <3>2, <3>4, SendingPutCases, WatermarkCovers
    <3>5. CASE v < mark
      BY <1>2, <3>1, <3>2, <3>3, <3>5, SendingPutCases, ConstantFacts
    <3> QED BY <3>3, <3>4, <3>5
  <2>2. TypeOK'
    BY <2>1, ConstantFacts DEF IInv, TypeOK
  <2>3. Resume(kv)' = SendingPut(v)
    BY <2>1, ConstantFacts DEF Resume, IInv, TypeOK
  <2>4. SendInv'
    BY <2>1, <2>3, ConstantFacts DEF IInv, TypeOK, SendInv, Numbers
  <2>5. RecvInv' /\ MaybeInv'
    BY <2>1, ConstantFacts DEF IInv, TypeOK, RecvInv, MaybeInv
  <2> QED BY <2>2, <2>4, <2>5 DEF IInv
<1> QED BY <1>1, <1>2

\* A put that reports an error keeps the invariant: RAM and medium stay as
\* they are, and what may surface later is a number the counter may take.
LEMMA PutErrOK ==
    ASSUME IInv, NEW k \in Keys, NEW v \in Numbers \cup {Absent}, PutErr(k, v),
           v = Absent => k \in Peers, k = Sending => v > 0, k = Tool => ~Lowers(k, v),
           UNCHANGED <<live, mark, recv, top, high>>,
           pending' \in Senders \cup {Absent},
           job' \in {Idle, Clearing} \cup {SaveLocal(n) : n \in Numbers}
    PROVE  IInv'
<1>1. UNCHANGED <<kv, up>> /\ maybe' \in {maybe, Put(k, v)}
  BY DEF PutErr
<1>2. Put(k, v) \in [key: Keys, val: Numbers \cup {Absent}, none: {FALSE}]
  BY DEF Put
<1>3. TypeOK'
  BY <1>1, <1>2 DEF IInv, TypeOK
<1>4. SendInv' /\ RecvInv'
  BY <1>1 DEF IInv, SendInv, RecvInv, Resume
<1>5. MaybeInv'
  <2>1. CASE maybe' = maybe
    BY <1>1, <2>1 DEF IInv, MaybeInv, Lowers, Stored
  <2>2. CASE maybe' = Put(k, v)
    <3>1. maybe'.key = k /\ maybe'.val = v
      BY <2>2 DEF Put
    <3> QED BY <1>1, <3>1 DEF MaybeInv, Lowers, Stored
  <2> QED BY <1>1, <2>1, <2>2
<1> QED BY <1>3, <1>4, <1>5 DEF IInv

\* save_sending fails: nothing moves, and what may surface is not lower.
LEMMA SaveSendingErrOK ==
    ASSUME IInv, NEW v \in Numbers, v > 0, SaveSendingErr(v),
           UNCHANGED <<recv, top, high>>,
           pending' \in Senders \cup {Absent},
           job' \in {Idle, Clearing} \cup {SaveLocal(n) : n \in Numbers}
    PROVE  IInv'
<1>1. SendingPut(v) # Absent /\ PutErr(Sending, SendingPut(v)) /\ UNCHANGED <<live, mark>>
  BY DEF SaveSendingErr
<1>2. TypeOK
  BY DEF IInv
<1>3. SendingPut(v) \in Numbers /\ SendingPut(v) > 0
  <2>1. CASE v >= mark
    BY <2>1, <1>2, WatermarkCovers, SendingPutCases DEF Numbers
  <2>2. CASE ~(v >= mark)
    <3>1. v < mark
      BY <2>2, <1>2 DEF TypeOK, Numbers
    <3> QED BY <3>1, <1>1, <1>2, SendingPutCases
  <2> QED BY <2>1, <2>2
<1> QED BY <1>1, <1>3, PutErrOK, ConstantFacts

\* Power lost inside save_sending, the number already on the medium.
LEMMA SaveSendingCutOK ==
    ASSUME IInv, NEW v \in Numbers, SaveSendingCut(v), top' \in Numbers, top' < v, high' = high
    PROVE  IInv'
<1>1. /\ SendingPut(v) # Absent /\ PowerOff
      /\ kv' = [kv EXCEPT ![Sending] = SendingPut(v)]
  BY DEF SaveSendingCut, PutCut
<1>2. TypeOK /\ RecvInv
  BY DEF IInv
<1>3. SendingPut(v) \in Numbers /\ v <= SendingPut(v)
  <2>1. CASE v >= mark
    BY <2>1, <1>2, WatermarkCovers, SendingPutCases
  <2>2. CASE ~(v >= mark)
    <3>1. v < mark
      BY <2>2, <1>2 DEF TypeOK, Numbers
    <3> QED BY <3>1, <1>1, <1>2, SendingPutCases DEF Numbers
  <2> QED BY <2>1, <2>2
<1>4. kv' \in [Keys -> Numbers \cup {Absent}] /\ Resume(kv') = SendingPut(v)
  BY <1>1, <1>2, <1>3, ConstantFacts DEF TypeOK, Resume
<1>5. top' < Resume(kv')
  BY <1>3, <1>4 DEF Numbers
<1>6. \A s \in Senders : high'[s] > 0 => kv'[s] # Absent /\ high'[s] <= kv'[s]
  BY <1>1, <1>2, ConstantFacts DEF RecvInv, TypeOK
<1>7. high' \in [Senders -> Numbers]
  BY <1>2 DEF TypeOK
<1> QED BY <1>1, <1>4, <1>5, <1>6, <1>7, CutOK

\* Storing v for a sender keeps the invariant when what was delivered from it
\* is not above v: it was accepted at v, was below the floor before, or its
\* history restarts with the row.
SenderHistory(s, v) ==
    /\ high' \in [Senders -> Numbers]
    /\ \A t \in Senders \ {s} : high'[t] = high[t]
    /\ high'[s] > 0 => v # Absent /\ high'[s] <= v

\* save_seq, save_tool, write_entry and the removal of a row succeed.
LEMMA SaveReceivingOkOK ==
    ASSUME IInv, up, NEW s \in Senders, NEW v \in Numbers \cup {Absent}, SaveReceivingOk(s, v),
           SenderHistory(s, v), UNCHANGED <<live, mark, top>>,
           pending' \in Senders \cup {Absent},
           job' \in {Idle, Clearing} \cup {SaveLocal(n) : n \in Numbers}
    PROVE  IInv'
<1>1. /\ kv' = [kv EXCEPT ![s] = v] /\ maybe' = NoPut /\ up' = up
      /\ recv' = [recv EXCEPT ![s] = v]
  BY DEF SaveReceivingOk, PutOk
<1>2. TypeOK'
  BY <1>1, ConstantFacts DEF IInv, TypeOK, SenderHistory
<1>3. Resume(kv)' = Resume(kv)
  BY <1>1, ConstantFacts DEF IInv, TypeOK, Resume
<1>4. SendInv' /\ MaybeInv'
  BY <1>1, <1>3 DEF IInv, SendInv, MaybeInv
<1>5. RecvInv'
  BY <1>1, ConstantFacts DEF IInv, TypeOK, RecvInv, SenderHistory
<1> QED BY <1>2, <1>4, <1>5 DEF IInv

\* Power lost inside one of them, the number already on the medium.
LEMMA PutCutOK ==
    ASSUME IInv, NEW s \in Senders, NEW v \in Numbers \cup {Absent}, PutCut(s, v),
           SenderHistory(s, v), top' = top
    PROVE  IInv'
<1>1. kv' = [kv EXCEPT ![s] = v] /\ PowerOff
  BY DEF PutCut
<1>2. kv' \in [Keys -> Numbers \cup {Absent}] /\ Resume(kv') = Resume(kv)
  BY <1>1, ConstantFacts DEF IInv, TypeOK, Resume
<1>3. \A t \in Senders : high'[t] > 0 => kv'[t] # Absent /\ high'[t] <= kv'[t]
  BY <1>1, ConstantFacts DEF IInv, TypeOK, RecvInv, SenderHistory
<1>4. top' < Resume(kv') /\ top' \in Numbers /\ high' \in [Senders -> Numbers]
  BY <1>2 DEF IInv, TypeOK, SendInv, SenderHistory
<1> QED BY <1>1, <1>2, <1>3, <1>4, CutOK

-----------------------------------------------------------------------------

\* Types the handlers pass to the lemmas above.
LEMMA TypeFacts ==
    ASSUME TypeOK
    PROVE  /\ live \in Numbers /\ mark \in Numbers /\ top \in Numbers
           /\ pending \in Senders \cup {Absent}
           /\ job \in {Idle, Clearing} \cup {SaveLocal(n) : n \in Numbers}
           /\ high \in [Senders -> Numbers]
           /\ recv \in [Senders -> Numbers \cup {Absent}]
           /\ Idle \in {Idle, Clearing} \cup {SaveLocal(n) : n \in Numbers}
           /\ Clearing \in {Idle, Clearing} \cup {SaveLocal(n) : n \in Numbers}
BY DEF TypeOK

\* Sending a frame: its number is the one before the saved counter.
LEMMA SendSecureOK == IInv /\ SendSecure => IInv'
<1> SUFFICES ASSUME IInv, SendSecure PROVE IInv'
  OBVIOUS
<1>1. TypeOK /\ up /\ live < SeqMax /\ high' = high
  BY DEF IInv, SendSecure, Ready
<1>2. top < live
  BY <1>1 DEF IInv, SendInv
<1>3. live + 1 \in Numbers /\ live < live + 1 /\ top < live + 1 /\ live + 1 > 0
  BY <1>1, <1>2, TypeFacts, NumberAssumption DEF Numbers
<1>4. CASE SaveSendingOk(live + 1) /\ top' = live /\ UNCHANGED <<recv, pending, job>>
  BY <1>1, <1>3, <1>4, TypeFacts, SaveSendingOkOK
<1>5. CASE SaveSendingErr(live + 1) /\ UNCHANGED <<recv, pending, job, top>>
  BY <1>1, <1>3, <1>5, TypeFacts, SaveSendingErrOK
<1>6. CASE SaveSendingCut(live + 1) /\ UNCHANGED top
  BY <1>1, <1>3, <1>6, TypeFacts, SaveSendingCutOK
<1> QED BY <1>4, <1>5, <1>6 DEF SendSecure

\* A property write or a factory reset sets the sending counter.
LEMMA SetSendingOK ==
    ASSUME IInv, up, NEW v \in Numbers, v > 0, SetSending(v)
    PROVE  IInv'
<1>1. TypeOK /\ high' = high
  BY DEF IInv, SetSending
<1>2. top < live
  BY DEF IInv, SendInv
<1>3. Restarted(v) < v /\ Restarted(v) \in Numbers
  BY <1>1, <1>2, TypeFacts, NumberAssumption DEF Restarted, Numbers
<1>4. CASE SaveSendingOk(v) /\ top' = Restarted(v) /\ UNCHANGED <<recv, pending, job>>
  BY <1>1, <1>3, <1>4, TypeFacts, SaveSendingOkOK
<1>5. CASE SaveSendingErr(v) /\ UNCHANGED <<recv, pending, job, top>>
  BY <1>1, <1>5, TypeFacts, SaveSendingErrOK
<1>6. CASE SaveSendingCut(v) /\ top' = Restarted(v)
  BY <1>1, <1>3, <1>6, SaveSendingCutOK
<1> QED BY <1>4, <1>5, <1>6 DEF SetSending

\* The second half of a sync response moves the sending counter forward.
LEMMA SyncSendingOK == Inv /\ SyncSending => IInv'
<1> SUFFICES ASSUME Inv, SyncSending PROVE IInv'
  OBVIOUS
<1>1. IInv /\ TypeOK /\ up /\ job.kind = "sync" /\ top' = top /\ high' = high
  BY DEF Inv, IInv, SyncSending
<1>2. PICK v \in Numbers : job = SaveLocal(v)
  BY <1>1 DEF TypeOK, Idle, Clearing
<1>3. job.local = v /\ top < v /\ v > 0
  BY <1>1, <1>2, TypeFacts DEF Inv, JobInv, SaveLocal, Numbers
<1>4. CASE SaveSendingOk(v) /\ job' = Idle /\ UNCHANGED <<recv, pending>>
  BY <1>1, <1>3, <1>4, TypeFacts, SaveSendingOkOK
<1>5. CASE SaveSendingErr(v) /\ job' = Idle /\ UNCHANGED <<recv, pending>>
  BY <1>1, <1>3, <1>5, TypeFacts, SaveSendingErrOK
<1>6. CASE SaveSendingCut(v)
  BY <1>1, <1>3, <1>6, TypeFacts, SaveSendingCutOK
<1> QED BY <1>3, <1>4, <1>5, <1>6 DEF SyncSending

\* The floor a frame is compared with bounds what was delivered.
LEMMA FloorFacts ==
    ASSUME IInv, up, NEW s \in Senders
    PROVE  /\ Floor(s) \in Numbers /\ high[s] \in Numbers /\ high[s] <= Floor(s)
           /\ recv[s] = kv[s]
<1>1. /\ recv[s] = kv[s] /\ recv[s] \in Numbers \cup {Absent} /\ high[s] \in Numbers
      /\ high[s] > 0 => kv[s] # Absent /\ high[s] <= kv[s]
  BY DEF IInv, TypeOK, RecvInv
<1> QED BY <1>1, ConstantFacts DEF Floor, Numbers

\* Raising a sender's floor, with or without delivering the frame.
LEMMA SaveFloorOK ==
    ASSUME IInv, up, NEW s \in Senders, NEW v \in Numbers, SaveFloor(s, v),
           v > Floor(s), top' = top,
           \/ high' = high
           \/ up' /\ recv'[s] = v /\ high' = [high EXCEPT ![s] = v]
    PROVE  IInv'
<1>1. TypeOK
  BY DEF IInv
<1>2. v # Absent /\ high[s] \in Numbers /\ high[s] <= v /\ high \in [Senders -> Numbers]
  BY <1>1, FloorFacts, TypeFacts, ConstantFacts DEF Numbers
<1>3. SenderHistory(s, v)
  BY <1>2 DEF SenderHistory, Numbers
<1>4. CASE SaveReceivingOk(s, v) /\ UNCHANGED <<live, mark, pending, job>>
  BY <1>1, <1>3, <1>4, TypeFacts, SaveReceivingOkOK
<1>5. CASE PutErr(s, v) /\ UNCHANGED ram
  <2>1. recv'[s] # v
    BY <1>1, <1>5, FloorFacts, TypeFacts, <1>2 DEF ram, Floor, Numbers
  <2>2. high' = high
    BY <2>1
  <2>3. ~Lowers(s, v)
    <3>1. recv[s] = kv[s] /\ recv[s] \in Numbers \cup {Absent}
      BY <1>1, FloorFacts, TypeFacts
    <3> QED BY <3>1 DEF Lowers, Stored, Floor, Numbers
  <2> QED BY <1>1, <1>2, <1>5, <2>2, <2>3, TypeFacts, ConstantFacts, PutErrOK DEF ram
<1>6. CASE PutCut(s, v)
  BY <1>3, <1>6, PutCutOK
<1> QED BY <1>4, <1>5, <1>6 DEF SaveFloor

\* Accepting a secure frame keeps the invariant.
LEMMA ReceiveSecureOK ==
    ASSUME IInv, NEW s \in Senders, NEW n \in Numbers, ReceiveSecure(s, n)
    PROVE  IInv'
<1>1. /\ up /\ n > Floor(s) /\ SaveFloor(s, n) /\ top' = top
      /\ high' = IF up' /\ recv'[s] = n THEN [high EXCEPT ![s] = n] ELSE high
  BY DEF ReceiveSecure, Accepts, Ready
<1> QED BY <1>1, SaveFloorOK

\* Answering a sync request keeps the invariant.
LEMMA ReceiveSyncReqOK ==
    ASSUME IInv, NEW s \in Senders, NEW next \in Numbers, ReceiveSyncReq(s, next)
    PROVE  IInv'
<1>1. up /\ next - 1 > Floor(s) /\ SaveFloor(s, next - 1) /\ UNCHANGED <<top, high>>
  BY DEF ReceiveSyncReq, Ready
<1>2. next - 1 \in Numbers
  BY <1>1, FloorFacts, NumberAssumption DEF Numbers
<1> QED BY <1>1, <1>2, SaveFloorOK

\* Steps that touch neither the store nor the counters.
LEMMA PendingOnlyOK ==
    ASSUME IInv, UNCHANGED <<kv, maybe, up, live, mark, recv, top, high>>,
           pending' \in Senders \cup {Absent},
           job' \in {Idle, Clearing} \cup {SaveLocal(n) : n \in Numbers}
    PROVE  IInv'
BY DEF IInv, TypeOK, SendInv, RecvInv, MaybeInv, Resume, Lowers, Stored

\* The tool writes a SIAT row: its sender starts a new history.
LEMMA WriteEntryOK ==
    ASSUME IInv, NEW p \in Peers, NEW n \in Numbers, WriteEntry(p, n)
    PROVE  IInv'
<1>1. up /\ TypeOK /\ top' = top /\ p \in Senders /\ p # Sending /\ p \in Keys
  BY ConstantFacts DEF WriteEntry, Ready, IInv
<1>2. ASSUME high' = [high EXCEPT ![p] = 0] PROVE SenderHistory(p, n)
  BY <1>1, <1>2, TypeFacts, ConstantFacts DEF SenderHistory
<1>3. CASE SaveReceivingOk(p, n) /\ UNCHANGED <<live, mark, pending, job>> /\ high' = [high EXCEPT ![p] = 0]
  BY <1>1, <1>2, <1>3, TypeFacts, SaveReceivingOkOK
<1>4. CASE PutErr(p, n) /\ UNCHANGED <<ram, high>>
  BY <1>1, <1>4, TypeFacts, ConstantFacts, PutErrOK DEF ram
<1>5. CASE PutCut(p, n) /\ high' = [high EXCEPT ![p] = 0]
  BY <1>1, <1>2, <1>5, PutCutOK
<1> QED BY <1>3, <1>4, <1>5 DEF WriteEntry

\* Clearing a SIAT row.
LEMMA RemoveRowOK ==
    ASSUME IInv, NEW p \in Peers, RemoveRow(p)
    PROVE  IInv'
<1>1. up /\ TypeOK /\ top' = top /\ p \in Senders /\ p # Sending /\ p \in Keys
  BY ConstantFacts DEF RemoveRow, IInv
<1>2. ASSUME high' = [high EXCEPT ![p] = 0] PROVE SenderHistory(p, Absent)
  BY <1>1, <1>2, TypeFacts, ConstantFacts DEF SenderHistory
<1>3. CASE /\ SaveReceivingOk(p, Absent) /\ high' = [high EXCEPT ![p] = 0]
           /\ job' = IF Rows = {p} THEN Idle ELSE Clearing
           /\ UNCHANGED <<live, mark, pending>>
  BY <1>1, <1>2, <1>3, TypeFacts, SaveReceivingOkOK
<1>4. CASE PutErr(p, Absent) /\ job' = Idle /\ UNCHANGED <<live, mark, recv, pending, high>>
  BY <1>1, <1>4, TypeFacts, ConstantFacts, PutErrOK
<1>5. CASE PutCut(p, Absent) /\ high' = [high EXCEPT ![p] = 0]
  BY <1>1, <1>2, <1>5, PutCutOK
<1> QED BY <1>3, <1>4, <1>5 DEF RemoveRow

\* A sync response raises the floor of the sender it came from, or leaves
\* the store alone.
LEMMA ReceiveSyncResOK ==
    ASSUME IInv, NEW remote \in Numbers, NEW local \in Numbers,
           ReceiveSyncRes(remote, local)
    PROVE  IInv'
<1> DEFINE s == pending
           floor == IF remote - 1 > Floor(s) THEN remote - 1 ELSE Floor(s)
           stores == Known(s) /\ (recv[s] = Absent \/ floor # Floor(s))
<1>1. /\ up /\ TypeOK /\ UNCHANGED <<top, high>> /\ s # Absent /\ remote > 0
  BY DEF ReceiveSyncRes, Ready, IInv
<1>2. s \in Senders /\ s \in Keys /\ s # Sending
  BY <1>1, TypeFacts, ConstantFacts
<1>3. Floor(s) \in Numbers /\ high[s] \in Numbers /\ high[s] <= Floor(s)
  BY <1>1, <1>2, FloorFacts
<1>4. floor \in Numbers /\ high[s] <= floor
  BY <1>1, <1>3, NumberAssumption DEF Numbers
<1>5. floor # Absent
  BY <1>4, ConstantFacts
<1>6. SenderHistory(s, floor)
  BY <1>1, <1>4, <1>5, TypeFacts DEF SenderHistory
<1>6a. ~Lowers(s, floor)
  <2>1. recv[s] = kv[s] /\ recv[s] \in Numbers \cup {Absent} /\ Floor(s) <= floor
    BY <1>1, <1>2, <1>3, FloorFacts, TypeFacts, NumberAssumption DEF Numbers
  <2> QED BY <1>4, <2>1, ConstantFacts DEF Lowers, Stored, Floor, Numbers
<1>7. (IF local > live THEN SaveLocal(local) ELSE Idle)
          \in {Idle, Clearing} \cup {SaveLocal(n) : n \in Numbers}
  OBVIOUS
<1>8. \/ /\ IF stores THEN SaveReceivingOk(s, floor) ELSE UNCHANGED <<kv, maybe, up, recv>>
         /\ job' = IF local > live THEN SaveLocal(local) ELSE Idle
         /\ pending' = Absent
         /\ UNCHANGED <<live, mark>>
      \/ stores /\ PutErr(s, floor) /\ pending' = Absent /\ UNCHANGED <<live, mark, recv, job>>
      \/ stores /\ PutCut(s, floor)
  BY DEF ReceiveSyncRes
<1> HIDE DEF s, floor, stores
<1>9. CASE stores /\ SaveReceivingOk(s, floor) /\ UNCHANGED <<live, mark>> /\ pending' = Absent
           /\ job' = IF local > live THEN SaveLocal(local) ELSE Idle
  BY <1>1, <1>2, <1>4, <1>6, <1>7, <1>9, SaveReceivingOkOK
<1>10. CASE /\ UNCHANGED <<kv, maybe, up, recv>> /\ UNCHANGED <<live, mark>> /\ pending' = Absent
            /\ job' = IF local > live THEN SaveLocal(local) ELSE Idle
  BY <1>1, <1>7, <1>10, PendingOnlyOK
<1>11. CASE PutErr(s, floor) /\ pending' = Absent /\ UNCHANGED <<live, mark, recv, job>>
  BY <1>1, <1>2, <1>4, <1>5, <1>6a, <1>11, TypeFacts, PutErrOK
<1>12. CASE PutCut(s, floor)
  BY <1>1, <1>2, <1>4, <1>6, <1>12, PutCutOK
<1> QED BY <1>8, <1>9, <1>10, <1>11, <1>12

\* Only a sync response leaves a counter to be saved, and only one above the
\* live counter.
LEMMA JobOK == Inv /\ Next => JobInv'
<1> SUFFICES ASSUME Inv, Next PROVE JobInv'
  OBVIOUS
<1>1. Idle.kind # "sync" /\ Clearing.kind # "sync"
  BY DEF Idle, Clearing
<1>2. PowerOff => JobInv'
  BY <1>1 DEF PowerOff, JobInv
<1>3. job' = Idle \/ job' = Clearing => JobInv'
  BY <1>1 DEF JobInv
<1>4. \A k, v : PutCut(k, v) => JobInv'
  BY <1>2 DEF PutCut
<1>5. \A v : SaveSendingCut(v) => JobInv'
  BY <1>4 DEF SaveSendingCut
<1>6. Ready /\ job' = job => JobInv'
  BY <1>1 DEF Ready, JobInv
<1>7. CASE Boot
  BY <1>7 DEF Boot, Inv, JobInv
<1>8. CASE Crash
  BY <1>2, <1>8 DEF Crash
<1>9. CASE SendSecure
  BY <1>5, <1>6, <1>9 DEF SendSecure
<1>10. ASSUME NEW v \in Numbers, Ready, SetSending(v) PROVE JobInv'
  BY <1>5, <1>6, <1>10 DEF SetSending
<1>11. CASE FactoryReset \/ \E v \in Numbers : WriteSending(v)
  <2>1. Reinit \in Numbers
    BY NumberAssumption DEF Numbers
  <2> QED BY <1>10, <1>11, <2>1 DEF FactoryReset, WriteSending
<1>12. ASSUME NEW s, NEW v, Ready, SaveFloor(s, v) PROVE JobInv'
  BY <1>4, <1>6, <1>12 DEF SaveFloor, ram
<1>13. CASE \E s \in Senders : \/ \E n \in Numbers : ReceiveSecure(s, n) \/ ReceiveSyncReq(s, n)
                               \/ InitiateSync(s)
  BY <1>6, <1>12, <1>13 DEF ReceiveSecure, ReceiveSyncReq, InitiateSync
<1>14. CASE SyncResRejected \/ ClearSiat
  BY <1>3, <1>6, <1>14 DEF SyncResRejected, ClearSiat
<1>15. CASE SyncSending
  BY <1>3, <1>5, <1>15 DEF SyncSending
<1>16. ASSUME NEW remote \in Numbers, NEW local \in Numbers, ReceiveSyncRes(remote, local)
       PROVE  JobInv'
  <2>1. Ready /\ up /\ top' = top
    BY <1>16 DEF ReceiveSyncRes, Ready
  <2>2. CASE job' = IF local > live THEN SaveLocal(local) ELSE Idle
    <3>1. CASE local > live
      <4>1. job'.local = local
        BY <2>2, <3>1 DEF SaveLocal
      <4>2. top < live /\ top \in Numbers /\ live \in Numbers
        BY <2>1 DEF Inv, IInv, SendInv, TypeOK
      <4> QED BY <2>1, <3>1, <4>1, <4>2 DEF JobInv, Numbers
    <3>2. CASE ~(local > live)
      BY <1>3, <2>2, <3>2
    <3> QED BY <3>1, <3>2
  <2>3. CASE job' = job
    BY <1>6, <2>1, <2>3
  <2> QED BY <1>16, <1>4, <2>2, <2>3 DEF ReceiveSyncRes
<1>17. CASE \E p \in Peers : RemoveRow(p) \/ \E n \in Numbers : WriteEntry(p, n)
  BY <1>3, <1>4, <1>6, <1>17 DEF RemoveRow, WriteEntry, ram
<1> QED BY <1>7, <1>8, <1>9, <1>11, <1>13, <1>14, <1>15, <1>16, <1>17 DEF Next

\* Every handler, every outcome of its puts, a boot and a power cut keep the
\* invariant.
LEMMA NextOK == Inv /\ [Next]_vars => Inv'
<1> SUFFICES ASSUME Inv, [Next]_vars PROVE Inv'
  OBVIOUS
<1>1. IInv /\ TypeOK
  BY DEF Inv, IInv
<1>2. CASE UNCHANGED vars
  BY <1>2 DEF vars, ram, Inv, IInv, TypeOK, SendInv, RecvInv, MaybeInv, JobInv, Resume, Lowers, Stored
<1>3. CASE Next
  <2> SUFFICES IInv'
    BY <1>3, JobOK DEF Inv
  <2>1. CASE Boot \/ Crash
    BY <1>1, <2>1, BootOK, CrashOK
  <2>2. CASE SendSecure \/ SyncSending
    BY <1>1, <2>2, SendSecureOK, SyncSendingOK
  <2>3. CASE FactoryReset \/ \E v \in Numbers : WriteSending(v)
    <3>1. Reinit \in Numbers /\ Reinit > 0
      BY NumberAssumption DEF Numbers
    <3> QED BY <1>1, <2>3, <3>1, SetSendingOK DEF FactoryReset, WriteSending, Ready
  <2>4. CASE \E s \in Senders : \E n \in Numbers : ReceiveSecure(s, n) \/ ReceiveSyncReq(s, n)
    BY <1>1, <2>4, ReceiveSecureOK, ReceiveSyncReqOK
  <2>5. CASE \E s \in Senders : InitiateSync(s)
    BY <1>1, <2>5, TypeFacts, PendingOnlyOK DEF InitiateSync
  <2>6. CASE SyncResRejected \/ ClearSiat
    BY <1>1, <2>6, TypeFacts, PendingOnlyOK DEF SyncResRejected, ClearSiat
  <2>7. CASE \E remote, local \in Numbers : ReceiveSyncRes(remote, local)
    BY <1>1, <2>7, ReceiveSyncResOK
  <2>8. CASE \E p \in Peers : RemoveRow(p) \/ \E n \in Numbers : WriteEntry(p, n)
    BY <1>1, <2>8, RemoveRowOK, WriteEntryOK
  <2> QED BY <1>3, <2>1, <2>2, <2>3, <2>4, <2>5, <2>6, <2>7, <2>8 DEF Next
<1> QED BY <1>2, <1>3

\* The invariant holds in every reachable state.
THEOREM InvariantHolds == Spec => []Inv
<1>1. Init => Inv
  BY InitOK DEF Inv, JobInv, Init, Idle
<1>2. Inv /\ [Next]_vars => Inv'
  BY NextOK
<1> QED BY <1>1, <1>2, PTL DEF Spec

\* The stores' RAM and medium keep their types: no stored number exceeds 48 bits.
THEOREM TypeCorrect == Spec => []TypeOK
<1>1. Inv => TypeOK
  BY DEF Inv, IInv
<1> QED BY <1>1, InvariantHolds, PTL

\* No number sent since a re-initialisation took effect is used again, across
\* power cuts and failed writes, unless a re-initialisation that reported an
\* error surfaces.
THEOREM SentCovered == Spec => []SentIsCovered
<1>1. Inv => SentIsCovered
  <2> SUFFICES ASSUME Inv, ~Undecided(Sending) PROVE top < Resume(Surfaced)
    <3>1. Inv => /\ up => top < live
                 /\ top < Resume(kv)
      BY DEF Inv, IInv, SendInv
    <3>2. Inv => Resume(Surfaced) \in Numbers /\ top \in Numbers
      BY ConstantFacts DEF Inv, IInv, TypeOK, Surfaced, ValueAfter, Resume
    <3> QED BY <3>1, <3>2 DEF SentIsCovered, Numbers
  <2>1. MaybeInv /\ TypeOK /\ top < Resume(kv)
    BY DEF Inv, IInv, SendInv
  <2>2. CASE maybe = NoPut
    BY <2>1, <2>2 DEF ValueAfter, Surfaced
  <2>3. CASE maybe # NoPut
    <3> DEFINE k == maybe.key
               v == maybe.val
    <3>1. /\ k \in Keys /\ v \in Numbers \cup {Absent} /\ kv \in [Keys -> Numbers \cup {Absent}]
          /\ top \in Numbers
      BY <2>1, <2>3 DEF TypeOK
    <3>2. (v = Absent => k \in Peers) /\ (k = Sending => v > 0 /\ ~Lowers(Sending, v))
      BY <2>1, <2>3 DEF MaybeInv, Undecided
    <3>3. Surfaced = [kv EXCEPT ![k] = v]
      BY <2>3 DEF ValueAfter, Surfaced
    <3> HIDE DEF k, v
    <3>4. CASE k = Sending
      <4>1. v \in Numbers /\ v > 0 /\ Resume(Surfaced) = v
        BY <3>1, <3>2, <3>3, <3>4, ConstantFacts DEF Resume
      <4>2. CASE kv[Sending] = Absent
        BY <2>1, <3>1, <4>1, <4>2 DEF Resume, Default, Numbers
      <4>3. CASE kv[Sending] # Absent
        <5>1. kv[Sending] \in Numbers /\ v # Absent
          BY <3>1, <4>1, <4>3, ConstantFacts
        <5>2. kv[Sending] <= v
          BY <3>2, <3>4, <4>1, <4>3, <5>1 DEF Lowers, Stored, Numbers
        <5> QED BY <2>1, <3>1, <4>1, <4>3, <5>1, <5>2 DEF Resume, Numbers
      <4> QED BY <4>2, <4>3
    <3>5. CASE k # Sending
      BY <2>1, <3>1, <3>3, <3>5, ConstantFacts DEF Resume
    <3> QED BY <3>4, <3>5
  <2> QED BY <2>2, <2>3
<1> QED BY <1>1, InvariantHolds, PTL

\* No secure frame is delivered twice, nor after a later one of its sender,
\* across power cuts and failed writes, unless the tool's write of a lower
\* number to the sender's row reported an error and surfaces.
THEOREM DeliveredCovered == Spec => []DeliveredIsCovered
<1>1. Inv => DeliveredIsCovered
  <2> SUFFICES ASSUME Inv, NEW s \in Senders, high[s] > 0
               PROVE  /\ up => ~Accepts(s, high[s])
                      /\ ~Admits(kv, s, high[s])
                      /\ Admits(Surfaced, s, high[s]) => s \in Peers /\ Undecided(s)
    BY DEF DeliveredIsCovered
  <2>1. TypeOK /\ RecvInv /\ MaybeInv
    BY DEF Inv, IInv
  <2>2. /\ kv[s] # Absent /\ high[s] <= kv[s]
        /\ kv \in [Keys -> Numbers \cup {Absent}] /\ s \in Keys /\ high[s] \in Numbers
    BY <2>1, ConstantFacts DEF RecvInv, TypeOK
  <2>3. kv[s] \in Numbers
    BY <2>2
  <2>4. ~Admits(kv, s, high[s]) /\ (up => ~Accepts(s, high[s]))
    BY <2>1, <2>2, <2>3 DEF Admits, Accepts, Floor, Numbers, RecvInv
  <2>5. ASSUME ~(s \in Peers /\ Undecided(s))
        PROVE  ~Admits(Surfaced, s, high[s])
    <3>1. CASE maybe = NoPut
      BY <2>4, <3>1 DEF ValueAfter, Surfaced
    <3>2. CASE maybe # NoPut
      <4> DEFINE k == maybe.key
                 v == maybe.val
      <4>1. k \in Keys /\ v \in Numbers \cup {Absent}
        BY <2>1, <3>2 DEF TypeOK
      <4>2. (v = Absent => k \in Peers) /\ (k = s => ~Lowers(s, v))
        BY <2>1, <2>5, <3>2 DEF MaybeInv, Undecided, Senders
      <4>3. Surfaced = [kv EXCEPT ![k] = v]
        BY <3>2 DEF ValueAfter, Surfaced
      <4> HIDE DEF k, v
      <4>4. CASE k # s
        BY <2>2, <2>3, <4>3, <4>4 DEF Admits, Numbers
      <4>5. CASE k = s /\ v = Absent
        BY <2>2, <4>2, <4>3, <4>5, ConstantFacts DEF Admits
      <4>6. CASE k = s /\ v # Absent
        <5>1. Surfaced[s] = v /\ v \in Numbers
          BY <2>2, <4>1, <4>3, <4>6
        <5>2. kv[s] <= v
          BY <2>2, <2>3, <4>2, <4>6, <5>1 DEF Lowers, Stored, Numbers
        <5> QED BY <2>2, <2>3, <4>6, <5>1, <5>2 DEF Admits, Numbers
      <4> QED BY <4>4, <4>5, <4>6
    <3> QED BY <3>1, <3>2
  <2> QED BY <2>4, <2>5
<1> QED BY <1>1, InvariantHolds, PTL

\* The receiving floors in RAM are the stored ones, and the live counter stays
\* inside the batch the stored watermark covers.
THEOREM StoreMirrored == Spec => []MirrorsStore
<1>1. Inv => MirrorsStore
  BY DEF Inv, IInv, SendInv, RecvInv, MirrorsStore, Stored, Resume
<1> QED BY <1>1, InvariantHolds, PTL
=============================================================================
