---------------------------- MODULE ConfirmProofs ----------------------------
(***************************************************************************)
(* For every number of objects and every capacity of the FIFOs: the        *)
(* network and the transport layer remember exactly as many requests as    *)
(* there are frames on their way, whatever the link layer displaces, the   *)
(* channels hold back and the FIFOs refuse.                                *)
(*                                                                         *)
(* The statement is inductive together with the types.  Two facts carry    *)
(* it: both FIFOs have the same length before a dispatch, so they refuse   *)
(* the same frames; and the link layer hands up one confirmation for every *)
(* frame that leaves its two places, keeping it while it is blocked.       *)
(***************************************************************************)
EXTENDS ConfirmPath, SequenceTheorems, TLAPS

Inv == TypeOK /\ FifosTrackFrames

\* Frames inside the link layer task: the two places and the confirmation it
\* waits to hand up.
Held == One(current_tx # None) + One(pending_tx # None) + One(Waits("L_Data_Con"))

-----------------------------------------------------------------------------

\* Neither a frame nor a message between the tasks is mistaken for none, and
\* indications and confirmations are told apart by their service.
LEMMA Distinct ==
    /\ \A f \in Frames : f # None
    /\ \A m \in Indications : m # None /\ m.svc = "L_Data_Ind"
    /\ \A m \in Confirmations : m # None /\ m.svc = "L_Data_Con"
    /\ \A f \in Frames : \A ok \in BOOLEAN : Con(f, ok) \in Confirmations
<1>1. /\ \A f \in Frames : f # None
      /\ \A m \in Indications : m # None
      /\ \A m \in Confirmations : m # None
  BY NoneAssumption
<1>2. \A m \in Indications : m.svc = "L_Data_Ind"
  BY DEF Indications, GroupWrite, Request
<1>3. /\ \A m \in Confirmations : m.svc = "L_Data_Con"
      /\ \A f \in Frames : \A ok \in BOOLEAN : Con(f, ok) \in Confirmations
  BY DEF Confirmations, Con
<1> QED BY <1>1, <1>2, <1>3

\* A channel that is not empty holds exactly one message.
LEMMA OneMessage ==
    ASSUME NEW S, NEW ch \in Seq(S), ch # << >>, Len(ch) <= 1
    PROVE  Len(ch) = 1 /\ Head(ch) \in S
<1>1. Head(ch) \in S /\ Tail(ch) \in Seq(S) /\ Len(Tail(ch)) = Len(ch) - 1
  BY HeadTailProperties
<1>2. Len(Tail(ch)) \in Nat /\ Len(ch) \in Nat
  BY <1>1, LenProperties
<1> QED BY <1>1, <1>2

\* What fits into a FIFO of length n is a sequence of frames that does not
\* exceed its capacity.
LEMMA FitBounded ==
    ASSUME NEW n \in 0 .. Capacity, NEW fs \in Seq(Frames)
    PROVE  /\ Fit(n, fs) \in Seq(Frames)
           /\ Len(Fit(n, fs)) \in Nat
           /\ n + Len(Fit(n, fs)) \in 0 .. Capacity
<1> DEFINE k == IF n + Len(fs) <= Capacity THEN Len(fs) ELSE Capacity - n
<1>1. k \in Nat /\ k <= Len(fs) /\ n + k <= Capacity
  BY CapacityAssumption
<1>2. SubSeq(fs, 1, k) \in Seq(Frames) /\ Len(SubSeq(fs, 1, k)) = k
  BY <1>1
<1> QED BY <1>1, <1>2, CapacityAssumption DEF Fit

\* A dispatch that starts from an empty `out` lengthens both FIFOs by the
\* frames it passes on.
LEMMA DispatchTracks ==
    ASSUME Inv, out = << >>, NEW fs \in Seq(Frames), Dispatch(fs),
           UNCHANGED <<ll_req, ll_conf, uart>>
    PROVE  /\ pending_nl' \in Seq(Frames) /\ Len(pending_nl)' <= Capacity
           /\ pending_addr_types' \in 0 .. Capacity
           /\ out' \in Seq(Frames)
           /\ FifosTrackFrames'
<1> DEFINE gs == Fit(pending_addr_types, fs)
<1>1. Len(pending_nl) = pending_addr_types /\ pending_addr_types \in 0 .. Capacity
  BY DEF Inv, TypeOK, FifosTrackFrames
<1>2. gs \in Seq(Frames) /\ Len(gs) \in Nat /\ pending_addr_types + Len(gs) \in 0 .. Capacity
  BY <1>1, FitBounded
<1>3. /\ pending_nl' = pending_nl \o gs
      /\ pending_addr_types' = pending_addr_types + Len(gs)
      /\ out' = gs
  BY <1>1 DEF Dispatch, Forwarded
<1>4. pending_nl \in Seq(Frames)
  BY DEF Inv, TypeOK
<1>5. pending_nl' \in Seq(Frames) /\ Len(pending_nl') = pending_addr_types + Len(gs)
  <2> HIDE DEF gs
  <2>1. pending_nl \o gs \in Seq(Frames) /\ Len(pending_nl \o gs) = Len(pending_nl) + Len(gs)
    BY <1>2, <1>4, ConcatProperties
  <2> QED BY <1>1, <1>3, <2>1
<1>6. InFlight = Len(ll_req) + Len(ll_conf) + Held
  <2>1. Len(out) = 0 OBVIOUS
  <2> QED BY <2>1 DEF InFlight, Held, Inv, TypeOK, One
<1>7. InFlight' = Len(gs) + Len(ll_req) + Len(ll_conf) + Held
  BY <1>2, <1>3 DEF InFlight, Held, Inv, TypeOK, One, Waits, uart
<1>8. InFlight' = InFlight + Len(gs)
  BY <1>2, <1>6, <1>7 DEF Held, Inv, TypeOK, One
<1>9. FifosTrackFrames'
  BY <1>1, <1>2, <1>3, <1>5, <1>8 DEF Inv, FifosTrackFrames
<1> QED BY <1>1, <1>2, <1>3, <1>5, <1>9

\* What ind_tx.send and conf_tx.send do with a message: the channels keep
\* their type and bound, and a confirmation is in its channel or kept.
LEMMA HandUpKeeps ==
    ASSUME Inv, NEW m \in Indications \cup Confirmations \cup {None}, HandUp(m)
    PROVE  /\ ll_ind' \in Seq(Indications) /\ Len(ll_ind)' <= 1
           /\ ll_conf' \in Seq(Confirmations) /\ Len(ll_conf)' <= 1
           /\ blocked' \in Indications \cup Confirmations \cup {None}
           /\ Len(ll_conf)' + One(Waits("L_Data_Con"))'
                = Len(ll_conf) + One(m # None /\ m.svc = "L_Data_Con")
<1>1. /\ ll_ind \in Seq(Indications) /\ Len(ll_ind) <= 1
      /\ ll_conf \in Seq(Confirmations) /\ Len(ll_conf) <= 1
  BY DEF Inv, TypeOK
<1>2. CASE m = None
  <2>1. blocked' = None /\ ll_ind' = ll_ind /\ ll_conf' = ll_conf
    BY <1>2 DEF HandUp
  <2> QED BY <1>1, <1>2, <2>1 DEF Waits, One
<1>3. CASE m \in Indications
  <2>1. m # None /\ m.svc = "L_Data_Ind"
    BY <1>3, Distinct
  <2>2. \/ ll_ind' = <<m>> /\ blocked' = None /\ ll_conf' = ll_conf
        \/ ll_ind' = ll_ind /\ blocked' = m /\ ll_conf' = ll_conf
    BY <2>1 DEF HandUp
  <2>3. ~Waits("L_Data_Con")'
    BY <2>1, <2>2 DEF Waits
  <2>4. One(Waits("L_Data_Con"))' = 0 /\ One(m # None /\ m.svc = "L_Data_Con") = 0
    BY <2>1, <2>3 DEF One
  <2>5. ll_ind' \in Seq(Indications) /\ Len(ll_ind') <= 1
    <3>1. <<m>> \in Seq(Indications) /\ Len(<<m>>) <= 1
      BY <1>3
    <3>2. ll_ind' = <<m>> \/ ll_ind' = ll_ind
      BY <2>2
    <3>3. CASE ll_ind' = <<m>>
      BY <3>1, <3>3, Zenon
    <3>4. CASE ll_ind' = ll_ind
      BY <1>1, <3>4
    <3> QED BY <3>2, <3>3, <3>4
  <2>6. blocked' \in Indications \cup {None} /\ ll_conf' = ll_conf
    BY <1>3, <2>2
  <2>7. Len(ll_conf) \in Nat
    BY <1>1
  <2> QED BY <1>1, <2>4, <2>5, <2>6, <2>7
<1>4. CASE m \in Confirmations
  <2>1. m # None /\ m.svc = "L_Data_Con"
    BY <1>4, Distinct
  <2>2. CASE ll_conf = << >> /\ ll_conf' = <<m>> /\ blocked' = None /\ ll_ind' = ll_ind
    <3>1. Len(ll_conf) = 0 /\ Len(ll_conf') = 1 /\ ~Waits("L_Data_Con")'
      BY <2>2 DEF Waits
    <3> QED BY <1>1, <1>4, <2>1, <2>2, <3>1 DEF One
  <2>3. CASE ll_conf' = ll_conf /\ blocked' = m /\ ll_ind' = ll_ind
    <3>1. Waits("L_Data_Con")'
      BY <2>1, <2>3 DEF Waits
    <3> QED BY <1>1, <1>4, <2>1, <2>3, <3>1 DEF One
  <2> QED BY <2>1, <2>2, <2>3 DEF HandUp
<1> QED BY <1>2, <1>3, <1>4

\* check_pending_transmission moves a frame between the two places and loses
\* none.
LEMMA CheckPendingKeeps ==
    ASSUME NEW cur \in Frames \cup {None}, NEW nxt \in Frames \cup {None},
           CheckPending(cur, nxt)
    PROVE  /\ current_tx' \in Frames \cup {None} /\ pending_tx' \in Frames \cup {None}
           /\ One(current_tx # None)' + One(pending_tx # None)'
                = One(cur # None) + One(nxt # None)
BY DEF CheckPending, One

-----------------------------------------------------------------------------
(* The tasks, one lemma each for the steps that move frames.               *)

\* A confirmation shortens both FIFOs by one, and takes its frame away.
LEMMA TakeConfirmationKeeps == Inv /\ TakeConfirmation => Inv'
<1> SUFFICES ASSUME Inv, TakeConfirmation PROVE Inv'
  OBVIOUS
<1>1. /\ ll_conf \in Seq(Confirmations) /\ ll_conf # << >> /\ Len(ll_conf) <= 1
      /\ ll_conf' = << >> /\ UNCHANGED <<ll_req, ll_ind, uart, quiet>>
  BY DEF Inv, TypeOK, TakeConfirmation
<1>2. Len(ll_conf) = 1 /\ Len(ll_conf') = 0
  BY <1>1, OneMessage
<1>3. pending_addr_types = InFlight /\ Len(pending_nl) = InFlight /\ pending_nl \in Seq(Frames)
  BY DEF Inv, TypeOK, FifosTrackFrames
<1>4. InFlight = Len(out) + Len(ll_req) + 1 + Held
  BY <1>2 DEF InFlight, Held, Inv, TypeOK, One
<1>5. pending_addr_types # 0 /\ pending_nl # << >>
  BY <1>3, <1>4 DEF Held, Inv, TypeOK, One
<1>6. /\ pending_addr_types' = pending_addr_types - 1
      /\ pending_nl' = Tail(pending_nl) /\ out' = out
  BY <1>5 DEF TakeConfirmation
<1>7. pending_nl' \in Seq(Frames) /\ Len(pending_nl') = Len(pending_nl) - 1
  BY <1>3, <1>5, <1>6
<1>8. InFlight' = Len(out) + Len(ll_req) + Held
  BY <1>1, <1>2, <1>6 DEF InFlight, Held, Inv, TypeOK, One, Waits, uart
<1>9. FifosTrackFrames'
  BY <1>3, <1>4, <1>6, <1>7, <1>8 DEF Held, Inv, TypeOK, One, FifosTrackFrames
<1>10. status' \in [Objects -> {"idle", "write", "busy", "error", "updated"}]
       /\ pending_group_send' \in Objects \cup {None} /\ asked' \subseteq Objects
  <2>1. UNCHANGED app \/ (Resolve(Head(ll_conf).ok) /\ UNCHANGED asked)
    BY <1>5 DEF TakeConfirmation
  <2> QED BY <2>1 DEF Resolve, app, Inv, TypeOK
<1>11. /\ pending_addr_types' \in 0 .. Capacity
       /\ pending_nl' \in Seq(Frames) /\ Len(pending_nl') <= Capacity
  BY <1>5, <1>6, <1>7, CapacityAssumption DEF Inv, TypeOK
<1>12. ll_conf' \in Seq(Confirmations) /\ Len(ll_conf') <= 1
  BY <1>1, <1>2
<1> QED BY <1>1, <1>6, <1>9, <1>10, <1>11, <1>12 DEF Inv, TypeOK, uart

\* A dispatch for an indication, a user request or a timer.
LEMMA DispatchersKeep ==
    ASSUME Inv, TakeIndication \/ Poll \/ \E o \in Objects : HandleAppRequest(o)
    PROVE  Inv'
<1>1. /\ \A fs \in Answers : fs \in Seq(Frames)
      /\ \A o \in Objects : <<Write(o)>> \in Seq(Frames)
      /\ <<Control>> \in Seq(Frames)
  BY DEF Answers, Frames
<1>2. CASE TakeIndication
  <2>1. /\ out = << >> /\ ll_ind' = << >>
        /\ UNCHANGED <<asked, pending_group_send, ll_req, ll_conf, uart, quiet>>
    BY <1>2 DEF TakeIndication, AtSelect
  <2>2. CASE status' = status /\ \E fs \in Answers : Dispatch(fs)
    BY <1>1, <2>1, <2>2, DispatchTracks DEF Inv, TypeOK, uart
  <2>3. CASE UNCHANGED fifos
             /\ status' = [status EXCEPT ![Head(ll_ind).obj] = "updated"]
    <3>1. FifosTrackFrames'
      BY <2>1, <2>3 DEF Inv, FifosTrackFrames, InFlight, One, Waits, fifos, uart
    <3>2. status' \in [Objects -> {"idle", "write", "busy", "error", "updated"}]
      BY <2>3 DEF Inv, TypeOK
    <3>3. ll_ind' \in Seq(Indications) /\ Len(ll_ind') <= 1
      BY <2>1
    <3> QED BY <2>1, <2>3, <3>1, <3>2, <3>3 DEF Inv, TypeOK, fifos, uart
  <2> QED BY <1>2, <2>2, <2>3 DEF TakeIndication
<1>3. CASE Poll
  BY <1>1, <1>3, DispatchTracks DEF Poll, AtSelect, Inv, TypeOK, uart, app
<1>4. ASSUME NEW o \in Objects, HandleAppRequest(o) PROVE Inv'
  <2>1. /\ out = << >> /\ asked' \subseteq Objects
        /\ UNCHANGED <<ll_req, ll_ind, ll_conf, uart, quiet>>
    BY <1>4 DEF HandleAppRequest, AtSelect, Inv, TypeOK
  <2>2. status' \in [Objects -> {"idle", "write", "busy", "error", "updated"}]
    BY <1>4 DEF HandleAppRequest, Inv, TypeOK
  <2>3. CASE UNCHANGED <<pending_group_send, fifos>>
    <3>1. FifosTrackFrames'
      BY <2>1, <2>3 DEF Inv, FifosTrackFrames, InFlight, One, Waits, fifos, uart
    <3> QED BY <2>1, <2>2, <2>3, <3>1 DEF Inv, TypeOK, fifos, uart
  <2>4. CASE pending_group_send' = o /\ Dispatch(<<Write(o)>>)
    BY <1>1, <2>1, <2>2, <2>4, DispatchTracks DEF Inv, TypeOK, uart
  <2> QED BY <1>4, <2>3, <2>4 DEF HandleAppRequest
<1> QED BY <1>2, <1>3, <1>4

\* The head of `out` goes into the empty request channel.
LEMMA SendRequestKeeps == Inv /\ SendRequest => Inv'
<1> SUFFICES ASSUME Inv, SendRequest PROVE Inv'
  OBVIOUS
<1>1. /\ out \in Seq(Frames) /\ out # << >> /\ ll_req = << >>
      /\ ll_req' = <<Head(out)>> /\ out' = Tail(out)
      /\ UNCHANGED <<app, pending_nl, pending_addr_types, ll_ind, ll_conf, uart, quiet>>
  BY DEF Inv, TypeOK, SendRequest
<1>2. /\ out' \in Seq(Frames) /\ ll_req' \in Seq(Frames)
      /\ Len(out') = Len(out) - 1 /\ Len(ll_req') = 1 /\ Len(ll_req) = 0
  BY <1>1
<1>3. InFlight' = InFlight
  BY <1>1, <1>2 DEF InFlight, One, Waits, uart, Inv, TypeOK
<1> QED BY <1>1, <1>2, <1>3 DEF Inv, TypeOK, FifosTrackFrames, app, uart

\* What a step of the TP-UART task comes to: it hands up m and leaves cur and
\* nxt in its two places.
UartStep(m, cur, nxt) ==
    /\ HandUp(m) /\ CheckPending(cur, nxt)
    /\ main_idle' \in BOOLEAN
    /\ ll_req' \in Seq(Frames) /\ Len(ll_req') <= 1
    /\ UNCHANGED <<app, fifos, quiet>>
    /\ Len(ll_req') + One(cur # None) + One(nxt # None)
         + One(m # None /\ m.svc = "L_Data_Con") = Len(ll_req) + Held

\* The TP-UART task: what enters its places is what left the request channel,
\* what leaves them is confirmed.
LEMMA TpUartKeeps == Inv /\ TpUart => Inv'
<1> SUFFICES ASSUME Inv, TpUart PROVE Inv'
  OBVIOUS
<1>1. PICK m \in Indications \cup Confirmations \cup {None},
           cur \in Frames \cup {None}, nxt \in Frames \cup {None} : UartStep(m, cur, nxt)
  <2>0. /\ current_tx \in Frames \cup {None} /\ pending_tx \in Frames \cup {None}
        /\ blocked \in Indications \cup Confirmations \cup {None} /\ main_idle \in BOOLEAN
        /\ ll_req \in Seq(Frames) /\ Len(ll_req) <= 1 /\ Len(ll_req) \in Nat
        /\ One(current_tx # None) \in Nat /\ One(pending_tx # None) \in Nat
        /\ One(Waits("L_Data_Con")) \in Nat
    BY DEF Inv, TypeOK, One
  <2>1. CASE ReceiveEnd
    <3>1. PICK m \in Indications \cup {None} : HandUp(m)
      BY <2>1 DEF ReceiveEnd
    <3>2. One(m # None /\ m.svc = "L_Data_Con") = 0 /\ One(Waits("L_Data_Con")) = 0
      BY <2>1, <3>1, Distinct DEF ReceiveEnd, One, Waits
    <3>3. /\ ll_req' = ll_req /\ main_idle' \in BOOLEAN
          /\ CheckPending(current_tx, pending_tx) /\ UNCHANGED <<app, fifos, quiet>>
      BY <2>1 DEF ReceiveEnd
    <3>4. Len(ll_req') + One(current_tx # None) + One(pending_tx # None)
            + One(m # None /\ m.svc = "L_Data_Con") = Len(ll_req) + Held
      BY <2>0, <3>2, <3>3 DEF Held
    <3>5. UartStep(m, current_tx, pending_tx)
      BY <2>0, <3>1, <3>3, <3>4 DEF UartStep
    <3> QED BY <2>0, <3>1, <3>5
  <2>2. CASE QueueTransmission
    <3> DEFINE m == IF pending_tx = None THEN None ELSE Con(pending_tx, FALSE)
    <3>1. /\ ll_req # << >> /\ ll_req' = << >>
          /\ HandUp(m) /\ CheckPending(current_tx, Head(ll_req))
          /\ UNCHANGED <<app, fifos, quiet, main_idle>> /\ blocked = None
      BY <2>2 DEF QueueTransmission
    <3>2. Head(ll_req) \in Frames /\ Len(ll_req) = 1
      BY <2>0, <3>1, OneMessage
    <3>3. ll_req' \in Seq(Frames) /\ Len(ll_req') = 0
      BY <3>1
    <3>4. m \in Indications \cup Confirmations \cup {None}
      BY <2>0, Distinct
    <3>5. One(m # None /\ m.svc = "L_Data_Con") = One(pending_tx # None)
      BY <2>0, Distinct DEF One
    <3>6. One(Head(ll_req) # None) = 1 /\ One(Waits("L_Data_Con")) = 0
      BY <3>1, <3>2, Distinct DEF One, Waits
    <3> HIDE DEF m
    <3>7. Len(ll_req') + One(current_tx # None) + One(Head(ll_req) # None)
              + One(m # None /\ m.svc = "L_Data_Con") = Len(ll_req) + Held
      BY <3>2, <3>3, <3>5, <3>6 DEF Held, One
    <3>8. UartStep(m, current_tx, Head(ll_req))
      BY <2>0, <3>1, <3>3, <3>7 DEF UartStep
    <3> QED BY <2>0, <3>2, <3>4, <3>8
  <2>3. CASE CompleteTransmission
    <3>1. PICK ok \in BOOLEAN : HandUp(Con(current_tx, ok))
      BY <2>3 DEF CompleteTransmission
    <3>2. Con(current_tx, ok) \in Confirmations
      BY <2>0, <2>3, <3>1, Distinct DEF CompleteTransmission
    <3>3. /\ One(Con(current_tx, ok) # None /\ Con(current_tx, ok).svc = "L_Data_Con") = 1
          /\ One(current_tx # None) = 1 /\ One(Waits("L_Data_Con")) = 0
          /\ One(None # None) = 0
      BY <2>3, <3>2, Distinct DEF CompleteTransmission, One, Waits
    <3>4. UartStep(Con(current_tx, ok), None, pending_tx)
      <4>1. Len(ll_req') + One(None # None) + One(pending_tx # None)
              + One(Con(current_tx, ok) # None /\ Con(current_tx, ok).svc = "L_Data_Con")
              = Len(ll_req) + Held
        <5>1. ll_req' = ll_req
          BY <2>3 DEF CompleteTransmission
        <5> QED BY <2>0, <3>3, <5>1 DEF Held
      <4> QED BY <2>0, <2>3, <3>1, <4>1 DEF CompleteTransmission, UartStep
    <3> QED BY <2>0, <3>2, <3>4
  <2>4. CASE Unblock
    <3>1. One(blocked # None /\ blocked.svc = "L_Data_Con") = One(Waits("L_Data_Con"))
      BY DEF Waits
    <3>2. UartStep(blocked, current_tx, pending_tx)
      <4>1. Len(ll_req') + One(current_tx # None) + One(pending_tx # None)
              + One(blocked # None /\ blocked.svc = "L_Data_Con") = Len(ll_req) + Held
        <5>1. ll_req' = ll_req
          BY <2>4 DEF Unblock
        <5> QED BY <2>0, <3>1, <5>1 DEF Held
      <4> QED BY <2>0, <2>4, <4>1 DEF Unblock, UartStep
    <3> QED BY <2>0, <3>2
  <2> QED BY <2>1, <2>2, <2>3, <2>4 DEF TpUart
<1>2. /\ ll_ind' \in Seq(Indications) /\ Len(ll_ind)' <= 1
      /\ ll_conf' \in Seq(Confirmations) /\ Len(ll_conf)' <= 1
      /\ blocked' \in Indications \cup Confirmations \cup {None}
      /\ Len(ll_conf)' + One(Waits("L_Data_Con"))'
           = Len(ll_conf) + One(m # None /\ m.svc = "L_Data_Con")
  BY <1>1, HandUpKeeps DEF UartStep
<1>3. /\ current_tx' \in Frames \cup {None} /\ pending_tx' \in Frames \cup {None}
      /\ One(current_tx # None)' + One(pending_tx # None)' = One(cur # None) + One(nxt # None)
  BY <1>1, CheckPendingKeeps DEF UartStep
<1>4. InFlight' = InFlight
  <2> DEFINE nreq == Len(ll_req')
             ncon == Len(ll_conf)'
             wcon == One(Waits("L_Data_Con"))'
             ncur == One(current_tx # None)'
             nnxt == One(pending_tx # None)'
  <2>1. InFlight = Len(out) + Len(ll_req) + Len(ll_conf) + Held
    BY DEF InFlight, Held, Inv, TypeOK, One
  <2>2. InFlight' = Len(out)' + nreq + ncon + ncur + nnxt + wcon
    BY DEF InFlight
  <2>3. out' = out
    BY <1>1 DEF UartStep, fifos
  <2>4. /\ nreq \in Nat /\ ncon \in Nat /\ wcon \in Nat /\ ncur \in Nat /\ nnxt \in Nat
        /\ Len(out) \in Nat /\ Len(ll_req) \in Nat /\ Len(ll_conf) \in Nat /\ Held \in Nat
    BY <1>1, <1>2 DEF UartStep, One, Held, Inv, TypeOK
  <2>5. PICK up \in Nat : /\ ncon + wcon = Len(ll_conf) + up
                          /\ nreq + (ncur + nnxt) + up = Len(ll_req) + Held
    <3> DEFINE up == One(m # None /\ m.svc = "L_Data_Con")
               c == One(cur # None)
               n == One(nxt # None)
    <3>1. up \in Nat /\ c \in Nat /\ n \in Nat
      BY DEF One
    <3>2. ncon + wcon = Len(ll_conf) + up
      BY <1>2
    <3>3. ncur + nnxt = c + n
      BY <1>3
    <3>4. nreq + c + n + up = Len(ll_req) + Held
      BY <1>1 DEF UartStep
    <3> HIDE DEF up, c, n, nreq, ncon, wcon, ncur, nnxt
    <3> QED BY SMTT(30), <2>4, <3>1, <3>2, <3>3, <3>4
  <2> HIDE DEF nreq, ncon, wcon, ncur, nnxt
  <2> QED BY <2>1, <2>2, <2>3, <2>4, <2>5
<1> QED BY <1>1, <1>2, <1>3, <1>4 DEF Inv, TypeOK, FifosTrackFrames, UartStep, app, fifos

-----------------------------------------------------------------------------

\* Every step keeps the invariant.
LEMMA NextKeeps == Inv /\ [Next]_vars => Inv'
<1> SUFFICES ASSUME Inv, [Next]_vars PROVE Inv'
  OBVIOUS
<1>1. CASE \E o \in Objects : UpdateObject(o)
  BY <1>1 DEF UpdateObject, Inv, TypeOK, FifosTrackFrames, InFlight, One, Waits, fifos, uart
<1>2. CASE ReceiveStart
  BY <1>2 DEF ReceiveStart, Inv, TypeOK, FifosTrackFrames, InFlight, One, Waits, fifos, app
<1>3. CASE GoQuiet
  BY <1>3 DEF GoQuiet, Inv, TypeOK, FifosTrackFrames, InFlight, One, Waits, fifos, uart, app
<1>4. CASE UNCHANGED vars
  BY <1>4 DEF vars, Inv, TypeOK, FifosTrackFrames, InFlight, One, Waits, fifos, uart, app
<1>5. CASE Router \/ Poll
  BY <1>5, TakeConfirmationKeeps, DispatchersKeep, SendRequestKeeps DEF Router
<1>6. CASE TpUart
  BY <1>6, TpUartKeeps
<1> QED BY <1>1, <1>2, <1>3, <1>4, <1>5, <1>6 DEF Next

\* The stack starts with nothing on its way.
LEMMA InitHolds == Init => Inv
<1> SUFFICES ASSUME Init PROVE Inv
  OBVIOUS
<1>1. /\ Len(pending_nl) = 0 /\ Len(out) = 0 /\ Len(ll_req) = 0
      /\ Len(ll_ind) = 0 /\ Len(ll_conf) = 0
  BY DEF Init
<1>2. FifosTrackFrames
  BY <1>1 DEF Init, FifosTrackFrames, InFlight, One, Waits
<1>3. /\ pending_nl \in Seq(Frames) /\ out \in Seq(Frames) /\ ll_req \in Seq(Frames)
      /\ ll_ind \in Seq(Indications) /\ ll_conf \in Seq(Confirmations)
  BY DEF Init
<1>4. pending_addr_types \in 0 .. Capacity /\ 0 <= Capacity
  BY CapacityAssumption DEF Init
<1>5. /\ status \in [Objects -> {"idle", "write", "busy", "error", "updated"}]
      /\ asked \subseteq Objects /\ pending_group_send \in Objects \cup {None}
      /\ main_idle \in BOOLEAN /\ quiet \in BOOLEAN
      /\ current_tx \in Frames \cup {None} /\ pending_tx \in Frames \cup {None}
      /\ blocked \in Indications \cup Confirmations \cup {None}
  BY DEF Init
<1> QED BY <1>1, <1>2, <1>3, <1>4, <1>5 DEF Inv, TypeOK

\* The types hold in every behaviour: in particular neither FIFO ever exceeds
\* its capacity and no channel its single message.
THEOREM TypeCorrect == FairSpec => []TypeOK
<1>1. Inv => TypeOK
  BY DEF Inv
<1> QED BY <1>1, InitHolds, NextKeeps, PTL DEF FairSpec

\* The two FIFOs hold one entry for every frame on its way and no other, in
\* every behaviour of the two tasks: no L_Data_Con is ever dropped for want of
\* an entry, and no entry outlives its frame.
THEOREM FifosCorrect == FairSpec => []FifosTrackFrames
<1>1. Inv => FifosTrackFrames
  BY DEF Inv
<1> QED BY <1>1, InitHolds, NextKeeps, PTL DEF FairSpec
=============================================================================
