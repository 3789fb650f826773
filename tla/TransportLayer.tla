--------------------------- MODULE TransportLayer ---------------------------
(***************************************************************************)
(* The transport layer of the device stack                                 *)
(* (zweidraehte-device/src/layers/transport): the connection table, the    *)
(* handlers of mod.rs, the cEMI switch of cemi.rs, and as much of the      *)
(* router (runner.rs, router.rs) as decides what can interleave: an        *)
(* external event is handled to the end, and every message it put into the *)
(* outbox is dispatched, before the next one.                              *)
(*                                                                         *)
(* Outgoing connections are not configured in any built-in composition     *)
(* (MAX_OUTGOING = 0), so T_Connect requests fail and change nothing; the  *)
(* table holds incoming slots only.  The connectionless services keep no   *)
(* state here; their confirmation FIFO is the subject of ConfirmPath.      *)
(***************************************************************************)
EXTENDS TransportSM

CONSTANTS
    Style,          \* the device's TransportStyle, one of Styles
    MaxIncoming,    \* MAX_INCOMING, number of connection slots (1 by default)
    Peers,          \* individual addresses that talk to the device
    NoAddr,         \* 0.0.0: the address of a slot that was never used, and
                    \* the pseudo source of cEMI frames
    Outbox_Capacity \* OUTBOX_CAPACITY (8 in the code)

ASSUME StyleAssumption  == Style \in Styles
ASSUME SlotsAssumption  == MaxIncoming \in Nat \ {0}
ASSUME NoAddrAssumption == NoAddr \notin Peers

Slots  == 0 .. MaxIncoming - 1
NoSlot == MaxIncoming        \* AccessSource::Explicit: not a connection
Addrs  == Peers \cup {NoAddr}

VARIABLES
    conns,            \* the connection table: a Connection per slot
    access,           \* ConnectionAuthLevels: a level per slot
    active,           \* CemiTransportLayer.active
    incoming_locked,  \* ConnectionTable.incoming_locked
    outbox,           \* the router's outbox
    polling,          \* inside the loop of check_timeouts
    quiet,            \* no frame and no cEMI event arrives any more
    authorized        \* history: slots authorized since their T_Connect

vars == <<conns, access, active, incoming_locked, outbox, polling, quiet, authorized>>

-----------------------------------------------------------------------------
(* A stored response: the sequence number its TPCI carries, the number the *)
(* Secure Application Layer computed its MAC over (outgoing_tl_seq), and   *)
(* the request it answers (that request's sequence number).                *)
Stored    == [seq : SeqNos, mac_seq : SeqNos, re : SeqNos]
NoMsg     == [seq |-> 0, mac_seq |-> SeqMod, re |-> 0]
TimerVals == {"off", "running", "expired"}

Connection ==
    [state : ConnStates, remote_addr : Addrs,
     seq_no_send : SeqNos, seq_no_recv : SeqNos, rep_count : 0 .. MaxRepetitions,
     ack_timer : TimerVals, conn_timer : TimerVals,
     pending_msg : Stored \cup {NoMsg}, queued_outgoing : Stored \cup {NoMsg}]

ResetConn(addr) ==
    [state |-> "Closed", remote_addr |-> addr,
     seq_no_send |-> 0, seq_no_recv |-> 0, rep_count |-> 0,
     ack_timer |-> "off", conn_timer |-> "off",
     pending_msg |-> NoMsg, queued_outgoing |-> NoMsg]

Open(c) == c.state # "Closed"

(* Table lookups: the first slot in index order, NoSlot when there is none. *)
First(S) == IF S = {} THEN NoSlot ELSE CHOOSE i \in S : \A j \in S : i <= j

find_any(cs, addr) == First({i \in Slots : Open(cs[i]) /\ cs[i].remote_addr = addr})
find_any_including_closed(cs, addr) == First({i \in Slots : cs[i].remote_addr = addr})
FreeSlot(cs) == First({i \in Slots : ~Open(cs[i])})

-----------------------------------------------------------------------------
(* Messages in the outbox.  slot is the AccessSource of an indication.     *)
Msg(svc, addr, seq, mac_seq, re, slot) ==
    [svc |-> svc, addr |-> addr, seq |-> seq, mac_seq |-> mac_seq, re |-> re, slot |-> slot]

Pdu(kind, addr, seq) == Msg(kind, addr, seq, SeqMod, 0, NoSlot)
Data(addr, m)        == Msg("N_Data", addr, m.seq, m.mac_seq, m.re, NoSlot)
Ind(kind, addr)      == Msg(kind, addr, 0, SeqMod, 0, NoSlot)

NlServices  == {"N_Connect", "N_Disconnect", "N_Ack", "N_Nack", "N_Data"}
AlNotices   == {"T_Connect_Ind", "T_Disconnect_Ind", "T_Data_Con"}
Messages ==
    [svc : NlServices \cup AlNotices, addr : Addrs, seq : SeqNos, mac_seq : 0 .. SeqMod,
     re : SeqNos, slot : 0 .. MaxIncoming]
    \cup
    [svc : {"T_Data_Ind", "T_Data_Req"}, addr : Addrs, seq : SeqNos, mac_seq : SeqNos,
     re : SeqNos, slot : 0 .. MaxIncoming]

(* What one TlAction pushes, given the table cs its lookups see.  starved  *)
(* names what the buffer pool can no longer serve: every handler allocates *)
(* its PDUs ("down") before its indications ("up"); a data indication      *)
(* reuses the received buffer.                                             *)
Emits(cs, a, starved) ==
    \/ a.op \in {"SendAck", "SendNack", "SendDisconnect"} /\ "down" \notin starved
    \/ a.op \in {"IndicateConnected", "IndicateDisconnected"} /\ "up" \notin starved
    \/ a.op = "IndicateData"
    \/ /\ a.op = "Retransmit" /\ "down" \notin starved
       /\ LET j == find_any_including_closed(cs, a.addr)
          IN  j # NoSlot /\ cs[j].pending_msg # NoMsg

(* outgoing_tl_seq: the number the answer to a request will leave with;    *)
(* it queues behind an unacknowledged response.                            *)
Mut_outgoing_tl_seq(c) == c.seq_no_send
outgoing_tl_seq(c) ==
    (c.seq_no_send + (IF c.pending_msg # NoMsg THEN 1 ELSE 0)) % SeqMod

Emitted(cs, a) ==
    LET j == find_any_including_closed(cs, a.addr) IN
    CASE a.op = "SendAck"              -> Pdu("N_Ack", a.addr, a.seq)
      [] a.op = "SendNack"             -> Pdu("N_Nack", a.addr, a.seq)
      [] a.op = "SendDisconnect"       -> Pdu("N_Disconnect", a.addr, 0)
      [] a.op = "IndicateConnected"    -> Ind("T_Connect_Ind", a.addr)
      [] a.op = "IndicateDisconnected" -> Ind("T_Disconnect_Ind", a.addr)
      [] a.op = "Retransmit"           -> Data(a.addr, cs[j].pending_msg)
      [] a.op = "IndicateData" ->
           Msg("T_Data_Ind", a.addr, 0, outgoing_tl_seq(cs[j]), a.seq, j)

(* An action list has at most four entries (ActionBuffer holds six).      *)
Out(cs, actions, k, starved) ==
    IF k \in DOMAIN actions /\ Emits(cs, actions[k], starved)
    THEN << Emitted(cs, actions[k]) >> ELSE << >>

Outputs(cs, actions, starved) ==
    Out(cs, actions, 1, starved) \o Out(cs, actions, 2, starved)
    \o Out(cs, actions, 3, starved) \o Out(cs, actions, 4, starved)

(* execute_actions, part 1: timers, pending message and the deferred state *)
(* transition, all applied to the slot the address lookup finds.           *)
ApplyTo(c, r) ==
    [c EXCEPT
       !.ack_timer   = IF Asks(r.actions, "StartAckTimer") THEN "running"
                       ELSE IF Asks(r.actions, "StopAckTimer") THEN "off" ELSE @,
       !.conn_timer  = IF Asks(r.actions, "StartConnTimer") THEN "running"
                       ELSE IF Asks(r.actions, "StopConnTimer") THEN "off" ELSE @,
       !.pending_msg = IF Asks(r.actions, "ClearPendingMessage") THEN NoMsg ELSE @,
       !.state       = IF r.next_state = "None" THEN @ ELSE r.next_state]

AfterActions(cs, r, addr) ==
    LET j == find_any_including_closed(cs, addr)
    IN  IF j = NoSlot THEN cs ELSE [cs EXCEPT ![j] = ApplyTo(@, r)]

(* execute_actions, part 2: a queued response is sent as soon as the       *)
(* connection is idle again (A7 performed inline).                         *)
MustRelease(cs, addr) ==
    LET k == find_any(cs, addr)
    IN  k # NoSlot /\ cs[k].state = "OpenIdle" /\ cs[k].queued_outgoing # NoMsg

Released(c) ==
    [c EXCEPT !.rep_count = 0,
              !.pending_msg = [c.queued_outgoing EXCEPT !.seq = c.seq_no_send],
              !.queued_outgoing = NoMsg,
              !.ack_timer = "running", !.conn_timer = "running",
              !.state = "OpenWait"]

AfterRelease(cs, addr) ==
    IF MustRelease(cs, addr)
    THEN [cs EXCEPT ![find_any(cs, addr)] = Released(@)]
    ELSE cs

ReleaseOutput(cs, addr, starved) ==
    IF MustRelease(cs, addr) /\ "down" \notin starved
    THEN LET k == find_any(cs, addr) IN << Data(addr, Released(cs[k]).pending_msg) >>
    ELSE << >>

(* The whole of execute_actions on the table cs, for the result r: rest is *)
(* what the outbox held and last what the caller pushes afterwards.        *)
Execute(cs, r, addr, starved, rest, last) ==
    \E cs1 \in {AfterActions(cs, r, addr)} :
        /\ conns'  = AfterRelease(cs1, addr)
        /\ outbox' = rest \o Outputs(cs, r.actions, starved)
                          \o ReleaseOutput(cs1, addr, starved) \o last

Starvation == {{}, {"up"}, {"down", "up"}}

(* Feed ev to slot i of the table cs and execute what it asks for.         *)
HandleEvent(cs, i, ev, starved) ==
    \E r \in {process_event(Style, cs[i], ev)} :
    \E cs1 \in {[cs EXCEPT ![i] = r.conn]} :
        Execute(cs1, r, ev.addr, starved, outbox, << >>)

-----------------------------------------------------------------------------
(* External events: only when the previous one has been drained.           *)
Mut_Ready == ~polling
Ready == outbox = << >> /\ ~polling

Event(type, addr, seq) == [type |-> type, addr |-> addr, seq |-> seq]

(* allocate_incoming: the open slot of the address, else the first closed  *)
(* one, reset.                                                             *)
Mut_Allocated(addr) == FreeSlot(conns)
Allocated(addr) ==
    LET i == find_any(conns, addr) IN IF i # NoSlot THEN i ELSE FreeSlot(conns)

AfterAllocate(i, addr) ==
    IF Open(conns[i]) THEN conns ELSE [conns EXCEPT ![i] = ResetConn(addr)]

(* set_connection_access_level(slot, default) of the T_Connect branch.     *)
Mut_AccessAfterConnect(i) == access
AccessAfterConnect(i) == [access EXCEPT ![i] = "default"]

(* handle_connection_indication for T_Connect.                             *)
ReceiveConnect(addr) ==
    /\ Ready /\ ~quiet
    /\ \E starved \in Starvation :
         LET i == Allocated(addr) IN
         IF incoming_locked \/ i = NoSlot
         THEN /\ outbox' = IF "down" \in starved THEN outbox
                           ELSE Append(outbox, Pdu("N_Disconnect", addr, 0))
              /\ UNCHANGED <<conns, access, authorized>>
         ELSE /\ access' = AccessAfterConnect(i)
              /\ authorized' = IF Open(conns[i]) THEN authorized ELSE authorized \ {i}
              /\ HandleEvent(AfterAllocate(i, addr), i,
                             Event("ReceivedConnect", addr, 0), starved)
    /\ UNCHANGED <<active, incoming_locked, polling, quiet>>

(* handle_connection_indication for the other TPCIs: without an open       *)
(* connection to the source the PDU is ignored.                            *)
ReceivePdu(type, addr, seq) ==
    /\ Ready /\ ~quiet
    /\ LET i == find_any(conns, addr) IN
         /\ i # NoSlot
         /\ \E starved \in Starvation : HandleEvent(conns, i, Event(type, addr, seq), starved)
    /\ UNCHANGED <<access, active, incoming_locked, polling, quiet, authorized>>

ReceiveDisconnect(addr) == ReceivePdu("ReceivedDisconnect", addr, 0)
ReceiveAck(addr)        == \E s \in SeqNos : ReceivePdu("ReceivedAck", addr, s)
ReceiveNack(addr)       == \E s \in SeqNos : ReceivePdu("ReceivedNack", addr, s)
ReceiveData(addr)       == \E s \in SeqNos : ReceivePdu("ReceivedData", addr, s)

(* cEMI device-management connection: activate, deactivate, inject a frame. *)
Mut_ForceClosed == conns
ForceClosed == [i \in Slots |-> IF Open(conns[i]) THEN ResetConn(conns[i].remote_addr)
                                                  ELSE conns[i]]

(* The open slots in table order.                                          *)
OpenSlots == {i \in Slots : Open(conns[i])}
InOrder(open, n) ==
    /\ \A i \in OpenSlots : \E k \in 1 .. n : open[k] = i
    /\ \A k, l \in 1 .. n : k < l => open[k] < open[l]

(* Two notices per closed connection, then the cEMI client's T_Connect.    *)
CloseNotice(open, n, k) ==
    CASE k = 2 * n + 1 -> Ind("T_Connect_Ind", NoAddr)
      [] k # 2 * n + 1 /\ k % 2 = 1 ->
           Pdu("N_Disconnect", conns[open[(k + 1) \div 2]].remote_addr, 0)
      [] k # 2 * n + 1 /\ k % 2 = 0 ->
           Ind("T_Disconnect_Ind", conns[open[k \div 2]].remote_addr)

(* activate: every message needs a buffer; the first m are to be had.      *)
CemiActivate ==
    /\ Ready /\ ~quiet /\ ~active
    /\ \E n \in 0 .. MaxIncoming : \E open \in [1 .. n -> OpenSlots] :
         /\ InOrder(open, n)
         /\ \E m \in 0 .. 2 * n + 1 : outbox' = [k \in 1 .. m |-> CloseNotice(open, n, k)]
    /\ conns' = ForceClosed
    /\ active' = TRUE /\ incoming_locked' = TRUE
    /\ UNCHANGED <<access, polling, quiet, authorized>>

CemiDeactivate ==
    /\ Ready /\ ~quiet /\ active
    /\ outbox' \in {<< >>, << Ind("T_Disconnect_Ind", NoAddr) >>}
    /\ active' = FALSE /\ incoming_locked' = FALSE
    /\ UNCHANGED <<conns, access, polling, quiet, authorized>>

CemiFrame ==
    /\ Ready /\ ~quiet /\ active
    /\ outbox' = << Msg("T_Data_Ind", NoAddr, 0, 0, 0, NoSlot) >>
    /\ UNCHANGED <<conns, access, active, incoming_locked, polling, quiet, authorized>>

GoQuiet == Ready /\ ~quiet /\ quiet' = TRUE
           /\ UNCHANGED <<conns, access, active, incoming_locked, outbox, polling, authorized>>

-----------------------------------------------------------------------------
(* Draining the outbox, one message per step.                              *)
HeadIs(S) == outbox # << >> /\ ~polling /\ Head(outbox).svc \in S

(* PDUs leave through the network layer; session indications and           *)
(* confirmations are only observed by the application layer.               *)
DrainPassive ==
    /\ HeadIs(NlServices \cup AlNotices)
    /\ outbox' = Tail(outbox)
    /\ UNCHANGED <<conns, access, active, incoming_locked, polling, quiet, authorized>>

(* The application layer handles a data indication: it may answer, with    *)
(* the stamped sequence number, and an A_Authorize on a connection writes  *)
(* the granted level into the slot of the indication.                      *)
Response(m) == Msg("T_Data_Req", m.addr, 0, m.mac_seq, m.re, NoSlot)

HandleDataInd ==
    /\ HeadIs({"T_Data_Ind"})
    /\ LET m == Head(outbox) IN
         \/ /\ outbox' \in {Tail(outbox), Append(Tail(outbox), Response(m))}
            /\ UNCHANGED <<access, authorized>>
         \/ /\ m.slot # NoSlot
            /\ \E level \in {"default", "granted"} : access' = [access EXCEPT ![m.slot] = level]
            /\ authorized' = authorized \cup {m.slot}
            /\ outbox' \in {Tail(outbox), Append(Tail(outbox), Response(m))}
    /\ UNCHANGED <<conns, active, incoming_locked, polling, quiet>>

(* handle_data_request: without an open connection the request fails; in   *)
(* OPEN_WAIT (A11) it is queued and confirmed at once; otherwise it is     *)
(* stored, the actions run, and the copy is sent.                          *)
Mut_StoreRequest(c, r, m) ==
    [r.conn EXCEPT !.pending_msg = [seq |-> c.seq_no_send, mac_seq |-> m.mac_seq, re |-> m.re]]
StoreRequest(c, r, m) ==
    IF Asks(r.actions, "QueueEvent")
    THEN [r.conn EXCEPT !.queued_outgoing = [seq |-> 0, mac_seq |-> m.mac_seq, re |-> m.re]]
    ELSE [r.conn EXCEPT !.pending_msg =
                 [seq |-> c.seq_no_send, mac_seq |-> m.mac_seq, re |-> m.re]]

DataRequest(i, m, starved) ==
    \E r \in {process_event(Style, conns[i], Event("RequestData", m.addr, 0))} :
    \E c1 \in {StoreRequest(conns[i], r, m)} :
        Execute([conns EXCEPT ![i] = c1], r, m.addr, starved, Tail(outbox),
                IF "down" \in starved THEN << >>
                ELSE IF Asks(r.actions, "QueueEvent") THEN << Ind("T_Data_Con", m.addr) >>
                ELSE << Data(m.addr, c1.pending_msg) >>)

(* CemiTransportLayer::process: an active cEMI connection takes the        *)
(* response (the response channel is not modelled further).                *)
HandleDataReq ==
    /\ HeadIs({"T_Data_Req"})
    /\ LET m == Head(outbox) IN
         IF ~active /\ find_any(conns, m.addr) # NoSlot
         THEN \E starved \in Starvation : DataRequest(find_any(conns, m.addr), m, starved)
         ELSE /\ outbox' = Tail(outbox) \o (IF active THEN << >> ELSE << Ind("T_Data_Con", m.addr) >>)
              /\ UNCHANGED conns
    /\ UNCHANGED <<access, active, incoming_locked, polling, quiet, authorized>>

-----------------------------------------------------------------------------
(* Timers.  Both deadlines are set together whenever the ACK timer is set, *)
(* 3 s and 6 s ahead, and the connection deadline is only ever moved       *)
(* later, so it cannot pass while the ACK timer is still running.          *)
ExpireAck(i) ==
    /\ Ready /\ conns[i].ack_timer = "running"
    /\ conns' = [conns EXCEPT ![i].ack_timer = "expired"]
    /\ UNCHANGED <<access, active, incoming_locked, outbox, polling, quiet, authorized>>

ExpireConn(i) ==
    /\ Ready /\ conns[i].conn_timer = "running" /\ conns[i].ack_timer # "running"
    /\ conns' = [conns EXCEPT ![i].conn_timer = "expired"]
    /\ UNCHANGED <<access, active, incoming_locked, outbox, polling, quiet, authorized>>

Mut_TimedOut(cs) == First({i \in Slots : cs[i].ack_timer = "expired"})
TimedOut(cs) ==
    First({i \in Slots : cs[i].ack_timer = "expired" \/ cs[i].conn_timer = "expired"})

(* check_timeouts runs its loop until no slot is timed out.                *)
PollStart ==
    /\ Ready /\ TimedOut(conns) # NoSlot
    /\ polling' = TRUE
    /\ UNCHANGED <<conns, access, active, incoming_locked, outbox, quiet, authorized>>

PollStep ==
    /\ polling
    /\ LET i == TimedOut(conns) IN
         /\ i # NoSlot
         /\ \E starved \in Starvation :
              HandleEvent(conns, i,
                 Event(IF conns[i].ack_timer = "expired" THEN "AckTimeout" ELSE "ConnectionTimeout",
                       conns[i].remote_addr, 0), starved)
    /\ UNCHANGED <<access, active, incoming_locked, polling, quiet, authorized>>

PollEnd ==
    /\ polling /\ TimedOut(conns) = NoSlot
    /\ polling' = FALSE
    /\ UNCHANGED <<conns, access, active, incoming_locked, outbox, quiet, authorized>>

-----------------------------------------------------------------------------
Init ==
    /\ conns = [i \in Slots |-> ResetConn(NoAddr)]
    /\ access = [i \in Slots |-> "default"]
    /\ active = FALSE /\ incoming_locked = FALSE
    /\ outbox = << >> /\ polling = FALSE /\ quiet = FALSE
    /\ authorized = {}

Receive(addr) ==
    \/ ReceiveConnect(addr) \/ ReceiveDisconnect(addr) \/ ReceiveAck(addr)
    \/ ReceiveNack(addr) \/ ReceiveData(addr)

Drain == DrainPassive \/ HandleDataInd \/ HandleDataReq

Next ==
    \/ \E addr \in Peers : Receive(addr)
    \/ CemiActivate \/ CemiDeactivate \/ CemiFrame \/ GoQuiet
    \/ Drain
    \/ \E i \in Slots : ExpireAck(i) \/ ExpireConn(i)
    \/ PollStart \/ PollStep \/ PollEnd

Spec == Init /\ [][Next]_vars

(* The router drains without waiting for anyone, time passes, and an       *)
(* expired deadline wakes the router.                                      *)
Fairness ==
    /\ WF_vars(Drain)
    /\ WF_vars(PollStart) /\ WF_vars(PollStep) /\ WF_vars(PollEnd)
    /\ \A i \in Slots : WF_vars(ExpireAck(i)) /\ WF_vars(ExpireConn(i))

FairSpec == Spec /\ Fairness

-----------------------------------------------------------------------------
(* Type invariant.                                                         *)
TypeOK ==
    /\ conns \in [Slots -> Connection]
    /\ access \in [Slots -> {"default", "granted"}]
    /\ active \in BOOLEAN /\ incoming_locked \in BOOLEAN
    /\ outbox \in Seq(Messages)
    /\ polling \in BOOLEAN /\ quiet \in BOOLEAN
    /\ authorized \subseteq Slots

(* execute_actions and apply_state_by_addr find the connection by its      *)
(* address with find_any_including_closed, which also returns closed       *)
(* slots: an open connection must be the slot that lookup returns, or its  *)
(* timers and state would be written into a stale slot.                    *)
LookupFindsOpen ==
    \A j \in Slots : Open(conns[j]) =>
        \A i \in Slots : i < j => conns[i].remote_addr # conns[j].remote_addr

(* An open connection always has its connection timer set, the ACK timer   *)
(* is set exactly while a response is unacknowledged, and a closed slot    *)
(* has no timer: no connection outlives a silent peer, none is killed by a *)
(* stale deadline.                                                         *)
TimerDiscipline ==
    \A i \in Slots :
        /\ Open(conns[i]) <=> conns[i].conn_timer # "off"
        /\ conns[i].state = "OpenWait" <=> conns[i].ack_timer # "off"

(* In an open connection a message is kept for retransmission exactly      *)
(* while it is unacknowledged, under the number the peer's T_ACK will be   *)
(* matched against, and a response is queued only behind another one.      *)
PendingWhileWaiting ==
    \A i \in Slots : Open(conns[i]) =>
        /\ conns[i].state = "OpenWait" <=> conns[i].pending_msg # NoMsg
        /\ conns[i].state = "OpenWait" => conns[i].pending_msg.seq = conns[i].seq_no_send
        /\ conns[i].queued_outgoing # NoMsg => conns[i].state = "OpenWait"

(* The sequence number a secured response leaves with is the one           *)
(* outgoing_tl_seq announced when its request was indicated, also when the *)
(* response was queued behind an unacknowledged one or is retransmitted    *)
(* (the number is part of the MAC).                                        *)
MacSequenceMatches ==
    \A k \in DOMAIN outbox : outbox[k].svc = "N_Data" => outbox[k].seq = outbox[k].mac_seq

(* A raised access level belongs to the connection that authorized: a slot *)
(* taken over by the next T_Connect starts at the default level.           *)
AccessNotInherited ==
    \A i \in Slots : access[i] = "granted" => i \in authorized

(* While a cEMI device-management connection is active no bus connection   *)
(* is open and none can be opened.                                         *)
CemiExclusive ==
    active => incoming_locked /\ \A i \in Slots : ~Open(conns[i])

(* Outbox::push asserts that the outbox never exceeds its capacity.        *)
OutboxBounded == Len(outbox) <= Outbox_Capacity

(* An unacknowledged response is given up only with its connection or      *)
(* because the peer acknowledged it.                                       *)
PendingNotReplaced ==
    [][\A i \in Slots :
         Open(conns[i]) /\ conns[i].pending_msg # NoMsg
            /\ conns'[i].pending_msg # conns[i].pending_msg
         => ~Open(conns'[i]) \/ conns'[i].seq_no_send = inc_seq(conns[i].seq_no_send)]_vars

(* A queued response that was already confirmed to the application layer   *)
(* is sent later, unless its connection closes.                            *)
QueuedIsSent ==
    [][\A i \in Slots :
         Open(conns[i]) /\ conns[i].queued_outgoing # NoMsg
            /\ conns'[i].queued_outgoing # conns[i].queued_outgoing
         => \/ ~Open(conns'[i])
            \/ conns'[i].pending_msg.re = conns[i].queued_outgoing.re]_vars

(* The loop of check_timeouts terminates: it runs inside the router task,  *)
(* which handles nothing else meanwhile.                                   *)
PollTerminates == polling ~> ~polling

(* When the bus falls silent every connection is closed by its timers and  *)
(* its slot becomes free again.                                            *)
SilentPeerFreed == quiet ~> \A i \in Slots : ~Open(conns[i])
=============================================================================
