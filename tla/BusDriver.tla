------------------------------ MODULE BusDriver ------------------------------
(***************************************************************************)
(* Connection-oriented management from end to end: the client's bus task   *)
(* (zweidraehte-client/src/bus/driver.rs) with its one pending procedure,  *)
(* its embedding of the transport state machine, the Data Secure           *)
(* synchronisation and the tool-key rotation, facing one device through a  *)
(* bus that loses frames.  Both ends run TransportSM in Style 3; the       *)
(* device's transport layer proper is TransportLayer, here it is the state *)
(* machine and an application that answers each request once.              *)
(*                                                                         *)
(* The bus task handles one command, frame or timeout at a time.  Time is  *)
(* left out: an armed timer may expire at any moment, the connection timer *)
(* when the bus is silent, and a conversation is opened once what the last *)
(* one sent has been delivered or lost.  Group telegrams, scans and        *)
(* connectionless requests touch none of this state except the one pending *)
(* slot, which they hold until their deadline; they are left out, as are   *)
(* frames from other devices.                                              *)
(***************************************************************************)
EXTENDS TransportSM, FiniteSets, Functions

Seqs == INSTANCE SequencesExt   \* it has a SeqMod of its own

CONSTANTS
    Modes,       \* the keyring entry: "plain", "tool" (Tool Key) or "fdsk"
    Kinds,       \* what a request waits for: "ack", "response", "rotate"
    MaxOpens,    \* bound: connections the application opens
    MaxRequests, \* bound: requests the application makes
    MaxLost,     \* bound: frames the bus loses
    MaxQueued    \* bound: frames under way in one direction

ASSUME ModesAssumption == Modes \subseteq {"plain", "tool", "fdsk"}
ASSUME KindsAssumption == Kinds \subseteq {"ack", "response", "rotate"}
ASSUME BoundsAssumption == {MaxOpens, MaxRequests, MaxLost, MaxQueued} \subseteq Nat

VARIABLES
    d,       \* BusTask, with what it has answered
    dev,     \* the device
    up,      \* frames on the way to the device
    down,    \* frames on the way to the client
    lost     \* history: frames lost

vars == << d, dev, up, down, lost >>

-----------------------------------------------------------------------------
(* Frames.  A data frame carries what it is: a request, the response to    *)
(* one, a sync request or its response, with the number of the request or  *)
(* of the challenge, the key it is protected with and, from the device,    *)
(* its secure sequence number.                                             *)

Requests == 1..MaxRequests
Nothing == [what |-> "none", n |-> 0, key |-> 0, sn |-> 0]
Payload(what, n, key, sn) == [what |-> what, n |-> n, key |-> key, sn |-> sn]
Frame(type, seq, load) == [type |-> type, seq |-> seq, load |-> load]
Pdu(type, seq) == Frame(type, seq, Nothing)

Conn0 == [state |-> "Closed", remote_addr |-> "peer", seq_no_send |-> 0,
          seq_no_recv |-> 0, rep_count |-> 0]
Ev(type, seq) == [type |-> type, addr |-> "peer", seq |-> seq]

(* Transmission: the frame until it is acknowledged, and the ACK timer.    *)
NoTransmission == [load |-> Nothing, ack |-> FALSE]

NoPending == [kind |-> "none", req |-> 0, tx |-> NoTransmission, wait |-> FALSE,
              response |-> Nothing]
NoSync == [on |-> FALSE, n |-> 0, retried |-> FALSE, tx |-> NoTransmission, wait |-> FALSE,
           response |-> Nothing]

Driver0(mode) ==
    [mode |-> mode, tl |-> Conn0, conn |-> 0, conn_timer |-> FALSE, pending |-> NoPending, sync |-> NoSync,
     channel |-> 0,            \* the key of SecureChannel, 0 for none
     key |-> 1,                \* the keyring's key: commit_tool_key replaces it
     tool |-> mode # "fdsk",   \* a Tool Key is known
     synced |-> 0,             \* the key synchronized last
     floor |-> 0,              \* the device's next sequence number (seq_store)
     opens |-> 0, challenges |-> 0, reqs |-> 0,
     handle |-> 0,             \* the connection the application holds
     kinds |-> [r \in Requests |-> "none"],
     outcome |-> [r \in Requests |-> "none"], answer |-> [r \in Requests |-> Nothing],
     up |-> TRUE,
     out |-> << >>, data |-> Nothing, abort |-> FALSE, start_sync |-> FALSE]

Secure(x) == x.mode # "plain"
KeyOf(r) == r + 1               \* the key request r would write

-----------------------------------------------------------------------------
(* Answering the application.                                              *)

Resolve(x, r, result, load) ==
    [x EXCEPT !.outcome[r] = result, !.answer[r] = load]

\* Pending::fail, whatever is pending.
Fail(x) ==
    LET y == [x EXCEPT !.pending = NoPending]
    IN  IF x.pending.kind = "request" THEN Resolve(y, x.pending.req, "err", Nothing) ELSE y

\* The pending open succeeds: the application gets the connection.
Opened(x) == [x EXCEPT !.pending = NoPending, !.handle = x.conn]

FailOpen(x) == IF x.pending.kind = "open" THEN Fail(x) ELSE x

\* Mutant: a running synchronisation outlives its channel.
Mut_ClearSecure(x) == [x EXCEPT !.channel = 0]

ClearSecure(x) == [x EXCEPT !.channel = 0, !.sync = NoSync]

Sends(x, frames) == [x EXCEPT !.out = @ \o frames]

(* transmission(): the sync's if one is running, else the request's.       *)
Transmission(x) == IF x.sync.on THEN x.sync.tx ELSE x.pending.tx
SetTransmission(x, t) ==
    IF x.sync.on THEN [x EXCEPT !.sync.tx = t]
    ELSE IF x.pending.kind = "request" THEN [x EXCEPT !.pending.tx = t] ELSE x

(* complete_acknowledged_exchange: acknowledged, and answered if the       *)
(* request waits for an answer.                                            *)
CompleteAcknowledged(x) ==
    LET p == x.pending
    IN  IF \/ p.kind # "request" \/ p.tx.load # Nothing
           \/ x.kinds[p.req] # "ack" /\ p.response = Nothing
        THEN x
        ELSE LET y == Resolve([x EXCEPT !.pending = NoPending], p.req, "ok", p.response)
             IN  IF x.kinds[p.req] = "rotate"
                 THEN [y EXCEPT !.key = KeyOf(p.req), !.tool = TRUE] ELSE y

(* complete_connected_response.  Requests of a kind share their APCI.      *)
CompleteResponse(x, load) ==
    IF x.pending.kind = "request" /\ x.kinds[x.pending.req] # "ack"
          /\ x.kinds[x.pending.req] = x.kinds[load.n]
    THEN CompleteAcknowledged([x EXCEPT !.pending.response = IF @ = Nothing THEN load ELSE @])
    ELSE x

-----------------------------------------------------------------------------
(* execute_tl: one action of a batch.                                      *)

\* ConfirmConnect: a secure connection is not exposed before its sync.
ConfirmConnect(x) ==
    IF x.pending.kind # "open" THEN {x}
    ELSE IF ~Secure(x) THEN {Opened(x)}
    ELSE LET y == [x EXCEPT !.channel = x.key]
         IN  {[y EXCEPT !.start_sync = TRUE]}
             \cup (IF x.synced = x.key THEN {Opened(y)} ELSE {})   \* still fresh

\* Mutant: an acknowledged request waits for its answer without a deadline.
Mut_ConfirmData(x) ==
    IF x.sync.on /\ x.tool THEN [x EXCEPT !.sync.wait = TRUE] ELSE CompleteAcknowledged(x)

\* ConfirmData(true): the timer for the answer starts.
ConfirmData(x) ==
    IF x.sync.on /\ x.tool THEN [x EXCEPT !.sync.wait = TRUE]
    ELSE IF x.pending.kind = "request" THEN CompleteAcknowledged([x EXCEPT !.pending.wait = TRUE])
    ELSE x

IndicateDisconnected(x) == Fail(ClearSecure(x))

(* IndicateData.  A secure connection ignores plain and replayed data;     *)
(* what else does not verify closes it.                                    *)
IndicateData(x) ==
    LET load == x.data
    IN  IF load = Nothing THEN x
        ELSE IF x.channel = 0 THEN CompleteResponse(x, load)
        ELSE IF load.key = 0 \/ (load.what = "response" /\ load.sn < x.floor) THEN x
        ELSE IF load.what = "response" /\ load.key = x.channel
        THEN CompleteResponse([x EXCEPT !.floor = load.sn + 1], load)
        ELSE [Fail(x) EXCEPT !.abort = TRUE]

\* Mutant: a retransmission is stamped anew.
Mut_Stamp(x) == (x.tl.seq_no_send + x.tl.rep_count) % SeqMod

\* set_connected_seq: stamped once, so every transmission has the same bytes.
Stamp(x) == x.tl.seq_no_send

Perform(x, a) ==
    CASE a.op = "SendConnect"    -> Sends(x, << Pdu("connect", 0) >>)
      [] a.op = "SendDisconnect" -> Sends(x, << Pdu("disconnect", 0) >>)
      [] a.op = "SendAck"        -> Sends(x, << Pdu("ack", a.seq) >>)
      [] a.op = "SendNack"       -> Sends(x, << Pdu("nack", a.seq) >>)
      [] a.op \in {"SendData", "Retransmit"} ->
           IF Transmission(x).load = Nothing THEN x
           ELSE Sends(x, << Frame("data", Stamp(x), Transmission(x).load) >>)
      [] a.op = "ClearPendingMessage" -> SetTransmission(x, [Transmission(x) EXCEPT !.load = Nothing])
      [] a.op = "StartAckTimer"  -> SetTransmission(x, [Transmission(x) EXCEPT !.ack = TRUE])
      [] a.op = "StopAckTimer"   -> SetTransmission(x, [Transmission(x) EXCEPT !.ack = FALSE])
      [] a.op = "StartConnTimer" -> [x EXCEPT !.conn_timer = TRUE]
      [] a.op = "StopConnTimer"  -> [x EXCEPT !.conn_timer = FALSE]
      [] a.op = "ConfirmData"    -> ConfirmData(x)
      [] a.op = "IndicateDisconnected" -> IndicateDisconnected(x)
      [] a.op = "IndicateData"   -> IndicateData(x)
      [] OTHER                   -> x

(* A batch: the actions, then the deferred transition.  ConfirmConnect is  *)
(* the only action with a choice, and alone in its batch.                  *)
Deferred(x, st) ==
    [x EXCEPT !.tl.state = st, !.data = Nothing, !.conn = IF st = "Closed" THEN 0 ELSE @]

Performed(x, r) ==
    {Deferred(z, IF r.next_state = "None" THEN z.tl.state ELSE r.next_state) :
        z \in IF Asks(r.actions, "ConfirmConnect") THEN ConfirmConnect(x)
              ELSE {Seqs!FoldLeft(Perform, x, r.actions)}}

Transitioned(x, load, r) ==
    Performed([x EXCEPT !.tl = r.conn, !.data = load, !.abort = FALSE, !.start_sync = FALSE], r)

Batch(x, ev, load) == Transitioned(x, load, process_event("Style3", x.tl, ev))

\* close_tl_connection and disconnect_transition.
CloseConnection(x) ==
    LET y == ClearSecure(x)
    IN  IF y.tl.state = "Closed" THEN {y} ELSE Batch(y, Ev("RequestDisconnect", 0), Nothing)

(* send_secure_sync_attempt: connected with a Tool Key, else a broadcast.  *)
SyncAttempt(x) ==
    LET n    == x.challenges + 1
        load == Payload("sync_req", n, x.channel, 0)
        y    == [x EXCEPT !.challenges = n, !.sync.n = n]
    IN  IF x.tool
        THEN Batch([y EXCEPT !.sync.tx = [load |-> load, ack |-> FALSE], !.sync.wait = FALSE],
                   Ev("RequestData", 0), Nothing)
        ELSE {Sends([y EXCEPT !.sync.wait = TRUE], << Frame("broadcast", 0, load) >>)}

\* execute_tl: the batch and what follows from it.
Execute(x, ev, load) ==
    UNION {IF y.abort THEN CloseConnection(y)
           ELSE IF y.start_sync THEN SyncAttempt([y EXCEPT !.sync = [NoSync EXCEPT !.on = TRUE]])
           ELSE {y} : y \in Batch(x, ev, load)}

-----------------------------------------------------------------------------
(* The driver's steps.  Each leaves frames in out; the bus carries them or *)
(* loses them.                                                             *)

Cleared(x) == [x EXCEPT !.out = << >>, !.abort = FALSE, !.start_sync = FALSE]

(* The frames of s the bus carries: those with an index in K.              *)
Carried(s, K) == [k \in 1..Cardinality(K) |->
                     s[CHOOSE i \in K : Cardinality({j \in K : j <= i}) = k]]

(* The L_Data.con of each T_Connect, with the interface's verdict; it      *)
(* follows what was on the bus before it.                                  *)
Confirmations(frames) ==
    [1..Len(SelectSeq(frames, LAMBDA f : f.type = "connect")) -> {Pdu("con", 0), Pdu("con", 1)}]

(* The driver is now x; rest is what is still on its way to it.            *)
Becomes(x, rest) ==
    \E K \in SUBSET DOMAIN x.out, con \in Confirmations(x.out) :
        /\ lost' = lost + Len(x.out) - Cardinality(K)
        /\ lost' <= MaxLost
        /\ up' = up \o Carried(x.out, K)
        /\ down' = rest \o con
        /\ Len(up') <= MaxQueued
        /\ d' = Cleared(x)
        /\ UNCHANGED dev

Steps(S) == \E x \in S : Becomes(x, down)

\* A command is taken only while nothing is pending.
Ready == d.up /\ d.pending.kind = "none"

Open ==
    /\ Ready /\ d.opens < MaxOpens /\ d.tl.state = "Closed"
    /\ up = << >>
    /\ Steps(Execute([d EXCEPT !.conn = d.opens + 1, !.opens = @ + 1,
                               !.pending = [NoPending EXCEPT !.kind = "open"]],
                     Ev("RequestConnect", 0), Nothing))

\* Mutant: the key is registered when it is sent, not when it is confirmed.
Mut_Rotated(x, kind, r) ==
    IF kind = "rotate" /\ x.pending.kind = "request"
    THEN [x EXCEPT !.channel = KeyOf(r), !.key = KeyOf(r), !.tool = TRUE] ELSE x

\* The answer to a key write comes under the new key.
Rotated(x, kind, r) ==
    IF kind = "rotate" /\ x.pending.kind = "request" THEN [x EXCEPT !.channel = KeyOf(r)] ELSE x

Request(kind) ==
    LET r    == d.reqs + 1
        load == Payload("request", r, d.channel, 0)
        x    == [d EXCEPT !.reqs = r, !.kinds[r] = kind, !.outcome[r] = "waiting",
                          !.pending = [NoPending EXCEPT !.kind = "request", !.req = r, !.tx.load = load]]
    IN  /\ Ready /\ d.reqs < MaxRequests
        /\ d.handle # 0 /\ d.handle = d.conn /\ d.tl.state = "OpenIdle"
        /\ kind = "rotate" => d.channel # 0
        /\ Steps({Rotated(y, kind, r) : y \in Execute(x, Ev("RequestData", 0), Nothing)})

Close ==
    /\ Ready /\ d.handle # 0 /\ d.handle = d.conn
    /\ Steps({ClearSecure(y) : y \in Execute(d, Ev("RequestDisconnect", 0), Nothing)})

\* Negative L_Data.con of the transmission under way.
NegativeConfirmation ==
    /\ d.up /\ Transmission(d).load # Nothing /\ lost < MaxLost
    /\ Steps(CloseConnection([Fail(d) EXCEPT !.sync = NoSync]))

(* handle_sync_response: kept until the request is acknowledged; then it   *)
(* opens the connection or, if it does not verify, closes it.              *)
SyncAnswered(x, load) ==
    IF x.sync.tx.load # Nothing
    THEN {[x EXCEPT !.sync.response = IF @ = Nothing THEN load ELSE @]}
    ELSE IF ~x.sync.on THEN {x}
    ELSE IF load.n = x.sync.n /\ load.key = x.channel
    THEN LET y == [x EXCEPT !.sync = NoSync, !.synced = x.key,
                            !.floor = IF load.sn > @ THEN load.sn ELSE @]
         IN  {IF y.pending.kind = "open" THEN Opened(y) ELSE y}
    ELSE CloseConnection(FailOpen([x EXCEPT !.sync = NoSync]))

\* A sync response kept until now, once the request is acknowledged.
TakeKept(x) ==
    IF x.sync.on /\ x.sync.tx.load = Nothing /\ x.sync.response # Nothing
    THEN SyncAnswered(x, x.sync.response) ELSE {x}

IsSyncResponse(f) == d.sync.on /\ d.tl.state # "Closed" /\ f.load.what = "sync_res"

\* Mutant: any T_ACK acknowledges the frame under way.
Mut_AckEvent(f) == Ev("ReceivedAck", d.tl.seq_no_send)

AckEvent(f) == Ev("ReceivedAck", f.seq)

(* handle_indication, for a frame of the device.                           *)
Received(f) ==
    CASE f.type = "con" ->
           IF d.pending.kind = "open" THEN Execute(d, Ev("ConnectConfirm", f.seq), Nothing) ELSE {d}
      [] f.type = "disconnect" -> Execute(d, Ev("ReceivedDisconnect", 0), Nothing)
      [] f.type = "ack"  -> UNION {TakeKept(x) : x \in Execute(d, AckEvent(f), Nothing)}
      [] f.type = "nack" -> Execute(d, Ev("ReceivedNack", f.seq), Nothing)
      [] f.type = "broadcast" -> IF IsSyncResponse(f) THEN SyncAnswered(d, f.load) ELSE {d}
      [] f.type = "data" ->
           LET ev       == Ev("ReceivedData", f.seq)
               accepted == Asks(process_event("Style3", d.tl, ev).actions, "IndicateData")
           IN  IF IsSyncResponse(f)
               THEN UNION {IF accepted THEN SyncAnswered(x, f.load) ELSE {x} : x \in Execute(d, ev, Nothing)}
               ELSE Execute(d, ev, f.load)

Receive ==
    /\ d.up /\ down # << >>
    /\ \E x \in Received(Head(down)) : Becomes(x, Tail(down))

-----------------------------------------------------------------------------
(* handle_timeouts, one deadline at a time.                                *)

(* Every PDU restarts the connection timer, which runs twice as long as    *)
(* the ACK timer: it expires when nothing is under way.                    *)
Silent == up = << >> /\ down = << >>

AckTimeout ==
    /\ d.up /\ Transmission(d).ack
    /\ Steps(Execute(SetTransmission(d, [Transmission(d) EXCEPT !.ack = FALSE]), Ev("AckTimeout", 0), Nothing))

ConnectionTimeout ==
    /\ d.up /\ d.conn_timer /\ Silent
    /\ Steps(Execute([d EXCEPT !.conn_timer = FALSE], Ev("ConnectionTimeout", 0), Nothing))

\* Mutant: the open fails and leaves its connection behind.
Mut_SyncTimeout ==
    /\ d.up /\ d.sync.on /\ d.sync.wait
    /\ Steps(IF ~d.sync.retried
             THEN SyncAttempt([d EXCEPT !.sync.retried = TRUE, !.sync.wait = FALSE])
             ELSE {FailOpen(ClearSecure(d))})

\* One retry with a fresh challenge, then the open fails and is closed.
SyncTimeout ==
    /\ d.up /\ d.sync.on /\ d.sync.wait
    /\ Steps(IF ~d.sync.retried
             THEN SyncAttempt([d EXCEPT !.sync.retried = TRUE, !.sync.wait = FALSE])
             ELSE CloseConnection(FailOpen([d EXCEPT !.sync = NoSync])))

\* Mutant: the conversation goes on after its answer was given up.
Mut_ResponseTimeout ==
    /\ d.up /\ d.pending.wait
    /\ Steps({Fail(d)})

\* The conversation ends with the request that was not answered.
ResponseTimeout ==
    /\ d.up /\ d.pending.wait
    /\ Steps(CloseConnection(Fail(d)))

\* The connector fails: the caller is told, and the task ends with its state.
ConnectorFails ==
    LET x == Fail(d)
    IN  /\ d.up
        /\ d' = [Driver0(d.mode) EXCEPT !.up = FALSE, !.key = x.key, !.tool = x.tool,
                     !.kinds = x.kinds, !.outcome = x.outcome, !.answer = x.answer]
        /\ up' = << >> /\ down' = << >>
        /\ UNCHANGED << dev, lost >>

-----------------------------------------------------------------------------
(* The device: its transport state machine, and an application that        *)
(* executes what is delivered to it and answers in order.                  *)

Device0 ==
    [tl |-> Conn0, ack |-> FALSE, conn_timer |-> FALSE, stored |-> Nothing, todo |-> << >>,
     key |-> 1, sn |-> 0, executed |-> << >>, out |-> << >>,
     conv |-> 0,               \* history: the client's open this conversation answers
     stale |-> FALSE]          \* history: the device went on with an earlier one

(* A request is executed once it is delivered; a key write takes effect    *)
(* before its answer.  A sync request may meet the rate limit.             *)
Executed(v, load) ==
    IF load.key # 0 /\ load.key # v.key THEN {v}
    ELSE IF load.what = "sync_req"
    THEN {v, [v EXCEPT !.todo = Append(@, Payload("sync_res", load.n, v.key, v.sn))]}
    ELSE LET kind   == d.kinds[load.n]
             key    == IF kind = "rotate" THEN KeyOf(load.n) ELSE v.key
             answer == IF load.key = 0 THEN Payload("response", load.n, 0, 0)
                       ELSE Payload("response", load.n, key, v.sn)
             w      == [v EXCEPT !.executed = Append(@, load.n), !.key = key]
         IN  IF kind = "ack" THEN {w}
             ELSE {[w EXCEPT !.todo = Append(@, answer), !.sn = @ + 1]}

DeviceDoes(v, a) ==
    CASE a.op = "SendDisconnect" -> [v EXCEPT !.out = Append(@, Pdu("disconnect", 0))]
      [] a.op = "SendAck"        -> [v EXCEPT !.out = Append(@, Pdu("ack", a.seq))]
      [] a.op = "SendNack"       -> [v EXCEPT !.out = Append(@, Pdu("nack", a.seq))]
      [] a.op \in {"SendData", "Retransmit"} ->
           [v EXCEPT !.out = Append(@, Frame("data", v.tl.seq_no_send, v.stored))]
      [] a.op = "ClearPendingMessage" -> [v EXCEPT !.stored = Nothing]
      [] a.op = "StartAckTimer"  -> [v EXCEPT !.ack = TRUE]
      [] a.op = "StopAckTimer"   -> [v EXCEPT !.ack = FALSE]
      [] a.op = "StartConnTimer" -> [v EXCEPT !.conn_timer = TRUE]
      [] a.op = "StopConnTimer"  -> [v EXCEPT !.conn_timer = FALSE]
      [] a.op = "IndicateDisconnected" -> [v EXCEPT !.stored = Nothing, !.todo = << >>]
      [] OTHER -> v

DevicePerforms(v, load, r) ==
    LET w == Seqs!FoldLeft(DeviceDoes, [v EXCEPT !.tl = r.conn], r.actions)
        x == [w EXCEPT !.tl.state = IF r.next_state = "None" THEN @ ELSE r.next_state]
    IN  IF Asks(r.actions, "IndicateData") THEN Executed(x, load) ELSE {x}

DeviceStep(v, ev, load) == DevicePerforms(v, load, process_event("Style3", v.tl, ev))

(* What the device sends reaches the client or is lost.                    *)
DeviceBecomes(v, rest) ==
    /\ d.up
    /\ \E K \in SUBSET DOMAIN v.out :
           /\ lost' = lost + Len(v.out) - Cardinality(K)
           /\ lost' <= MaxLost
           /\ down' = down \o Carried(v.out, K)
           /\ Len(down') <= MaxQueued
           /\ up' = rest
           /\ dev' = [v EXCEPT !.out = << >>,
                               !.stale = @ \/ (v.tl.state # "Closed" /\ v.conv # d.opens)]
           /\ UNCHANGED d

(* A sync request for the serial number comes, and is answered, outside    *)
(* the connection.                                                         *)
Broadcast(load) ==
    {[v EXCEPT !.todo = dev.todo,
               !.out = [k \in 1..Len(v.todo) - Len(dev.todo) |-> Frame("broadcast", 0, Seqs!Last(v.todo))]]
        : v \in Executed(dev, load)}

(* Style 3 ignores a T_Connect of the peer it is connected to (E00): from  *)
(* then on the two ends number their frames differently (stale).           *)
DeviceTakes(f) ==
    CASE f.type = "connect"    -> DeviceStep([dev EXCEPT !.conv = IF dev.tl.state = "Closed" THEN d.opens ELSE @],
                                             Ev("ReceivedConnect", 0), Nothing)
      [] f.type = "disconnect" -> DeviceStep(dev, Ev("ReceivedDisconnect", 0), Nothing)
      [] f.type = "ack"        -> DeviceStep(dev, Ev("ReceivedAck", f.seq), Nothing)
      [] f.type = "nack"       -> DeviceStep(dev, Ev("ReceivedNack", f.seq), Nothing)
      [] f.type = "data"       -> DeviceStep(dev, Ev("ReceivedData", f.seq), f.load)
      [] f.type = "broadcast"  -> Broadcast(f.load)

DeviceReceive ==
    /\ up # << >>
    /\ \E v \in DeviceTakes(Head(up)) : DeviceBecomes(v, Tail(up))

DeviceAnswer ==
    /\ dev.todo # << >> /\ dev.tl.state = "OpenIdle"
    /\ \E v \in DeviceStep([dev EXCEPT !.stored = Head(dev.todo), !.todo = Tail(@)],
                            Ev("RequestData", 0), Nothing) : DeviceBecomes(v, up)

DeviceAckTimeout ==
    /\ dev.ack
    /\ \E v \in DeviceStep([dev EXCEPT !.ack = FALSE], Ev("AckTimeout", 0), Nothing) :
           DeviceBecomes(v, up)

DeviceConnectionTimeout ==
    /\ dev.conn_timer /\ Silent
    /\ \E v \in DeviceStep([dev EXCEPT !.conn_timer = FALSE], Ev("ConnectionTimeout", 0), Nothing) :
           DeviceBecomes(v, up)

-----------------------------------------------------------------------------

Init ==
    /\ d \in {Driver0(m) : m \in Modes}
    /\ dev = Device0
    /\ up = << >> /\ down = << >> /\ lost = 0

Next ==
    \/ Open \/ Close \/ (\E kind \in Kinds : Request(kind))
    \/ Receive \/ NegativeConfirmation
    \/ AckTimeout \/ ConnectionTimeout \/ SyncTimeout \/ ResponseTimeout
    \/ ConnectorFails
    \/ DeviceReceive \/ DeviceAnswer \/ DeviceAckTimeout \/ DeviceConnectionTimeout

Spec == Init /\ [][Next]_vars

(* Types, and what the parts of the driver's state say of each other: a    *)
(* conversation has an identity exactly while it is not closed, and a      *)
(* synchronisation only runs on a secure channel (clear_secure_state).     *)
TypeOK ==
    /\ d.tl.state \in ConnStates /\ d.tl.seq_no_send \in SeqNos /\ d.tl.seq_no_recv \in SeqNos
    /\ d.tl.rep_count \in 0..MaxRepetitions
    /\ d.conn \in 0..MaxOpens /\ d.handle \in 0..MaxOpens
    /\ d.conn = 0 <=> d.tl.state = "Closed"
    /\ d.sync.on => d.channel # 0
    /\ dev.tl.state \in ConnStates \ {"Connecting"}
    /\ lost \in 0..MaxLost

(* A request is completed by the response to it and by no other, although  *)
(* responses are told apart by their APCI only: the driver ends the        *)
(* conversation when it gives an answer up (handle_timeouts).  Excused     *)
(* once the device went on with an old conversation because a T_Disconnect *)
(* was lost and the T_Connect of the next one too, or ignored by Style 3.  *)
AnswersCorrelate ==
    \A r \in Requests : d.outcome[r] = "ok" /\ d.kinds[r] # "ack" => d.answer[r].n = r \/ dev.stale

(* A request reported as done was executed by the device, whatever was     *)
(* lost, repeated or late.  Excused with an old conversation as above, and *)
(* when the device has a Tool Key the client does not know of: a key write *)
(* whose answer was lost, followed by an open that reuses the last sync.   *)
AckedExecuted ==
    \A r \in Requests :
        d.outcome[r] = "ok" => r \in Range(dev.executed) \/ dev.stale \/ d.key # dev.key

(* No retransmission makes the device execute a request twice: every       *)
(* transmission of a request carries the number it was stamped with.       *)
ExecutedOnce ==
    \A i, j \in DOMAIN dev.executed : dev.executed[i] = dev.executed[j] => i = j

(* What the application is told is what the device did, exactly once.      *)
ExecutedAsReported == AckedExecuted /\ ExecutedOnce

(* The keyring never holds a Tool Key the device did not take over         *)
(* (commit_tool_key after the response under the new key).                 *)
KeyCommitted ==
    d.key # 1 => \E r \in Range(dev.executed) : KeyOf(r) = d.key /\ d.kinds[r] = "rotate"

(* An open connection with nothing pending belongs to the application: no  *)
(* failed open leaves one behind that every later open would find busy.    *)
(* It says nothing of Connecting, where a late data PDU with a number      *)
(* other than 0 fails the open and stops its timer but leaves the state    *)
(* (E06 of the Style 3 table): see README.md.                              *)
Owned ==
    d.up /\ d.pending.kind = "none" /\ d.tl.state \in {"OpenIdle", "OpenWait"} => d.handle = d.conn

(* The caller of a pending command is never left without a deadline that   *)
(* will end the wait (next_deadline): an ACK timer or a response deadline, *)
(* for an open before its synchronisation the connection timer.            *)
DeadlineArmed ==
    /\ d.pending.kind = "request" => Transmission(d).ack \/ d.pending.wait
    /\ d.pending.kind = "open" =>
           IF d.sync.on THEN d.sync.tx.ack \/ d.sync.wait ELSE d.conn_timer

(* No command and no connection is left with nobody to end it.             *)
NothingLeftBehind == TypeOK /\ Owned /\ DeadlineArmed

(* Two claims of the code that it does not meet; see README.md.            *)

\* handle_timeouts ends a conversation because "A late response cannot be
\* correlated with a later request": AnswersCorrelate without its excuse.
Correlates ==
    \A r \in Requests : d.outcome[r] = "ok" /\ d.kinds[r] # "ack" => d.answer[r].n = r

\* connect_device fails with ConnectionBusy "while one is open": Owned in
\* every state.
BusyIsOwned == d.up /\ d.pending.kind = "none" /\ d.tl.state # "Closed" => d.handle = d.conn
===============================================================================
