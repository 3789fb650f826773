------------------------------ MODULE Tunnelling ------------------------------
(***************************************************************************)
(* Tunnelling over UDP between this repository's two ends: the client's    *)
(* sans-io TunnelSession (connector/ip_tunnel/session.rs), driven by the   *)
(* connector, and the device's connection manager and tunnel handler       *)
(* (knxip/connections/mod.rs, tunnel.rs).                                  *)
(*                                                                         *)
(* Datagrams are lost, duplicated and reordered: what was sent stays in    *)
(* the network and may arrive any number of times, or never.  Time is left *)
(* out: a timer that is armed may fire.  The device's buffer pool may be   *)
(* empty whenever it is asked.  Slots, addresses, TCP and secure sessions  *)
(* are ConnectionManager's subject; the channel ids here do not wrap.      *)
(***************************************************************************)
EXTENDS Integers, Sequences, FiniteSets, SequencesExt

CONSTANTS
    Modulus,      \* sequence counters are 0..Modulus-1 (u8: 256)
    Capacity,     \* tunnel connections the device holds (TUNNEL_CAPACITY)
    MaxSessions,  \* bound: sessions the client starts, each on its own socket
    MaxChannels,  \* bound: connections the device accepts
    MaxUp,        \* bound: frames the client is asked to send
    MaxDown,      \* bound: frames the device forwards from the bus
    MaxStarved    \* bound: times the pool is empty or a frame is not taken

ASSUME CountsAssumption ==
    /\ {Modulus, Capacity, MaxSessions, MaxChannels} \subseteq Nat \ {0}
    /\ {MaxUp, MaxDown, MaxStarved} \subseteq Nat
    /\ MaxUp + 1 < Modulus /\ MaxDown < Modulus

VARIABLES
    client,     \* TunnelSession, and the socket it was started on
    conns,      \* ConnectionManager.connections, by channel id
    to_server,  \* datagrams sent to the device
    to_client,  \* datagrams sent to the client's sockets
    outcome,    \* history: what send_cemi answered for each frame
    injected,   \* history: frames injected into the network layer, in order
    dropped,    \* history: frames taken in sequence and then dropped
    forwarded,  \* history: frames given a sequence number, by channel
    delivered,  \* history: frames the session in progress delivered
    starved     \* history: what the bound counts

net == << to_server, to_client >>
vars == << client, conns, to_server, to_client, outcome, injected, dropped,
           forwarded, delivered, starved >>

-----------------------------------------------------------------------------
(* The two ends' state.                                                    *)

Counters == 0..(Modulus - 1)
Channels == 1..MaxChannels
Up == 1..MaxUp
After(seq) == (seq + 1) % Modulus
Before(seq) == (seq - 1) % Modulus

\* TunnelSession::start, on a new socket; frame 0 stands for no frame.
Started(sock) ==
    [state |-> "connecting", sock |-> sock, ch |-> 0, send |-> 0, recv |-> 0,
     awaiting |-> 0, retried |-> FALSE, heartbeat |-> "off"]

NoFrame == [seq |-> 0, frame |-> 0, attempt |-> 0]
NoConn == [open |-> FALSE, sock |-> 0, recv |-> 0, send |-> 0, pending |-> NoFrame]

Open == {ch \in Channels : conns[ch].open}

Sent(m) == to_server' = to_server \cup {m}
Answered(M) == to_client' = to_client \cup M

\* The datagrams, as the fields the other end reads.
Connect(sock) == [type |-> "connect", sock |-> sock, ch |-> 0, seq |-> 0, frame |-> 0]
ToServer(type, seq, frame) ==
    [type |-> type, sock |-> client.sock, ch |-> client.ch, seq |-> seq, frame |-> frame]
ToClient(type, sock, ch, seq, frame, ok) ==
    [type |-> type, sock |-> sock, ch |-> ch, seq |-> seq, frame |-> frame, ok |-> ok]

\* Datagrams of a type that reach the session's socket, on its own channel.
Arrives(m, type) == m.type = type /\ m.sock = client.sock
OnChannel(m, type) == Arrives(m, type) /\ m.ch = client.ch

serverSide == << conns, to_client, injected, dropped, forwarded, starved >>
clientSide == << client, to_server, outcome, delivered >>

-----------------------------------------------------------------------------
(* The client: connecting.                                                 *)

Start ==
    /\ client.state \in {"none", "dead"} /\ client.sock < MaxSessions
    /\ client' = Started(client.sock + 1)
    /\ Sent(Connect(client.sock + 1))
    /\ delivered' = << >>
    /\ UNCHANGED << outcome, serverSide >>

(* The session dies; a frame still waiting fails with it.                  *)
Dies(c) ==
    /\ client' = [c EXCEPT !.state = "dead", !.awaiting = 0]
    /\ outcome' = IF c.awaiting = 0 THEN outcome
                  ELSE [outcome EXCEPT ![c.awaiting] = "failed"]

\* The MAX_APDU query takes sequence number 0 for the time being.
ConnectResponse(m) ==
    /\ client.state = "connecting" /\ Arrives(m, "connect_res")
    /\ IF m.ok
       THEN /\ client' = [client EXCEPT !.state = "feature", !.ch = m.ch, !.send = After(0)]
            /\ Sent([Connect(client.sock) EXCEPT !.type = "feature", !.ch = m.ch])
            /\ UNCHANGED << outcome, delivered, serverSide >>
       ELSE Dies(client) /\ UNCHANGED << to_server, delivered, serverSide >>

ConnectTimeout ==
    /\ client.state = "connecting"
    /\ Dies(client)
    /\ UNCHANGED << to_server, delivered, serverSide >>

Connected(c) == [c EXCEPT !.state = "connected", !.heartbeat = "armed"]

FeatureResponse(m) ==
    /\ client.state = "feature" /\ OnChannel(m, "feature_res")
    /\ client' = Connected(client)
    /\ UNCHANGED << to_server, outcome, delivered, serverSide >>

\* The interface has no feature service: number 0 is free after all.
FeatureTimeout ==
    /\ client.state = "feature"
    /\ client' = Connected([client EXCEPT !.send = 0])
    /\ UNCHANGED << to_server, outcome, delivered, serverSide >>

-----------------------------------------------------------------------------
(* The client: data.                                                       *)

Unsent == {f \in Up : outcome[f] = "none"}

(* send_cemi: the connector waits for one frame before it takes the next.  *)
SendCemi(f) ==
    /\ client.state = "connected" /\ client.awaiting = 0
    /\ f \in Unsent /\ \A g \in Unsent : f <= g
    /\ client' = [client EXCEPT !.awaiting = f, !.retried = FALSE]
    /\ outcome' = [outcome EXCEPT ![f] = "waiting"]
    /\ Sent(ToServer("request", client.send, f))
    /\ UNCHANGED << delivered, serverSide >>

\* Mutant: an acknowledgement completes the frame whatever its number.
Mut_AckOfAny(m) ==
    /\ client.state = "connected" /\ OnChannel(m, "ack")
    /\ client.awaiting # 0
    /\ client' = [client EXCEPT !.awaiting = 0, !.send = After(client.send)]
    /\ outcome' = [outcome EXCEPT ![client.awaiting] = IF m.ok THEN "ok" ELSE "refused"]
    /\ UNCHANGED << to_server, delivered, serverSide >>

\* Mutant: the number stays after an acknowledgement.
Mut_AckKeepsNumber(m) ==
    /\ client.state = "connected" /\ OnChannel(m, "ack")
    /\ client.awaiting # 0 /\ m.seq = client.send
    /\ client' = [client EXCEPT !.awaiting = 0]
    /\ outcome' = [outcome EXCEPT ![client.awaiting] = IF m.ok THEN "ok" ELSE "refused"]
    /\ UNCHANGED << to_server, delivered, serverSide >>

TunnelingAck(m) ==
    /\ client.state = "connected" /\ OnChannel(m, "ack")
    /\ client.awaiting # 0 /\ m.seq = client.send
    /\ client' = [client EXCEPT !.awaiting = 0, !.send = After(client.send)]
    /\ outcome' = [outcome EXCEPT ![client.awaiting] = IF m.ok THEN "ok" ELSE "refused"]
    /\ UNCHANGED << to_server, delivered, serverSide >>

\* Mutant: the retransmission is not remembered.
Mut_AckTimeout ==
    /\ client.state = "connected" /\ client.awaiting # 0
    /\ Sent(ToServer("request", client.send, client.awaiting))
    /\ UNCHANGED << client, outcome, delivered, serverSide >>

\* One retransmission, then the connection is dead.
AckTimeout ==
    /\ client.state = "connected" /\ client.awaiting # 0
    /\ IF client.retried
       THEN Dies(client) /\ UNCHANGED to_server
       ELSE /\ client' = [client EXCEPT !.retried = TRUE]
            /\ Sent(ToServer("request", client.send, client.awaiting))
            /\ UNCHANGED outcome
    /\ UNCHANGED << delivered, serverSide >>

(* A TUNNELLING_REQUEST: the expected number is acknowledged and           *)
(* delivered, the one before acknowledged, any other silently discarded.   *)
Indication(m) ==
    /\ client.state \in {"feature", "connected"} /\ OnChannel(m, "request")
    /\ m.seq \in {client.recv, Before(client.recv)}
    /\ Sent(ToServer("ack", m.seq, 0))
    /\ IF m.seq = client.recv
       THEN /\ client' = [client EXCEPT !.recv = After(client.recv)]
            /\ delivered' = Append(delivered, m.frame)
       ELSE UNCHANGED << client, delivered >>
    /\ UNCHANGED << outcome, serverSide >>

-----------------------------------------------------------------------------
(* The client: heartbeat and disconnecting.                                *)

\* Due, overdue and repeated, overdue again: then the session is dead.
Heartbeat ==
    /\ client.state = "connected"
    /\ IF client.heartbeat = "retried"
       THEN Dies([client EXCEPT !.heartbeat = "off"])
       ELSE /\ client' = [client EXCEPT !.heartbeat =
                              IF @ = "armed" THEN "waiting" ELSE "retried"]
            /\ UNCHANGED outcome
    /\ UNCHANGED << to_server, delivered, serverSide >>

(* The device answers a CONNECTIONSTATE_REQUEST whether or not it has the  *)
(* channel, and the session does not look at the status in the answer.     *)
StateResponse ==
    /\ client.state = "connected" /\ client.heartbeat \in {"waiting", "retried"}
    /\ client' = [client EXCEPT !.heartbeat = "armed"]
    /\ UNCHANGED << to_server, outcome, delivered, serverSide >>

ServerDisconnects(m) ==
    /\ client.state \in {"feature", "connected"} /\ OnChannel(m, "disconnect")
    /\ Dies(client)
    /\ UNCHANGED << to_server, delivered, serverSide >>

(* close: once opened, with no frame waiting.                              *)
Close ==
    /\ client.state = "connected" /\ client.awaiting = 0
    /\ client' = [client EXCEPT !.state = "closing", !.heartbeat = "off"]
    /\ Sent(ToServer("disconnect", 0, 0))
    /\ UNCHANGED << outcome, delivered, serverSide >>

Closed(m) ==
    /\ client.state = "closing" /\ OnChannel(m, "disconnect_res")
    /\ client' = [client EXCEPT !.state = "dead"]
    /\ UNCHANGED << to_server, outcome, delivered, serverSide >>

CloseTimeout ==
    /\ client.state = "closing"
    /\ client' = [client EXCEPT !.state = "dead"]
    /\ UNCHANGED << to_server, outcome, delivered, serverSide >>

-----------------------------------------------------------------------------
(* The device: connections.                                                *)

Fresh == {ch \in Channels : ~conns[ch].open /\ conns[ch].sock = 0}

\* Mutant: the device does not count its connections.
Mut_Accept(m) ==
    /\ m.type = "connect"
    /\ \E ch \in Fresh :
          /\ conns' = [conns EXCEPT ![ch] = [NoConn EXCEPT !.open = TRUE, !.sock = m.sock]]
          /\ Answered({ToClient("connect_res", m.sock, ch, 0, 0, TRUE)})
    /\ UNCHANGED << injected, dropped, forwarded, starved, clientSide >>

(* A repeated CONNECT_REQUEST opens another connection.                    *)
Accept(m) ==
    /\ m.type = "connect"
    /\ IF Cardinality(Open) < Capacity
       THEN \E ch \in Fresh :
              /\ \A other \in Fresh : ch <= other
              /\ conns' = [conns EXCEPT ![ch] = [NoConn EXCEPT !.open = TRUE, !.sock = m.sock]]
              /\ Answered({ToClient("connect_res", m.sock, ch, 0, 0, TRUE)})
       ELSE /\ Answered({ToClient("connect_res", m.sock, 0, 0, 0, FALSE)})
            /\ UNCHANGED conns
    /\ UNCHANGED << injected, dropped, forwarded, starved, clientSide >>

\* The answer to the query; no counter moves.
FeatureGet(m) ==
    /\ m.type = "feature" /\ m.ch \in Open
    /\ Answered({ToClient("feature_res", conns[m.ch].sock, m.ch, m.seq, 0, TRUE)})
    /\ UNCHANGED << conns, injected, dropped, forwarded, starved, clientSide >>

\* A closed channel keeps its socket, so that its id is not given out again.
Torn(ch) == [NoConn EXCEPT !.sock = conns[ch].sock]

DisconnectRequest(m) ==
    /\ m.type = "disconnect"
    /\ conns' = [conns EXCEPT ![m.ch] = Torn(m.ch)]
    /\ Answered({ToClient("disconnect_res", m.sock, m.ch, 0, 0, TRUE)})
    /\ UNCHANGED << injected, dropped, forwarded, starved, clientSide >>

\* on_tick: silently closed.
HeartbeatTimeout(ch) ==
    /\ ch \in Open
    /\ conns' = [conns EXCEPT ![ch] = Torn(ch)]
    /\ UNCHANGED << to_client, injected, dropped, forwarded, starved, clientSide >>

-----------------------------------------------------------------------------
(* The device: frames from the client.                                     *)

Starve == starved < MaxStarved /\ starved' = starved + 1

AckFor(m, ok) == Answered({ToClient("ack", conns[m.ch].sock, m.ch, m.seq, 0, ok)})

\* Mutant: the repeat of the last frame is taken like a new one.
Mut_TakeExpected(m) ==
    /\ m.seq \in {conns[m.ch].recv, Before(conns[m.ch].recv)}
    /\ conns' = [conns EXCEPT ![m.ch].recv = After(m.seq)]
    /\ AckFor(m, TRUE)
    /\ injected' = Append(injected, m.frame)
    /\ UNCHANGED << dropped, starved >>

(* The expected number: counted first, then injected and acknowledged;     *)
(* or acknowledged and dropped, for an address that was removed or a frame *)
(* too long or malformed; or dropped for want of a buffer to answer with.  *)
TakeExpected(m) ==
    /\ m.seq = conns[m.ch].recv
    /\ conns' = [conns EXCEPT ![m.ch].recv = After(m.seq)]
    /\ \/ AckFor(m, TRUE) /\ injected' = Append(injected, m.frame)
                          /\ UNCHANGED << dropped, starved >>
       \/ /\ Starve
          /\ dropped' = dropped \cup {m.frame} /\ UNCHANGED injected
          /\ AckFor(m, TRUE) \/ UNCHANGED to_client

\* The number before is acknowledged again, any other refused.
TakeOther(m) ==
    /\ m.seq # conns[m.ch].recv
    /\ AckFor(m, m.seq = Before(conns[m.ch].recv))
    /\ UNCHANGED << conns, injected, dropped, starved >>

(* The forward of an injected frame to the other tunnels, through           *)
(* send_tunneling_request like a frame from the bus, is left out.           *)
TunnelingRequest(m) ==
    /\ m.type = "request" /\ m.ch \in Open
    /\ TakeExpected(m) \/ TakeOther(m)
    /\ UNCHANGED << forwarded, clientSide >>

-----------------------------------------------------------------------------
(* The device: frames from the bus.                                        *)

\* Mutant: without a buffer for the frame its number is used again.
Mut_Numbered(c, how, f) ==
    [c EXCEPT !.send = IF how = "unbuilt" THEN @ ELSE After(@),
              !.pending = IF how = "copied" THEN [seq |-> c.send, frame |-> f, attempt |-> 0]
                          ELSE @]

(* send_tunneling_request: the number is used up even without a buffer for *)
(* the frame; the copy for the retransmission replaces the one before.     *)
Numbered(c, how, f) ==
    [c EXCEPT !.send = After(@),
              !.pending = IF how = "copied" THEN [seq |-> c.send, frame |-> f, attempt |-> 0]
                          ELSE @]

\* Frames forwarded so far: the next one is numbered from here.
Frames == UNION {ToSet(forwarded[ch]) : ch \in Channels}

(* A group frame goes to every connection, an individually addressed one   *)
(* to the connection that has the address.                                 *)
Forward(T, how) ==
    /\ T # {} /\ T \subseteq Open /\ (T = Open \/ Cardinality(T) = 1)
    /\ Cardinality(Frames) < MaxDown
    /\ IF \A ch \in T : how[ch] = "copied" THEN UNCHANGED starved ELSE Starve
    /\ LET f == Cardinality(Frames) + 1
       IN  /\ conns' = [ch \in Channels |-> IF ch \in T THEN Numbered(conns[ch], how[ch], f)
                                            ELSE conns[ch]]
           /\ forwarded' = [ch \in Channels |-> IF ch \in T THEN Append(forwarded[ch], f)
                                                ELSE forwarded[ch]]
           /\ Answered({ToClient("request", conns[ch].sock, ch, conns[ch].send, f, TRUE) :
                            ch \in {c \in T : how[c] # "unbuilt"}})
    /\ UNCHANGED << injected, dropped, clientSide >>

AckReceived(m) ==
    /\ m.type = "ack" /\ m.ch \in Open
    /\ conns[m.ch].pending # NoFrame /\ m.seq = conns[m.ch].pending.seq
    /\ conns' = [conns EXCEPT ![m.ch].pending = NoFrame]
    /\ UNCHANGED << to_client, injected, dropped, forwarded, starved, clientSide >>

\* Mutant: the attempts are not counted.
Mut_CheckAckTimeouts(ch) ==
    /\ ch \in Open /\ conns[ch].pending # NoFrame
    /\ Answered({ToClient("request", conns[ch].sock, ch, conns[ch].pending.seq,
                          conns[ch].pending.frame, TRUE)})
    /\ UNCHANGED << conns, starved, injected, dropped, forwarded, clientSide >>

(* check_ack_timeouts: one retransmission, or none without a buffer, then  *)
(* a DISCONNECT_REQUEST, if there is a buffer, and the end.                *)
CheckAckTimeouts(ch) ==
    /\ ch \in Open /\ conns[ch].pending # NoFrame
    /\ LET c == conns[ch]
       IN  IF c.pending.attempt < 1
           THEN /\ conns' = [conns EXCEPT ![ch].pending.attempt = 1]
                /\ \/ /\ Answered({ToClient("request", c.sock, ch, c.pending.seq, c.pending.frame, TRUE)})
                      /\ UNCHANGED starved
                   \/ Starve /\ UNCHANGED to_client
           ELSE /\ conns' = [conns EXCEPT ![ch] = Torn(ch)]
                /\ Answered({ToClient("disconnect", c.sock, ch, 0, 0, TRUE)})
                /\ UNCHANGED starved
    /\ UNCHANGED << injected, dropped, forwarded, clientSide >>

-----------------------------------------------------------------------------
Init ==
    /\ client = [Started(0) EXCEPT !.state = "none"]
    /\ conns = [ch \in Channels |-> NoConn]
    /\ to_server = {} /\ to_client = {}
    /\ outcome = [f \in Up |-> "none"]
    /\ injected = << >> /\ dropped = {}
    /\ forwarded = [ch \in Channels |-> << >>] /\ delivered = << >>
    /\ starved = 0

ClientReceives ==
    \E m \in to_client :
        \/ ConnectResponse(m) \/ FeatureResponse(m) \/ TunnelingAck(m) \/ Indication(m)
        \/ ServerDisconnects(m) \/ Closed(m)

ServerReceives ==
    \E m \in to_server :
        \/ Accept(m) \/ FeatureGet(m) \/ DisconnectRequest(m)
        \/ TunnelingRequest(m) \/ AckReceived(m)

ClientTimers == ConnectTimeout \/ FeatureTimeout \/ AckTimeout \/ CloseTimeout

Ways == {"copied", "uncopied", "unbuilt"}

Next ==
    \/ Start \/ Close \/ Heartbeat \/ StateResponse
    \/ \E f \in Up : SendCemi(f)
    \/ ClientTimers \/ ClientReceives \/ ServerReceives
    \/ \E T \in SUBSET Channels : \E how \in [T -> Ways] : Forward(T, how)
    \/ \E ch \in Channels : CheckAckTimeouts(ch) \/ HeartbeatTimeout(ch)

(* Armed timers fire.  Nothing is assumed of the network, of the bus or of *)
(* the application.                                                        *)
Fairness ==
    /\ WF_vars(ConnectTimeout) /\ WF_vars(FeatureTimeout)
    /\ WF_vars(AckTimeout) /\ WF_vars(CloseTimeout)
    /\ \A ch \in Channels : WF_vars(CheckAckTimeouts(ch))

Spec == Init /\ [][Next]_vars /\ Fairness

-----------------------------------------------------------------------------
Client ==
    [state : {"none", "connecting", "feature", "connected", "closing", "dead"},
     sock : 0..MaxSessions, ch : 0..MaxChannels, send : Counters, recv : Counters,
     awaiting : 0..MaxUp, retried : BOOLEAN, heartbeat : {"off", "armed", "waiting", "retried"}]

Conn ==
    [open : BOOLEAN, sock : 0..MaxSessions, recv : Counters, send : Counters,
     pending : [seq : Counters, frame : 0..MaxDown, attempt : {0, 1}]]

TypeOK ==
    /\ client \in Client
    /\ conns \in [Channels -> Conn] /\ Cardinality(Open) <= Capacity
    /\ outcome \in [Up -> {"none", "waiting", "ok", "refused", "failed"}]
    /\ Range(injected) \subseteq Up /\ dropped \subseteq Up
    /\ \A ch \in Channels : Range(forwarded[ch]) \subseteq 1..MaxDown
    /\ Range(delivered) \subseteq 1..MaxDown
    /\ starved \in 0..MaxStarved

(* What the client delivers is a prefix of what the device numbered for    *)
(* its channel: no frame twice, none out of order, and none after one that *)
(* was lost, although the device does not wait for an acknowledgement      *)
(* before it sends the next frame and keeps only the last for a repeat.    *)
DeliveredIsPrefix ==
    client.ch # 0 => IsPrefix(delivered, forwarded[client.ch])

(* No frame is injected twice, over every repeat, every stale datagram of  *)
(* an earlier session and every second connection, and none is injected    *)
(* behind a later one unless send_cemi had reported it as failed: the last *)
(* frame of a session that died may still arrive on the connection the     *)
(* device has not yet closed.                                              *)
InjectedOnce ==
    \A i, j \in 1..Len(injected) : i < j =>
        /\ injected[i] # injected[j]
        /\ injected[i] > injected[j] => outcome[injected[j]] = "failed"

(* What send_cemi answers is true: a frame that completed with Ok was      *)
(* injected, unless the device took it in sequence and dropped it, and a   *)
(* frame that was refused never is.                                        *)
CompletionsTrue ==
    \A f \in Up : /\ outcome[f] = "ok" => f \in Range(injected) \cup dropped
                  /\ outcome[f] = "refused" => f \notin Range(injected) \cup dropped

(* The two counters of a direction never part by more than the one frame   *)
(* in flight: the device waits for the number the client is sending, or    *)
(* for the next while the acknowledgement is under way.  The last case is  *)
(* the client that took its answered query to have used number 0 up.       *)
InStep ==
    client.state = "connected" /\ client.ch \in Open /\ "refused" \notin Range(outcome) =>
        LET expected == conns[client.ch].recv
        IN  \/ expected = client.send
            \/ client.awaiting # 0 /\ expected = After(client.send)
            \/ client.send = After(0) /\ expected = 0

(* Both directions deliver each frame at most once, and in order but for   *)
(* the frames that were reported as failed.                                *)
OnceInOrder == DeliveredIsPrefix /\ InjectedOnce

(* An acknowledgement means what it says, because the counters it is       *)
(* matched with stay in step.                                              *)
AcksTrue == TypeOK /\ CompletionsTrue /\ InStep

(* Every send_cemi is answered, whatever the network does.                 *)
SendsComplete == \A f \in Up : outcome[f] = "waiting" ~> outcome[f] # "waiting"

(* No frame stays kept for a repeat for ever: it is acknowledged, or ends  *)
(* the connection, or is replaced by a later frame of its connection,      *)
(* which then starts the attempts and the timer anew.                      *)
KeptFrameLetGo ==
    \A ch \in Channels : \A f \in 1..MaxDown :
        conns[ch].pending.frame = f ~>
            \/ conns[ch].pending = NoFrame
            \/ conns[ch].open /\ conns[ch].pending.frame > f

(* No one frame is waited for for ever, at either end.                     *)
ExchangesEnd == SendsComplete /\ KeptFrameLetGo

(* check_ack_timeouts: "If retries are exhausted, send a DISCONNECT_REQUEST *)
(* and tear down the connection".  So a frame that is kept stays until it   *)
(* is acknowledged or its connection ends.  The code does not keep this:    *)
(* the next frame replaces it with its attempts unspent, and steady traffic *)
(* keeps a connection that acknowledges nothing.                            *)
KeptUntilSettled ==
    [][\A ch \in Channels :
           conns[ch].pending # NoFrame =>
               conns'[ch].pending.frame \in {conns[ch].pending.frame, 0}]_vars

(* session.rs: the query "consumes sequence number 0 only if the interface *)
(* answers", and the test of the handshake: "FeatureGet consumed seq 0".   *)
(* So between frames an open connection's two ends agree on the number the *)
(* client sends next.  The code does not keep this: the device answers the *)
(* query and its counter stays at 0, the last case of InStep.              *)
SequencesAgree ==
    client.state = "connected" /\ client.awaiting = 0 /\ client.ch \in Open =>
        conns[client.ch].recv = client.send
===============================================================================
