-------------------------- MODULE ConnectionManager --------------------------
(***************************************************************************)
(* The life of KNXnet/IP connections on the device: the connection table   *)
(* (connections/mod.rs), the tunnel slots and their occupancy count        *)
(* (tunnel.rs, occupancy.rs), the one Device Management connection and the *)
(* events it sends to the cEMI transport layer (device_mgmt.rs, cemi.rs),  *)
(* the TCP streams and the channels they track (tcp_manager.rs) and the    *)
(* IP Secure sessions (session_handler.rs), as the link layer's loop joins *)
(* them (runtime.rs, dispatch.rs).                                         *)
(*                                                                         *)
(* The loop handles one event at a time, so each handler is one step; the  *)
(* layer stack that takes the cEMI events is another task.  Timers are     *)
(* steps that may be taken at any time.  Tunnelled frames and their        *)
(* sequence counters are Tunnelling's subject, the transport layer behind  *)
(* the cEMI events TransportLayer's.                                       *)
(***************************************************************************)
EXTENDS Integers, Sequences, FiniteSets, FiniteSetsExt, SequencesExt

CONSTANTS
    Capacity,     \* tunnel slots (TUNNEL_CAPACITY)
    MaxConns,     \* connections of both types (MAX_CONNECTIONS, Capacity + 1 by default)
    NumIds,       \* channel ids are 1..NumIds (255)
    Streams,      \* TCP streams are 1..Streams (MAX_TCP_STREAMS)
    MaxChannels,  \* channels a stream can track (MAX_TCP_CHANNELS, Capacity by default)
    Sessions,     \* secure session slots are 1..Sessions
    NumSessions,  \* session ids are 1..NumSessions (65535)
    Users,        \* what a session's user may open, as ConnectAccess says
    AddrLists,    \* values PID_ADDITIONAL_INDIVIDUAL_ADDRESSES is given
    EventCap,     \* events the cEMI channel holds (2)
    MaxConnects,  \* bound: CONNECT_REQUESTs that find a free entry
    MaxFrames,    \* bound: cEMI frames the client sends
    MaxWrites     \* bound: writes of the address list

ASSUME CountsAssumption ==
    /\ {Capacity, MaxConns, NumIds, EventCap, NumSessions} \subseteq Nat \ {0}
    /\ {Streams, Sessions, MaxChannels, MaxConnects, MaxFrames, MaxWrites} \subseteq Nat
ASSUME IdsAssumption == MaxConns <= NumIds /\ Sessions < NumSessions
ASSUME UsersAssumption ==
    Users \subseteq [dm : BOOLEAN, restricted : BOOLEAN, slots : SUBSET (1..Capacity)]
ASSUME ListsAssumption ==
    \A l \in AddrLists : Len(l) <= Capacity /\ \A k \in 1..Len(l) : l[k] \in Nat \ {0}

VARIABLES
    conns,        \* ConnectionManager.connections
    next_channel, \* ConnectionManager.next_channel_id
    slots,        \* TunnelConnectionHandler.active_channels
    occupancy,    \* TunnelOccupancy.count
    active,       \* DeviceMgmtConnectionHandler.active_channel
    addrs,        \* the additional individual addresses, read live
    events,       \* the channel of CemiEvents to the layer stack
    cemi,         \* CemiTransportLayer.active
    streams,      \* the channels each TCP stream tracks, or Closed
    sessions,     \* the secure session slots
    next_session, \* SessionPool.next_session_id
    leaks,        \* history: what refused TCP requests left behind, by type
    refused,      \* history: an Activate or Deactivate met a full channel
    connects, frames, writes  \* history: what the bounds count

vars == << conns, next_channel, slots, occupancy, active, addrs, events, cemi,
           streams, sessions, next_session, leaks, refused, connects, frames, writes >>

-----------------------------------------------------------------------------
(* The state of each part.                                                 *)

Entries == 1..MaxConns
SlotIds == 1..Capacity
Ids == 1..NumIds
StreamIds == 1..Streams
SessionIdxs == 1..Sessions
Types == {"tunnel", "management"}

\* A free entry of the connection table.
None == [id |-> 0, type |-> "none", stream |-> 0, session |-> 0]

\* ConnectionContext: stream 0 is UDP, session 0 a plain connection.
Context == [id : Ids, type : Types, stream : 0..Streams, session : 0..NumSessions]

\* A slot of TcpManager.connections without a stream.
Closed == [open |-> FALSE, channels |-> {}]
Opened == [open |-> TRUE, channels |-> {}]

\* IpSecureSessionSlot after reset().
OPEN == [dm |-> TRUE, restricted |-> FALSE, slots |-> SlotIds]
Idle == [state |-> "idle", id |-> 0, stream |-> 0, user |-> OPEN]

Occupied == {i \in Entries : conns[i] # None}
OfType(t) == {i \in Occupied : conns[i].type = t}

(* allocate_channel_id: the next id in use by no connection, counting from *)
(* next_channel_id and wrapping from the last id to 1.                     *)
Later(id, k) == ((id - 1 + k) % NumIds) + 1
InUse(id) == \E i \in Entries : conns[i] # None /\ conns[i].id = id
\* Mutant: an id in use is not skipped.
Mut_Skipped == 0

Skipped == Min({k \in 0..(NumIds - 1) : ~InUse(Later(next_channel, k))})
Allocated == Later(next_channel, Skipped)
NextChannel == Later(next_channel, Skipped + 1)

-----------------------------------------------------------------------------
(* The tunnel handler: which slot a request gets, 0 if it is refused.      *)

ActiveFor(a) == \E k \in 1..Len(addrs) : addrs[k] = a /\ slots[k] # 0

Allowed(k, access) == ~access.restricted \/ k \in access.slots

\* Extended CRI: the client names the address it wants.
Requested(a, access) ==
    LET listed == {k \in 1..Len(addrs) : addrs[k] = a /\ Allowed(k, access)}
    IN  IF listed = {} \/ ActiveFor(a) THEN 0 ELSE Min(listed)

\* Mutant: a free slot is taken whoever uses its address.
Mut_FirstFree(access) ==
    LET usable == {k \in 1..Len(addrs) : Allowed(k, access) /\ slots[k] = 0}
    IN  IF usable = {} THEN 0 ELSE Min(usable)

\* Basic CRI: the first free slot whose address no open tunnel uses.
FirstFree(access) ==
    LET usable == {k \in 1..Len(addrs) : /\ Allowed(k, access)
                                         /\ slots[k] = 0
                                         /\ ~ActiveFor(addrs[k])}
    IN  IF usable = {} THEN 0 ELSE Min(usable)

\* accept_connection, for address a or (0) any.
SlotFor(a, access) ==
    IF access.restricted /\ access.slots = {} THEN 0
    ELSE IF a = 0 THEN FirstFree(access) ELSE Requested(a, access)

\* slot_index_for_channel: the first slot that holds the id, 0 if none does.
SlotOf(id) ==
    LET held == {k \in SlotIds : slots[k] = id}
    IN  IF held = {} THEN 0 ELSE Min(held)

(* close_connection of each handler, for the connections in E.  Only ids   *)
(* that are held leave a slot, and each decrements the count once.         *)
FreedSlots(E) == {SlotOf(conns[i].id) : i \in {j \in E : conns[j].type = "tunnel"}} \ {0}

CloseTunnels(E) ==
    /\ slots' = [k \in SlotIds |-> IF k \in FreedSlots(E) THEN 0 ELSE slots[k]]
    /\ occupancy' = Max({0, occupancy - Cardinality(FreedSlots(E))})

\* Mutant: the channel has no limit.
Mut_Push(e) == events' = Append(events, e) /\ refused' = refused

\* try_send: a full channel loses the event.
Push(e) ==
    IF Len(events) < EventCap
    THEN events' = Append(events, e) /\ refused' = refused
    ELSE events' = events /\ refused' = TRUE

ManagementCloses(E) ==
    active # 0 /\ \E i \in E : conns[i].type = "management" /\ conns[i].id = active

\* Mutant: the transport layer is not told.
Mut_CloseManagement(E) ==
    /\ active' = IF ManagementCloses(E) THEN 0 ELSE active
    /\ UNCHANGED << events, refused >>

CloseManagement(E) ==
    IF ManagementCloses(E)
    THEN active' = 0 /\ Push("deactivate")
    ELSE UNCHANGED << active, events, refused >>

\* Mutant: the table forgets the connection and the handlers do not hear of it.
Mut_TearDown(E) ==
    /\ conns' = [i \in Entries |-> IF i \in E THEN None ELSE conns[i]]
    /\ UNCHANGED << slots, occupancy, active, events, refused >>

(* Entries leave the table and their handlers are told.                    *)
TearDown(E) ==
    /\ conns' = [i \in Entries |-> IF i \in E THEN None ELSE conns[i]]
    /\ CloseTunnels(E)
    /\ CloseManagement(E)

\* TcpChannelEvent::Removed for the entries in E.
Untracked(E) ==
    [s \in StreamIds |->
        [streams[s] EXCEPT !.channels = @ \ {conns[i].id : i \in {j \in E : conns[j].stream = s}}]]

\* TcpChannelEvent::Added: a full list does not take the channel.
Tracked(s, id) ==
    IF s = 0 \/ Cardinality(streams[s].channels) >= MaxChannels THEN streams
    ELSE [streams EXCEPT ![s].channels = @ \cup {id}]

-----------------------------------------------------------------------------
(* CONNECT_REQUEST, over UDP (stream 0) or on a stream, in a session or    *)
(* plain.                                                                  *)

\* Where a frame can come from: UDP, a stream, or a session on its stream.
Origins ==
    {[stream |-> 0, session |-> 0, access |-> OPEN]}
    \cup {[stream |-> s, session |-> 0, access |-> OPEN] : s \in {t \in StreamIds : streams[t].open}}
    \cup {[stream |-> sessions[n].stream, session |-> sessions[n].id, access |-> sessions[n].user] :
              n \in {m \in SessionIdxs : sessions[m].state = "authenticated"}}

FreeEntry == Min({i \in Entries : conns[i] = None})

\* The entry, the id and the bound every request with a free entry uses up.
Requests ==
    /\ connects < MaxConnects
    /\ \E i \in Entries : conns[i] = None
    /\ connects' = connects + 1
    /\ next_channel' = NextChannel

Establish(o, type) ==
    /\ conns' = [conns EXCEPT ![FreeEntry] = [id |-> Allocated, type |-> type,
                                              stream |-> o.stream, session |-> o.session]]
    /\ streams' = Tracked(o.stream, Allocated)
    /\ leaks' = leaks

\* The handler has accepted, but the endpoints are not Route Back.
RefuseLate(o, type) ==
    /\ o.stream # 0
    /\ leaks' = [leaks EXCEPT ![type] = @ + 1]
    /\ UNCHANGED << conns, streams >>

ConnectTunnel(o, a) ==
    LET k == SlotFor(a, o.access)
    IN  /\ Requests
        /\ k # 0
        /\ slots' = [slots EXCEPT ![k] = Allocated]
        /\ occupancy' = occupancy + 1
        /\ Establish(o, "tunnel") \/ RefuseLate(o, "tunnel")
        /\ UNCHANGED << active, addrs, events, cemi, sessions, next_session, refused, frames, writes >>

ConnectManagement(o) ==
    /\ Requests
    /\ o.access.dm /\ active = 0
    /\ active' = Allocated
    /\ Push("activate")
    /\ Establish(o, "management") \/ RefuseLate(o, "management")
    /\ UNCHANGED << slots, occupancy, addrs, cemi, sessions, next_session, frames, writes >>

(* The handlers refuse: no slot, no access, a type or a tunnelling layer   *)
(* the device does not support.  The refusal still uses up the channel id. *)
ConnectRefused ==
    /\ Requests
    /\ UNCHANGED << conns, slots, occupancy, active, addrs, events, cemi, streams,
                    sessions, next_session, leaks, refused, frames, writes >>

(* DISCONNECT_REQUEST from the connection's own session; from any other it *)
(* is answered and changes nothing.                                        *)
Disconnect(i, o) ==
    /\ conns[i] # None /\ conns[i].session = o.session
    /\ TearDown({i})
    /\ streams' = Untracked({i})
    /\ UNCHANGED << next_channel, addrs, cemi, sessions, next_session, leaks, connects, frames, writes >>

\* Mutant: the stream goes on tracking the channel.
Mut_HeartbeatTimeout(i) ==
    /\ conns[i] # None
    /\ TearDown({i})
    /\ UNCHANGED << next_channel, addrs, cemi, streams, sessions, next_session, leaks,
                    connects, frames, writes >>

\* on_tick: no heartbeat for 120 s.
HeartbeatTimeout(i) ==
    /\ conns[i] # None
    /\ TearDown({i})
    /\ streams' = Untracked({i})
    /\ UNCHANGED << next_channel, addrs, cemi, sessions, next_session, leaks, connects, frames, writes >>

\* check_ack_timeouts, retries exhausted: only UDP connections wait for ACKs.
AckTimeout(i) ==
    /\ conns[i] # None /\ conns[i].stream = 0
    /\ TearDown({i})
    /\ UNCHANGED << next_channel, addrs, cemi, streams, sessions, next_session, leaks,
                    connects, frames, writes >>

-----------------------------------------------------------------------------
(* TCP streams and secure sessions.                                        *)

\* The listener accepts into the first free slot.
AcceptStream ==
    /\ \E s \in StreamIds : ~streams[s].open
    /\ streams' = [streams EXCEPT ![Min({s \in StreamIds : ~streams[s].open})] = Opened]
    /\ UNCHANGED << conns, next_channel, slots, occupancy, active, addrs, events, cemi,
                    sessions, next_session, leaks, refused, connects, frames, writes >>

(* The stream's connections and sessions go with it.  The sessions'        *)
(* connections are on the same stream.                                     *)
CloseStream(s) ==
    /\ streams[s].open
    /\ TearDown({i \in Occupied : conns[i].stream = s})
    /\ streams' = [streams EXCEPT ![s] = Closed]
    /\ sessions' = [n \in SessionIdxs |-> IF sessions[n].stream = s THEN Idle ELSE sessions[n]]
    /\ UNCHANGED << next_channel, addrs, cemi, next_session, leaks, connects, frames, writes >>

\* check_idle_timeouts: a stream that tracks no channel.
IdleTimeout(s) == streams[s].channels = {} /\ CloseStream(s)

\* SESSION_REQUEST: an idle slot and an unused id.
LaterSession(k) == ((next_session - 1 + k) % NumSessions) + 1
SessionInUse(id) == \E n \in SessionIdxs : sessions[n].state # "idle" /\ sessions[n].id = id
SessionSkip == Min({k \in 0..(NumSessions - 1) : ~SessionInUse(LaterSession(k))})

OpenSession(s) ==
    /\ streams[s].open
    /\ \E n \in SessionIdxs : sessions[n].state = "idle"
    /\ LET n == Min({m \in SessionIdxs : sessions[m].state = "idle"})
       IN  sessions' = [sessions EXCEPT ![n] = [Idle EXCEPT !.state = "unauthenticated",
                                                            !.id = LaterSession(SessionSkip),
                                                            !.stream = s]]
    /\ next_session' = LaterSession(SessionSkip + 1)
    /\ UNCHANGED << conns, next_channel, slots, occupancy, active, addrs, events, cemi,
                    streams, leaks, refused, connects, frames, writes >>

Authenticate(n, user) ==
    /\ sessions[n].state = "unauthenticated"
    /\ sessions' = [sessions EXCEPT ![n].state = "authenticated", ![n].user = user]
    /\ UNCHANGED << conns, next_channel, slots, occupancy, active, addrs, events, cemi,
                    streams, next_session, leaks, refused, connects, frames, writes >>

\* Mutant: the session goes and its connections stay.
Mut_EndSession(n) ==
    /\ sessions[n].state # "idle"
    /\ sessions' = [sessions EXCEPT ![n] = Idle]
    /\ UNCHANGED << conns, next_channel, slots, occupancy, active, addrs, events, cemi,
                    streams, next_session, leaks, refused, connects, frames, writes >>

(* Every way a session ends: closed, timed out, authenticated wrongly or   *)
(* twice, or used before it is authenticated.                              *)
EndSession(n) ==
    /\ sessions[n].state # "idle"
    /\ sessions' = [sessions EXCEPT ![n] = Idle]
    /\ LET E == {i \in Occupied : conns[i].session = sessions[n].id}
       IN  TearDown(E) /\ streams' = Untracked(E)
    /\ UNCHANGED << next_channel, addrs, cemi, next_session, leaks, connects, frames, writes >>

-----------------------------------------------------------------------------
(* Device Management frames and the layer stack.                           *)

(* A transport-layer cEMI frame; a full channel refuses it and the client  *)
(* is told.                                                                *)
ManagementFrame(i, o) ==
    /\ frames < MaxFrames
    /\ conns[i] # None /\ conns[i].type = "management" /\ conns[i].session = o.session
    /\ Len(events) < EventCap
    /\ events' = Append(events, "frame")
    /\ frames' = frames + 1
    /\ UNCHANGED << conns, next_channel, slots, occupancy, active, addrs, cemi, streams,
                    sessions, next_session, leaks, refused, connects, writes >>

\* handle_cemi_event; what a frame does is in TransportLayer.
After(e, on) == IF e = "frame" THEN on ELSE e = "activate"

TakeEvent ==
    /\ events # << >>
    /\ cemi' = After(Head(events), cemi)
    /\ events' = Tail(events)
    /\ UNCHANGED << conns, next_channel, slots, occupancy, active, addrs, streams,
                    sessions, next_session, leaks, refused, connects, frames, writes >>

\* A write of PID_ADDITIONAL_INDIVIDUAL_ADDRESSES, from the bus or over IP.
WriteAddresses(list) ==
    /\ writes < MaxWrites
    /\ list # addrs
    /\ addrs' = list /\ writes' = writes + 1
    /\ UNCHANGED << conns, next_channel, slots, occupancy, active, events, cemi, streams,
                    sessions, next_session, leaks, refused, connects, frames >>

-----------------------------------------------------------------------------
Init ==
    /\ conns = [i \in Entries |-> None]
    /\ next_channel = 1 /\ next_session = 1
    /\ slots = [k \in SlotIds |-> 0] /\ occupancy = 0
    /\ active = 0 /\ events = << >> /\ cemi = FALSE
    /\ addrs \in AddrLists
    /\ streams = [s \in StreamIds |-> Closed]
    /\ sessions = [n \in SessionIdxs |-> Idle]
    /\ leaks = [t \in Types |-> 0] /\ refused = FALSE
    /\ connects = 0 /\ frames = 0 /\ writes = 0

\* The addresses a CONNECT_REQUEST may name, and 0 for a basic one.
Named == {0} \cup UNION {Range(l) : l \in AddrLists}

Next ==
    \/ \E o \in Origins :
          \/ \E a \in Named : ConnectTunnel(o, a)
          \/ ConnectManagement(o)
          \/ \E i \in Entries : Disconnect(i, o) \/ ManagementFrame(i, o)
    \/ ConnectRefused
    \/ \E i \in Entries : HeartbeatTimeout(i) \/ AckTimeout(i)
    \/ AcceptStream
    \/ \E s \in StreamIds : CloseStream(s) \/ IdleTimeout(s) \/ OpenSession(s)
    \/ \E n \in SessionIdxs : EndSession(n) \/ \E user \in Users : Authenticate(n, user)
    \/ TakeEvent
    \/ \E list \in AddrLists : WriteAddresses(list)

Spec == Init /\ [][Next]_vars

-----------------------------------------------------------------------------
TypeOK ==
    /\ conns \in [Entries -> Context \cup {None}]
    /\ next_channel \in Ids /\ next_session \in 1..NumSessions
    /\ slots \in [SlotIds -> 0..NumIds] /\ occupancy \in 0..Capacity
    /\ active \in 0..NumIds
    /\ addrs \in AddrLists
    /\ events \in Seq({"activate", "deactivate", "frame"}) /\ Len(events) <= EventCap
    /\ cemi \in BOOLEAN /\ refused \in BOOLEAN
    /\ streams \in [StreamIds -> [open : BOOLEAN, channels : SUBSET Ids]]
    /\ sessions \in [SessionIdxs -> [state : {"idle", "unauthenticated", "authenticated"},
                                     id : 0..NumSessions, stream : 0..Streams,
                                     user : Users \cup {OPEN}]]
    /\ leaks \in [Types -> Nat]
    /\ connects \in 0..MaxConnects /\ frames \in 0..MaxFrames /\ writes \in 0..MaxWrites

(* No two connections share a channel id, however often the ids have       *)
(* wrapped: a data frame finds its connection by the id alone.             *)
DistinctChannels ==
    \A i, j \in Occupied : conns[i].id = conns[j].id => i = j

(* The slots, the occupancy count that makes the device acknowledge group  *)
(* frames on the bus, and the connection table agree whichever of the      *)
(* teardown paths a connection took: every tunnel holds a slot under its   *)
(* id, and a slot without a tunnel was left by a TCP request refused after *)
(* the handler had accepted it.                                            *)
SlotsAccounted ==
    /\ occupancy = Cardinality({k \in SlotIds : slots[k] # 0})
    /\ occupancy = Cardinality(OfType("tunnel")) + leaks["tunnel"]
    /\ \A i \in OfType("tunnel") : SlotOf(conns[i].id) # 0
    /\ (active # 0) = (Cardinality(OfType("management")) + leaks["management"] = 1)

(* A connection never outlives what it runs over: its stream is open and   *)
(* its secure session authenticated on that stream, whatever ended first.  *)
NoOrphans ==
    \A i \in Occupied :
        /\ conns[i].stream # 0 => streams[conns[i].stream].open
        /\ conns[i].session # 0 =>
              \E n \in SessionIdxs : /\ sessions[n].state = "authenticated"
                                     /\ sessions[n].id = conns[i].session
                                     /\ sessions[n].stream = conns[i].stream

(* The channels of the connections that run over stream s.                 *)
Carried(s) == {conns[i].id : i \in {j \in Occupied : conns[j].stream = s}}

\* The entries of the connection table beyond what a stream's list can hold.
Surplus == IF MaxConns > MaxChannels THEN MaxConns - MaxChannels ELSE 0

(* A stream tracks no channel that has left it, and misses no more of the  *)
(* channels that run over it than its list is shorter than the table,      *)
(* however connections come and go: with the default capacities (a list of *)
(* TUNNEL_CAPACITY, a table of one entry more) at most one, and none where *)
(* the list is as long as the table.                                       *)
ChannelsTracked ==
    \A s \in StreamIds : /\ streams[s].channels \subseteq Carried(s)
                         /\ Cardinality(Carried(s) \ streams[s].channels) <= Surplus

(* The tables that know of a connection agree on it: the connection table, *)
(* the handlers' slots, the occupancy count and the streams' channels.     *)
TablesAgree == TypeOK /\ DistinctChannels /\ SlotsAccounted /\ ChannelsTracked

(* is_idle_expired "only applies when no inner connections are active".    *)
(* The code does not keep this when Surplus > 0: the channel the full list *)
(* did not take may be the last one left on its stream.                    *)
IdleStreamUnused == \A s \in StreamIds : streams[s].channels = {} => Carried(s) = {}

(* TunnelOccupancy "counts how many tunnel connections are currently       *)
(* open".  The code does not keep this: a request refused after the        *)
(* handler accepted it stays counted (RefuseLate).                         *)
OccupancyCounts == occupancy = Cardinality(OfType("tunnel"))

\* What the layer stack will be in once it has taken every event: the last
\* event that is not a frame decides.
Deciding == {k \in 1..Len(events) : events[k] # "frame"}
Settled == IF Deciding = {} THEN cemi ELSE events[Max(Deciding)] = "activate"

(* Unless the channel to the layer stack refused an event, the transport   *)
(* layer ends up in cEMI mode exactly when a Device Management connection  *)
(* is active, in whatever order connections open, close and send.          *)
CemiFollows == ~refused => Settled = (active # 0)

(* The comment on CemiEvent: "Capacity 2 ensures a pending Frame +         *)
(* Deactivate can coexist when the layer stack is busy".  So closing the   *)
(* connection takes the transport layer out of cEMI mode.                  *)
CemiModeEnds == events = << >> /\ cemi => active # 0

(* No request takes a slot another channel holds, or an address an open    *)
(* tunnel uses, duplicates in the list and later slots included.           *)
UniqueAddress ==
    [][\A k \in SlotIds : slots'[k] # slots[k] /\ slots'[k] # 0 =>
           /\ slots[k] = 0
           /\ \A m \in (1..Len(addrs)) \ {k} : addrs[m] = addrs[k] => slots'[m] = 0]_vars
=============================================================================
