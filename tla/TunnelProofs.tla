----------------------------- MODULE TunnelProofs -----------------------------
(***************************************************************************)
(* Theorems about Tunnelling, for any number of sessions, connections and  *)
(* frames that does not wrap a counter.                                    *)
(*                                                                         *)
(* Datagrams stay in the network for ever, so the invariant says what each *)
(* of them still means.  A channel belongs to the socket it was opened     *)
(* for, and a session sends on one channel only (Owned).  A request's      *)
(* number on its channel and its frame determine each other, and the       *)
(* session's counter is ahead of every number it has used (Numbering).  So *)
(* a frame the device took cannot come again under a number it still       *)
(* expects (Taking).  The session sends the number the device waits for,   *)
(* or the device waits for number 0 that the session skipped and will wait *)
(* for it for ever (Gap): then everything is refused and nothing taken.    *)
(***************************************************************************)
EXTENDS Tunnelling, TLAPS, FiniteSetTheorems

ServerDatagram ==
    [type : {"connect", "feature", "request", "ack", "disconnect"}, sock : 1..MaxSessions,
     ch : 0..MaxChannels, seq : Counters, frame : 0..MaxUp]

ClientDatagram ==
    [type : {"connect_res", "feature_res", "request", "ack", "disconnect", "disconnect_res"},
     sock : 1..MaxSessions, ch : 0..MaxChannels, seq : Counters, frame : 0..MaxDown,
     ok : BOOLEAN]

Outcomes == {"none", "waiting", "ok", "refused", "failed"}

Types ==
    /\ client \in Client /\ conns \in [Channels -> Conn]
    /\ to_server \subseteq ServerDatagram /\ to_client \subseteq ClientDatagram
    /\ outcome \in [Up -> Outcomes]
    /\ injected \in Seq(Up) /\ dropped \subseteq Up
    /\ forwarded \in [Channels -> Seq(1..MaxDown)] /\ delivered \in Seq(1..MaxDown)
    /\ starved \in 0..MaxStarved

Few == Cardinality(Open) <= Capacity

(* Who a datagram comes from, and the phases of a session.                 *)
Owned ==
    /\ \A m \in to_server :
          /\ m.sock <= client.sock
          /\ m.type # "connect" => m.ch \in Channels /\ conns[m.ch].sock = m.sock
          /\ m.type # "connect" /\ m.sock = client.sock => m.ch = client.ch
    /\ \A m \in to_client :
          /\ m.sock <= client.sock
          /\ ~(m.type = "connect_res" /\ ~m.ok) => m.ch \in Channels /\ conns[m.ch].sock = m.sock
    /\ client.ch # 0 => client.sock # 0 /\ conns[client.ch].sock = client.sock
    /\ \A ch \in Channels : /\ conns[ch].sock <= client.sock
                            /\ conns[ch].open => conns[ch].sock # 0

Session ==
    /\ client.state \in {"none", "connecting"} => client.ch = 0
    /\ client.state \in {"feature", "connected", "closing"} => client.ch # 0
    /\ client.state = "feature" => client.send = 1
    /\ client.awaiting # 0 => client.state = "connected"

Requests == {m \in to_server : m.type = "request"}
Taken == Range(injected) \cup dropped

(* The numbers and the frames of the requests.                             *)
Numbering ==
    /\ client.send <= MaxUp + 1
    /\ \A m \in Requests : m.frame \in Up /\ outcome[m.frame] # "none" /\ m.seq <= m.frame
    /\ \A m, n \in Requests : m.frame = n.frame <=> m.ch = n.ch /\ m.seq = n.seq
    /\ \A m \in Requests : m.sock = client.sock =>
          /\ client.state \in {"connected", "closing", "dead"}
          /\ \/ m.seq < client.send
             \/ m.seq = client.send /\ (m.frame = client.awaiting \/ client.state = "dead")

(* What send_cemi has answered, and what is still waiting.                 *)
Waiting ==
    /\ client.awaiting # 0 =>
          /\ outcome[client.awaiting] = "waiting" /\ client.send <= client.awaiting
          /\ ToServer("request", client.send, client.awaiting) \in Requests
    /\ \A f \in Up : outcome[f] = "waiting" => client.awaiting = f
    /\ \A f \in Up : outcome[f] = "none" => client.send <= f
    /\ \A f, g \in Up : outcome[f] \in {"none", "waiting"} /\ f < g => outcome[g] = "none"

(* The device's counter on an open channel.                                *)
Passed(m) == conns[m.ch].open => m.seq < conns[m.ch].recv

Taking ==
    /\ \A ch \in Channels : conns[ch].recv # 0 =>
          conns[ch].open /\ \E m \in Requests : m.ch = ch /\ m.seq = conns[ch].recv - 1
    /\ \A f \in Taken : \E m \in Requests : m.frame = f /\ Passed(m)
    /\ \A m \in Requests : conns[m.ch].open /\ m.seq < conns[m.ch].recv => m.frame \in Taken

(* The device waits for number 0, which the session does not use.          *)
Gap(ch) ==
    /\ conns[ch].recv = 0
    /\ \A m \in Requests : m.ch = ch => m.seq # 0
    /\ client.ch = ch => client.send # 0 /\ client.state # "feature"

Refused == \E f \in Up : outcome[f] = "refused"

Following ==
    /\ \A m \in Requests : conns[m.ch].open => m.seq <= conns[m.ch].recv \/ Gap(m.ch)
    /\ client.state = "connected" /\ conns[client.ch].open =>
          \/ client.send <= conns[client.ch].recv
          \/ Gap(client.ch) /\ (client.send = 1 \/ Refused)

(* What an acknowledgement in the network means.                           *)
Barred(m) == m.frame \notin Taken /\ (conns[m.ch].open => Gap(m.ch))

AckMeans(m) ==
    \E n \in Requests :
        /\ n.ch = m.ch /\ n.seq = m.seq
        /\ m.ok => n.frame \in Taken /\ Passed(n)
        /\ ~m.ok => Barred(n) \/ \E k \in Requests : k.ch = n.ch /\ k.seq > n.seq

Acks == {m \in to_client : m.type = "ack"}

Answers ==
    /\ \A m \in Acks : AckMeans(m)
    /\ \A f \in Up : outcome[f] = "ok" => f \in Taken
    /\ \A f \in Up : outcome[f] = "refused" => \E n \in Requests : n.frame = f /\ Barred(n)

(* The frames for the client.                                              *)
Carried(ch, seq, frame) ==
    seq < Len(forwarded[ch]) /\ forwarded[ch][seq + 1] = frame

Down ==
    /\ \E K \in 0..MaxDown : Frames = 1..K /\ \A ch \in Channels : Len(forwarded[ch]) <= K
    /\ \A ch \in Channels : conns[ch].open => conns[ch].send = Len(forwarded[ch])
    /\ \A ch \in Channels : conns[ch].sock = 0 => forwarded[ch] = << >>
    /\ \A ch \in Channels : conns[ch].pending # NoFrame =>
          Carried(ch, conns[ch].pending.seq, conns[ch].pending.frame)
    /\ \A m \in to_client : m.type = "request" => Carried(m.ch, m.seq, m.frame)
    /\ client.recv = Len(delivered)
    /\ client.ch = 0 => delivered = << >>
    /\ client.ch # 0 => /\ Len(delivered) <= Len(forwarded[client.ch])
                        /\ \A k \in 1..Len(delivered) : delivered[k] = forwarded[client.ch][k]

UpInv == Session /\ Numbering /\ Waiting /\ Taking /\ Following /\ Answers /\ InjectedOnce

IInv == Types /\ Few /\ Owned /\ UpInv /\ Down

-----------------------------------------------------------------------------
(* Counters.                                                               *)

\* A counter that does not wrap.
LEMMA CounterFacts ==
    /\ \A s \in Counters : After(s) \in Counters /\ Before(s) \in Counters
    /\ \A s \in Counters : s + 1 < Modulus => After(s) = s + 1
    /\ \A s \in Counters : s # 0 => Before(s) = s - 1
    /\ Before(0) = Modulus - 1
    /\ 0 \in Counters /\ After(0) = 1 /\ 1 \in Counters
  <1>0. Modulus \in Nat \ {0} /\ MaxUp \in Nat /\ MaxDown \in Nat /\ MaxUp + 1 < Modulus
    BY CountsAssumption
  <1>1. \A s \in Counters : After(s) \in Counters /\ Before(s) \in Counters
    BY <1>0 DEF After, Before, Counters
  <1>2. \A s \in Counters : s + 1 < Modulus => After(s) = s + 1
    BY <1>0 DEF After, Counters
  <1>3. \A s \in Counters : s # 0 => Before(s) = s - 1
    BY <1>0 DEF Before, Counters
  <1>4. Before(0) = Modulus - 1
    BY <1>0 DEF Before
  <1>5. 0 \in Counters /\ 0 + 1 < Modulus /\ 1 \in Counters
    BY <1>0 DEF Counters
  <1>. QED BY <1>1, <1>2, <1>3, <1>4, <1>5

-----------------------------------------------------------------------------
(* Steps that touch neither a request nor what the client waits for.       *)

\* Channels keep their state, are closed, or are opened without a request.
ChannelsKept ==
    \A ch \in Channels :
        \/ conns'[ch].open = conns[ch].open /\ conns'[ch].recv = conns[ch].recv
        \/ ~conns'[ch].open /\ conns'[ch].recv = 0
        \/ /\ conns'[ch].recv = 0 /\ client.ch # ch
           /\ \A m \in Requests : m.ch # ch

ClientKept ==
    /\ client'.state = client.state /\ client'.sock = client.sock /\ client'.ch = client.ch
    /\ client'.send = client.send /\ client'.awaiting = client.awaiting

LEMMA UpKept ==
    ASSUME Types, Owned, UpInv, ChannelsKept, ClientKept, Requests' = Requests,
           \A m \in Acks' : AckMeans(m), UNCHANGED <<injected, dropped, outcome>>
    PROVE  UpInv'
  <1>0. /\ client.ch # 0 => client.ch \in Channels
        /\ \A m \in Requests : m.ch \in Channels /\ m \in ServerDatagram
        /\ Taken' = Taken /\ Refused' = Refused
    BY DEF Types, Client, Channels, Owned, Requests, Taken, Refused
  <1>1. Session'
    BY DEF Session, UpInv, ClientKept
  <1>2. Numbering'
    BY DEF Numbering, UpInv, ClientKept
  <1>3. Waiting'
    BY DEF Waiting, UpInv, ClientKept, ToServer
  <1>4. \A m \in Requests : Passed(m) => Passed(m)'
    BY <1>0 DEF Passed, ChannelsKept
  <1>5. \A m \in Requests : conns'[m.ch].open /\ Gap(m.ch) => Gap(m.ch)'
    BY <1>0 DEF Gap, ChannelsKept, ClientKept
  <1>6. Taking'
    <2>1. ASSUME NEW ch \in Channels, conns'[ch].recv # 0
          PROVE  conns'[ch].open /\ \E m \in Requests' : m.ch = ch /\ m.seq = conns'[ch].recv - 1
      BY <2>1 DEF UpInv, Taking, ChannelsKept
    <2>2. \A f \in Taken' : \E m \in Requests' : m.frame = f /\ Passed(m)'
      BY <1>0, <1>4 DEF UpInv, Taking
    <2>3. ASSUME NEW m \in Requests', conns'[m.ch].open, m.seq < conns'[m.ch].recv
          PROVE  m.frame \in Taken'
      <3>1. conns[m.ch].open /\ m.seq < conns[m.ch].recv
        BY <1>0, <2>3 DEF ChannelsKept, ServerDatagram, Counters
      <3>. QED BY <1>0, <3>1 DEF UpInv, Taking
    <2>. QED BY <2>1, <2>2, <2>3 DEF Taking
  <1>7. Following'
    <2>1. ASSUME NEW m \in Requests', conns'[m.ch].open
          PROVE  m.seq <= conns'[m.ch].recv \/ Gap(m.ch)'
      BY <1>0, <1>5, <2>1 DEF UpInv, Following, ChannelsKept
    <2>2. ASSUME client'.state = "connected", conns'[client'.ch].open
          PROVE  \/ client'.send <= conns'[client'.ch].recv
                 \/ Gap(client.ch)' /\ (client'.send = 1 \/ Refused')
      <3>1. client.ch \in Channels /\ client.state = "connected" /\ client'.ch = client.ch
        BY <1>0, <2>2 DEF ClientKept, UpInv, Session
      <3>2. conns[client.ch].open /\ conns'[client.ch].recv = conns[client.ch].recv
        BY <2>2, <3>1 DEF ChannelsKept
      <3>3. Gap(client.ch) => Gap(client.ch)'
        BY <1>0, <3>1, <3>2 DEF Gap, ClientKept
      <3>. QED BY <1>0, <3>1, <3>2, <3>3 DEF UpInv, Following, ClientKept
    <2>3. client'.ch = client.ch
      BY DEF ClientKept
    <2>. QED BY <2>1, <2>2, <2>3 DEF Following, Gap
  <1>8. Answers'
    <2>1. \A m \in Requests : Barred(m) => Barred(m)'
      <3>1. \A m \in Requests : conns'[m.ch].open => conns[m.ch].open
        BY <1>0 DEF ChannelsKept
      <3>. QED BY <1>0, <1>5, <3>1 DEF Barred
    <2>2. ASSUME NEW m \in Acks'
          PROVE  AckMeans(m)'
      <3>1. PICK n \in Requests :
              /\ n.ch = m.ch /\ n.seq = m.seq
              /\ m.ok => n.frame \in Taken /\ Passed(n)
              /\ ~m.ok => Barred(n) \/ \E k \in Requests : k.ch = n.ch /\ k.seq > n.seq
        BY DEF AckMeans
      <3>. QED BY <1>0, <1>4, <2>1, <3>1 DEF AckMeans
    <2>3. \A f \in Up : outcome'[f] = "refused" => \E n \in Requests' : n.frame = f /\ Barred(n)'
      BY <2>1 DEF UpInv, Answers
    <2>. QED BY <1>0, <2>2, <2>3 DEF Answers, UpInv
  <1>9. InjectedOnce'
    BY DEF InjectedOnce, UpInv
  <1>. QED BY <1>1, <1>2, <1>3, <1>6, <1>7, <1>8, <1>9 DEF UpInv

\* Facts about requests that most steps need.
LEMMA RequestFacts ==
    ASSUME Types, Owned
    PROVE  /\ client.ch # 0 => client.ch \in Channels
           /\ client.send \in Counters /\ client.send \in Nat
           /\ \A ch \in Channels : conns[ch].recv \in Counters /\ conns[ch].recv \in Nat
           /\ \A m \in Requests : /\ m.ch \in Channels /\ m.ch # 0 /\ m \in to_server
                                  /\ m.seq \in Counters /\ m.seq \in Nat
                                  /\ conns[m.ch].sock = m.sock
                                  /\ m.sock = client.sock => m.ch = client.ch
           /\ client.ch # 0 => \A m \in Requests : m.ch = client.ch => m.sock = client.sock
  <1>1. Counters \subseteq Nat
    BY CountsAssumption DEF Counters
  <1>2. client.send \in Counters /\ (client.ch # 0 => client.ch \in Channels)
    BY DEF Types, Client, Channels
  <1>3. \A ch \in Channels : conns[ch].recv \in Counters
    BY DEF Types, Conn
  <1>4. \A m \in Requests : m \in ServerDatagram /\ m.type # "connect" /\ m \in to_server
    BY DEF Types, Requests
  <1>5. \A m \in Requests : m.ch \in Channels /\ m.ch # 0 /\ m.seq \in Counters
                             /\ conns[m.ch].sock = m.sock
                             /\ (m.sock = client.sock => m.ch = client.ch)
    BY <1>4 DEF Owned, ServerDatagram, Channels
  <1>6. client.ch # 0 => \A m \in Requests : m.ch = client.ch => m.sock = client.sock
    BY <1>5 DEF Owned
  <1>. QED BY <1>1, <1>2, <1>3, <1>4, <1>5, <1>6

(* The session ends or begins to end: a waiting frame fails.               *)
Ends ==
    /\ client'.sock = client.sock /\ client'.ch = client.ch /\ client'.send = client.send
    /\ client'.awaiting = 0
    /\ \/ client'.state = "dead"
       \/ client'.state = "closing" /\ client.state = "connected" /\ client.awaiting = 0
    /\ outcome' = IF client.awaiting = 0 THEN outcome
                  ELSE [outcome EXCEPT ![client.awaiting] = "failed"]

LEMMA UpEnds ==
    ASSUME Types, Owned, UpInv, Ends, Requests' = Requests,
           UNCHANGED <<conns, to_client, injected, dropped>>
    PROVE  UpInv'
  <1>0. /\ client.ch # 0 => client.ch \in Channels
        /\ \A m \in Requests : m.ch \in Channels /\ m.ch # 0
        /\ Taken' = Taken /\ Acks' = Acks
    BY RequestFacts DEF Taken, Acks
  <1>1. /\ client.awaiting \in 0..MaxUp /\ outcome \in [Up -> Outcomes]
        /\ client.awaiting # 0 => client.awaiting \in Up /\ outcome[client.awaiting] = "waiting"
    BY SMTT(30), CountsAssumption DEF Types, Client, UpInv, Waiting, Up
  <1>2. \A f \in Up : \/ outcome'[f] = outcome[f] /\ f # client.awaiting
                      \/ f = client.awaiting /\ outcome[f] = "waiting" /\ outcome'[f] = "failed"
    BY <1>1 DEF Ends, Up
  <1>3. Session'
    BY DEF Session, UpInv, Ends
  <1>4. Numbering'
    <2>1. \A m \in Requests : m.frame \in Up /\ m.frame # 0
      BY DEF UpInv, Numbering, Up
    <2>2. ASSUME NEW m \in Requests, m.sock = client'.sock
          PROVE  /\ client'.state \in {"connected", "closing", "dead"}
                 /\ \/ m.seq < client'.send
                    \/ m.seq = client'.send /\ (m.frame = client'.awaiting \/ client'.state = "dead")
      <3>1. /\ client.state \in {"connected", "closing", "dead"}
            /\ \/ m.seq < client.send
               \/ m.seq = client.send /\ (m.frame = client.awaiting \/ client.state = "dead")
        BY <2>2 DEF UpInv, Numbering, Ends
      <3>2. client.state = "dead" /\ client'.state = "closing" => FALSE
        BY DEF UpInv, Session, Ends
      <3>. QED BY <2>1, <3>1, <3>2 DEF Ends
    <2>3. \A m \in Requests : m.frame \in Up /\ outcome'[m.frame] # "none" /\ m.seq <= m.frame
      BY <1>2, <2>1 DEF UpInv, Numbering
    <2>. QED BY <2>2, <2>3 DEF UpInv, Numbering, Ends
  <1>5. Waiting'
    <2>1. \A f \in Up : outcome'[f] # "waiting"
      BY <1>2 DEF UpInv, Waiting
    <2>2. \A f \in Up : outcome'[f] = "none" <=> outcome[f] = "none"
      BY <1>2
    <2>. QED BY <2>1, <2>2 DEF UpInv, Waiting, Ends
  <1>6. Taking'
    <2>1. \A m \in Requests : Passed(m)' <=> Passed(m)
      BY DEF Passed
    <2>. QED BY <1>0, <2>1 DEF UpInv, Taking
  <1>7. \A m \in Requests : Gap(m.ch) => Gap(m.ch)'
    BY DEF Gap, Ends
  <1>8. Following'
    <2>1. client'.state # "connected"
      BY DEF Ends
    <2>. QED BY <1>7, <2>1 DEF UpInv, Following
  <1>9. Answers'
    <2>1. \A m \in Requests : Barred(m) => Barred(m)'
      BY <1>0, <1>7 DEF Barred
    <2>2. \A m \in Requests : Passed(m) => Passed(m)'
      BY DEF Passed
    <2>3. ASSUME NEW m \in Acks'
          PROVE  AckMeans(m)'
      <3>1. PICK n \in Requests :
              /\ n.ch = m.ch /\ n.seq = m.seq
              /\ m.ok => n.frame \in Taken /\ Passed(n)
              /\ ~m.ok => Barred(n) \/ \E k \in Requests : k.ch = n.ch /\ k.seq > n.seq
        BY <1>0 DEF AckMeans, UpInv, Answers
      <3>. QED BY <1>0, <2>1, <2>2, <3>1 DEF AckMeans
    <2>4. \A f \in Up : outcome'[f] = "ok" => f \in Taken'
      BY <1>0, <1>2 DEF UpInv, Answers
    <2>5. ASSUME NEW f \in Up, outcome'[f] = "refused"
          PROVE  \E n \in Requests' : n.frame = f /\ Barred(n)'
      BY <1>2, <2>1, <2>5 DEF UpInv, Answers
    <2>. QED BY <2>3, <2>4, <2>5 DEF Answers
  <1>10. InjectedOnce'
    <2>1. \A k \in 1..Len(injected) : injected[k] \in Up
      BY DEF Types
    <2>. QED BY <1>2, <2>1 DEF UpInv, InjectedOnce
  <1>. QED BY <1>3, <1>4, <1>5, <1>6, <1>8, <1>9, <1>10 DEF UpInv

\* A new session, on a socket no datagram is about.
LEMMA UpStart ==
    ASSUME Types, Owned, UpInv, Start
    PROVE  UpInv'
  <1>1. /\ client'.state = "connecting" /\ client'.sock = client.sock + 1 /\ client'.ch = 0
        /\ client'.send = 0 /\ client'.awaiting = 0
        /\ UNCHANGED <<conns, to_client, injected, dropped, outcome>>
        /\ client.state \in {"none", "dead"}
    BY DEF Start, Started, serverSide
  <1>2. Requests' = Requests
    BY DEF Start, Sent, Connect, Requests
  <1>3. client.awaiting = 0 /\ client.sock \in Nat
    BY <1>1 DEF UpInv, Session, Types, Client
  <1>4. /\ \A m \in Requests : /\ m.ch \in Channels /\ m.ch # 0
                               /\ m.sock # client'.sock
        /\ Taken' = Taken /\ Acks' = Acks
    <2>1. \A m \in Requests : m.ch \in Channels /\ m.ch # 0 /\ m \in to_server
      BY RequestFacts
    <2>2. \A m \in Requests : m.sock <= client.sock /\ m.sock \in Nat
      BY <2>1 DEF Owned, Types, ServerDatagram
    <2>. QED BY <1>1, <1>3, <2>1, <2>2 DEF Taken, Acks
  <1>5. Session'
    BY <1>1 DEF Session
  <1>6. Numbering'
    BY <1>1, <1>2, <1>4, CountsAssumption DEF UpInv, Numbering
  <1>7. Waiting'
    <2>1. \A f \in Up : outcome[f] # "waiting"
      BY <1>3 DEF UpInv, Waiting, Up
    <2>2. \A f \in Up : 0 <= f
      BY DEF Up
    <2>. QED BY <1>1, <2>1, <2>2 DEF UpInv, Waiting
  <1>8. \A m \in Requests : Gap(m.ch) => Gap(m.ch)'
    BY <1>1, <1>2, <1>4 DEF Gap
  <1>9. \A m \in Requests : Passed(m)' <=> Passed(m)
    BY <1>1 DEF Passed
  <1>10. Taking'
    BY <1>1, <1>2, <1>4, <1>9 DEF UpInv, Taking
  <1>11. Following'
    BY <1>1, <1>2, <1>8 DEF UpInv, Following
  <1>12. Answers'
    <2>1. \A m \in Requests : Barred(m) => Barred(m)'
      BY <1>1, <1>4, <1>8 DEF Barred
    <2>2. ASSUME NEW m \in Acks'
          PROVE  AckMeans(m)'
      <3>1. PICK n \in Requests :
              /\ n.ch = m.ch /\ n.seq = m.seq
              /\ m.ok => n.frame \in Taken /\ Passed(n)
              /\ ~m.ok => Barred(n) \/ \E k \in Requests : k.ch = n.ch /\ k.seq > n.seq
        BY <1>4 DEF AckMeans, UpInv, Answers
      <3>. QED BY <1>2, <1>4, <1>9, <2>1, <3>1 DEF AckMeans
    <2>. QED BY <1>1, <1>2, <1>4, <2>1, <2>2 DEF UpInv, Answers
  <1>13. InjectedOnce'
    BY <1>1 DEF UpInv, InjectedOnce
  <1>. QED BY <1>5, <1>6, <1>7, <1>10, <1>11, <1>12, <1>13 DEF UpInv

\* The channel is adopted: no request has been sent on it.
LEMMA UpConnected ==
    ASSUME Types, Owned, UpInv, NEW m \in to_client, ConnectResponse(m), m.ok
    PROVE  UpInv'
  <1>1. /\ client'.state = "feature" /\ client'.sock = client.sock /\ client'.ch = m.ch
        /\ client'.send = 1 /\ client'.awaiting = client.awaiting /\ client.state = "connecting"
        /\ UNCHANGED <<conns, to_client, injected, dropped, outcome>>
        /\ m.sock = client.sock /\ m.type = "connect_res"
    BY CounterFacts DEF ConnectResponse, serverSide, Types, Client, Arrives
  <1>2. Requests' = Requests
    BY <1>1 DEF ConnectResponse, Sent, Connect, Requests
  <1>3. /\ client.awaiting = 0 /\ client.ch = 0
        /\ m.ch \in Channels /\ conns[m.ch].sock = client.sock
    BY <1>1 DEF UpInv, Session, Owned
  <1>4. /\ \A n \in Requests : n.ch \in Channels /\ n.ch # 0 /\ n.sock # client.sock /\ n.ch # m.ch
        /\ Taken' = Taken /\ Acks' = Acks
    <2>1. \A n \in Requests : n.ch \in Channels /\ n.ch # 0 /\ n.sock # client.sock
                               /\ conns[n.ch].sock = n.sock
      BY <1>3, RequestFacts
    <2>. QED BY <1>1, <1>3, <2>1 DEF Taken, Acks
  <1>5. Session'
    <2>1. m.ch # 0
      BY <1>3 DEF Channels
    <2>. QED BY <1>1, <1>3, <2>1 DEF Session
  <1>6. Numbering'
    BY <1>1, <1>2, <1>4, CountsAssumption DEF UpInv, Numbering
  <1>7. Waiting'
    <2>1. \A f \in Up : 1 <= f
      BY DEF Up
    <2>. QED BY <1>1, <1>3, <2>1 DEF UpInv, Waiting
  <1>8. \A n \in Requests : Gap(n.ch) => Gap(n.ch)'
    BY <1>1, <1>2, <1>4 DEF Gap
  <1>9. \A n \in Requests : Passed(n)' <=> Passed(n)
    BY <1>1 DEF Passed
  <1>10. Taking'
    BY <1>1, <1>2, <1>4, <1>9 DEF UpInv, Taking
  <1>11. Following'
    BY <1>1, <1>2, <1>8 DEF UpInv, Following
  <1>12. Answers'
    <2>1. \A n \in Requests : Barred(n) => Barred(n)'
      BY <1>1, <1>4, <1>8 DEF Barred
    <2>2. ASSUME NEW a \in Acks'
          PROVE  AckMeans(a)'
      <3>1. PICK n \in Requests :
              /\ n.ch = a.ch /\ n.seq = a.seq
              /\ a.ok => n.frame \in Taken /\ Passed(n)
              /\ ~a.ok => Barred(n) \/ \E k \in Requests : k.ch = n.ch /\ k.seq > n.seq
        BY <1>4 DEF AckMeans, UpInv, Answers
      <3>. QED BY <1>2, <1>4, <1>9, <2>1, <3>1 DEF AckMeans
    <2>. QED BY <1>1, <1>2, <1>4, <2>1, <2>2 DEF UpInv, Answers
  <1>13. InjectedOnce'
    BY <1>1 DEF UpInv, InjectedOnce
  <1>. QED BY <1>5, <1>6, <1>7, <1>10, <1>11, <1>12, <1>13 DEF UpInv

\* The feature query is over: with an answer the session skips number 0,
\* which the device then waits for.
LEMMA UpFeature ==
    ASSUME Types, Owned, UpInv,
           (\E m \in to_client : FeatureResponse(m)) \/ FeatureTimeout
    PROVE  UpInv'
  <1>1. /\ client.state = "feature" /\ client'.state = "connected"
        /\ client'.sock = client.sock /\ client'.ch = client.ch
        /\ client'.send \in {0, client.send} /\ client'.awaiting = client.awaiting
        /\ UNCHANGED <<conns, to_server, to_client, injected, dropped, outcome>>
    BY DEF FeatureResponse, FeatureTimeout, Connected, serverSide, Types, Client
  <1>2. Requests' = Requests /\ Taken' = Taken /\ Acks' = Acks /\ Refused' = Refused
    BY <1>1 DEF Requests, Taken, Acks, Refused
  <1>3. client.awaiting = 0 /\ client.ch # 0 /\ client.send = 1
    BY <1>1 DEF UpInv, Session
  <1>4. /\ client.ch \in Channels
        /\ \A n \in Requests : n.ch \in Channels /\ n.sock # client.sock /\ n.ch # client.ch
    <2>1. \A n \in Requests : n.sock # client.sock
      BY <1>1 DEF UpInv, Numbering
    <2>. QED BY <1>3, <2>1, RequestFacts
  <1>5. Session'
    BY <1>1, <1>3 DEF Session
  <1>6. Numbering'
    BY <1>1, <1>2, <1>3, <1>4, CountsAssumption DEF UpInv, Numbering
  <1>7. Waiting'
    <2>1. \A f \in Up : 1 <= f /\ 0 <= f
      BY DEF Up
    <2>. QED BY <1>1, <1>3, <2>1 DEF UpInv, Waiting
  <1>8. \A n \in Requests : Gap(n.ch) => Gap(n.ch)'
    BY <1>1, <1>2, <1>4 DEF Gap
  <1>9. \A n \in Requests : Passed(n)' <=> Passed(n)
    BY <1>1 DEF Passed
  <1>10. Taking'
    BY <1>1, <1>2, <1>4, <1>9 DEF UpInv, Taking
  <1>11. Following'
    <2>1. conns[client.ch].recv = 0
      BY <1>4 DEF UpInv, Taking
    <2>2. \/ client'.send <= conns'[client.ch].recv
          \/ Gap(client.ch)' /\ client'.send = 1
      BY <1>1, <1>2, <1>3, <1>4, <2>1 DEF Gap
    <2>3. \A m \in Requests : conns[m.ch].open => m.seq <= conns[m.ch].recv \/ Gap(m.ch)
      BY DEF UpInv, Following
    <2>4. \A m \in Requests' : conns'[m.ch].open => m.seq <= conns'[m.ch].recv \/ Gap(m.ch)'
      BY <1>1, <1>2, <1>8, <2>3
    <2>5. client'.ch = client.ch
      BY <1>1
    <2>. QED BY <2>2, <2>4, <2>5 DEF Following, Gap
  <1>12. Answers'
    <2>1. \A n \in Requests : Barred(n) => Barred(n)'
      BY <1>1, <1>2, <1>8 DEF Barred
    <2>2. ASSUME NEW a \in Acks'
          PROVE  AckMeans(a)'
      <3>1. PICK n \in Requests :
              /\ n.ch = a.ch /\ n.seq = a.seq
              /\ a.ok => n.frame \in Taken /\ Passed(n)
              /\ ~a.ok => Barred(n) \/ \E k \in Requests : k.ch = n.ch /\ k.seq > n.seq
        BY <1>2 DEF AckMeans, UpInv, Answers
      <3>. QED BY <1>2, <1>9, <2>1, <3>1 DEF AckMeans
    <2>. QED BY <1>1, <1>2, <2>1, <2>2 DEF UpInv, Answers
  <1>13. InjectedOnce'
    BY <1>1 DEF UpInv, InjectedOnce
  <1>. QED BY <1>5, <1>6, <1>7, <1>10, <1>11, <1>12, <1>13 DEF UpInv

\* A new frame, under the session's next number.
LEMMA UpSend ==
    ASSUME Types, Owned, UpInv, NEW f \in Up, SendCemi(f)
    PROVE  UpInv'
  <1>. DEFINE r == ToServer("request", client.send, f)
  <1>1. /\ client.state = "connected" /\ client.awaiting = 0 /\ outcome[f] = "none"
        /\ \A g \in Up : outcome[g] = "none" => f <= g
        /\ client'.state = "connected" /\ client'.sock = client.sock /\ client'.ch = client.ch
        /\ client'.send = client.send /\ client'.awaiting = f
        /\ outcome' = [outcome EXCEPT ![f] = "waiting"]
        /\ UNCHANGED <<conns, to_client, injected, dropped>>
    BY DEF SendCemi, serverSide, Types, Client, Unsent
  <1>2. /\ r.type = "request" /\ r.sock = client.sock /\ r.ch = client.ch
        /\ r.seq = client.send /\ r.frame = f
    BY DEF ToServer
  <1>3. Requests' = Requests \cup {r} /\ Taken' = Taken /\ Acks' = Acks
    BY <1>1, <1>2 DEF SendCemi, Sent, Requests, Taken, Acks
  <1>4. r = ToServer("request", client.send, f)'
    BY <1>1 DEF ToServer
  <1>. HIDE DEF r
  <1>5. /\ client.ch \in Channels /\ client.ch # 0 /\ client.send \in Nat /\ f \in Nat /\ f # 0
        /\ \A n \in Requests : /\ n.ch \in Channels /\ n.seq \in Nat
                               /\ n.sock = client.sock <=> n.ch = client.ch
        /\ \A ch \in Channels : conns[ch].recv \in Nat
    <2>1. client.ch # 0
      BY <1>1 DEF UpInv, Session
    <2>2. f \in Nat /\ f # 0
      BY DEF Up
    <2>. QED BY <2>1, <2>2, RequestFacts
  <1>6. \A n \in Requests : n.frame \in Up /\ n.frame # 0 /\ n.frame # f
                             /\ (n.ch = client.ch => n.seq < client.send)
    BY <1>1, <1>5 DEF UpInv, Numbering, Up
  <1>7. /\ outcome'[f] = "waiting"
        /\ \A g \in Up : g # f => outcome'[g] = outcome[g]
    BY <1>1 DEF Types
  <1>8. Session'
    BY <1>1, <1>5 DEF Session
  <1>9. client.send <= f
    BY <1>1 DEF UpInv, Waiting
  <1>10. Numbering'
    <2>1. \A m \in Requests' : m.frame \in Up /\ outcome'[m.frame] # "none" /\ m.seq <= m.frame
      BY <1>2, <1>3, <1>6, <1>7, <1>9 DEF UpInv, Numbering
    <2>2. \A m, n \in Requests' : m.frame = n.frame <=> m.ch = n.ch /\ m.seq = n.seq
      <3>1. \A m, n \in Requests : m.frame = n.frame <=> m.ch = n.ch /\ m.seq = n.seq
        BY DEF UpInv, Numbering
      <3>2. \A n \in Requests : n.frame # f /\ ~(n.ch = client.ch /\ n.seq = client.send)
        BY <1>5, <1>6
      <3>. QED BY <1>2, <1>3, <3>1, <3>2
    <2>3. \A m \in Requests' : m.sock = client'.sock =>
            /\ client'.state \in {"connected", "closing", "dead"}
            /\ \/ m.seq < client'.send
               \/ m.seq = client'.send /\ (m.frame = client'.awaiting \/ client'.state = "dead")
      BY <1>1, <1>2, <1>3, <1>5, <1>6
    <2>. QED BY <1>1, <2>1, <2>2, <2>3 DEF UpInv, Numbering
  <1>11. Waiting'
    <2>1. client'.awaiting = f /\ outcome'[f] = "waiting" /\ client'.send <= f
          /\ ToServer("request", client.send, client.awaiting)' \in Requests'
      <3>1. ToServer("request", client.send, client.awaiting)' = r
        BY <1>1, <1>4 DEF ToServer
      <3>. QED BY <1>1, <1>3, <1>7, <1>9, <3>1
    <2>2. \A g \in Up : outcome'[g] = "waiting" => g = f
      BY <1>1, <1>7 DEF UpInv, Waiting, Up
    <2>3. \A g \in Up : outcome'[g] = "none" => client'.send <= g
      BY <1>1, <1>7 DEF UpInv, Waiting
    <2>4. \A g, h \in Up : outcome'[g] \in {"none", "waiting"} /\ g < h => outcome'[h] = "none"
      <3>. SUFFICES ASSUME NEW g \in Up, NEW h \in Up, outcome'[g] \in {"none", "waiting"}, g < h
                    PROVE  outcome'[h] = "none"
        OBVIOUS
      <3>1. outcome[g] = "none"
        BY <1>1, <1>7, <2>2
      <3>2. outcome[h] = "none" /\ f < h
        BY <1>1, <3>1 DEF UpInv, Waiting, Up
      <3>. QED BY <1>7, <3>2 DEF Up
    <2>. QED BY <2>1, <2>2, <2>3, <2>4 DEF Waiting
  <1>12. \A n \in Requests : Passed(n)' <=> Passed(n)
    BY <1>1 DEF Passed
  <1>13. \/ ~conns[client.ch].open
         \/ client.send <= conns[client.ch].recv
         \/ Gap(client.ch) /\ (client.send = 1 \/ Refused)
    BY <1>1 DEF UpInv, Following
  <1>14. conns[client.ch].recv <= client.send
    <2>1. CASE conns[client.ch].recv = 0
      BY <1>5, <2>1
    <2>2. CASE conns[client.ch].recv # 0
      <3>1. PICK m \in Requests : m.ch = client.ch /\ m.seq = conns[client.ch].recv - 1
        BY <1>5, <2>2 DEF UpInv, Taking
      <3>. QED BY <1>5, <1>6, <3>1
    <2>. QED BY <2>1, <2>2
  <1>15. Taking'
    <2>1. \A ch \in Channels : conns'[ch].recv # 0 =>
            conns'[ch].open /\ \E m \in Requests' : m.ch = ch /\ m.seq = conns'[ch].recv - 1
      BY <1>1, <1>3 DEF UpInv, Taking
    <2>2. \A g \in Taken' : \E m \in Requests' : m.frame = g /\ Passed(m)'
      BY <1>3, <1>12 DEF UpInv, Taking
    <2>3. \A m \in Requests' : conns'[m.ch].open /\ m.seq < conns'[m.ch].recv => m.frame \in Taken'
      <3>1. \A m \in Requests : conns[m.ch].open /\ m.seq < conns[m.ch].recv => m.frame \in Taken
        BY DEF UpInv, Taking
      <3>2. ~(r.seq < conns[r.ch].recv)
        BY <1>2, <1>5, <1>14
      <3>. QED BY <1>1, <1>3, <3>1, <3>2
    <2>. QED BY <2>1, <2>2, <2>3 DEF Taking
  <1>16. \A ch \in Channels : Gap(ch) => Gap(ch)'
    BY <1>1, <1>2, <1>3 DEF Gap
  <1>17. Refused => Refused'
    BY <1>1, <1>7 DEF Refused
  <1>18. Following'
    <2>1. \A m \in Requests' : conns'[m.ch].open => m.seq <= conns'[m.ch].recv \/ Gap(m.ch)'
      <3>1. \A m \in Requests : conns[m.ch].open => m.seq <= conns[m.ch].recv \/ Gap(m.ch)
        BY DEF UpInv, Following
      <3>2. conns[r.ch].open => r.seq <= conns[r.ch].recv \/ Gap(r.ch)
        BY <1>2, <1>13
      <3>3. r.ch \in Channels
        BY <1>2, <1>5
      <3>. QED BY <1>1, <1>3, <1>5, <1>16, <3>1, <3>2, <3>3
    <2>2. \/ ~conns'[client.ch].open
          \/ client'.send <= conns'[client.ch].recv
          \/ Gap(client.ch)' /\ (client'.send = 1 \/ Refused')
      BY <1>1, <1>5, <1>13, <1>16, <1>17
    <2>3. client'.ch = client.ch
      BY <1>1
    <2>. QED BY <2>1, <2>2, <2>3 DEF Following, Gap
  <1>19. Answers'
    <2>1. \A n \in Requests : Barred(n) => Barred(n)'
      BY <1>1, <1>3, <1>5, <1>16 DEF Barred
    <2>2. ASSUME NEW a \in Acks'
          PROVE  AckMeans(a)'
      <3>1. PICK n \in Requests :
              /\ n.ch = a.ch /\ n.seq = a.seq
              /\ a.ok => n.frame \in Taken /\ Passed(n)
              /\ ~a.ok => Barred(n) \/ \E k \in Requests : k.ch = n.ch /\ k.seq > n.seq
        BY <1>3 DEF AckMeans, UpInv, Answers
      <3>. QED BY <1>3, <1>12, <2>1, <3>1 DEF AckMeans
    <2>3. \A g \in Up : outcome'[g] = "ok" => g \in Taken'
      BY <1>3, <1>7 DEF UpInv, Answers
    <2>4. \A g \in Up : outcome'[g] = "refused" => \E n \in Requests' : n.frame = g /\ Barred(n)'
      BY <1>3, <1>7, <2>1 DEF UpInv, Answers
    <2>. QED BY <2>2, <2>3, <2>4 DEF Answers
  <1>20. InjectedOnce'
    <2>1. \A k \in 1..Len(injected) : injected[k] \in Up
      BY DEF Types
    <2>. QED BY <1>1, <1>7, <2>1 DEF UpInv, InjectedOnce
  <1>. QED BY <1>8, <1>10, <1>11, <1>15, <1>18, <1>19, <1>20 DEF UpInv

\* An acknowledgement of the frame that waits.
LEMMA UpAcknowledged ==
    ASSUME Types, Owned, UpInv, NEW m \in to_client, TunnelingAck(m)
    PROVE  UpInv'
  <1>. DEFINE w == client.awaiting
  <1>1. /\ client.state = "connected" /\ w # 0
        /\ m.type = "ack" /\ m.ch = client.ch /\ m.seq = client.send
        /\ client'.state = "connected" /\ client'.sock = client.sock /\ client'.ch = client.ch
        /\ client'.send = After(client.send) /\ client'.awaiting = 0
        /\ outcome' = [outcome EXCEPT ![w] = IF m.ok THEN "ok" ELSE "refused"]
        /\ UNCHANGED <<conns, to_server, to_client, injected, dropped>>
    BY DEF TunnelingAck, serverSide, Types, Client, OnChannel, Arrives
  <1>2. /\ w \in Up /\ w \in Nat /\ w <= MaxUp /\ outcome[w] = "waiting" /\ client.send <= w
        /\ \A f \in Up : outcome[f] = "waiting" => f = w
    BY SMTT(30), <1>1, CountsAssumption DEF Types, Client, Up, UpInv, Waiting
  <1>3. Requests' = Requests /\ Taken' = Taken /\ Acks' = Acks
    BY <1>1 DEF Requests, Taken, Acks
  <1>4. /\ client.ch \in Channels /\ client.ch # 0 /\ client.send \in Nat
        /\ \A n \in Requests : /\ n.ch \in Channels /\ n.seq \in Nat
                               /\ n.sock = client.sock <=> n.ch = client.ch
        /\ \A ch \in Channels : conns[ch].recv \in Nat
    <2>1. client.ch # 0
      BY <1>1 DEF UpInv, Session
    <2>. QED BY <2>1, RequestFacts
  <1>5. client'.send = client.send + 1
    <2>1. client.send \in Counters /\ client.send + 1 < Modulus
      BY <1>2, <1>4, RequestFacts, CountsAssumption
    <2>. QED BY <1>1, <2>1, CounterFacts
  <1>6. /\ outcome'[w] = IF m.ok THEN "ok" ELSE "refused"
        /\ \A g \in Up : g # w => outcome'[g] = outcome[g]
    BY <1>1, <1>2 DEF Types
  <1>. HIDE DEF w
  <1>7. \A n \in Requests : n.ch = client.ch =>
          n.seq < client.send \/ (n.seq = client.send /\ n.frame = w)
    BY <1>1, <1>4 DEF UpInv, Numbering, w
  <1>8. PICK n \in Requests :
          /\ n.ch = m.ch /\ n.seq = m.seq
          /\ m.ok => n.frame \in Taken /\ Passed(n)
          /\ ~m.ok => Barred(n) \/ \E k \in Requests : k.ch = n.ch /\ k.seq > n.seq
    BY <1>1 DEF UpInv, Answers, AckMeans, Acks
  <1>9. n.frame = w /\ (~m.ok => Barred(n))
    BY <1>1, <1>4, <1>7, <1>8
  <1>10. Session'
    BY <1>1, <1>4 DEF Session
  <1>11. Numbering'
    <2>1. \A k \in Requests : k.frame \in Up /\ outcome'[k.frame] # "none" /\ k.seq <= k.frame
      BY <1>6 DEF UpInv, Numbering
    <2>2. \A k \in Requests : k.sock = client.sock => k.seq < client.send + 1
      BY <1>4, <1>7
    <2>3. client.send + 1 <= MaxUp + 1
      BY <1>2, <1>4, CountsAssumption
    <2>. QED BY <1>1, <1>3, <1>5, <2>1, <2>2, <2>3 DEF UpInv, Numbering
  <1>12. Waiting'
    <2>1. \A g \in Up : outcome'[g] # "waiting"
      BY <1>2, <1>6
    <2>2. \A g \in Up : outcome'[g] = "none" => outcome[g] = "none" /\ w < g
      BY <1>2, <1>6 DEF UpInv, Waiting, Up
    <2>3. \A g \in Up : outcome'[g] = "none" => client.send + 1 <= g
      BY <1>2, <1>4, <2>2 DEF Up
    <2>4. ASSUME NEW g \in Up, NEW h \in Up, outcome'[g] \in {"none", "waiting"}, g < h
          PROVE  outcome'[h] = "none"
      <3>1. outcome[g] = "none" /\ w < g
        BY <2>1, <2>2, <2>4
      <3>2. outcome[h] = "none" /\ h # w
        BY <1>2, <2>4, <3>1 DEF UpInv, Waiting, Up
      <3>. QED BY <1>6, <3>2
    <2>. QED BY <1>1, <1>5, <2>1, <2>3, <2>4 DEF Waiting
  <1>13. \A k \in Requests : Passed(k)' <=> Passed(k)
    BY <1>1 DEF Passed
  <1>14. Taking'
    BY <1>1, <1>3, <1>13 DEF UpInv, Taking
  <1>15. \A ch \in Channels : Gap(ch) => Gap(ch)'
    BY <1>1, <1>3, <1>4, <1>5 DEF Gap
  <1>16. Following'
    <2>1. \A k \in Requests' : conns'[k.ch].open => k.seq <= conns'[k.ch].recv \/ Gap(k.ch)'
      BY <1>1, <1>3, <1>4, <1>15 DEF UpInv, Following
    <2>2. ASSUME conns[client.ch].open
          PROVE  \/ client'.send <= conns[client.ch].recv
                 \/ Gap(client.ch)' /\ Refused'
      <3>1. CASE m.ok
        BY <1>1, <1>4, <1>5, <1>8, <2>2, <3>1 DEF Passed
      <3>2. CASE ~m.ok
        BY <1>1, <1>2, <1>4, <1>6, <1>8, <1>9, <1>15, <2>2, <3>2 DEF Barred, Refused
      <3>. QED BY <3>1, <3>2
    <2>3. client'.ch = client.ch /\ conns' = conns
      BY <1>1
    <2>. QED BY <2>1, <2>2, <2>3 DEF Following, Gap
  <1>17. Answers'
    <2>1. \A k \in Requests : Barred(k) => Barred(k)'
      BY <1>1, <1>3, <1>4, <1>15 DEF Barred
    <2>2. ASSUME NEW a \in Acks'
          PROVE  AckMeans(a)'
      <3>1. PICK k \in Requests :
              /\ k.ch = a.ch /\ k.seq = a.seq
              /\ a.ok => k.frame \in Taken /\ Passed(k)
              /\ ~a.ok => Barred(k) \/ \E l \in Requests : l.ch = k.ch /\ l.seq > k.seq
        BY <1>3 DEF AckMeans, UpInv, Answers
      <3>. QED BY <1>3, <1>13, <2>1, <3>1 DEF AckMeans
    <2>3. \A g \in Up : outcome'[g] = "ok" => g \in Taken'
      BY <1>3, <1>6, <1>8, <1>9 DEF UpInv, Answers
    <2>4. ASSUME NEW g \in Up, outcome'[g] = "refused"
          PROVE  \E k \in Requests' : k.frame = g /\ Barred(k)'
      <3>1. CASE g = w
        BY <1>3, <1>6, <1>9, <2>1, <2>4, <3>1
      <3>2. CASE g # w
        BY <1>3, <1>6, <2>1, <2>4, <3>2 DEF UpInv, Answers
      <3>. QED BY <3>1, <3>2
    <2>. QED BY <2>2, <2>3, <2>4 DEF Answers
  <1>18. InjectedOnce'
    <2>1. \A k \in 1..Len(injected) : injected[k] \in Up
      BY DEF Types
    <2>2. \A g \in Up : outcome[g] = "failed" => outcome'[g] = "failed"
      BY <1>2, <1>6
    <2>. QED BY <1>1, <2>1, <2>2 DEF UpInv, InjectedOnce
  <1>. QED BY <1>10, <1>11, <1>12, <1>14, <1>16, <1>17, <1>18 DEF UpInv

\* What the device acknowledges without taking a frame: the one before, or
\* a number it will never reach again.
LEMMA OtherMeans ==
    ASSUME Types, Owned, UpInv, NEW m \in Requests, conns[m.ch].open, m.seq # conns[m.ch].recv,
           NEW a, a.ch = m.ch, a.seq = m.seq, a.ok <=> m.seq = Before(conns[m.ch].recv)
    PROVE  AckMeans(a)
  <1>. DEFINE q == conns[m.ch].recv
  <1>0. /\ m.ch \in Channels /\ m.seq \in Nat /\ q \in Nat /\ q \in Counters
        /\ m.frame \in Up /\ m.seq <= m.frame
    BY RequestFacts DEF UpInv, Numbering
  <1>1. m.seq < Modulus - 1
    BY <1>0, CountsAssumption DEF Up
  <1>2. CASE a.ok
    <2>1. q # 0
      BY <1>0, <1>1, <1>2, CounterFacts, CountsAssumption
    <2>2. m.seq < q
      BY <1>0, <1>2, <2>1, CounterFacts
    <2>3. m.frame \in Taken
      BY <2>2 DEF UpInv, Taking
    <2>. QED BY <1>2, <2>2, <2>3 DEF AckMeans, Passed
  <1>3. CASE ~a.ok
    <2>1. CASE m.seq < q
      <3>1. q # 0 /\ m.seq # q - 1
        BY <1>0, <1>3, <2>1, CounterFacts
      <3>2. PICK k \in Requests : k.ch = m.ch /\ k.seq = q - 1
        BY <1>0, <3>1 DEF UpInv, Taking
      <3>3. k.seq > m.seq
        BY <1>0, <2>1, <3>1, <3>2
      <3>. QED BY <1>3, <3>2, <3>3 DEF AckMeans
    <2>2. CASE m.seq > q
      <3>1. Gap(m.ch)
        BY <1>0, <2>2 DEF UpInv, Following
      <3>2. m.frame \notin Taken
        <4>. SUFFICES ASSUME m.frame \in Taken PROVE FALSE
          OBVIOUS
        <4>1. PICK n \in Requests : n.frame = m.frame /\ Passed(n)
          BY DEF UpInv, Taking
        <4>2. n.ch = m.ch /\ n.seq = m.seq
          BY <4>1 DEF UpInv, Numbering
        <4>. QED BY <1>0, <2>2, <4>1, <4>2 DEF Passed
      <3>. QED BY <1>3, <3>1, <3>2 DEF AckMeans, Barred
    <2>. QED BY <1>0, <2>1, <2>2
  <1>4. a.ok \/ ~a.ok
    OBVIOUS
  <1>. QED BY <1>2, <1>3, <1>4

\* The device takes a frame: its number was the one it waited for.
LEMMA UpTaken ==
    ASSUME Types, Owned, UpInv, NEW m \in Requests, conns[m.ch].open, TakeExpected(m),
           UNCHANGED clientSide
    PROVE  UpInv'
  <1>. DEFINE q == conns[m.ch].recv
              c == m.ch
  <1>1. /\ m.seq = q /\ c \in Channels /\ q \in Nat
        /\ m.frame \in Up /\ m.seq <= m.frame /\ outcome[m.frame] # "none"
        /\ \A n \in Requests : n.ch \in Channels /\ n.seq \in Nat
        /\ \A ch \in Channels : conns[ch].recv \in Nat
        /\ client.ch # 0 => client.ch \in Channels
    BY RequestFacts DEF TakeExpected, UpInv, Numbering
  <1>2. /\ conns'[c].recv = q + 1 /\ conns'[c].open
        /\ \A ch \in Channels : /\ conns'[ch].open = conns[ch].open
                                /\ ch # c => conns'[ch].recv = conns[ch].recv
    <2>1. After(m.seq) = q + 1
      <3>1. m.seq \in Counters /\ m.seq + 1 < Modulus
        BY <1>1, CountsAssumption, RequestFacts DEF Up
      <3>. QED BY <1>1, <3>1, CounterFacts
    <2>2. conns' = [conns EXCEPT ![c] = [conns[c] EXCEPT !.recv = q + 1]]
      BY <2>1 DEF TakeExpected
    <2>. QED BY <1>1, <2>2 DEF Types, Conn
  <1>3. /\ UNCHANGED <<client, to_server, outcome>> /\ Requests' = Requests /\ Refused' = Refused
    BY DEF clientSide, Requests, Refused
  <1>4. Taken' = Taken \cup {m.frame}
    <2>1. CASE injected' = Append(injected, m.frame) /\ UNCHANGED dropped
      <3>1. /\ \A k \in 1..Len(injected) : injected'[k] = injected[k]
            /\ injected'[Len(injected) + 1] = m.frame
            /\ DOMAIN injected' = 1..(Len(injected) + 1) /\ DOMAIN injected = 1..Len(injected)
            /\ Len(injected) \in Nat
        BY <1>1, <2>1 DEF Types
      <3>2. Range(injected') = Range(injected) \cup {m.frame}
        BY <3>1 DEF Range
      <3>. QED BY <2>1, <3>2 DEF Taken
    <2>2. CASE dropped' = dropped \cup {m.frame} /\ UNCHANGED injected
      BY <2>2 DEF Taken
    <2>. QED BY <2>1, <2>2 DEF TakeExpected
  <1>5. \A a \in Acks' : a \in Acks \/ (a.ch = c /\ a.seq = m.seq /\ a.ok)
    BY DEF TakeExpected, AckFor, Answered, ToClient, Acks
  <1>. HIDE DEF q, c
  <1>6. ~Gap(c)
    BY <1>1 DEF Gap, c, q
  <1>7. m.frame \notin Taken
    <2>. SUFFICES ASSUME m.frame \in Taken PROVE FALSE
      OBVIOUS
    <2>1. PICK n \in Requests : n.frame = m.frame /\ Passed(n)
      BY DEF UpInv, Taking
    <2>2. n.ch = m.ch /\ n.seq = m.seq
      BY <2>1 DEF UpInv, Numbering
    <2>. QED BY <1>1, <2>1, <2>2 DEF Passed, q
  <1>8. \A n \in Requests : Passed(n) => Passed(n)'
    BY <1>1, <1>2 DEF Passed, c, q
  <1>9. Passed(m)'
    BY <1>1, <1>2 DEF Passed, c
  <1>10. Session' /\ Waiting' /\ Numbering'
    BY <1>3 DEF UpInv, Session, Waiting, Numbering, ToServer
  <1>11. Taking'
    <2>1. ASSUME NEW ch \in Channels, conns'[ch].recv # 0
          PROVE  conns'[ch].open /\ \E n \in Requests' : n.ch = ch /\ n.seq = conns'[ch].recv - 1
      <3>1. CASE ch = c
        <4>1. m.seq = conns'[ch].recv - 1 /\ m.ch = ch
          BY <1>1, <1>2, <3>1 DEF c
        <4>. QED BY <1>2, <1>3, <3>1, <4>1
      <3>2. CASE ch # c
        BY <1>2, <1>3, <2>1, <3>2 DEF UpInv, Taking
      <3>. QED BY <3>1, <3>2
    <2>2. \A f \in Taken' : \E n \in Requests' : n.frame = f /\ Passed(n)'
      BY <1>3, <1>4, <1>8, <1>9 DEF UpInv, Taking
    <2>3. ASSUME NEW n \in Requests', conns'[n.ch].open, n.seq < conns'[n.ch].recv
          PROVE  n.frame \in Taken'
      <3>0. n \in Requests /\ n.ch \in Channels /\ n.seq \in Nat
        BY <1>1, <1>3
      <3>1. CASE n.ch # c
        BY <1>2, <1>4, <2>3, <3>0, <3>1 DEF UpInv, Taking
      <3>2. CASE n.ch = c /\ n.seq < q
        <4>1. conns[n.ch].open /\ n.seq < conns[n.ch].recv
          BY <3>2 DEF c, q
        <4>. QED BY <1>4, <3>0, <4>1 DEF UpInv, Taking
      <3>3. CASE n.ch = c /\ n.seq = q
        <4>1. n.frame = m.frame
          BY <1>1, <3>0, <3>3 DEF UpInv, Numbering, c
        <4>. QED BY <1>4, <4>1
      <3>. QED BY <1>1, <1>2, <2>3, <3>0, <3>1, <3>2, <3>3
    <2>. QED BY <2>1, <2>2, <2>3 DEF Taking
  <1>12. \A ch \in Channels : Gap(ch) => Gap(ch)'
    BY <1>2, <1>3, <1>6 DEF Gap
  <1>13. Following'
    <2>1. ASSUME NEW n \in Requests', conns'[n.ch].open
          PROVE  n.seq <= conns'[n.ch].recv \/ Gap(n.ch)'
      <3>1. n \in Requests /\ n.ch \in Channels /\ n.seq \in Nat /\ conns[n.ch].open
        BY <1>1, <1>2, <1>3, <2>1
      <3>2. n.seq <= conns[n.ch].recv \/ Gap(n.ch)
        BY <3>1 DEF UpInv, Following
      <3>3. conns[n.ch].recv <= conns'[n.ch].recv /\ conns[n.ch].recv \in Nat
            /\ conns'[n.ch].recv \in Nat
        BY <1>1, <1>2, <3>1 DEF c, q
      <3>. QED BY <1>12, <3>1, <3>2, <3>3
    <2>2. ASSUME client.state = "connected", conns'[client.ch].open
          PROVE  \/ client.send <= conns'[client.ch].recv
                 \/ Gap(client.ch)' /\ (client.send = 1 \/ Refused)
      <3>1. client.ch \in Channels /\ client.send \in Nat
        BY <1>1, <2>2, RequestFacts DEF UpInv, Session
      <3>2. conns[client.ch].open
        BY <1>2, <2>2, <3>1
      <3>3. \/ client.send <= conns[client.ch].recv
            \/ Gap(client.ch) /\ (client.send = 1 \/ Refused)
        BY <2>2, <3>2 DEF UpInv, Following
      <3>4. conns[client.ch].recv <= conns'[client.ch].recv /\ conns[client.ch].recv \in Nat
            /\ conns'[client.ch].recv \in Nat
        BY <1>1, <1>2, <3>1 DEF c, q
      <3>5. Gap(client.ch) => Gap(client.ch)'
        BY <1>3, <1>12, <3>1 DEF Gap
      <3>. QED BY <3>1, <3>3, <3>4, <3>5
    <2>3. client' = client
      BY <1>3
    <2>. QED BY <1>3, <2>1, <2>2, <2>3 DEF Following, Gap
  <1>14. \A n \in Requests : Barred(n) => n.frame # m.frame
    <2>. SUFFICES ASSUME NEW n \in Requests, Barred(n), n.frame = m.frame PROVE FALSE
      OBVIOUS
    <2>1. n.ch = m.ch
      BY DEF UpInv, Numbering
    <2>. QED BY <1>6, <2>1 DEF Barred, c
  <1>15. \A n \in Requests : Barred(n) => Barred(n)'
    BY <1>1, <1>2, <1>4, <1>12, <1>14 DEF Barred
  <1>16. Answers'
    <2>1. ASSUME NEW a \in Acks'
          PROVE  AckMeans(a)'
      <3>1. CASE a \in Acks
        <4>1. PICK n \in Requests :
                /\ n.ch = a.ch /\ n.seq = a.seq
                /\ a.ok => n.frame \in Taken /\ Passed(n)
                /\ ~a.ok => Barred(n) \/ \E k \in Requests : k.ch = n.ch /\ k.seq > n.seq
          BY <3>1 DEF AckMeans, UpInv, Answers
        <4>. QED BY <1>3, <1>4, <1>8, <1>15, <4>1 DEF AckMeans
      <3>2. CASE a.ch = c /\ a.seq = m.seq /\ a.ok
        BY <1>3, <1>4, <1>9, <3>2 DEF AckMeans, c
      <3>. QED BY <1>5, <3>1, <3>2
    <2>2. \A f \in Up : outcome'[f] = "ok" => f \in Taken'
      BY <1>3, <1>4 DEF UpInv, Answers
    <2>3. \A f \in Up : outcome'[f] = "refused" => \E n \in Requests' : n.frame = f /\ Barred(n)'
      BY <1>3, <1>15 DEF UpInv, Answers
    <2>. QED BY <2>1, <2>2, <2>3 DEF Answers
  <1>17. InjectedOnce'
    <2>0. /\ \A k \in 1..Len(injected) : injected[k] \in Up /\ injected[k] \in Taken
          /\ Len(injected) \in Nat
      BY DEF Types, Taken, Range
    <2>1. CASE UNCHANGED injected
      BY <1>3, <2>1 DEF UpInv, InjectedOnce
    <2>2. CASE injected' = Append(injected, m.frame)
      <3>1. /\ Len(injected') = Len(injected) + 1
            /\ \A k \in 1..Len(injected) : injected'[k] = injected[k]
            /\ injected'[Len(injected) + 1] = m.frame
        BY <1>1, <2>2 DEF Types
      <3>2. ASSUME NEW k \in 1..Len(injected)
            PROVE  /\ injected[k] # m.frame
                   /\ injected[k] > m.frame => outcome[m.frame] = "failed"
        <4>1. injected[k] # m.frame
          BY <1>7, <2>0
        <4>2. outcome[m.frame] # "ok"
          BY <1>1, <1>7 DEF UpInv, Answers
        <4>3. outcome[m.frame] # "refused"
          BY <1>1, <1>14 DEF UpInv, Answers
        <4>4. outcome[injected[k]] # "none"
          BY <2>0 DEF UpInv, Taking, Numbering
        <4>5. outcome[m.frame] = "waiting" /\ m.frame < injected[k] => FALSE
          BY <1>1, <2>0, <4>4 DEF UpInv, Waiting
        <4>6. outcome[m.frame] \in Outcomes
          BY <1>1 DEF Types
        <4>7. m.frame \in Nat /\ injected[k] \in Nat
          BY <1>1, <2>0 DEF Up
        <4>. QED BY <1>1, <4>1, <4>2, <4>3, <4>5, <4>6, <4>7 DEF Outcomes
      <3>3. ASSUME NEW i \in 1..Len(injected'), NEW j \in 1..Len(injected'), i < j
            PROVE  /\ injected'[i] # injected'[j]
                   /\ injected'[i] > injected'[j] => outcome'[injected'[j]] = "failed"
        <4>1. i \in 1..Len(injected)
          BY <2>0, <3>1, <3>3
        <4>2. CASE j \in 1..Len(injected)
          BY <1>3, <3>1, <3>3, <4>1, <4>2 DEF UpInv, InjectedOnce
        <4>3. CASE j = Len(injected) + 1
          BY <1>3, <3>1, <3>2, <4>1, <4>3
        <4>. QED BY <2>0, <3>1, <4>2, <4>3
      <3>. QED BY <3>3 DEF InjectedOnce
    <2>. QED BY <2>1, <2>2 DEF TakeExpected
  <1>. QED BY <1>10, <1>11, <1>13, <1>16, <1>17 DEF UpInv

-----------------------------------------------------------------------------
(* The client's half of the invariant, step by step.                       *)

\* A request that is sent again is one the network has already.
LEMMA UpClient ==
    ASSUME Types, Owned, UpInv,
           \/ StateResponse
           \/ Heartbeat /\ client.heartbeat # "retried"
           \/ AckTimeout /\ ~client.retried
           \/ \E m \in to_client : Indication(m)
    PROVE  UpInv'
  <1>0. \A m \in Acks : AckMeans(m)
    BY DEF UpInv, Answers
  <1>1. CASE StateResponse \/ (Heartbeat /\ client.heartbeat # "retried")
    <2>1. ClientKept /\ UNCHANGED <<conns, to_server, to_client, injected, dropped, outcome>>
      BY <1>1 DEF StateResponse, Heartbeat, serverSide, ClientKept, Types, Client
    <2>2. ChannelsKept /\ Requests' = Requests /\ Acks' = Acks
      BY <2>1 DEF ChannelsKept, Requests, Acks
    <2>. QED BY <1>0, <2>1, <2>2, UpKept
  <1>2. CASE AckTimeout /\ ~client.retried
    <2>1. ClientKept /\ UNCHANGED <<conns, to_client, injected, dropped, outcome>>
      BY <1>2 DEF AckTimeout, serverSide, ClientKept, Types, Client
    <2>2. to_server' = to_server
      BY <1>2 DEF AckTimeout, Sent, UpInv, Waiting, Requests
    <2>3. ChannelsKept /\ Requests' = Requests /\ Acks' = Acks
      BY <2>1, <2>2 DEF ChannelsKept, Requests, Acks
    <2>. QED BY <1>0, <2>1, <2>3, UpKept
  <1>3. ASSUME NEW m \in to_client, Indication(m)
        PROVE  UpInv'
    <2>1. ClientKept /\ UNCHANGED <<conns, to_client, injected, dropped, outcome>>
      BY <1>3 DEF Indication, serverSide, ClientKept, Types, Client
    <2>2. Requests' = Requests
      BY <1>3 DEF Indication, Sent, ToServer, Requests
    <2>3. ChannelsKept /\ Acks' = Acks
      BY <2>1 DEF ChannelsKept, Acks
    <2>. QED BY <1>0, <2>1, <2>2, <2>3, UpKept
  <1>. QED BY <1>1, <1>2, <1>3

\* Every way a session ends.
LEMMA UpOver ==
    ASSUME Types, Owned, UpInv,
           \/ ConnectTimeout \/ CloseTimeout \/ Close
           \/ Heartbeat /\ client.heartbeat = "retried"
           \/ AckTimeout /\ client.retried
           \/ \E m \in to_client : \/ ServerDisconnects(m) \/ Closed(m)
                                   \/ ConnectResponse(m) /\ ~m.ok
    PROVE  UpInv'
  <1>0. client.state \in {"connecting", "closing"} => client.awaiting = 0
    BY SMTT(30) DEF UpInv, Session
  <1>1. UNCHANGED <<conns, to_client, injected, dropped>>
    BY DEF ConnectTimeout, CloseTimeout, Close, Heartbeat, AckTimeout, ServerDisconnects, Closed,
           ConnectResponse, serverSide
  <1>2. Requests' = Requests
    <2>1. CASE Close
      BY <2>1 DEF Close, Sent, ToServer, Requests
    <2>2. CASE ~Close
      <3>1. UNCHANGED to_server
        BY <2>2 DEF ConnectTimeout, CloseTimeout, Heartbeat, AckTimeout, ServerDisconnects, Closed,
                    ConnectResponse
      <3>. QED BY SMTT(30), <3>1 DEF Requests
    <2>. QED BY <2>1, <2>2
  <1>3. Ends
    <2>1. CASE ConnectTimeout
      BY <2>1 DEF ConnectTimeout, Dies, Ends, Types, Client
    <2>2. CASE CloseTimeout
      BY <1>0, <2>2 DEF CloseTimeout, Ends, Types, Client
    <2>3. CASE Close
      BY <2>3 DEF Close, Ends, Types, Client
    <2>4. CASE Heartbeat /\ client.heartbeat = "retried"
      BY <2>4 DEF Heartbeat, Dies, Ends, Types, Client
    <2>5. CASE AckTimeout /\ client.retried
      BY <2>5 DEF AckTimeout, Dies, Ends, Types, Client
    <2>6. CASE \E m \in to_client : ServerDisconnects(m)
      BY <2>6 DEF ServerDisconnects, Dies, Ends, Types, Client
    <2>7. CASE \E m \in to_client : Closed(m)
      BY <1>0, <2>7 DEF Closed, Ends, Types, Client
    <2>8. CASE \E m \in to_client : ConnectResponse(m) /\ ~m.ok
      BY <2>8 DEF ConnectResponse, Dies, Ends, Types, Client
    <2>. QED BY <2>1, <2>2, <2>3, <2>4, <2>5, <2>6, <2>7, <2>8
  <1>. QED BY <1>1, <1>2, <1>3, UpEnds

\* The device's steps that take no frame from the client.
LEMMA UpDevice ==
    ASSUME Types, Owned, UpInv,
           \/ \E m \in to_server : \/ Accept(m) \/ FeatureGet(m) \/ DisconnectRequest(m)
                                   \/ AckReceived(m)
           \/ \E T \in SUBSET Channels : \E how \in [T -> Ways] : Forward(T, how)
           \/ \E ch \in Channels : CheckAckTimeouts(ch) \/ HeartbeatTimeout(ch)
    PROVE  UpInv'
  <1>0. /\ \A m \in Requests : m.ch \in Channels /\ conns[m.ch].sock = m.sock /\ m.sock # 0
        /\ \A m \in Acks : AckMeans(m)
    BY SMTT(30), RequestFacts DEF UpInv, Answers, Types, ServerDatagram
  <1>1. UNCHANGED clientSide /\ UNCHANGED <<injected, dropped>>
    BY DEF Accept, FeatureGet, DisconnectRequest, AckReceived, Forward, CheckAckTimeouts,
           HeartbeatTimeout
  <1>2. Acks' = Acks
    <2>1. CASE UNCHANGED to_client
      BY <2>1 DEF Acks
    <2>2. CASE \E m \in to_server : Accept(m) \/ FeatureGet(m) \/ DisconnectRequest(m)
      <3>1. ASSUME NEW m \in to_server, Accept(m)
            PROVE  Acks' = Acks
        <4>1. \/ Answered({ToClient("connect_res", m.sock, 0, 0, 0, FALSE)})
              \/ \E ch \in Fresh : Answered({ToClient("connect_res", m.sock, ch, 0, 0, TRUE)})
          BY <3>1 DEF Accept
        <4>. QED BY <4>1 DEF Answered, ToClient, Acks
      <3>2. CASE \E m \in to_server : FeatureGet(m)
        BY <3>2 DEF FeatureGet, Answered, ToClient, Acks
      <3>3. CASE \E m \in to_server : DisconnectRequest(m)
        BY <3>3 DEF DisconnectRequest, Answered, ToClient, Acks
      <3>. QED BY <2>2, <3>1, <3>2, <3>3
    <2>3. CASE \E T \in SUBSET Channels : \E how \in [T -> Ways] : Forward(T, how)
      BY <2>3 DEF Forward, Answered, ToClient, Acks
    <2>4. CASE \E ch \in Channels : CheckAckTimeouts(ch)
      BY <2>1, <2>4 DEF CheckAckTimeouts, Answered, ToClient, Acks
    <2>. QED BY <2>1, <2>2, <2>3, <2>4 DEF AckReceived, HeartbeatTimeout
  <1>3. ChannelsKept
    <2>1. ASSUME NEW m \in to_server, Accept(m)
          PROVE  ChannelsKept
      <3>1. CASE UNCHANGED conns
        BY <3>1 DEF ChannelsKept
      <3>2. ASSUME NEW ch \in Fresh, conns' = [conns EXCEPT ![ch] = [NoConn EXCEPT !.open = TRUE, !.sock = m.sock]]
            PROVE  ChannelsKept
        <4>1. ch \in Channels /\ conns[ch].sock = 0 /\ client.ch # ch
          BY <3>2 DEF Fresh, Owned, Channels
        <4>2. \A n \in Requests : n.ch # ch
          BY <1>0, <4>1
        <4>3. conns'[ch].recv = 0 /\ \A d \in Channels : d # ch => conns'[d] = conns[d]
          BY <3>2, <4>1 DEF Types, NoConn
        <4>. QED BY <4>1, <4>2, <4>3 DEF ChannelsKept
      <3>. QED BY <2>1, <3>1, <3>2 DEF Accept
    <2>2. ASSUME NEW ch \in Channels, conns' = [conns EXCEPT ![ch] = Torn(ch)]
          PROVE  ChannelsKept
      <3>1. /\ ~conns'[ch].open /\ conns'[ch].recv = 0
            /\ \A d \in Channels : d # ch => conns'[d] = conns[d]
        BY <2>2 DEF Types, Torn, NoConn
      <3>. QED BY <3>1 DEF ChannelsKept
    <2>3. ASSUME NEW m \in to_server, FeatureGet(m)
          PROVE  ChannelsKept
      BY <2>3 DEF FeatureGet, ChannelsKept
    <2>4. ASSUME NEW m \in to_server, DisconnectRequest(m)
          PROVE  ChannelsKept
      BY <2>2, <2>4 DEF DisconnectRequest, Owned
    <2>5. ASSUME NEW m \in to_server, AckReceived(m)
          PROVE  ChannelsKept
      BY SMTT(30), <2>5 DEF AckReceived, ChannelsKept, Types, Conn, Open
    <2>6. ASSUME NEW T \in SUBSET Channels, NEW how \in [T -> Ways], Forward(T, how)
          PROVE  ChannelsKept
      BY ZenonT(40), <2>6 DEF Forward, Numbered, ChannelsKept, Types, Conn
    <2>7. ASSUME NEW ch \in Channels, CheckAckTimeouts(ch)
          PROVE  ChannelsKept
      <3>1. CASE conns' = [conns EXCEPT ![ch].pending.attempt = 1]
        BY <3>1 DEF ChannelsKept, Types, Conn
      <3>. QED BY <2>2, <2>7, <3>1 DEF CheckAckTimeouts
    <2>8. ASSUME NEW ch \in Channels, HeartbeatTimeout(ch)
          PROVE  ChannelsKept
      BY <2>2, <2>8 DEF HeartbeatTimeout
    <2>. QED BY <2>1, <2>3, <2>4, <2>5, <2>6, <2>7, <2>8
  <1>4. ClientKept /\ Requests' = Requests /\ UNCHANGED outcome
    BY <1>1 DEF clientSide, ClientKept, Requests
  <1>. QED BY <1>0, <1>1, <1>2, <1>3, <1>4, UpKept

\* A request that is not the next one is answered and changes nothing.
LEMMA UpOther ==
    ASSUME Types, Owned, UpInv, NEW m \in Requests, conns[m.ch].open, TakeOther(m),
           UNCHANGED clientSide
    PROVE  UpInv'
  <1>1. /\ UNCHANGED <<conns, injected, dropped, outcome>> /\ ClientKept /\ Requests' = Requests
        /\ ChannelsKept
    BY DEF TakeOther, clientSide, ClientKept, Requests, ChannelsKept
  <1>2. ASSUME NEW a \in Acks'
        PROVE  AckMeans(a)
    <2>1. CASE a \in Acks
      BY <2>1 DEF UpInv, Answers
    <2>2. CASE a \notin Acks
      <3>1. a = ToClient("ack", conns[m.ch].sock, m.ch, m.seq, 0, m.seq = Before(conns[m.ch].recv))
        BY <2>2 DEF TakeOther, AckFor, Answered, Acks
      <3>2. a.ch = m.ch /\ a.seq = m.seq /\ (a.ok <=> m.seq = Before(conns[m.ch].recv))
        BY <3>1 DEF ToClient
      <3>3. m.seq # conns[m.ch].recv
        BY DEF TakeOther
      <3>. QED BY <3>2, <3>3, OtherMeans
    <2>. QED BY <2>1, <2>2
  <1>. QED BY <1>1, <1>2, UpKept

LEMMA UpStep ==
    ASSUME Types, Owned, UpInv, Next
    PROVE  UpInv'
  <1>1. CASE Start
    BY <1>1, UpStart
  <1>2. CASE Close \/ Heartbeat \/ StateResponse
    BY <1>2, UpOver, UpClient
  <1>3. CASE \E f \in Up : SendCemi(f)
    BY <1>3, UpSend
  <1>4. CASE ClientTimers
    BY <1>4, UpOver, UpClient, UpFeature DEF ClientTimers
  <1>5. CASE ClientReceives
    <2>1. CASE \E m \in to_client : ConnectResponse(m) \/ ServerDisconnects(m) \/ Closed(m)
      BY <2>1, UpConnected, UpOver
    <2>2. CASE \E m \in to_client : FeatureResponse(m)
      BY <2>2, UpFeature
    <2>3. CASE \E m \in to_client : TunnelingAck(m)
      BY <2>3, UpAcknowledged
    <2>4. CASE \E m \in to_client : Indication(m)
      BY <2>4, UpClient
    <2>. QED BY <1>5, <2>1, <2>2, <2>3, <2>4 DEF ClientReceives
  <1>6. CASE ServerReceives
    <2>1. ASSUME NEW m \in to_server, TunnelingRequest(m)
          PROVE  UpInv'
      <3>1. m \in Requests /\ conns[m.ch].open /\ UNCHANGED clientSide
        BY <2>1 DEF TunnelingRequest, Requests, Open
      <3>. QED BY <2>1, <3>1, UpTaken, UpOther DEF TunnelingRequest
    <2>2. CASE \E m \in to_server : \/ Accept(m) \/ FeatureGet(m) \/ DisconnectRequest(m)
                                    \/ AckReceived(m)
      BY <2>2, UpDevice
    <2>. QED BY <1>6, <2>1, <2>2 DEF ServerReceives
  <1>7. CASE \/ \E T \in SUBSET Channels : \E how \in [T -> Ways] : Forward(T, how)
             \/ \E ch \in Channels : CheckAckTimeouts(ch) \/ HeartbeatTimeout(ch)
    BY <1>7, UpDevice
  <1>. QED BY <1>1, <1>2, <1>3, <1>4, <1>5, <1>6, <1>7 DEF Next

-----------------------------------------------------------------------------
(* Types.                                                                  *)

\* A sequence and what is appended to it.
LEMMA SeqFacts ==
    ASSUME NEW S, NEW s \in Seq(S)
    PROVE  /\ Len(s) \in Nat /\ \A k \in 1..Len(s) : s[k] \in S
           /\ \A e \in S : /\ Append(s, e) \in Seq(S) /\ Len(Append(s, e)) = Len(s) + 1
                          /\ Append(s, e)[Len(s) + 1] = e
                          /\ \A k \in 1..Len(s) : Append(s, e)[k] = s[k]
  OBVIOUS

\* The fields of the two ends.
LEMMA Fields ==
    ASSUME Types
    PROVE  /\ client.state \in {"none", "connecting", "feature", "connected", "closing", "dead"}
           /\ client.sock \in 0..MaxSessions /\ client.ch \in 0..MaxChannels
           /\ client.send \in Counters /\ client.recv \in Counters
           /\ client.awaiting \in 0..MaxUp /\ client.retried \in BOOLEAN
           /\ client.heartbeat \in {"off", "armed", "waiting", "retried"}
           /\ \A ch \in Channels :
                 /\ conns[ch] \in Conn /\ conns[ch].sock \in 0..MaxSessions
                 /\ conns[ch].recv \in Counters /\ conns[ch].send \in Counters
  BY DEF Types, Client, Conn

\* The client's steps.
LEMMA TypesClient ==
    ASSUME Types, Owned, Session, Down,
           \/ Start \/ Close \/ Heartbeat \/ StateResponse
           \/ \E f \in Up : SendCemi(f)
           \/ ClientTimers \/ ClientReceives
    PROVE  Types'
  <1>0. /\ Modulus \in Nat \ {0} /\ MaxSessions \in Nat \ {0} /\ MaxChannels \in Nat \ {0}
        /\ MaxUp \in Nat /\ MaxDown \in Nat
        /\ client.state \in {"feature", "connected", "closing"} =>
              client.sock \in 1..MaxSessions /\ client.ch \in Channels
        /\ 0 \in Counters /\ 1 \in Counters /\ \A s \in Counters : After(s) \in Counters
        /\ Counters \subseteq Nat /\ 0 \in 0..MaxUp /\ Up \subseteq 0..MaxUp
    BY CountsAssumption, CounterFacts, Fields DEF Session, Owned, Channels, Counters, Up
  <1>1. UNCHANGED serverSide
    BY DEF Start, Close, Heartbeat, StateResponse, SendCemi, ClientTimers, ClientReceives,
           ConnectTimeout, FeatureTimeout, AckTimeout, CloseTimeout, ConnectResponse,
           FeatureResponse, TunnelingAck, Indication, ServerDisconnects, Closed
  <1>2. ASSUME client' \in Client, to_server' \subseteq ServerDatagram,
               outcome' \in [Up -> Outcomes], delivered' \in Seq(1..MaxDown)
        PROVE  Types'
    BY <1>1, <1>2 DEF Types, serverSide
  <1>3. /\ client \in Client /\ to_server \subseteq ServerDatagram
        /\ outcome \in [Up -> Outcomes] /\ delivered \in Seq(1..MaxDown)
    BY DEF Types
  <1>4. CASE Start
    <2>1. client' \in Client
      BY <1>0, <1>4, Fields DEF Start, Started, Client
    <2>2. Connect(client.sock + 1) \in ServerDatagram
      BY <1>0, <1>4, Fields DEF Start, Connect, ServerDatagram
    <2>3. UNCHANGED outcome /\ delivered' = << >> /\ to_server' = to_server \cup {Connect(client.sock + 1)}
      BY <1>4 DEF Start, Sent
    <2>. QED BY <1>2, <1>3, <2>1, <2>2, <2>3
  <1>5. ASSUME NEW type \in {"feature", "request", "ack", "disconnect"}, NEW seq \in Counters,
               NEW frame \in 0..MaxUp, client.state \in {"feature", "connected", "closing"}
        PROVE  ToServer(type, seq, frame) \in ServerDatagram
    BY <1>0, <1>5 DEF ToServer, ServerDatagram, Channels
  <1>6. CASE \/ Close \/ StateResponse \/ CloseTimeout \/ FeatureTimeout
             \/ \E m \in to_client : FeatureResponse(m) \/ Closed(m)
    <2>1. client' \in Client
      <3>1. client \in Client /\ 0 \in Counters
        BY <1>0, <1>3
      <3>2. [client EXCEPT !.state = "closing", !.heartbeat = "off"] \in Client
        BY <3>1 DEF Client
      <3>3. /\ [client EXCEPT !.heartbeat = "armed"] \in Client
            /\ [client EXCEPT !.state = "dead"] \in Client
        BY <3>1 DEF Client
      <3>4. ASSUME NEW c \in Client
            PROVE  Connected(c) \in Client
        BY DEF Connected, Client
      <3>5. [client EXCEPT !.send = 0] \in Client
        BY <3>1 DEF Client
      <3>. QED BY <1>6, <3>1, <3>2, <3>3, <3>4, <3>5
             DEF Close, StateResponse, CloseTimeout, FeatureTimeout, FeatureResponse, Closed
    <2>2. \/ UNCHANGED to_server
          \/ to_server' = to_server \cup {ToServer("disconnect", 0, 0)} /\ client.state = "connected"
      BY <1>6 DEF Close, StateResponse, CloseTimeout, FeatureTimeout, FeatureResponse, Closed, Sent
    <2>3. to_server' \subseteq ServerDatagram
      BY <1>0, <1>3, <1>5, <2>2
    <2>4. UNCHANGED <<outcome, delivered>>
      BY <1>6 DEF Close, StateResponse, CloseTimeout, FeatureTimeout, FeatureResponse, Closed
    <2>. QED BY <1>2, <1>3, <2>1, <2>3, <2>4
  <1>7. ASSUME NEW c \in Client, Dies(c), UNCHANGED <<to_server, delivered>>
        PROVE  Types'
    <2>1. client' \in Client
      BY <1>0, <1>7 DEF Dies, Client
    <2>2. outcome' \in [Up -> Outcomes]
      BY <1>3, <1>7 DEF Dies, Outcomes
    <2>. QED BY <1>2, <1>3, <1>7, <2>1, <2>2
  <1>8. CASE \/ ConnectTimeout
             \/ \E m \in to_client : ServerDisconnects(m) \/ (ConnectResponse(m) /\ ~m.ok)
    BY <1>3, <1>7, <1>8 DEF ConnectTimeout, ServerDisconnects, ConnectResponse
  <1>9. CASE Heartbeat
    <2>1. [client EXCEPT !.heartbeat = "off"] \in Client
      BY <1>3 DEF Client
    <2>2. CASE client.heartbeat = "retried"
      BY <1>7, <1>9, <2>1, <2>2 DEF Heartbeat
    <2>3. CASE client.heartbeat # "retried"
      <3>1. client' \in Client
        BY <1>3, <1>9, <2>3 DEF Heartbeat, Client
      <3>. QED BY <1>2, <1>3, <1>9, <2>3, <3>1 DEF Heartbeat
    <2>. QED BY <2>2, <2>3
  <1>10. ASSUME NEW f \in Up, SendCemi(f)
         PROVE  Types'
    <2>1. client' \in Client
      BY <1>0, <1>3, <1>10 DEF SendCemi, Client
    <2>2. outcome' \in [Up -> Outcomes]
      BY <1>3, <1>10 DEF SendCemi, Outcomes
    <2>3. ToServer("request", client.send, f) \in ServerDatagram
      BY <1>0, <1>5, <1>10, Fields DEF SendCemi
    <2>. QED BY <1>2, <1>3, <1>10, <2>1, <2>2, <2>3 DEF SendCemi, Sent
  <1>11. CASE AckTimeout
    <2>1. CASE client.retried
      BY <1>3, <1>7, <1>11, <2>1 DEF AckTimeout
    <2>2. CASE ~client.retried
      <3>1. client' \in Client
        BY <1>3, <1>11, <2>2 DEF AckTimeout, Client
      <3>2. ToServer("request", client.send, client.awaiting) \in ServerDatagram
        BY <1>5, <1>11, Fields DEF AckTimeout
      <3>. QED BY <1>2, <1>3, <1>11, <2>2, <3>1, <3>2 DEF AckTimeout, Sent
    <2>. QED BY <2>1, <2>2
  <1>12. ASSUME NEW m \in to_client, ConnectResponse(m), m.ok
         PROVE  Types'
    <2>1. m \in ClientDatagram /\ m.sock = client.sock
      BY <1>12 DEF Types, ConnectResponse, Arrives
    <2>2. client' \in Client
      <3>1. client \in Client /\ After(0) \in Counters
        BY <1>0, <1>3
      <3>2. m.ch \in 0..MaxChannels
        BY <2>1 DEF ClientDatagram
      <3>3. [client EXCEPT !.state = "feature", !.ch = m.ch, !.send = After(0)] \in Client
        BY <3>1, <3>2 DEF Client
      <3>. QED BY <1>12, <3>3 DEF ConnectResponse
    <2>3. [Connect(client.sock) EXCEPT !.type = "feature", !.ch = m.ch] \in ServerDatagram
      <3>1. client.sock \in 1..MaxSessions /\ m.ch \in 0..MaxChannels /\ 0 \in 0..MaxChannels
        BY <1>0, <2>1 DEF ClientDatagram
      <3>2. Connect(client.sock) \in ServerDatagram
        BY <1>0, <3>1 DEF Connect, ServerDatagram
      <3>. QED BY <3>1, <3>2 DEF ServerDatagram
    <2>. QED BY <1>2, <1>3, <1>12, <2>2, <2>3 DEF ConnectResponse, Sent
  <1>13. ASSUME NEW m \in to_client, TunnelingAck(m)
         PROVE  Types'
    <2>1. client' \in Client
      BY <1>0, <1>3, <1>13, Fields DEF TunnelingAck, Client
    <2>2. outcome' \in [Up -> Outcomes]
      BY <1>3, <1>13 DEF TunnelingAck, Outcomes
    <2>. QED BY <1>2, <1>3, <1>13, <2>1, <2>2 DEF TunnelingAck
  <1>14. ASSUME NEW m \in to_client, Indication(m)
         PROVE  Types'
    <2>1. m \in ClientDatagram /\ m.type = "request" /\ m.ch = client.ch /\ m.seq \in Counters
          /\ client.state \in {"feature", "connected", "closing"}
      BY <1>14 DEF Types, Indication, OnChannel, Arrives, ClientDatagram
    <2>2. m.frame \in 1..MaxDown
      <3>1. Carried(m.ch, m.seq, m.frame) /\ m.ch \in Channels
        BY <1>0, <2>1 DEF Down
      <3>2. forwarded[m.ch] \in Seq(1..MaxDown)
        BY <3>1 DEF Types
      <3>3. m.seq + 1 \in 1..Len(forwarded[m.ch])
        <4>1. m.seq \in Nat
          BY <1>0, <2>1
        <4>2. Len(forwarded[m.ch]) \in Nat
          BY <3>2, SeqFacts
        <4>3. m.seq < Len(forwarded[m.ch])
          BY <3>1 DEF Carried
        <4>. QED BY <4>1, <4>2, <4>3
      <3>4. forwarded[m.ch][m.seq + 1] \in 1..MaxDown
        BY <3>2, <3>3, SeqFacts
      <3>. QED BY <3>1, <3>4 DEF Carried
    <2>3. client' \in Client
      BY <1>0, <1>3, <1>14, Fields DEF Indication, Client
    <2>4. delivered' \in Seq(1..MaxDown)
      <3>1. delivered' \in {delivered, Append(delivered, m.frame)}
        BY <1>14 DEF Indication
      <3>2. Append(delivered, m.frame) \in Seq(1..MaxDown)
        BY <1>3, <2>2, SeqFacts
      <3>. QED BY <1>3, <3>1, <3>2
    <2>5. ToServer("ack", m.seq, 0) \in ServerDatagram
      BY <1>0, <1>5, <2>1
    <2>. QED BY <1>2, <1>3, <1>14, <2>3, <2>4, <2>5 DEF Indication, Sent
  <1>. QED BY <1>4, <1>6, <1>8, <1>9, <1>10, <1>11, <1>12, <1>13, <1>14
       DEF ClientTimers, ClientReceives

(* What forwarding the frame after K does: on every channel of T it is      *)
(* numbered with its place among the frames of that channel.               *)
Forwards(T, how, K) ==
    /\ Frames = 1..K /\ K + 1 \in 1..MaxDown /\ K + 1 < Modulus
    /\ \A ch \in Channels : Len(forwarded[ch]) <= K
    /\ \A ch \in T : /\ conns[ch].open /\ conns[ch].send = Len(forwarded[ch])
                    /\ conns'[ch] = Numbered(conns[ch], how[ch], K + 1)
                    /\ After(conns[ch].send) = conns[ch].send + 1
                    /\ forwarded'[ch] = Append(forwarded[ch], K + 1)
    /\ \A ch \in Channels \ T : conns'[ch] = conns[ch] /\ forwarded'[ch] = forwarded[ch]
    /\ \A m \in to_client' :
          \/ m \in to_client
          \/ \E ch \in T : m = ToClient("request", conns[ch].sock, ch, conns[ch].send, K + 1, TRUE)
    /\ UNCHANGED <<injected, dropped, clientSide>>

LEMMA ForwardFacts ==
    ASSUME Types, Owned, Down, NEW T \in SUBSET Channels, NEW how \in [T -> Ways], Forward(T, how)
    PROVE  \E K \in Nat : Forwards(T, how, K)
  <1>1. PICK K \in 0..MaxDown : Frames = 1..K /\ \A ch \in Channels : Len(forwarded[ch]) <= K
    BY DEF Down
  <1>2. K \in Nat /\ MaxDown \in Nat /\ Modulus \in Nat /\ MaxDown < Modulus
    BY <1>1, CountsAssumption
  <1>3. Cardinality(Frames) = K
    <2>1. Cardinality(1..K) = IF 1 > K THEN 0 ELSE K - 1 + 1
      BY <1>2, FS_Interval
    <2>. QED BY <1>1, <1>2, <2>1
  <1>4. K < MaxDown
    BY <1>3 DEF Forward
  <1>5. K + 1 \in 1..MaxDown /\ K + 1 < Modulus
    BY <1>2, <1>4
  <1>6. /\ conns' = [ch \in Channels |-> IF ch \in T THEN Numbered(conns[ch], how[ch], K + 1)
                                         ELSE conns[ch]]
        /\ forwarded' = [ch \in Channels |-> IF ch \in T THEN Append(forwarded[ch], K + 1)
                                             ELSE forwarded[ch]]
        /\ UNCHANGED <<injected, dropped, clientSide>> /\ T \subseteq Open
    BY <1>3 DEF Forward
  <1>7. \A m \in to_client' : \/ m \in to_client
                             \/ \E ch \in T : m = ToClient("request", conns[ch].sock, ch, conns[ch].send, K + 1, TRUE)
    BY <1>3 DEF Forward, Answered
  <1>8. ASSUME NEW ch \in T
        PROVE  /\ conns[ch].open /\ conns[ch].send = Len(forwarded[ch])
               /\ After(conns[ch].send) = conns[ch].send + 1
    <2>1. conns[ch].open /\ conns[ch].send = Len(forwarded[ch]) /\ conns[ch].send \in Counters
      BY <1>6, <1>8, Fields DEF Open, Down
    <2>2. conns[ch].send <= K /\ conns[ch].send \in Nat
      BY <1>1, <1>8, <2>1, CountsAssumption DEF Counters
    <2>3. conns[ch].send + 1 < Modulus
      BY <1>2, <1>5, <2>2
    <2>. QED BY <2>1, <2>3, CounterFacts
  <1>9. \A ch \in T : /\ conns'[ch] = Numbered(conns[ch], how[ch], K + 1)
                      /\ forwarded'[ch] = Append(forwarded[ch], K + 1)
    BY <1>6
  <1>10. \A ch \in Channels \ T : conns'[ch] = conns[ch] /\ forwarded'[ch] = forwarded[ch]
    BY <1>6
  <1>. QED BY <1>1, <1>2, <1>5, <1>6, <1>7, <1>8, <1>9, <1>10 DEF Forwards

\* The device's steps.
LEMMA TypesDevice ==
    ASSUME Types, Owned, UpInv, Down,
           \/ ServerReceives
           \/ \E T \in SUBSET Channels : \E how \in [T -> Ways] : Forward(T, how)
           \/ \E ch \in Channels : CheckAckTimeouts(ch) \/ HeartbeatTimeout(ch)
    PROVE  Types'
  <1>0. /\ Modulus \in Nat \ {0} /\ MaxSessions \in Nat \ {0} /\ MaxChannels \in Nat \ {0}
        /\ MaxUp \in Nat /\ MaxDown \in Nat /\ MaxStarved \in Nat
        /\ 0 \in Counters /\ \A s \in Counters : After(s) \in Counters
        /\ 0 \in 0..MaxDown /\ 0 \in 0..MaxSessions /\ 0 \in 0..MaxChannels
        /\ \A ch \in Channels : ch \in 0..MaxChannels
        /\ \A k \in 1..MaxSessions : k \in 0..MaxSessions
    BY CountsAssumption, CounterFacts DEF Channels
  <1>1. /\ conns \in [Channels -> Conn] /\ to_client \subseteq ClientDatagram
        /\ injected \in Seq(Up) /\ dropped \subseteq Up
        /\ forwarded \in [Channels -> Seq(1..MaxDown)] /\ starved \in 0..MaxStarved
        /\ to_server \subseteq ServerDatagram
    BY SMTT(30) DEF Types
  <1>2. UNCHANGED clientSide
    BY DEF ServerReceives, Accept, FeatureGet, DisconnectRequest, TunnelingRequest, AckReceived,
           Forward, CheckAckTimeouts, HeartbeatTimeout
  <1>3. ASSUME conns' \in [Channels -> Conn], to_client' \subseteq ClientDatagram,
               injected' \in Seq(Up), dropped' \subseteq Up,
               forwarded' \in [Channels -> Seq(1..MaxDown)], starved' \in 0..MaxStarved
        PROVE  Types'
    BY <1>2, <1>3 DEF Types, clientSide
  <1>4. /\ \A m \in to_server : m \in ServerDatagram /\ m.sock \in 1..MaxSessions
                                 /\ m.ch \in 0..MaxChannels /\ m.seq \in Counters
        /\ \A ch \in Open : ch \in Channels /\ conns[ch].sock \in 1..MaxSessions
        /\ \A m \in to_server : m.type # "connect" => m.ch \in Channels
    BY SMTT(30), <1>0, <1>1, Fields DEF ServerDatagram, Open, Owned
  <1>5. ASSUME NEW sock \in 1..MaxSessions, NEW ch \in 0..MaxChannels, NEW seq \in Counters,
               NEW frame \in 0..MaxDown, NEW ok \in BOOLEAN,
               NEW type \in {"connect_res", "feature_res", "request", "ack", "disconnect",
                             "disconnect_res"}
        PROVE  ToClient(type, sock, ch, seq, frame, ok) \in ClientDatagram
    BY DEF ToClient, ClientDatagram
  <1>6. NoFrame \in [seq : Counters, frame : 0..MaxDown, attempt : {0, 1}]
    BY <1>0 DEF NoFrame
  <1>7. NoConn \in Conn
    BY <1>0, <1>6 DEF NoConn, Conn
  <1>8. ASSUME NEW ch \in Channels
        PROVE  Torn(ch) \in Conn
    BY <1>7, Fields DEF Torn, Conn
  <1>9. Starve => starved' \in 0..MaxStarved
    BY <1>0, <1>1 DEF Starve
  <1>10. ASSUME NEW m \in to_server, Accept(m)
         PROVE  Types'
    <2>1. UNCHANGED <<injected, dropped, forwarded, starved>>
      BY <1>10 DEF Accept
    <2>2. CASE Cardinality(Open) < Capacity
      <3>1. PICK ch \in Fresh :
              /\ conns' = [conns EXCEPT ![ch] = [NoConn EXCEPT !.open = TRUE, !.sock = m.sock]]
              /\ Answered({ToClient("connect_res", m.sock, ch, 0, 0, TRUE)})
        BY <1>10, <2>2 DEF Accept
      <3>2. [NoConn EXCEPT !.open = TRUE, !.sock = m.sock] \in Conn
        BY <1>0, <1>4, <1>7 DEF Conn
      <3>3. conns' \in [Channels -> Conn]
        BY <1>1, <3>1, <3>2
      <3>4. to_client' \subseteq ClientDatagram
        <4>1. ToClient("connect_res", m.sock, ch, 0, 0, TRUE) \in ClientDatagram
          BY <1>0, <1>4, <1>5 DEF Fresh
        <4>. QED BY <1>1, <3>1, <4>1 DEF Answered
      <3>. QED BY <1>1, <1>3, <2>1, <3>3, <3>4
    <2>3. CASE ~(Cardinality(Open) < Capacity)
      <3>1. UNCHANGED conns /\ Answered({ToClient("connect_res", m.sock, 0, 0, 0, FALSE)})
        BY <1>10, <2>3 DEF Accept
      <3>2. to_client' \subseteq ClientDatagram
        <4>1. ToClient("connect_res", m.sock, 0, 0, 0, FALSE) \in ClientDatagram
          BY <1>0, <1>4, <1>5
        <4>. QED BY <1>1, <3>1, <4>1 DEF Answered
      <3>. QED BY <1>1, <1>3, <2>1, <3>1, <3>2
    <2>. QED BY <2>2, <2>3
  <1>11. ASSUME NEW m \in to_server, FeatureGet(m)
         PROVE  Types'
    <2>0. ToClient("feature_res", conns[m.ch].sock, m.ch, m.seq, 0, TRUE) \in ClientDatagram
      BY <1>0, <1>4, <1>5, <1>11 DEF FeatureGet
    <2>1. to_client' \subseteq ClientDatagram
      BY <1>1, <1>11, <2>0 DEF FeatureGet, Answered
    <2>. QED BY <1>1, <1>3, <1>11, <2>1 DEF FeatureGet
  <1>12. ASSUME NEW m \in to_server, DisconnectRequest(m)
         PROVE  Types'
    <2>0. ToClient("disconnect_res", m.sock, m.ch, 0, 0, TRUE) \in ClientDatagram
      BY <1>0, <1>4, <1>5
    <2>1. to_client' \subseteq ClientDatagram
      BY <1>1, <1>12, <2>0 DEF DisconnectRequest, Answered
    <2>2. conns' \in [Channels -> Conn]
      BY <1>1, <1>4, <1>8, <1>12 DEF DisconnectRequest
    <2>. QED BY <1>1, <1>3, <1>12, <2>1, <2>2 DEF DisconnectRequest
  <1>13. ASSUME NEW m \in to_server, TunnelingRequest(m)
         PROVE  Types'
    <2>1. /\ m.ch \in Channels /\ m.ch \in Open /\ m.frame \in Up /\ UNCHANGED forwarded
          /\ TakeExpected(m) \/ TakeOther(m)
      BY <1>4, <1>13 DEF TunnelingRequest, UpInv, Numbering, Requests
    <2>2. ASSUME NEW ok \in BOOLEAN, AckFor(m, ok)
          PROVE  to_client' \subseteq ClientDatagram
      BY <1>0, <1>1, <1>4, <1>5, <2>1, <2>2 DEF AckFor, Answered
    <2>3. CASE TakeExpected(m)
      <3>1. conns' \in [Channels -> Conn]
        <4>1. [conns[m.ch] EXCEPT !.recv = After(m.seq)] \in Conn
          <5>1. conns[m.ch] \in Conn /\ After(m.seq) \in Counters
            BY <1>0, <1>1, <1>4, <2>1
          <5>. QED BY <5>1 DEF Conn
        <4>2. conns' = [conns EXCEPT ![m.ch] = [conns[m.ch] EXCEPT !.recv = After(m.seq)]]
          BY <2>3 DEF TakeExpected
        <4>. QED BY <1>1, <2>1, <4>1, <4>2
      <3>2. to_client' \subseteq ClientDatagram
        BY <1>1, <2>2, <2>3 DEF TakeExpected
      <3>3. injected' \in {injected, Append(injected, m.frame)} /\ dropped' \subseteq Up
        BY <1>1, <2>1, <2>3 DEF TakeExpected
      <3>4. injected' \in Seq(Up)
        <4>1. Append(injected, m.frame) \in Seq(Up)
          BY <1>1, <2>1, SeqFacts
        <4>. QED BY <1>1, <3>3, <4>1
      <3>5. starved' \in 0..MaxStarved
        BY <1>1, <1>9, <2>3 DEF TakeExpected
      <3>. QED BY <1>1, <1>3, <2>1, <3>1, <3>2, <3>3, <3>4, <3>5
    <2>4. CASE TakeOther(m)
      <3>1. to_client' \subseteq ClientDatagram
        BY <2>2, <2>4 DEF TakeOther
      <3>. QED BY <1>1, <1>3, <2>1, <2>4, <3>1 DEF TakeOther
    <2>. QED BY <2>1, <2>3, <2>4
  <1>14. ASSUME NEW m \in to_server, AckReceived(m)
         PROVE  Types'
    <2>1. m.ch \in Channels /\ conns' = [conns EXCEPT ![m.ch] = [conns[m.ch] EXCEPT !.pending = NoFrame]]
      BY <1>4, <1>14 DEF AckReceived
    <2>2. [conns[m.ch] EXCEPT !.pending = NoFrame] \in Conn
      <3>1. conns[m.ch] \in Conn
        BY <1>1, <2>1
      <3>. QED BY <1>6, <3>1 DEF Conn
    <2>. QED BY <1>1, <1>3, <1>14, <2>1, <2>2 DEF AckReceived
  <1>15. ASSUME NEW ch \in Channels, HeartbeatTimeout(ch)
         PROVE  Types'
    <2>1. conns' \in [Channels -> Conn]
      BY <1>1, <1>8, <1>15 DEF HeartbeatTimeout
    <2>. QED BY <1>1, <1>3, <1>15, <2>1 DEF HeartbeatTimeout
  <1>16. ASSUME NEW ch \in Channels, CheckAckTimeouts(ch)
         PROVE  Types'
    <2>0. /\ ch \in Open /\ conns[ch].sock \in 1..MaxSessions
          /\ conns[ch].pending \in [seq : Counters, frame : 0..MaxDown, attempt : {0, 1}]
          /\ UNCHANGED <<injected, dropped, forwarded>>
      BY <1>1, <1>4, <1>16 DEF CheckAckTimeouts, Conn
    <2>1. CASE conns[ch].pending.attempt < 1
      <3>1. conns' \in [Channels -> Conn]
        <4>1. [conns[ch].pending EXCEPT !.attempt = 1] \in [seq : Counters, frame : 0..MaxDown, attempt : {0, 1}]
          BY <2>0
        <4>2. [conns[ch] EXCEPT !.pending = [conns[ch].pending EXCEPT !.attempt = 1]] \in Conn
          BY ZenonT(40), <1>1, <4>1 DEF Conn
        <4>3. conns' = [conns EXCEPT ![ch] = [conns[ch] EXCEPT !.pending = [conns[ch].pending EXCEPT !.attempt = 1]]]
          BY <1>16, <2>1 DEF CheckAckTimeouts
        <4>. QED BY <1>1, <4>2, <4>3
      <3>2. ToClient("request", conns[ch].sock, ch, conns[ch].pending.seq, conns[ch].pending.frame, TRUE)
              \in ClientDatagram
        BY <1>0, <1>5, <2>0
      <3>3. to_client' \subseteq ClientDatagram /\ starved' \in 0..MaxStarved
        BY <1>1, <1>9, <1>16, <2>1, <3>2 DEF CheckAckTimeouts, Answered
      <3>. QED BY <1>1, <1>3, <2>0, <3>1, <3>3
    <2>2. CASE ~(conns[ch].pending.attempt < 1)
      <3>1. conns' \in [Channels -> Conn]
        BY <1>1, <1>8, <1>16, <2>2 DEF CheckAckTimeouts
      <3>2. ToClient("disconnect", conns[ch].sock, ch, 0, 0, TRUE) \in ClientDatagram
        BY <1>0, <1>5, <2>0
      <3>3. to_client' \subseteq ClientDatagram /\ starved' \in 0..MaxStarved
        BY <1>1, <1>16, <2>2, <3>2 DEF CheckAckTimeouts, Answered
      <3>. QED BY <1>1, <1>3, <2>0, <3>1, <3>3
    <2>. QED BY <2>1, <2>2
  <1>17. ASSUME NEW T \in SUBSET Channels, NEW how \in [T -> Ways], Forward(T, how)
         PROVE  Types'
    <2>0. PICK K \in Nat : Forwards(T, how, K)
      BY <1>17, ForwardFacts
    <2>1. /\ K + 1 \in 1..MaxDown
          /\ \A ch \in T : /\ conns[ch].open /\ conns'[ch] = Numbered(conns[ch], how[ch], K + 1)
                          /\ forwarded'[ch] = Append(forwarded[ch], K + 1)
          /\ \A ch \in Channels \ T : conns'[ch] = conns[ch] /\ forwarded'[ch] = forwarded[ch]
          /\ \A m \in to_client' :
                \/ m \in to_client
                \/ \E ch \in T : m = ToClient("request", conns[ch].sock, ch, conns[ch].send, K + 1, TRUE)
          /\ UNCHANGED <<injected, dropped>>
      BY <2>0 DEF Forwards
    <2>2. K + 1 \in 0..MaxDown
      BY <1>0, <2>1
    <2>3. ASSUME NEW ch \in Channels
          PROVE  conns'[ch] \in Conn /\ forwarded'[ch] \in Seq(1..MaxDown)
      <3>1. CASE ch \in T
        <4>1. conns[ch] \in Conn /\ conns[ch].send \in Counters /\ After(conns[ch].send) \in Counters
          BY <1>0, Fields
        <4>2. [seq |-> conns[ch].send, frame |-> K + 1, attempt |-> 0]
                \in [seq : Counters, frame : 0..MaxDown, attempt : {0, 1}]
          BY <2>2, <4>1
        <4>3. Numbered(conns[ch], how[ch], K + 1) \in Conn
          BY <4>1, <4>2 DEF Numbered, Conn
        <4>4. Append(forwarded[ch], K + 1) \in Seq(1..MaxDown)
          BY <1>1, <2>1, SeqFacts
        <4>. QED BY <2>1, <3>1, <4>3, <4>4
      <3>2. CASE ch \notin T
        BY <1>1, <2>1, <3>2
      <3>. QED BY <3>1, <3>2
    <2>4. conns' \in [Channels -> Conn] /\ forwarded' \in [Channels -> Seq(1..MaxDown)]
      <3>1. /\ conns' = [ch \in Channels |-> conns'[ch]]
            /\ forwarded' = [ch \in Channels |-> forwarded'[ch]]
        BY <1>17 DEF Forward
      <3>. QED BY <2>3, <3>1
    <2>5. to_client' \subseteq ClientDatagram
      <3>1. \A ch \in T : ch \in Open /\ conns[ch].send \in Counters
        BY <2>1, Fields DEF Open
      <3>2. \A ch \in T : ToClient("request", conns[ch].sock, ch, conns[ch].send, K + 1, TRUE)
                           \in ClientDatagram
        BY <1>0, <1>4, <1>5, <2>2, <3>1
      <3>. QED BY <1>1, <2>1, <3>2
    <2>6. starved' \in 0..MaxStarved
      BY <1>1, <1>9, <1>17 DEF Forward
    <2>. QED BY <1>1, <1>3, <2>1, <2>4, <2>5, <2>6
  <1>. QED BY <1>10, <1>11, <1>12, <1>13, <1>14, <1>15, <1>16, <1>17 DEF ServerReceives

-----------------------------------------------------------------------------
(* Who a datagram comes from, and the frames for the client.               *)

LEMMA OwnedKept ==
    ASSUME Types, Owned, client'.sock = client.sock, client'.ch = client.ch,
           \A m \in to_server' :
              \/ m \in to_server
              \/ m.sock = client.sock /\ m.ch = client.ch /\ client.ch # 0,
           \A m \in to_client' :
              \/ m \in to_client
              \/ /\ m.sock <= client.sock
                 /\ \/ m.type = "connect_res" /\ ~m.ok
                    \/ m.ch \in Channels /\ conns'[m.ch].sock = m.sock,
           \A ch \in Channels : /\ conns'[ch].sock = conns[ch].sock \/ conns[ch].sock = 0
                                /\ conns'[ch].sock <= client.sock
                                /\ conns'[ch].open => conns'[ch].sock # 0
    PROVE  Owned'
  <1>0. /\ client.ch # 0 => client.ch \in Channels
        /\ \A m \in to_server : m.sock # 0
        /\ \A m \in to_client : m.sock # 0
    BY Fields DEF Types, ServerDatagram, ClientDatagram, Channels
  <1>1. ASSUME NEW m \in to_server'
        PROVE  /\ m.sock <= client'.sock
               /\ m.type # "connect" => m.ch \in Channels /\ conns'[m.ch].sock = m.sock
               /\ m.type # "connect" /\ m.sock = client'.sock => m.ch = client'.ch
    <2>1. CASE m \in to_server
      BY <1>0, <2>1 DEF Owned
    <2>2. CASE m.sock = client.sock /\ m.ch = client.ch /\ client.ch # 0
      BY <1>0, <2>2, Fields DEF Owned
    <2>. QED BY <1>1, <2>1, <2>2
  <1>2. ASSUME NEW m \in to_client'
        PROVE  /\ m.sock <= client'.sock
               /\ ~(m.type = "connect_res" /\ ~m.ok) => m.ch \in Channels /\ conns'[m.ch].sock = m.sock
    <2>1. CASE m \in to_client
      BY <1>0, <2>1 DEF Owned
    <2>2. CASE m \notin to_client
      BY <1>2, <2>2
    <2>. QED BY <2>1, <2>2
  <1>3. client'.ch # 0 => client'.sock # 0 /\ conns'[client'.ch].sock = client'.sock
    BY <1>0 DEF Owned
  <1>. QED BY <1>1, <1>2, <1>3 DEF Owned

\* The device adds what it likes to the network, on channels that are open.
LEMMA DownKept ==
    ASSUME Types, Down, UNCHANGED <<forwarded, delivered>>,
           client'.recv = client.recv, client'.ch = client.ch,
           \A ch \in Channels :
              /\ conns'[ch].open => \/ conns[ch].open /\ conns'[ch].send = conns[ch].send
                                    \/ conns[ch].sock = 0 /\ conns'[ch].send = 0
              /\ conns'[ch].sock = 0 => conns[ch].sock = 0
              /\ conns'[ch].pending # NoFrame => /\ conns[ch].pending # NoFrame
                                                 /\ conns'[ch].pending.seq = conns[ch].pending.seq
                                                 /\ conns'[ch].pending.frame = conns[ch].pending.frame,
           \A m \in to_client' : m.type = "request" => m \in to_client \/ Carried(m.ch, m.seq, m.frame)
    PROVE  Down'
  <1>1. Frames' = Frames
    BY DEF Frames
  <1>2. \A ch, seq, frame : Carried(ch, seq, frame)' <=> Carried(ch, seq, frame)
    BY DEF Carried
  <1>3. \A ch \in Channels : conns'[ch].open => conns'[ch].send = Len(forwarded'[ch])
    <2>1. Len(<< >>) = 0
      OBVIOUS
    <2>. QED BY <2>1 DEF Down
  <1>4. \A ch \in Channels : conns'[ch].sock = 0 => forwarded'[ch] = << >>
    BY DEF Down
  <1>5. \A ch \in Channels : conns'[ch].pending # NoFrame =>
          Carried(ch, conns'[ch].pending.seq, conns'[ch].pending.frame)
    BY DEF Down
  <1>6. \A m \in to_client' : m.type = "request" => Carried(m.ch, m.seq, m.frame)
    BY DEF Down
  <1>7. \E K \in 0..MaxDown : Frames' = 1..K /\ \A ch \in Channels : Len(forwarded'[ch]) <= K
    BY <1>1 DEF Down
  <1>8. /\ client'.recv = Len(delivered') /\ (client'.ch = 0 => delivered' = << >>)
        /\ client'.ch # 0 => /\ Len(delivered') <= Len(forwarded'[client'.ch])
                             /\ \A k \in 1..Len(delivered') : delivered'[k] = forwarded'[client'.ch][k]
    BY DEF Down
  <1>. QED BY <1>3, <1>4, <1>5, <1>6, <1>7, <1>8 DEF Down, Carried

\* No channel is opened.
LEMMA FewOpen ==
    ASSUME Types, Few, \A ch \in Channels : conns'[ch].open => conns[ch].open
    PROVE  Few'
  <1>1. Open' \subseteq Open /\ Open \subseteq 1..MaxChannels
    BY DEF Open, Channels
  <1>2. IsFiniteSet(Open)
    <2>1. IsFiniteSet(1..MaxChannels)
      BY FS_Interval, CountsAssumption
    <2>. QED BY <1>1, <2>1, FS_Subset
  <1>3. Cardinality(Open') <= Cardinality(Open) /\ Cardinality(Open) \in Nat /\ Cardinality(Open') \in Nat
    BY <1>1, <1>2, FS_Subset, FS_CardinalityType
  <1>. QED BY <1>3, CountsAssumption DEF Few

\* The client's steps.
LEMMA RestClient ==
    ASSUME Types, Few, Owned, Session, Down,
           \/ Start \/ Close \/ Heartbeat \/ StateResponse
           \/ \E f \in Up : SendCemi(f)
           \/ ClientTimers \/ ClientReceives
    PROVE  Few' /\ Owned' /\ Down'
  <1>0. /\ client.state \in {"feature", "connected", "closing"} => client.ch # 0
        /\ client.state \in {"none", "connecting"} => client.ch = 0
        /\ client.ch # 0 => client.ch \in Channels
        /\ client.sock \in Nat
        /\ \A ch \in Channels : conns[ch].sock \in Nat /\ conns[ch].sock <= client.sock
    BY Fields DEF Session, Owned, Channels
  <1>1. UNCHANGED <<conns, to_client, forwarded>>
    BY DEF Start, Close, Heartbeat, StateResponse, SendCemi, ClientTimers, ClientReceives,
           ConnectTimeout, FeatureTimeout, AckTimeout, CloseTimeout, ConnectResponse,
           FeatureResponse, TunnelingAck, Indication, ServerDisconnects, Closed, serverSide
  <1>2. Few'
    BY <1>1, FewOpen
  <1>3. ASSUME client'.sock = client.sock, client'.ch = client.ch, client'.recv = client.recv,
               UNCHANGED delivered,
               \A m \in to_server' : \/ m \in to_server
                                     \/ m.sock = client.sock /\ m.ch = client.ch /\ client.ch # 0
        PROVE  Owned' /\ Down'
    <2>1. Owned'
      BY <1>1, <1>3, OwnedKept DEF Owned
    <2>2. \A m \in to_client' : m.type = "request" => m \in to_client
      BY <1>1
    <2>3. Down'
      BY <1>1, <1>3, <2>2, DownKept DEF Down
    <2>. QED BY <2>1, <2>3
  <1>4. CASE Start
    <2>1. /\ client'.sock = client.sock + 1 /\ client'.ch = 0 /\ client'.recv = 0
          /\ delivered' = << >> /\ to_server' = to_server \cup {Connect(client.sock + 1)}
      BY <1>4 DEF Start, Started, Sent
    <2>2. \A m \in to_server' : \/ m \in to_server /\ m.sock \in Nat /\ m.sock <= client.sock
                                \/ m.type = "connect" /\ m.sock = client'.sock
      BY <2>1 DEF Connect, Owned, Types, ServerDatagram
    <2>3. \A m \in to_client : m.sock \in Nat /\ m.sock <= client.sock
      BY DEF Owned, Types, ClientDatagram
    <2>4. Owned'
      BY <1>0, <1>1, <2>1, <2>2, <2>3 DEF Owned
    <2>5. Len(delivered') = 0
      BY <2>1
    <2>6. Frames' = Frames /\ \A ch, seq, frame : Carried(ch, seq, frame)' <=> Carried(ch, seq, frame)
      BY <1>1 DEF Frames, Carried
    <2>7. Down'
      BY <1>1, <2>1, <2>5, <2>6 DEF Down, Carried
    <2>. QED BY <1>2, <2>4, <2>7
  <1>5. ASSUME NEW m \in to_client, ConnectResponse(m), m.ok
        PROVE  Owned' /\ Down'
    <2>1. /\ client'.sock = client.sock /\ client'.ch = m.ch /\ client'.recv = client.recv
          /\ UNCHANGED delivered /\ client.ch = 0 /\ m.sock = client.sock
          /\ to_server' = to_server \cup {[Connect(client.sock) EXCEPT !.type = "feature", !.ch = m.ch]}
      BY <1>0, <1>5 DEF ConnectResponse, Arrives, Sent, Types, Client
    <2>2. m.ch \in Channels /\ conns[m.ch].sock = client.sock /\ client.sock # 0
      BY <1>5, <2>1 DEF Owned, Types, ClientDatagram
    <2>3. ASSUME NEW n \in to_server'
          PROVE  /\ n.sock <= client.sock
                 /\ n.type # "connect" => n.ch \in Channels /\ conns[n.ch].sock = n.sock
                 /\ n.type # "connect" /\ n.sock = client.sock => n.ch = m.ch
      <3>1. CASE n \in to_server
        <4>1. n.type # "connect" => n.ch # 0
          BY <3>1 DEF Owned, Channels
        <4>. QED BY <2>1, <3>1, <4>1 DEF Owned
      <3>2. CASE n.sock = client.sock /\ n.ch = m.ch
        BY <1>0, <2>2, <3>2
      <3>. QED BY <2>1, <3>1, <3>2 DEF Connect
    <2>4. Owned'
      BY <1>1, <2>1, <2>2, <2>3 DEF Owned
    <2>5. delivered = << >> /\ Len(delivered) = 0
      BY <2>1 DEF Down
    <2>6. Len(forwarded[m.ch]) \in Nat
      BY <2>2, SeqFacts DEF Types
    <2>7. Frames' = Frames /\ \A ch, seq, frame : Carried(ch, seq, frame)' <=> Carried(ch, seq, frame)
      BY <1>1 DEF Frames, Carried
    <2>8. /\ client'.recv = Len(delivered') /\ delivered' = << >>
          /\ Len(delivered') <= Len(forwarded'[client'.ch])
          /\ \A k \in 1..Len(delivered') : delivered'[k] = forwarded'[client'.ch][k]
      BY <1>1, <2>1, <2>5, <2>6 DEF Down
    <2>9. Down'
      BY <1>1, <2>7, <2>8 DEF Down, Carried
    <2>. QED BY <2>4, <2>9
  <1>6. ASSUME NEW m \in to_client, Indication(m)
        PROVE  Owned' /\ Down'
    <2>1. /\ client'.sock = client.sock /\ client'.ch = client.ch /\ client.ch # 0
          /\ m.ch = client.ch /\ m.type = "request" /\ m.seq \in Counters
          /\ to_server' = to_server \cup {ToServer("ack", m.seq, 0)}
      BY <1>0, <1>6 DEF Indication, OnChannel, Arrives, Sent, Types, Client, ClientDatagram
    <2>2. \A n \in to_server' : n \in to_server \/ (n.sock = client.sock /\ n.ch = client.ch)
      BY <2>1 DEF ToServer
    <2>3. CASE m.seq # client.recv
      BY <1>3, <1>6, <2>1, <2>2, <2>3 DEF Indication
    <2>4. CASE m.seq = client.recv
      <3>1. client'.recv = After(client.recv) /\ delivered' = Append(delivered, m.frame)
        BY <1>6, <2>4 DEF Indication, Types, Client
      <3>2. Carried(m.ch, m.seq, m.frame) /\ client.recv = Len(delivered)
        BY <2>1 DEF Down
      <3>3. PICK K \in 0..MaxDown : Frames = 1..K /\ \A ch \in Channels : Len(forwarded[ch]) <= K
        BY DEF Down
      <3>4. /\ Len(delivered) \in Nat /\ Len(forwarded[client.ch]) \in Nat
            /\ Len(delivered) < Len(forwarded[client.ch])
            /\ forwarded[client.ch][Len(delivered) + 1] = m.frame
        <4>1. Len(delivered) \in Nat /\ Len(forwarded[client.ch]) \in Nat
          BY <1>0, <2>1, SeqFacts DEF Types
        <4>. QED BY <2>1, <2>4, <3>2, <4>1 DEF Carried
      <3>5. client'.recv = Len(delivered) + 1
        <4>1. Len(delivered) + 1 < Modulus
          BY <1>0, <2>1, <3>3, <3>4, CountsAssumption
        <4>2. client.recv \in Counters
          BY Fields
        <4>. QED BY <3>1, <3>2, <4>1, <4>2, CounterFacts
      <3>6. /\ Len(delivered') = Len(delivered) + 1
            /\ delivered'[Len(delivered) + 1] = m.frame
            /\ \A k \in 1..Len(delivered) : delivered'[k] = delivered[k]
        <4>1. Len(delivered) + 1 \in 1..Len(forwarded[client.ch])
          BY <3>4
        <4>2. forwarded[client.ch] \in Seq(1..MaxDown) /\ delivered \in Seq(1..MaxDown)
          BY <1>0, <2>1 DEF Types
        <4>3. m.frame \in 1..MaxDown
          BY ZenonT(40), <3>4, <4>1, <4>2, SeqFacts
        <4>. QED BY <3>1, <4>2, <4>3, SeqFacts
      <3>7. Len(delivered') <= Len(forwarded[client.ch])
        BY <3>4, <3>6
      <3>8. ASSUME NEW k \in 1..Len(delivered')
            PROVE  delivered'[k] = forwarded[client.ch][k]
        <4>1. k \in 1..Len(delivered) \/ k = Len(delivered) + 1
          BY <3>4, <3>6
        <4>. QED BY <2>1, <3>4, <3>6, <4>1 DEF Down
      <3>9. Owned'
        BY <1>1, <2>1, <2>2, OwnedKept DEF Owned
      <3>10. Frames' = Frames /\ \A ch, seq, frame : Carried(ch, seq, frame)' <=> Carried(ch, seq, frame)
        BY <1>1 DEF Frames, Carried
      <3>11. Down'
        BY <1>1, <2>1, <3>5, <3>6, <3>7, <3>8, <3>10 DEF Down, Carried
      <3>. QED BY <3>9, <3>11
    <2>. QED BY <2>3, <2>4
  <1>7. ASSUME \/ Close \/ Heartbeat \/ StateResponse
               \/ \E f \in Up : SendCemi(f)
               \/ ClientTimers
               \/ \E m \in to_client :
                     \/ ConnectResponse(m) /\ ~m.ok
                     \/ FeatureResponse(m) \/ TunnelingAck(m) \/ ServerDisconnects(m) \/ Closed(m)
        PROVE  Owned' /\ Down'
    <2>1. /\ client'.sock = client.sock /\ client'.ch = client.ch /\ client'.recv = client.recv
          /\ UNCHANGED delivered
      BY ZenonT(40), <1>7 DEF Close, Heartbeat, StateResponse, SendCemi, ClientTimers, ConnectTimeout,
           FeatureTimeout, AckTimeout, CloseTimeout, ConnectResponse, FeatureResponse,
           TunnelingAck, ServerDisconnects, Closed, Dies, Connected, Types, Client
    <2>2. \/ UNCHANGED to_server
          \/ client.state = "connected" /\ \E type, seq, frame : Sent(ToServer(type, seq, frame))
      BY <1>7 DEF Close, Heartbeat, StateResponse, SendCemi, ClientTimers, ConnectTimeout,
           FeatureTimeout, AckTimeout, CloseTimeout, ConnectResponse, FeatureResponse,
           TunnelingAck, ServerDisconnects, Closed
    <2>3. \A m \in to_server' : \/ m \in to_server
                                \/ m.sock = client.sock /\ m.ch = client.ch /\ client.ch # 0
      BY <1>0, <2>2 DEF Sent, ToServer
    <2>. QED BY <1>3, <2>1, <2>3
  <1>. QED BY <1>2, <1>4, <1>5, <1>6, <1>7 DEF ClientReceives

\* The device's steps, but for forwarding.
LEMMA RestDevice ==
    ASSUME Types, Few, Owned, Down,
           \/ ServerReceives
           \/ \E ch \in Channels : CheckAckTimeouts(ch) \/ HeartbeatTimeout(ch)
    PROVE  Few' /\ Owned' /\ Down'
  <1>0. /\ conns \in [Channels -> Conn]
        /\ \A m \in to_server : m.sock <= client.sock /\ m.sock # 0
        /\ \A m \in to_server : m.type # "connect" => m.ch \in Channels /\ conns[m.ch].sock = m.sock
        /\ \A ch \in Channels : /\ conns[ch].sock <= client.sock
                                /\ conns[ch].open => conns[ch].sock # 0
    BY DEF Types, Owned, ServerDatagram
  <1>1. UNCHANGED <<client, to_server, forwarded, delivered>>
    BY DEF ServerReceives, Accept, FeatureGet, DisconnectRequest, TunnelingRequest, AckReceived,
           CheckAckTimeouts, HeartbeatTimeout, clientSide
  <1>2. ASSUME \A ch \in Channels :
                  /\ conns'[ch].sock = conns[ch].sock
                  /\ conns'[ch].open => conns[ch].open /\ conns'[ch].send = conns[ch].send
                  /\ conns'[ch].pending # NoFrame =>
                        /\ conns[ch].pending # NoFrame
                        /\ conns'[ch].pending.seq = conns[ch].pending.seq
                        /\ conns'[ch].pending.frame = conns[ch].pending.frame,
               \A m \in to_client' : m \in to_client \/
                  /\ m.ch \in Channels /\ m.sock = conns[m.ch].sock
                  /\ m.type = "request" => Carried(m.ch, m.seq, m.frame)
        PROVE  Few' /\ Owned' /\ Down'
    <2>1. Few'
      BY <1>2, FewOpen
    <2>2. Owned'
      BY <1>0, <1>1, <1>2, OwnedKept
    <2>3. Down'
      BY <1>1, <1>2, DownKept
    <2>. QED BY <2>1, <2>2, <2>3
  <1>3. ASSUME NEW m \in to_server, Accept(m)
        PROVE  Few' /\ Owned' /\ Down'
    <2>1. CASE Cardinality(Open) < Capacity
      <3>1. PICK ch \in Fresh :
              /\ conns' = [conns EXCEPT ![ch] = [NoConn EXCEPT !.open = TRUE, !.sock = m.sock]]
              /\ Answered({ToClient("connect_res", m.sock, ch, 0, 0, TRUE)})
        BY <1>3, <2>1 DEF Accept
      <3>2. ch \in Channels /\ conns[ch].sock = 0 /\ ~conns[ch].open
        BY DEF Fresh
      <3>3. /\ conns'[ch].sock = m.sock /\ conns'[ch].send = 0 /\ conns'[ch].pending = NoFrame
            /\ conns'[ch].open
            /\ \A d \in Channels : d # ch => conns'[d] = conns[d]
        BY <1>0, <3>1, <3>2 DEF NoConn
      <3>4. \A a \in to_client' : \/ a \in to_client
                                  \/ a.type = "connect_res" /\ a.sock = m.sock /\ a.ch = ch
        BY <3>1 DEF Answered, ToClient
      <3>5. Few'
        <4>1. Open' = Open \cup {ch} /\ ch \notin Open
          BY <3>2, <3>3 DEF Open
        <4>2. IsFiniteSet(1..MaxChannels) /\ Open \subseteq 1..MaxChannels
          BY FS_Interval, CountsAssumption DEF Open, Channels
        <4>3. IsFiniteSet(Open)
          BY <4>2, FS_Subset
        <4>4. Cardinality(Open') = Cardinality(Open) + 1 /\ Cardinality(Open) \in Nat
          BY <4>1, <4>3, FS_AddElement, FS_CardinalityType
        <4>. QED BY <2>1, <4>4, CountsAssumption DEF Few
      <3>6. \A d \in Channels : /\ conns'[d].sock = conns[d].sock \/ conns[d].sock = 0
                                /\ conns'[d].sock <= client.sock
                                /\ conns'[d].open => conns'[d].sock # 0
        BY <1>0, <3>2, <3>3
      <3>7. Owned'
        BY <1>0, <1>1, <3>2, <3>3, <3>4, <3>6, OwnedKept
      <3>8. Down'
        BY <1>0, <1>1, <3>2, <3>3, <3>4, DownKept
      <3>. QED BY <3>5, <3>7, <3>8
    <2>2. CASE ~(Cardinality(Open) < Capacity)
      <3>1. UNCHANGED conns /\ Answered({ToClient("connect_res", m.sock, 0, 0, 0, FALSE)})
        BY <1>3, <2>2 DEF Accept
      <3>2. \A a \in to_client' : \/ a \in to_client
                                  \/ a.type = "connect_res" /\ ~a.ok /\ a.sock = m.sock
        BY <3>1 DEF Answered, ToClient
      <3>3. Few'
        BY <3>1, FewOpen
      <3>4. Owned'
        BY <1>0, <1>1, <3>1, <3>2, OwnedKept
      <3>5. Down'
        BY <1>0, <1>1, <3>1, <3>2, DownKept
      <3>. QED BY <3>3, <3>4, <3>5
    <2>. QED BY <2>1, <2>2
  <1>4. ASSUME NEW ch \in Channels, conns' = [conns EXCEPT ![ch] = Torn(ch)]
        PROVE  \A d \in Channels : /\ conns'[d].sock = conns[d].sock
                                   /\ conns'[d].open => conns[d].open /\ conns'[d].send = conns[d].send
                                   /\ conns'[d].pending # NoFrame => conns'[d].pending = conns[d].pending
    <2>1. /\ conns'[ch].sock = conns[ch].sock /\ ~conns'[ch].open /\ conns'[ch].pending = NoFrame
          /\ \A d \in Channels : d # ch => conns'[d] = conns[d]
      BY <1>0, <1>4 DEF Torn, NoConn
    <2>. QED BY <2>1
  <1>5. ASSUME NEW m \in to_server, FeatureGet(m)
        PROVE  Few' /\ Owned' /\ Down'
    <2>1. UNCHANGED conns /\ m.ch \in Channels
      BY <1>0, <1>5 DEF FeatureGet
    <2>2. \A a \in to_client' : \/ a \in to_client
                                \/ a.type = "feature_res" /\ a.ch = m.ch /\ a.sock = conns[m.ch].sock
      BY <1>5 DEF FeatureGet, Answered, ToClient
    <2>. QED BY <1>2, <2>1, <2>2
  <1>6. ASSUME NEW m \in to_server, DisconnectRequest(m)
        PROVE  Few' /\ Owned' /\ Down'
    <2>1. m.ch \in Channels /\ m.sock = conns[m.ch].sock /\ conns' = [conns EXCEPT ![m.ch] = Torn(m.ch)]
      BY <1>0, <1>6 DEF DisconnectRequest
    <2>2. \A a \in to_client' : \/ a \in to_client
                                \/ a.type = "disconnect_res" /\ a.ch = m.ch /\ a.sock = m.sock
      BY <1>6 DEF DisconnectRequest, Answered, ToClient
    <2>. QED BY <1>2, <1>4, <2>1, <2>2
  <1>7. ASSUME NEW m \in to_server, TunnelingRequest(m)
        PROVE  Few' /\ Owned' /\ Down'
    <2>1. m.ch \in Channels /\ (TakeExpected(m) \/ TakeOther(m))
      BY <1>0, <1>7 DEF TunnelingRequest
    <2>2. \A a \in to_client' : \/ a \in to_client
                                \/ a.type = "ack" /\ a.ch = m.ch /\ a.sock = conns[m.ch].sock
      BY <2>1 DEF TakeExpected, TakeOther, AckFor, Answered, ToClient
    <2>3. \A d \in Channels : /\ conns'[d].sock = conns[d].sock /\ conns'[d].open = conns[d].open
                              /\ conns'[d].send = conns[d].send /\ conns'[d].pending = conns[d].pending
      <3>1. CASE TakeExpected(m)
        BY <1>0, <2>1, <3>1 DEF TakeExpected, Conn
      <3>2. CASE TakeOther(m)
        BY <3>2 DEF TakeOther
      <3>. QED BY <2>1, <3>1, <3>2
    <2>. QED BY <1>2, <2>1, <2>2, <2>3
  <1>8. ASSUME NEW m \in to_server, AckReceived(m)
        PROVE  Few' /\ Owned' /\ Down'
    <2>1. m.ch \in Channels /\ conns' = [conns EXCEPT ![m.ch].pending = NoFrame] /\ UNCHANGED to_client
      BY <1>0, <1>8 DEF AckReceived
    <2>2. /\ conns'[m.ch].sock = conns[m.ch].sock /\ conns'[m.ch].open = conns[m.ch].open
          /\ conns'[m.ch].send = conns[m.ch].send /\ conns'[m.ch].pending = NoFrame
          /\ \A d \in Channels : d # m.ch => conns'[d] = conns[d]
      BY <1>0, <2>1 DEF Conn
    <2>. QED BY <1>2, <2>1, <2>2
  <1>9. ASSUME NEW ch \in Channels, HeartbeatTimeout(ch)
        PROVE  Few' /\ Owned' /\ Down'
    BY <1>2, <1>4, <1>9 DEF HeartbeatTimeout
  <1>10. ASSUME NEW ch \in Channels, CheckAckTimeouts(ch)
         PROVE  Few' /\ Owned' /\ Down'
    <2>1. CASE conns[ch].pending.attempt < 1
      <3>1. conns' = [conns EXCEPT ![ch].pending.attempt = 1] /\ conns[ch].pending # NoFrame
        BY <1>10, <2>1 DEF CheckAckTimeouts
      <3>2. /\ conns'[ch].sock = conns[ch].sock /\ conns'[ch].open = conns[ch].open
            /\ conns'[ch].send = conns[ch].send
            /\ conns'[ch].pending.seq = conns[ch].pending.seq
            /\ conns'[ch].pending.frame = conns[ch].pending.frame
            /\ \A d \in Channels : d # ch => conns'[d] = conns[d]
        BY <1>0, <3>1 DEF Conn
      <3>3. Carried(ch, conns[ch].pending.seq, conns[ch].pending.frame)
        BY <3>1 DEF Down
      <3>4. \A a \in to_client' :
               \/ a \in to_client
               \/ /\ a.ch = ch /\ a.sock = conns[ch].sock
                  /\ a.seq = conns[ch].pending.seq /\ a.frame = conns[ch].pending.frame
        BY <1>10, <2>1 DEF CheckAckTimeouts, Answered, ToClient
      <3>. QED BY <1>2, <3>1, <3>2, <3>3, <3>4
    <2>2. CASE ~(conns[ch].pending.attempt < 1)
      <3>1. conns' = [conns EXCEPT ![ch] = Torn(ch)]
        BY <1>10, <2>2 DEF CheckAckTimeouts
      <3>2. \A a \in to_client' : \/ a \in to_client
                                  \/ a.type = "disconnect" /\ a.ch = ch /\ a.sock = conns[ch].sock
        BY <1>10, <2>2 DEF CheckAckTimeouts, Answered, ToClient
      <3>. QED BY <1>2, <1>4, <3>1, <3>2
    <2>. QED BY <2>1, <2>2
  <1>. QED BY <1>3, <1>5, <1>6, <1>7, <1>8, <1>9, <1>10 DEF ServerReceives

\* A frame forwarded from the bus.
LEMMA RestForward ==
    ASSUME Types, Few, Owned, UpInv, Down, NEW T \in SUBSET Channels, NEW how \in [T -> Ways],
           Forward(T, how)
    PROVE  Few' /\ Owned' /\ Down'
  <1>1. PICK K \in Nat : Forwards(T, how, K)
    BY ForwardFacts
  <1>2. /\ Frames = 1..K /\ K + 1 \in 1..MaxDown
        /\ \A ch \in Channels : Len(forwarded[ch]) <= K
        /\ \A ch \in T : /\ conns[ch].open /\ conns[ch].send = Len(forwarded[ch])
                        /\ conns'[ch] = Numbered(conns[ch], how[ch], K + 1)
                        /\ After(conns[ch].send) = conns[ch].send + 1
                        /\ forwarded'[ch] = Append(forwarded[ch], K + 1)
        /\ \A ch \in Channels \ T : conns'[ch] = conns[ch] /\ forwarded'[ch] = forwarded[ch]
        /\ \A m \in to_client' :
              \/ m \in to_client
              \/ \E ch \in T : m = ToClient("request", conns[ch].sock, ch, conns[ch].send, K + 1, TRUE)
        /\ UNCHANGED <<client, to_server, delivered>>
    BY <1>1 DEF Forwards, clientSide
  <1>3. \A ch \in Channels : conns[ch] \in Conn /\ conns[ch].pending.seq \in Nat
    BY CountsAssumption, Fields DEF Conn, Counters
  <1>4. ASSUME NEW ch \in T
        PROVE  /\ conns'[ch].open = conns[ch].open /\ conns'[ch].sock = conns[ch].sock
               /\ conns'[ch].send = conns[ch].send + 1
               /\ \/ conns'[ch].pending = conns[ch].pending
                  \/ conns'[ch].pending = [seq |-> conns[ch].send, frame |-> K + 1, attempt |-> 0]
    <2>1. conns'[ch] = [conns[ch] EXCEPT
              !.send = After(conns[ch].send),
              !.pending = IF how[ch] = "copied" THEN [seq |-> conns[ch].send, frame |-> K + 1, attempt |-> 0]
                          ELSE conns[ch].pending]
      BY <1>2 DEF Numbered
    <2>2. conns[ch] \in Conn /\ After(conns[ch].send) = conns[ch].send + 1
      BY <1>2, <1>3
    <2>3. CASE how[ch] = "copied"
      BY <2>1, <2>2, <2>3 DEF Conn
    <2>4. CASE how[ch] # "copied"
      BY <2>1, <2>2, <2>4 DEF Conn
    <2>. QED BY <2>3, <2>4
  <1>5. \A ch \in Channels : conns'[ch].open = conns[ch].open /\ conns'[ch].sock = conns[ch].sock
    BY <1>2, <1>4
  <1>6. Few'
    BY <1>5, FewOpen
  <1>7. \A m \in to_client' :
           \/ m \in to_client
           \/ \E ch \in T : /\ m.type = "request" /\ m.sock = conns[ch].sock /\ m.ch = ch
                            /\ m.seq = conns[ch].send /\ m.frame = K + 1
    BY <1>2 DEF ToClient
  <1>8. Owned'
    <2>1. \A ch \in Channels : /\ conns'[ch].sock <= client.sock
                               /\ conns'[ch].open => conns'[ch].sock # 0
      BY <1>5 DEF Owned
    <2>2. \A m \in to_client' : \/ m \in to_client
                                \/ m.sock <= client.sock /\ m.ch \in Channels /\ conns'[m.ch].sock = m.sock
      BY <1>5, <1>7, <2>1
    <2>. QED BY <1>2, <1>5, <2>1, <2>2, OwnedKept
  <1>9. ASSUME NEW ch \in T
        PROVE  /\ Len(forwarded[ch]) \in Nat /\ Len(forwarded'[ch]) = Len(forwarded[ch]) + 1
               /\ forwarded'[ch][Len(forwarded[ch]) + 1] = K + 1
               /\ \A k \in 1..Len(forwarded[ch]) : forwarded'[ch][k] = forwarded[ch][k]
    <2>1. forwarded[ch] \in Seq(1..MaxDown)
      BY DEF Types
    <2>2. forwarded'[ch] = Append(forwarded[ch], K + 1) /\ K + 1 \in 1..MaxDown
      BY <1>2
    <2>. QED BY <2>1, <2>2, SeqFacts
  <1>10. \A ch \in Channels : Len(forwarded[ch]) \in Nat
    BY SeqFacts DEF Types
  <1>11. ASSUME NEW ch \in Channels
         PROVE  /\ Len(forwarded[ch]) <= Len(forwarded'[ch])
                /\ \A k \in 1..Len(forwarded[ch]) : forwarded'[ch][k] = forwarded[ch][k]
                /\ Len(forwarded'[ch]) \in Nat /\ Len(forwarded'[ch]) <= K + 1
    <2>1. CASE ch \in T
      BY <1>2, <1>9, <2>1
    <2>2. CASE ch \notin T
      BY <1>2, <1>10, <2>2
    <2>. QED BY <2>1, <2>2
  <1>12. ASSUME NEW ch \in Channels, NEW seq \in Nat, NEW frame, Carried(ch, seq, frame)
         PROVE  seq < Len(forwarded'[ch]) /\ forwarded'[ch][seq + 1] = frame
    <2>1. seq < Len(forwarded[ch]) /\ forwarded[ch][seq + 1] = frame
      BY <1>12 DEF Carried
    <2>2. seq + 1 \in 1..Len(forwarded[ch])
      BY <1>10, <2>1
    <2>. QED BY <1>10, <1>11, <2>1, <2>2
  <1>13. Frames' = 1..(K + 1)
    <2>1. \A ch \in Channels : /\ DOMAIN forwarded[ch] = 1..Len(forwarded[ch])
                               /\ DOMAIN forwarded'[ch] = 1..Len(forwarded'[ch])
      <3>1. forwarded' \in [Channels -> Seq(1..MaxDown)]
        BY TypesDevice DEF Types
      <3>. QED BY <3>1 DEF Types
    <2>2. \A e : e \in Frames <=> \E ch \in Channels : \E k \in 1..Len(forwarded[ch]) : e = forwarded[ch][k]
      BY <2>1 DEF Frames, ToSet
    <2>3. \A e : e \in Frames' <=> \E ch \in Channels : \E k \in 1..Len(forwarded'[ch]) : e = forwarded'[ch][k]
      BY <2>1 DEF Frames, ToSet
    <2>4. ASSUME NEW e \in Frames'
          PROVE  e \in 1..(K + 1)
      <3>1. PICK ch \in Channels : \E k \in 1..Len(forwarded'[ch]) : e = forwarded'[ch][k]
        BY <2>3, <2>4
      <3>2. PICK k \in 1..Len(forwarded'[ch]) : e = forwarded'[ch][k]
        BY <3>1
      <3>3. CASE k \in 1..Len(forwarded[ch])
        <4>1. e = forwarded[ch][k]
          BY <1>11, <3>2, <3>3
        <4>2. e \in 1..K
          BY <1>2, <2>2, <3>3, <4>1
        <4>. QED BY <4>2
      <3>4. CASE k \notin 1..Len(forwarded[ch])
        <4>1. ch \in T
          BY <1>2, <3>4
        <4>2. k = Len(forwarded[ch]) + 1
          BY <1>9, <3>4, <4>1
        <4>. QED BY <1>9, <3>2, <4>1, <4>2
      <3>. QED BY <3>3, <3>4
    <2>5. ASSUME NEW e \in 1..K
          PROVE  e \in Frames'
      <3>0. e \in Frames
        BY <1>2, <2>5
      <3>1. PICK ch \in Channels : \E k \in 1..Len(forwarded[ch]) : e = forwarded[ch][k]
        BY <2>2, <3>0
      <3>2. PICK k \in 1..Len(forwarded[ch]) : e = forwarded[ch][k]
        BY <3>1
      <3>3. k \in 1..Len(forwarded'[ch]) /\ e = forwarded'[ch][k]
        BY <1>10, <1>11, <3>2
      <3>. QED BY <2>3, <3>3
    <2>6. K + 1 \in Frames'
      <3>1. PICK ch \in T : TRUE
        BY DEF Forward
      <3>2. Len(forwarded[ch]) + 1 \in 1..Len(forwarded'[ch]) /\ ch \in Channels
        BY <1>9
      <3>. QED BY <1>9, <2>3, <3>2
    <2>7. \A e \in 1..(K + 1) : e \in 1..K \/ e = K + 1
      OBVIOUS
    <2>. QED BY <2>4, <2>5, <2>6, <2>7
  <1>14. Down'
    <2>1. \E L \in 0..MaxDown : Frames' = 1..L /\ \A ch \in Channels : Len(forwarded'[ch]) <= L
      <3>1. K + 1 \in 0..MaxDown
        BY <1>2
      <3>. QED BY <1>11, <1>13, <3>1
    <2>2. ASSUME NEW ch \in Channels, conns'[ch].open
          PROVE  conns'[ch].send = Len(forwarded'[ch])
      <3>1. CASE ch \in T
        <4>1. conns'[ch].send = conns[ch].send + 1
          BY <1>4, <3>1
        <4>2. conns[ch].send = Len(forwarded[ch])
          BY <1>2, <3>1
        <4>3. Len(forwarded'[ch]) = Len(forwarded[ch]) + 1
          BY <1>9, <3>1
        <4>. QED BY <4>1, <4>2, <4>3
      <3>2. CASE ch \notin T
        BY <1>2, <2>2, <3>2 DEF Down
      <3>. QED BY <3>1, <3>2
    <2>3. ASSUME NEW ch \in Channels, conns'[ch].sock = 0
          PROVE  forwarded'[ch] = << >>
      <3>1. ch \notin T
        BY <1>2, <1>5, <2>3 DEF Owned
      <3>. QED BY <1>2, <2>3, <3>1 DEF Down
    <2>4. ASSUME NEW ch \in Channels, conns'[ch].pending # NoFrame
          PROVE  /\ conns'[ch].pending.seq < Len(forwarded'[ch])
                 /\ forwarded'[ch][conns'[ch].pending.seq + 1] = conns'[ch].pending.frame
      <3>1. CASE conns'[ch].pending = conns[ch].pending
        <4>1. Carried(ch, conns[ch].pending.seq, conns[ch].pending.frame)
          BY <2>4, <3>1 DEF Down
        <4>. QED BY <1>3, <1>12, <3>1, <4>1
      <3>2. CASE conns'[ch].pending # conns[ch].pending
        <4>1. ch \in T
          BY <1>2, <3>2
        <4>2. conns'[ch].pending.seq = Len(forwarded[ch]) /\ conns'[ch].pending.frame = K + 1
          <5>1. conns'[ch].pending = [seq |-> conns[ch].send, frame |-> K + 1, attempt |-> 0]
            BY <1>4, <3>2, <4>1
          <5>2. conns[ch].send = Len(forwarded[ch])
            BY <1>2, <4>1
          <5>. QED BY <5>1, <5>2
        <4>. QED BY <1>9, <4>1, <4>2
      <3>. QED BY <3>1, <3>2
    <2>5. ASSUME NEW m \in to_client', m.type = "request"
          PROVE  m.seq < Len(forwarded'[m.ch]) /\ forwarded'[m.ch][m.seq + 1] = m.frame
      <3>1. CASE m \in to_client
        <4>1. m.ch \in Channels /\ m.seq \in Nat /\ Carried(m.ch, m.seq, m.frame)
          BY SMTT(30), <2>5, <3>1, CountsAssumption DEF Owned, Down, Types, ClientDatagram, Counters
        <4>. QED BY <1>12, <4>1
      <3>2. CASE \E ch \in T : m.ch = ch /\ m.seq = conns[ch].send /\ m.frame = K + 1
        BY <1>2, <1>9, <3>2
      <3>. QED BY <1>7, <3>1, <3>2
    <2>6. /\ client'.recv = Len(delivered') /\ (client'.ch = 0 => delivered' = << >>)
          /\ client'.ch # 0 => /\ Len(delivered') <= Len(forwarded'[client'.ch])
                               /\ \A k \in 1..Len(delivered') : delivered'[k] = forwarded'[client'.ch][k]
      <3>1. client.ch # 0 => client.ch \in Channels
        BY Fields DEF Channels
      <3>2. Len(delivered) \in Nat
        BY SeqFacts DEF Types
      <3>3. ASSUME client.ch # 0
            PROVE  /\ Len(delivered) <= Len(forwarded'[client.ch])
                   /\ \A k \in 1..Len(delivered) : delivered[k] = forwarded'[client.ch][k]
        <4>1. /\ Len(delivered) <= Len(forwarded[client.ch])
              /\ \A k \in 1..Len(delivered) : delivered[k] = forwarded[client.ch][k]
          BY <3>3 DEF Down
        <4>2. \A k \in 1..Len(delivered) : k \in 1..Len(forwarded[client.ch])
          BY <1>10, <3>1, <3>2, <3>3, <4>1
        <4>. QED BY <1>10, <1>11, <3>1, <3>2, <3>3, <4>1, <4>2
      <3>. QED BY <1>2, <3>3 DEF Down
    <2>. QED BY <2>1, <2>2, <2>3, <2>4, <2>5, <2>6 DEF Down, Carried
  <1>. QED BY <1>6, <1>8, <1>14

-----------------------------------------------------------------------------
(* The theorems.                                                           *)

LEMMA InitInvariant == Init => IInv
  <1>. SUFFICES ASSUME Init PROVE IInv
    OBVIOUS
  <1>0. /\ 0 \in Counters /\ 0 \in 0..MaxSessions /\ 0 \in 0..MaxChannels /\ 0 \in 0..MaxUp
        /\ 0 \in 0..MaxDown /\ 0 \in 0..MaxStarved
    BY CountsAssumption, CounterFacts
  <1>1. /\ client.state = "none" /\ client.sock = 0 /\ client.ch = 0 /\ client.send = 0
        /\ client.recv = 0 /\ client.awaiting = 0 /\ client \in Client
    BY <1>0 DEF Init, Started, Client
  <1>2. /\ \A ch \in Channels : conns[ch] = NoConn
        /\ conns \in [Channels -> Conn]
    <2>1. NoFrame \in [seq : Counters, frame : 0..MaxDown, attempt : {0, 1}]
      BY <1>0 DEF NoFrame
    <2>2. NoConn \in Conn
      BY <1>0, <2>1 DEF NoConn, Conn
    <2>. QED BY <2>2 DEF Init
  <1>3. \A ch \in Channels : /\ ~conns[ch].open /\ conns[ch].sock = 0 /\ conns[ch].recv = 0
                             /\ conns[ch].pending = NoFrame
    BY <1>2 DEF NoConn
  <1>4. /\ to_server = {} /\ to_client = {} /\ injected = << >> /\ dropped = {}
        /\ delivered = << >> /\ starved = 0 /\ Len(injected) = 0 /\ Len(delivered) = 0
        /\ outcome \in [Up -> Outcomes] /\ \A f \in Up : outcome[f] = "none"
        /\ forwarded \in [Channels -> Seq(1..MaxDown)]
        /\ \A ch \in Channels : forwarded[ch] = << >> /\ Len(forwarded[ch]) = 0
    BY DEF Init, Outcomes
  <1>5. Types
    BY <1>0, <1>1, <1>2, <1>4 DEF Types
  <1>6. Few
    <2>1. Open = {}
      BY <1>3 DEF Open
    <2>. QED BY <2>1, FS_EmptySet, CountsAssumption DEF Few
  <1>7. Owned
    BY <1>1, <1>3, <1>4 DEF Owned
  <1>8. Requests = {} /\ Acks = {} /\ Taken = {}
    <2>1. Range(injected) = {}
      BY <1>4 DEF Range
    <2>. QED BY <1>4, <2>1 DEF Requests, Acks, Taken
  <1>9. UpInv
    <2>1. \A f \in Up : f \in Nat
      BY DEF Up
    <2>2. Session /\ Numbering /\ Waiting
      BY <1>1, <1>4, <1>8, <2>1, CountsAssumption DEF Session, Numbering, Waiting
    <2>3. Taking /\ Following /\ Answers
      BY <1>1, <1>3, <1>4, <1>8 DEF Taking, Following, Answers
    <2>4. InjectedOnce
      BY <1>4 DEF InjectedOnce
    <2>. QED BY <2>2, <2>3, <2>4 DEF UpInv
  <1>10. Down
    <2>1. Frames = {}
      <3>1. \A ch \in Channels : ToSet(forwarded[ch]) = {}
        BY <1>4 DEF ToSet
      <3>. QED BY <3>1 DEF Frames
    <2>2. {} = 1..0
      OBVIOUS
    <2>. QED BY <1>0, <1>1, <1>3, <1>4, <2>1, <2>2 DEF Down
  <1>. QED BY <1>5, <1>6, <1>7, <1>9, <1>10 DEF IInv

LEMMA StepInvariant == IInv /\ [Next]_vars => IInv'
  <1>. SUFFICES ASSUME IInv, [Next]_vars PROVE IInv'
    OBVIOUS
  <1>0. Types /\ Few /\ Owned /\ UpInv /\ Down /\ Session
    BY DEF IInv, UpInv
  <1>1. CASE Next
    <2>1. UpInv'
      BY <1>0, <1>1, UpStep
    <2>2. CASE \/ Start \/ Close \/ Heartbeat \/ StateResponse
               \/ \E f \in Up : SendCemi(f)
               \/ ClientTimers \/ ClientReceives
      BY <1>0, <2>1, <2>2, TypesClient, RestClient DEF IInv
    <2>3. CASE \/ ServerReceives
               \/ \E ch \in Channels : CheckAckTimeouts(ch) \/ HeartbeatTimeout(ch)
      BY <1>0, <2>1, <2>3, TypesDevice, RestDevice DEF IInv
    <2>4. CASE \E T \in SUBSET Channels : \E how \in [T -> Ways] : Forward(T, how)
      BY <1>0, <2>1, <2>4, TypesDevice, RestForward DEF IInv
    <2>. QED BY <1>1, <2>2, <2>3, <2>4 DEF Next
  <1>2. CASE UNCHANGED vars
    <2>1. UNCHANGED <<client, conns, to_server, to_client, outcome, injected, dropped, forwarded,
                      delivered, starved>>
      BY <1>2 DEF vars
    <2>2. Types' /\ Few' /\ Owned'
      BY <1>0, <2>1 DEF Types, Few, Open, Owned
    <2>3. UpInv'
      <3>1. ClientKept /\ ChannelsKept /\ Requests' = Requests /\ Acks' = Acks
        BY <2>1 DEF ClientKept, ChannelsKept, Requests, Acks
      <3>2. \A m \in Acks' : AckMeans(m)
        BY <1>0, <3>1 DEF UpInv, Answers
      <3>. QED BY <1>0, <2>1, <3>1, <3>2, UpKept
    <2>4. Down'
      <3>1. \A m \in to_client' : m.type = "request" => m \in to_client
        BY <2>1
      <3>2. \A ch \in Channels : conns'[ch] = conns[ch]
        BY <2>1
      <3>. QED BY <1>0, <2>1, <3>1, <3>2, DownKept
    <2>. QED BY <2>2, <2>3, <2>4 DEF IInv
  <1>. QED BY <1>1, <1>2

(* Every reachable state of the two ends and of the network between them   *)
(* satisfies the invariant: what each datagram in the network still means, *)
(* and how the counters of TunnelSession and of the device's connection    *)
(* are related, for any number of sessions, connections and frames.        *)
THEOREM TunnelInvariant == Spec => []IInv
  BY InitInvariant, StepInvariant, PTL DEF Spec

LEMMA OrderHolds == IInv => OnceInOrder
  <1>. SUFFICES ASSUME IInv PROVE OnceInOrder
    OBVIOUS
  <1>1. InjectedOnce
    BY DEF IInv, UpInv
  <1>2. ASSUME client.ch # 0
        PROVE  IsPrefix(delivered, forwarded[client.ch])
    <2>1. client.ch \in Channels
      BY <1>2, Fields DEF IInv, Channels
    <2>2. PICK t : t = forwarded[client.ch]
      OBVIOUS
    <2>3. delivered \in Seq(1..MaxDown) /\ t \in Seq(1..MaxDown)
      BY <2>1, <2>2 DEF IInv, Types
    <2>4. Len(delivered) <= Len(t) /\ \A k \in 1..Len(delivered) : delivered[k] = t[k]
      BY <1>2, <2>2 DEF IInv, Down
    <2>5. Len(delivered) \in Nat /\ Len(t) \in Nat
      BY <2>3, SeqFacts
    <2>6. SubSeq(delivered, 1, Len(delivered)) = SubSeq(t, 1, Len(delivered))
      <3>1. \A k \in 1..Len(delivered) : k \in 1..Len(t)
        BY <2>4, <2>5
      <3>2. /\ SubSeq(delivered, 1, Len(delivered)) = [k \in 1..Len(delivered) |-> delivered[k]]
            /\ SubSeq(t, 1, Len(delivered)) = [k \in 1..Len(delivered) |-> t[k]]
        BY <2>3, <2>4, <2>5, <3>1
      <3>. QED BY <2>4, <3>2
    <2>. QED BY <2>2, <2>4, <2>6 DEF IsPrefix
  <1>. QED BY <1>1, <1>2 DEF OnceInOrder, DeliveredIsPrefix

(* What the client delivers from the bus is a prefix of what the device    *)
(* numbered for its connection (the session's handle_connected, the        *)
(* device's send_tunneling_request), and no frame the client sends is      *)
(* injected twice, or behind a later one unless send_cemi had reported it  *)
(* as failed (the device's handle_tunneling_request): over any loss,       *)
(* repetition and reordering of datagrams, any number of sessions and      *)
(* connections, as long as no counter wraps.                               *)
THEOREM EachFrameOnceInOrder == Spec => []OnceInOrder
  BY TunnelInvariant, OrderHolds, PTL

LEMMA AcksHold == IInv => AcksTrue
  <1>. SUFFICES ASSUME IInv PROVE AcksTrue
    OBVIOUS
  <1>0. Types /\ Few /\ Owned /\ UpInv /\ Down
    BY DEF IInv
  <1>1. TypeOK
    <2>1. \A S : \A s \in Seq(S) : Range(s) \subseteq S
      BY DEF Range
    <2>2. Range(injected) \subseteq Up /\ Range(delivered) \subseteq 1..MaxDown
      BY <1>0, <2>1 DEF Types
    <2>3. \A ch \in Channels : Range(forwarded[ch]) \subseteq 1..MaxDown
      BY <1>0, <2>1 DEF Types
    <2>. QED BY <1>0, <2>2, <2>3 DEF Types, Few, TypeOK, Outcomes
  <1>2. CompletionsTrue
    BY <1>0 DEF UpInv, Answers, Barred, Taken, CompletionsTrue
  <1>3. InStep
    <2>. DEFINE e == conns[client.ch].recv
    <2>. SUFFICES ASSUME client.state = "connected", client.ch \in Open, "refused" \notin Range(outcome)
                  PROVE  \/ e = client.send
                         \/ client.awaiting # 0 /\ e = After(client.send)
                         \/ client.send = After(0) /\ e = 0
      BY DEF InStep
    <2>1. /\ client.ch \in Channels /\ client.ch # 0 /\ conns[client.ch].open
          /\ e \in Counters /\ e \in Nat /\ client.send \in Counters /\ client.send \in Nat
          /\ Modulus \in Nat
      BY <1>0, RequestFacts, CountsAssumption DEF Open, Channels
    <2>2. ~Refused
      BY <1>0 DEF Refused, Range, Types
    <2>3. CASE Gap(client.ch) /\ client.send = 1
      BY <2>3, CounterFacts DEF Gap
    <2>4. CASE client.send <= e
      <3>1. CASE e = 0
        BY <2>1, <2>4, <3>1
      <3>2. CASE e # 0
        <4>1. PICK m \in Requests : m.ch = client.ch /\ m.seq = e - 1
          BY <1>0, <2>1, <3>2 DEF UpInv, Taking
        <4>2. m.sock = client.sock /\ m.frame # 0
          BY <1>0, <2>1, <4>1, RequestFacts DEF UpInv, Numbering, Up
        <4>3. m.seq < client.send \/ (m.seq = client.send /\ m.frame = client.awaiting)
          BY <1>0, <4>2 DEF UpInv, Numbering
        <4>4. e = client.send \/ (e = client.send + 1 /\ client.awaiting # 0)
          BY <2>1, <2>4, <3>2, <4>1, <4>2, <4>3
        <4>5. e = client.send + 1 => e = After(client.send)
          <5>1. e < Modulus
            BY <2>1 DEF Counters
          <5>. QED BY <2>1, <5>1, CounterFacts
        <4>. QED BY <4>4, <4>5
      <3>. QED BY <3>1, <3>2
    <2>. QED BY <1>0, <2>1, <2>2, <2>3, <2>4 DEF UpInv, Following
  <1>. QED BY <1>1, <1>2, <1>3 DEF AcksTrue

(* What send_cemi answers is true: a frame that completed with Ok was      *)
(* injected, or dropped by a device that had taken it in sequence, and a   *)
(* refused one never is; and while nothing was refused the device waits    *)
(* for the session's number, or for the next with the acknowledgement on   *)
(* its way, or for number 0 after the feature query.                       *)
THEOREM AcknowledgementsTrue == Spec => []AcksTrue
  BY TunnelInvariant, AcksHold, PTL

=============================================================================
