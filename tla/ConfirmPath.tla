---------------------------- MODULE ConfirmPath ----------------------------
(***************************************************************************)
(* The way of a frame down to the link layer and of its confirmation back  *)
(* up: the router task of runner.rs with the network, transport and        *)
(* application layers it dispatches to, the TP-UART link layer task, the   *)
(* three channels of one message between the two tasks, and the user tasks *)
(* that write group objects (stack_handle.rs).                             *)
(*                                                                         *)
(* The tasks are cooperative: they interleave where one awaits.  While the *)
(* router dispatches, nothing else touches the FIFOs of the layers, so the *)
(* whole dispatch of one event is one step; what is left of it, `out`, are *)
(* the L_Data requests it sends one at a time.  The link layer stands      *)
(* still while it waits for room in a channel.                             *)
(*                                                                         *)
(* A frame is what the layers do with its confirmation: that of a write    *)
(* and of a response (connectionless or of a connection) goes up to the    *)
(* application layer, that of a control PDU is consumed.  The network      *)
(* layer's FIFO only renames the service of a confirmation, to names that  *)
(* the transport layer handles alike, so its length models it.  What the   *)
(* peer sends and when the bus lets a frame through is arbitrary.          *)
(***************************************************************************)
EXTENDS Naturals, Sequences, FiniteSets

CONSTANTS Objects,   \* communication objects, enabled and linked
          None,      \* no object, no frame
          Capacity,  \* of pending_addr_types and pending_nl, 4 in the code
          SlowUart   \* a write to the UART may suspend the link layer

ASSUME CapacityAssumption == Capacity \in Nat \ {0}
ASSUME SlowUartAssumption == SlowUart \in BOOLEAN

Write(o) == [kind |-> "write", obj |-> o]        \* A_GroupValue_Write
Response == [kind |-> "response", obj |-> None]  \* Connectionless, ConnectedData
Control  == [kind |-> "control", obj |-> None]   \* FireAndForget
Frames   == {Write(o) : o \in Objects} \cup {Response, Control}

\* Received frames: a group write, or one the device may answer.
GroupWrite(o) == [svc |-> "L_Data_Ind", kind |-> "group_write", obj |-> o]
Request       == [svc |-> "L_Data_Ind", kind |-> "request", obj |-> None]
Indications   == {GroupWrite(o) : o \in Objects} \cup {Request}
Con(f, ok)    == [svc |-> "L_Data_Con", frame |-> f, ok |-> ok]
Confirmations == {Con(f, ok) : f \in Frames, ok \in BOOLEAN}

ASSUME NoneAssumption == None \notin Objects \cup Frames \cup Indications \cup Confirmations

VARIABLES
    status,              \* ComObjectStatus of every object
    asked,               \* objects whose write request waits for the router
    pending_group_send,  \* GroupDataState.pending_group_send
    pending_nl,          \* TransportLayer.pending_nl
    pending_addr_types,  \* NetworkLayer.pending_addr_types: its length
    out,                 \* L_Data requests the router has still to send
    ll_req, ll_ind, ll_conf,  \* the channels, each empty or one message
    main_idle,           \* TP-UART: main_state is Idle
    current_tx, pending_tx,   \* TP-UART: the frame being sent, the next one
    blocked,             \* TP-UART: the message it waits to hand up, or None
    quiet                \* no frame, timer or user request comes any more

app == <<status, asked, pending_group_send>>
fifos == <<pending_nl, pending_addr_types, out>>
uart == <<main_idle, current_tx, pending_tx, blocked>>
vars == <<app, fifos, ll_req, ll_ind, ll_conf, uart, quiet>>

Init ==
    /\ status = [o \in Objects |-> "idle"]
    /\ asked = {} /\ pending_group_send = None
    /\ pending_nl = << >> /\ pending_addr_types = 0 /\ out = << >>
    /\ ll_req = << >> /\ ll_ind = << >> /\ ll_conf = << >>
    /\ main_idle = TRUE /\ current_tx = None /\ pending_tx = None
    /\ blocked = None
    /\ quiet = FALSE

-----------------------------------------------------------------------------
(* User tasks.                                                             *)

\* update_object: the object is claimed, then the task awaits the router's
\* answer.  One task writes one object.
UpdateObject(o) ==
    /\ ~quiet /\ o \notin asked /\ status[o] # "busy"
    /\ status' = [status EXCEPT ![o] = "write"]
    /\ asked' = asked \cup {o}
    /\ UNCHANGED <<pending_group_send, fifos, ll_req, ll_ind, ll_conf, uart, quiet>>

-----------------------------------------------------------------------------
(* The router.                                                             *)

\* What of fs still finds room in a FIFO of length n.
Fit(n, fs) == SubSeq(fs, 1, IF n + Len(fs) <= Capacity THEN Len(fs) ELSE Capacity - n)

\* The frames the network layer passes on: those whose address type it could
\* remember.
Mut_Forwarded(fs) == fs
Forwarded(fs) == Fit(pending_addr_types, fs)

\* A dispatch in which the transport layer requests the frames fs.  It forgets
\* a request that pending_nl has no room for, and sends it all the same.
Dispatch(fs) ==
    /\ pending_nl' = pending_nl \o Fit(Len(pending_nl), fs)
    /\ pending_addr_types' = pending_addr_types + Len(Fit(pending_addr_types, fs))
    /\ out' = Forwarded(fs)

\* The router is back in its select.  join polls the link layer first and the
\* router yields after each send, so a request the link layer has left in the
\* channel means that it is suspended itself.
AtSelect == out = << >> /\ (ll_req = << >> \/ blocked # None \/ SlowUart)

\* An indication comes before everything else.  A group write updates its
\* object.  Anything else is answered, or acknowledged, or both, or neither
\* (also where the buffer pool is empty).
Answers == {<< >>, <<Control>>, <<Response>>, <<Control, Response>>}
TakeIndication ==
    /\ AtSelect /\ ll_ind # << >>
    /\ ll_ind' = << >>
    /\ LET ind == Head(ll_ind) IN
       \/ /\ ind.kind = "group_write"
          /\ status' = [status EXCEPT ![ind.obj] = "updated"]
          /\ UNCHANGED fifos
       \/ /\ ind.kind = "request"
          /\ \E fs \in Answers : Dispatch(fs)
          /\ UNCHANGED status
    /\ UNCHANGED <<asked, pending_group_send, ll_req, ll_conf, uart, quiet>>

\* handle_tl_confirmation of the group data handler: every confirmation that
\* reaches the application layer resolves the pending group send.
Resolve(ok) ==
    /\ status' = IF pending_group_send = None THEN status
                 ELSE [status EXCEPT ![pending_group_send] = IF ok THEN "idle" ELSE "error"]
    /\ pending_group_send' = None

\* L_Data_Con: the network layer drops it when it remembers no request, the
\* transport layer forwards it unless its oldest request was a control PDU.
TakeConfirmation ==
    /\ AtSelect /\ ll_ind = << >> /\ ll_conf # << >>
    /\ ll_conf' = << >>
    /\ IF pending_addr_types = 0 THEN UNCHANGED <<app, fifos>>
       ELSE /\ pending_addr_types' = pending_addr_types - 1
            /\ IF pending_nl = << >> THEN UNCHANGED <<pending_nl, app>>
               ELSE /\ pending_nl' = Tail(pending_nl)
                    /\ IF Head(pending_nl) = Control THEN UNCHANGED app
                       ELSE Resolve(Head(ll_conf).ok) /\ UNCHANGED asked
            /\ UNCHANGED out
    /\ UNCHANGED <<ll_req, ll_ind, uart, quiet>>

\* The third branch of the select is only looked at when the others are empty.
NothingFromBus == ll_ind = << >> /\ ll_conf = << >>

\* handle_app_request and send_group_value_request.
HandleAppRequest(o) ==
    /\ AtSelect /\ NothingFromBus /\ o \in asked
    /\ asked' = asked \ {o}
    /\ IF status[o] # "write" THEN UNCHANGED <<status, pending_group_send, fifos>>
       ELSE /\ status' = [status EXCEPT ![o] = "busy"]
            /\ \/ UNCHANGED <<pending_group_send, fifos>>     \* no buffer
               \/ pending_group_send' = o /\ Dispatch(<<Write(o)>>)
    /\ UNCHANGED <<ll_req, ll_ind, ll_conf, uart, quiet>>

\* A connection deadline: the transport layer resends or disconnects.
Poll ==
    /\ AtSelect /\ NothingFromBus /\ ~quiet
    /\ Dispatch(<<Control>>)
    /\ UNCHANGED <<app, ll_req, ll_ind, ll_conf, uart, quiet>>

\* ll_req.send: the router waits here for room, and for nothing else.
SendRequest ==
    /\ out # << >> /\ ll_req = << >>
    /\ ll_req' = <<Head(out)>> /\ out' = Tail(out)
    /\ UNCHANGED <<app, pending_nl, pending_addr_types, ll_ind, ll_conf, uart, quiet>>

-----------------------------------------------------------------------------
(* The TP-UART task.  It takes the next event only when it is not blocked. *)

\* ind_tx.send and conf_tx.send.
HandUp(m) ==
    \/ /\ m = None /\ blocked' = None /\ UNCHANGED <<ll_ind, ll_conf>>
    \/ /\ m # None /\ m.svc = "L_Data_Ind" /\ ll_ind = << >>
       /\ ll_ind' = <<m>> /\ blocked' = None /\ UNCHANGED ll_conf
    \/ /\ m # None /\ m.svc = "L_Data_Con" /\ ll_conf = << >>
       /\ ll_conf' = <<m>> /\ blocked' = None /\ UNCHANGED ll_ind
    \/ /\ m # None
       /\ (IF m.svc = "L_Data_Ind" THEN ll_ind ELSE ll_conf) # << >>
       /\ blocked' = m /\ UNCHANGED <<ll_ind, ll_conf>>

\* check_pending_transmission at the end of the loop, for the frames cur and
\* nxt that the handler left; a handler that is blocked has not come there.
Mut_CheckPending(cur, nxt) == current_tx' = cur /\ pending_tx' = nxt
CheckPending(cur, nxt) ==
    IF main_idle' /\ blocked' = None /\ cur = None
    THEN current_tx' = nxt /\ pending_tx' = None
    ELSE current_tx' = cur /\ pending_tx' = nxt

\* A frame begins to arrive.
ReceiveStart ==
    /\ blocked = None /\ ~quiet /\ main_idle
    /\ main_idle' = FALSE
    /\ UNCHANGED <<app, fifos, ll_req, ll_ind, ll_conf, current_tx, pending_tx, blocked, quiet>>

\* It is complete, and indicated unless it is damaged or an echo.
ReceiveEnd ==
    /\ blocked = None /\ ~main_idle
    /\ main_idle' = TRUE
    /\ \E m \in Indications \cup {None} : HandUp(m)
    /\ CheckPending(current_tx, pending_tx)
    /\ UNCHANGED <<app, fifos, ll_req, quiet>>

\* queue_transmission: a frame that already waits is displaced and confirmed
\* with an error.
QueueTransmission ==
    /\ blocked = None /\ ll_req # << >>
    /\ ll_req' = << >>
    /\ HandUp(IF pending_tx = None THEN None ELSE Con(pending_tx, FALSE))
    /\ UNCHANGED main_idle
    /\ CheckPending(current_tx, Head(ll_req))
    /\ UNCHANGED <<app, fifos, quiet>>

\* complete_transmission: sent, given up, or lost with a reset of the chip.
CompleteTransmission ==
    /\ blocked = None /\ current_tx # None
    /\ \E ok \in BOOLEAN : HandUp(Con(current_tx, ok))
    /\ UNCHANGED main_idle
    /\ CheckPending(None, pending_tx)
    /\ UNCHANGED <<app, fifos, ll_req, quiet>>

\* The channel it waited for has room again.
Unblock ==
    /\ blocked # None
    /\ HandUp(blocked) /\ blocked' = None
    /\ UNCHANGED main_idle
    /\ CheckPending(current_tx, pending_tx)
    /\ UNCHANGED <<app, fifos, ll_req, quiet>>

GoQuiet ==
    /\ ~quiet /\ quiet' = TRUE
    /\ UNCHANGED <<app, fifos, ll_req, ll_ind, ll_conf, uart>>

-----------------------------------------------------------------------------

Router == \/ TakeIndication \/ TakeConfirmation \/ SendRequest
          \/ \E o \in Objects : HandleAppRequest(o)
TpUart == ReceiveEnd \/ QueueTransmission \/ CompleteTransmission \/ Unblock

Next ==
    \/ Router \/ Poll \/ TpUart \/ ReceiveStart \/ GoQuiet
    \/ \E o \in Objects : UpdateObject(o)

\* Both tasks run whenever they can, the bus ends every frame, and the chip
\* answers every transmission or a timeout does.
FairSpec == Init /\ [][Next]_vars /\ WF_vars(Router) /\ WF_vars(TpUart)

-----------------------------------------------------------------------------
(* Properties.                                                             *)

TypeOK ==
    /\ status \in [Objects -> {"idle", "write", "busy", "error", "updated"}]
    /\ asked \subseteq Objects
    /\ pending_group_send \in Objects \cup {None}
    /\ pending_nl \in Seq(Frames) /\ Len(pending_nl) <= Capacity
    /\ pending_addr_types \in 0 .. Capacity
    /\ out \in Seq(Frames)
    /\ ll_req \in Seq(Frames) /\ Len(ll_req) <= 1
    /\ ll_ind \in Seq(Indications) /\ Len(ll_ind) <= 1
    /\ ll_conf \in Seq(Confirmations) /\ Len(ll_conf) <= 1
    /\ main_idle \in BOOLEAN /\ quiet \in BOOLEAN
    /\ current_tx \in Frames \cup {None} /\ pending_tx \in Frames \cup {None}
    /\ blocked \in Indications \cup Confirmations \cup {None}

\* Frames the network layer has passed on and not seen confirmed.
Waits(svc) == blocked # None /\ blocked.svc = svc
One(b) == IF b THEN 1 ELSE 0
InFlight ==
    Len(out) + Len(ll_req) + Len(ll_conf) + One(current_tx # None) + One(pending_tx # None)
      + One(Waits("L_Data_Con"))

\* network.rs: "Dropping is recoverable; a desynchronised FIFO is not".  The
\* two FIFOs hold one entry for every frame on its way and no other, whatever
\* is displaced, refused or dropped: no confirmation finds a FIFO empty and no
\* entry stays behind.
FifosTrackFrames ==
    /\ pending_addr_types = InFlight
    /\ Len(pending_nl) = InFlight

\* The router waits for the link layer to take a request while the link layer
\* waits for the router to take what it hands up: neither ever goes on.
MutualWait ==
    /\ out # << >> /\ ll_req # << >>
    /\ \/ Waits("L_Data_Ind") /\ ll_ind # << >>
       \/ Waits("L_Data_Con") /\ ll_conf # << >>

\* When nothing new arrives every frame is sent or refused, confirmed and
\* forgotten, and every user request is answered, unless the two tasks wait
\* for each other: there is no other way to hang.
DrainsUnlessMutualWait ==
    []~MutualWait => (quiet ~> InFlight = 0 /\ asked = {} /\ ll_ind = << >>)

\* layers/mod.rs says the three channels eliminate "deadlocks caused by
\* blocking request-response patterns through bounded channels".
NoMutualWait == ~MutualWait

\* transport/mod.rs: "confirmations arrive in the same order as requests - a
\* FIFO is sufficient": a confirmation belongs to the oldest entry.
ConfirmsInOrder ==
    ll_conf # << >> /\ pending_nl # << >> => Head(ll_conf).frame = Head(pending_nl)

\* stack_handle.rs: update_object refuses with Busy when "the object is
\* already transmitting": a busy object's write is on its way.
Sending(f) ==
    \/ \E ch \in {out, ll_req} : \E i \in DOMAIN ch : ch[i] = f
    \/ current_tx = f \/ pending_tx = f
    \/ ll_conf # << >> /\ Head(ll_conf).frame = f
    \/ Waits("L_Data_Con") /\ blocked.frame = f
BusyMeansTransmitting == \A o \in Objects : status[o] = "busy" => Sending(Write(o))

\* stack_handle.rs: an accepted update "will be transmitted": when its request
\* comes to the router the object is still claimed.
AcceptedStaysClaimed == \A o \in asked : status[o] = "write"
=============================================================================
