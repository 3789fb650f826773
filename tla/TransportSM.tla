---------------------------- MODULE TransportSM ----------------------------
(***************************************************************************)
(* The connection-oriented transport state machine of                      *)
(* zweidraehte-proto (src/crates/zweidraehte-proto/src/transport): the     *)
(* four transition tables, the classification of an event against a        *)
(* connection, and what each specification action does to the connection   *)
(* and asks of the embedder.  Everything here is a pure operator; the      *)
(* device stack, the micro device and the management client embed it.      *)
(*                                                                         *)
(* A connection is any record with at least the fields state, remote_addr, *)
(* seq_no_send, seq_no_recv and rep_count.  An event is a record           *)
(* [type, addr, seq]; addr is the source of a received PDU or the          *)
(* destination of a request.                                               *)
(*                                                                         *)
(* Throughout the project a definition Mut_X, placed before X, is X with a *)
(* plausible programming error; README.md says which property detects it.  *)
(***************************************************************************)
EXTENDS Integers, Sequences

CONSTANTS
    SeqMod,           \* sequence numbers count modulo this (16 in the code)
    MaxRepetitions    \* MAX_REPETITIONS (3 in the code)

ASSUME SeqModAssumption == SeqMod \in Nat /\ SeqMod > 1
ASSUME MaxRepAssumption == MaxRepetitions \in Nat

ConnStates == {"Closed", "OpenIdle", "OpenWait", "Connecting"}
Styles     == {"Style1", "Style2", "Style3", "Style1R"}
SeqNos     == 0 .. SeqMod - 1

inc_seq(s)  == (s + 1) % SeqMod
prev_seq(s) == (s + SeqMod - 1) % SeqMod

-----------------------------------------------------------------------------
(* Transition tables.  A row gives, for each connection state, the next    *)
(* state and the specification action.  The rows E21..E24 and E27, which   *)
(* no event is ever classified as, are left out.                           *)

C(a) == <<"Closed", a>>
I(a) == <<"OpenIdle", a>>
W(a) == <<"OpenWait", a>>
N(a) == <<"Connecting", a>>
DNE  == <<"Closed", "DoesNotExist">>

Row(c, i, w, n) ==
    [Closed |-> c, OpenIdle |-> i, OpenWait |-> w, Connecting |-> n]

NoSuchEvent == Row(DNE, DNE, DNE, DNE)

STYLE_1_TABLE ==
    [ E00  |-> Row(I("A1"),  C("A6"),  C("A6"),  DNE),
      E01  |-> Row(I("A1"),  I("A10"), W("A10"), DNE),
      E02  |-> Row(C("A0"),  C("A5"),  C("A5"),  DNE),
      E03  |-> Row(C("A0"),  I("A0"),  W("A0"),  DNE),
      E04  |-> Row(C("A10"), I("A2"),  W("A2"),  DNE),
      E05  |-> Row(C("A10"), I("A3"),  W("A3"),  DNE),
      E06  |-> Row(C("A10"), I("A4"),  W("A4"),  DNE),
      E07  |-> Row(C("A10"), I("A10"), W("A10"), DNE),
      E08  |-> Row(C("A10"), C("A6"),  I("A8"),  DNE),
      E09  |-> Row(C("A10"), C("A6"),  C("A6"),  DNE),
      E10  |-> Row(C("A10"), I("A10"), W("A10"), DNE),
      E11  |-> Row(C("A10"), C("A6"),  C("A6"),  DNE),
      E11b |-> NoSuchEvent,
      E12  |-> Row(C("A10"), C("A6"),  W("A9"),  DNE),
      E13  |-> Row(C("A10"), C("A6"),  C("A6"),  DNE),
      E14  |-> Row(C("A10"), I("A10"), W("A10"), DNE),
      E15  |-> Row(C("A5"),  W("A7"),  C("A6"),  DNE),
      E16  |-> Row(C("A0"),  C("A6"),  C("A6"),  DNE),
      E17  |-> Row(C("A0"),  I("A0"),  W("A9"),  DNE),
      E18  |-> Row(C("A0"),  I("A0"),  C("A6"),  DNE),
      E19  |-> Row(C("A0"),  I("A13"), W("A13"), DNE),
      E20  |-> Row(C("A0"),  C("A5"),  C("A5"),  DNE),
      E25  |-> Row(I("A12"), C("A6"),  C("A6"),  DNE),
      E26  |-> Row(C("A15"), C("A14"), C("A14"), DNE) ]

STYLE_2_TABLE ==
    [ E00  |-> Row(I("A1"),  I("A0"),  I("A0"),  DNE),
      E01  |-> Row(I("A1"),  I("A0"),  W("A0"),  DNE),
      E02  |-> Row(C("A0"),  C("A5"),  C("A5"),  DNE),
      E03  |-> Row(C("A0"),  I("A0"),  W("A0"),  DNE),
      E04  |-> Row(C("A0"),  I("A2"),  W("A2"),  DNE),
      E05  |-> Row(C("A0"),  I("A3"),  W("A3"),  DNE),
      E06  |-> Row(C("A0"),  I("A4"),  W("A4"),  DNE),
      E07  |-> Row(C("A0"),  I("A0"),  W("A0"),  DNE),
      E08  |-> Row(C("A0"),  C("A6"),  I("A8b"), DNE),
      E09  |-> Row(C("A0"),  C("A6"),  W("A0"),  DNE),
      E10  |-> Row(C("A0"),  I("A0"),  W("A0"),  DNE),
      E11  |-> Row(C("A0"),  C("A6"),  W("A0"),  DNE),
      E11b |-> NoSuchEvent,
      E12  |-> Row(C("A0"),  I("A0"),  W("A9"),  DNE),
      E13  |-> Row(C("A0"),  I("A0"),  C("A6"),  DNE),
      E14  |-> Row(C("A0"),  I("A0"),  W("A0"),  DNE),
      E15  |-> Row(C("A0"),  W("A7"),  W("A11"), DNE),
      E16  |-> Row(C("A0"),  C("A6"),  C("A6"),  DNE),
      E17  |-> Row(C("A0"),  I("A0"),  W("A9"),  DNE),
      E18  |-> Row(C("A0"),  I("A0"),  C("A6"),  DNE),
      E19  |-> Row(C("A0"),  I("A0"),  W("A0"),  DNE),
      E20  |-> Row(C("A0"),  C("A5"),  C("A5"),  DNE),
      E25  |-> Row(I("A12"), I("A0"),  W("A0"),  DNE),
      E26  |-> Row(C("A0"),  C("A14b"), W("A11"), DNE) ]

STYLE_3_TABLE ==
    [ E00  |-> Row(I("A1"),  I("A0"),  W("A0"),  N("A0")),
      E01  |-> Row(I("A1"),  I("A10"), W("A10"), N("A10")),
      E02  |-> Row(C("A0"),  C("A5"),  C("A5"),  C("A5")),
      E03  |-> Row(C("A0"),  I("A0"),  W("A0"),  N("A0")),
      E04  |-> Row(C("A0"),  I("A2"),  W("A2"),  C("A6")),
      E05  |-> Row(C("A0"),  I("A3"),  W("A3"),  N("A3")),
      E06  |-> Row(C("A0"),  I("A4"),  W("A4"),  N("A6")),
      E07  |-> Row(C("A0"),  I("A0"),  W("A0"),  N("A10")),
      E08  |-> Row(C("A0"),  I("A0"),  I("A8"),  C("A6")),
      E09  |-> Row(C("A0"),  I("A0"),  C("A6"),  C("A6")),
      E10  |-> Row(C("A0"),  I("A0"),  W("A0"),  N("A10")),
      E11  |-> Row(C("A0"),  I("A0"),  W("A0"),  C("A6")),
      E11b |-> NoSuchEvent,
      E12  |-> Row(C("A0"),  C("A6"),  W("A9"),  C("A6")),
      E13  |-> Row(C("A0"),  C("A6"),  C("A6"),  C("A6")),
      E14  |-> Row(C("A0"),  I("A0"),  W("A0"),  N("A10")),
      E15  |-> Row(C("A0"),  W("A7"),  W("A11"), N("A11")),
      E16  |-> Row(C("A0"),  C("A6"),  C("A6"),  C("A6")),
      E17  |-> Row(C("A0"),  I("A0"),  W("A9"),  N("A0")),
      E18  |-> Row(C("A0"),  I("A0"),  C("A6"),  N("A0")),
      E19  |-> Row(C("A0"),  I("A0"),  W("A0"),  I("A13")),
      E20  |-> Row(C("A0"),  C("A5"),  W("A0"),  C("A5")),
      E25  |-> Row(N("A12"), C("A6"),  C("A6"),  C("A6")),
      E26  |-> Row(C("A15"), C("A14"), C("A14"), C("A14")) ]

(* Style 1 Rationalised differs from Style 1 in these rows only.           *)
STYLE_1R_TABLE ==
    [ STYLE_1_TABLE EXCEPT
        !.E06  = Row(C("A10"), C("A6"),  C("A6"),  DNE),
        !.E11  = NoSuchEvent,
        !.E11b = Row(C("A10"), C("A6"),  C("A6"),  DNE),
        !.E12  = NoSuchEvent,
        !.E13  = NoSuchEvent,
        !.E15  = Row(C("A5"),  W("A7"),  W("A11"), DNE),
        !.E17  = NoSuchEvent,
        !.E18  = NoSuchEvent ]

Table(style) ==
    CASE style = "Style1"  -> STYLE_1_TABLE
      [] style = "Style2"  -> STYLE_2_TABLE
      [] style = "Style3"  -> STYLE_3_TABLE
      [] style = "Style1R" -> STYLE_1R_TABLE

lookup(style, state, e) == Table(style)[e][state]

-----------------------------------------------------------------------------
(* classify_event.  A PDU is foreign when no connection is open or it      *)
(* comes from another address than the connection's.                       *)

Foreign(c, ev) == c.state = "Closed" \/ ev.addr # c.remote_addr

classify_event(style, c, ev) ==
    CASE ev.type = "ReceivedConnect" ->
           IF c.state = "Closed" \/ ev.addr = c.remote_addr THEN "E00" ELSE "E01"
      [] ev.type = "ReceivedDisconnect" ->
           IF c.state = "Closed" \/ ev.addr = c.remote_addr THEN "E02" ELSE "E03"
      [] ev.type = "ReceivedData" ->
           IF Foreign(c, ev) THEN "E07"
           ELSE IF ev.seq = c.seq_no_recv THEN "E04"
           ELSE IF ev.seq = prev_seq(c.seq_no_recv) THEN "E05" ELSE "E06"
      [] ev.type = "ReceivedAck" ->
           IF Foreign(c, ev) THEN "E10"
           ELSE IF ev.seq = c.seq_no_send THEN "E08" ELSE "E09"
      [] ev.type = "ReceivedNack" ->
           IF Foreign(c, ev) THEN "E14"
           ELSE IF style = "Style1R" THEN "E11b"
           ELSE IF ev.seq # c.seq_no_send THEN "E11"
           ELSE IF c.rep_count < MaxRepetitions THEN "E12" ELSE "E13"
      [] ev.type = "RequestData"       -> "E15"
      [] ev.type = "RequestConnect"    -> "E25"
      [] ev.type = "RequestDisconnect" -> "E26"
      [] ev.type = "ConnectionTimeout" -> "E16"
      [] ev.type = "AckTimeout" ->
           IF style = "Style1R" THEN "None"
           ELSE IF c.rep_count < MaxRepetitions THEN "E17" ELSE "E18"
      [] ev.type = "ConnectConfirm"    -> IF ev.seq = 1 THEN "E19" ELSE "E20"

-----------------------------------------------------------------------------
(* execute_action, first half: what the action does to the connection.     *)
CoreAfter(a, c, ev) ==
    CASE a \in {"A1", "A12"} ->
           [c EXCEPT !.remote_addr = ev.addr, !.seq_no_send = 0,
                     !.seq_no_recv = 0, !.rep_count = 0]
      [] a = "A2"           -> [c EXCEPT !.seq_no_recv = inc_seq(@)]
      [] a = "A7"           -> [c EXCEPT !.rep_count = 0]
      [] a \in {"A8", "A8b"} -> [c EXCEPT !.seq_no_send = inc_seq(@)]
      [] a = "A9"           -> [c EXCEPT !.rep_count = @ + 1]
      [] OTHER              -> c

(* Second half: the TlActions for the embedder, in order, each an          *)
(* operation with the address and sequence number it concerns.  A8 would   *)
(* also ask for queued incoming data to be delivered, but no table cell    *)
(* queues a received PDU, so that queue is always empty.                   *)
Do(op, addr, seq) == [op |-> op, addr |-> addr, seq |-> seq]
Timer(op)         == Do(op, "none", 0)

StartAck     == Timer("StartAckTimer")
StopAck      == Timer("StopAckTimer")
StartConn    == Timer("StartConnTimer")
Mut_StopConn == Timer("StopAckTimer")
StopConn     == Timer("StopConnTimer")
Store        == Timer("StorePendingMessage")
Mut_Clear    == Timer("StopAckTimer")
Clear        == Timer("ClearPendingMessage")

Actions(a, c, ev) ==
    LET peer == c.remote_addr IN
    CASE a = "A1"   -> << StartConn, Do("IndicateConnected", ev.addr, 0) >>
      [] a = "A2"   -> << Do("SendAck", ev.addr, c.seq_no_recv),
                          Do("IndicateData", ev.addr, ev.seq), StartConn >>
      [] a = "A3"   -> << Do("SendAck", ev.addr, ev.seq), StartConn >>
      [] a = "A4"   -> << Do("SendNack", ev.addr, ev.seq), StartConn >>
      [] a = "A5"   -> << StopAck, StopConn, Do("IndicateDisconnected", peer, 0) >>
      [] a = "A6"   -> << Do("SendDisconnect", peer, 0), StopAck, StopConn,
                          Do("IndicateDisconnected", peer, 0) >>
      [] a = "A7"   -> << Store, Do("SendData", peer, c.seq_no_send), StartAck, StartConn >>
      [] a = "A8"   -> << StopAck, Clear, Do("ConfirmData", peer, 0), StartConn >>
      [] a = "A8b"  -> << StopAck, Clear, StartConn >>
      [] a = "A9"   -> << Do("Retransmit", peer, 0), StartAck, StartConn >>
      [] a = "A10"  -> << Do("SendDisconnect", ev.addr, 0) >>
      [] a = "A11"  -> << Do("QueueEvent", ev.addr, 0) >>
      [] a = "A12"  -> << Do("SendConnect", ev.addr, 0), StartConn >>
      [] a = "A13"  -> << Do("ConfirmConnect", peer, 0) >>
      [] a = "A14"  -> << Do("SendDisconnect", peer, 0), StopAck, StopConn,
                          Do("ConfirmDisconnect", peer, 0) >>
      [] a = "A14b" -> << Do("SendDisconnect", peer, 0), StopAck, StopConn >>
      [] a = "A15"  -> << StopAck, StopConn, Do("ConfirmDisconnect", peer, 0) >>
      [] OTHER      -> << >>

(* process_event: the connection with its counters updated, the actions,   *)
(* and the state to apply after them ("None": no transition).              *)
process_event(style, c, ev) ==
    LET e    == classify_event(style, c, ev)
        cell == IF e = "None" THEN DNE ELSE lookup(style, c.state, e)
    IN  IF cell[2] = "DoesNotExist"
        THEN [conn |-> c, actions |-> << >>, next_state |-> "None"]
        ELSE [conn       |-> CoreAfter(cell[2], c, ev),
              actions    |-> Actions(cell[2], c, ev),
              next_state |-> cell[1]]

Asks(actions, op) == \E k \in DOMAIN actions : actions[k].op = op
=============================================================================
