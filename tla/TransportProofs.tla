--------------------------- MODULE TransportProofs ---------------------------
(***************************************************************************)
(* Theorems about TransportLayer, for every style, every number of slots,  *)
(* any set of peers and any sequence-number range.  The inductive          *)
(* invariant is Inv: types, the uniqueness of an open connection's address *)
(* among the slots before it, and one condition per slot (SlotOK) that     *)
(* ties its timers and stored messages to its state.  The argument goes    *)
(* from the table cells (CellOK) over the effect of one event on one       *)
(* connection (EventSlot, RequestSlot) to the effect of execute_actions on *)
(* the table (ExecuteTable), and from there to the actions.                *)
(***************************************************************************)
EXTENDS TransportLayer, FiniteSetTheorems, WellFoundedInduction, TLAPS

DeviceStates == {"Closed", "OpenIdle", "OpenWait"}

EventNames ==
    {"E00", "E01", "E02", "E03", "E04", "E05", "E06", "E07", "E08", "E09",
     "E10", "E11", "E11b", "E12", "E13", "E14", "E15", "E16", "E17", "E18"}

ActionNames ==
    {"A0", "A1", "A2", "A3", "A4", "A5", "A6", "A7", "A8", "A8b", "A9",
     "A10", "A11", "DoesNotExist"}

(* What the proofs use of a table cell: every action goes with a fixed     *)
(* change of state.  Only Style 2 lets A0 leave OPEN_WAIT (on E00).        *)
CellOK(style, cell, st, e) ==
    /\ cell \in DeviceStates \X ActionNames
    /\ cell[2] \in {"A0", "A10"} =>
         \/ cell[1] = st
         \/ style = "Style2" /\ st = "OpenWait" /\ cell[1] = "OpenIdle"
    /\ cell[2] = "A1" => st = "Closed" /\ cell[1] = "OpenIdle"
    /\ cell[2] \in {"A2", "A3", "A4"} => st # "Closed" /\ cell[1] = st
    /\ cell[2] \in {"A5", "A6"} => cell[1] = "Closed"
    /\ cell[2] = "A7" => st = "OpenIdle" /\ cell[1] = "OpenWait" /\ e = "E15"
    /\ cell[2] \in {"A8", "A8b"} => st = "OpenWait" /\ cell[1] = "OpenIdle"
    /\ cell[2] = "A9" => st = "OpenWait" /\ cell[1] = "OpenWait" /\ e \in {"E12", "E17"}
    /\ cell[2] = "A11" => st = "OpenWait" /\ cell[1] = "OpenWait" /\ e = "E15"
    /\ e = "E15" /\ st # "Closed" => cell[2] \in {"A6", "A7", "A11"}

RowOK(style, row, e) == \A st \in DeviceStates : CellOK(style, row[st], st, e)

RowsOK(style, T) ==
    /\ RowOK(style, T["E00"], "E00") /\ RowOK(style, T["E01"], "E01")
    /\ RowOK(style, T["E02"], "E02") /\ RowOK(style, T["E03"], "E03")
    /\ RowOK(style, T["E04"], "E04") /\ RowOK(style, T["E05"], "E05")
    /\ RowOK(style, T["E06"], "E06") /\ RowOK(style, T["E07"], "E07")
    /\ RowOK(style, T["E08"], "E08") /\ RowOK(style, T["E09"], "E09")
    /\ RowOK(style, T["E10"], "E10") /\ RowOK(style, T["E11"], "E11")
    /\ RowOK(style, T["E11b"], "E11b") /\ RowOK(style, T["E12"], "E12")
    /\ RowOK(style, T["E13"], "E13") /\ RowOK(style, T["E14"], "E14")
    /\ RowOK(style, T["E15"], "E15") /\ RowOK(style, T["E16"], "E16")
    /\ RowOK(style, T["E17"], "E17") /\ RowOK(style, T["E18"], "E18")

\* A table row is good when its three cells are.
LEMMA RowIntro ==
    ASSUME NEW style, NEW e, NEW c, NEW i, NEW w, NEW n,
           CellOK(style, c, "Closed", e), CellOK(style, i, "OpenIdle", e),
           CellOK(style, w, "OpenWait", e)
    PROVE  RowOK(style, Row(c, i, w, n), e)
  BY DEF RowOK, Row, DeviceStates

\* The cells of the Style 1 table.
LEMMA RowsStyle1 == RowsOK("Style1", STYLE_1_TABLE)
  <1>. USE RowIntro DEF STYLE_1_TABLE, CellOK, DeviceStates, ActionNames, C, I, W, N, DNE,
                        NoSuchEvent
  <1>1. /\ RowOK("Style1", STYLE_1_TABLE["E00"], "E00")
       /\ RowOK("Style1", STYLE_1_TABLE["E01"], "E01")
       /\ RowOK("Style1", STYLE_1_TABLE["E02"], "E02")
       /\ RowOK("Style1", STYLE_1_TABLE["E03"], "E03")
       /\ RowOK("Style1", STYLE_1_TABLE["E04"], "E04")
    OBVIOUS
  <1>2. /\ RowOK("Style1", STYLE_1_TABLE["E05"], "E05")
       /\ RowOK("Style1", STYLE_1_TABLE["E06"], "E06")
       /\ RowOK("Style1", STYLE_1_TABLE["E07"], "E07")
       /\ RowOK("Style1", STYLE_1_TABLE["E08"], "E08")
       /\ RowOK("Style1", STYLE_1_TABLE["E09"], "E09")
    OBVIOUS
  <1>3. /\ RowOK("Style1", STYLE_1_TABLE["E10"], "E10")
       /\ RowOK("Style1", STYLE_1_TABLE["E11"], "E11")
       /\ RowOK("Style1", STYLE_1_TABLE["E11b"], "E11b")
       /\ RowOK("Style1", STYLE_1_TABLE["E12"], "E12")
       /\ RowOK("Style1", STYLE_1_TABLE["E13"], "E13")
    OBVIOUS
  <1>4. /\ RowOK("Style1", STYLE_1_TABLE["E14"], "E14")
       /\ RowOK("Style1", STYLE_1_TABLE["E15"], "E15")
       /\ RowOK("Style1", STYLE_1_TABLE["E16"], "E16")
       /\ RowOK("Style1", STYLE_1_TABLE["E17"], "E17")
       /\ RowOK("Style1", STYLE_1_TABLE["E18"], "E18")
    OBVIOUS
  <1>. HIDE RowIntro DEF STYLE_1_TABLE
  <1>. QED BY <1>1, <1>2, <1>3, <1>4 DEF RowsOK

\* The cells of the Style 2 table.
LEMMA RowsStyle2 == RowsOK("Style2", STYLE_2_TABLE)
  <1>. USE RowIntro DEF STYLE_2_TABLE, CellOK, DeviceStates, ActionNames, C, I, W, N, DNE,
                        NoSuchEvent
  <1>1. /\ RowOK("Style2", STYLE_2_TABLE["E00"], "E00")
       /\ RowOK("Style2", STYLE_2_TABLE["E01"], "E01")
       /\ RowOK("Style2", STYLE_2_TABLE["E02"], "E02")
       /\ RowOK("Style2", STYLE_2_TABLE["E03"], "E03")
       /\ RowOK("Style2", STYLE_2_TABLE["E04"], "E04")
    OBVIOUS
  <1>2. /\ RowOK("Style2", STYLE_2_TABLE["E05"], "E05")
       /\ RowOK("Style2", STYLE_2_TABLE["E06"], "E06")
       /\ RowOK("Style2", STYLE_2_TABLE["E07"], "E07")
       /\ RowOK("Style2", STYLE_2_TABLE["E08"], "E08")
       /\ RowOK("Style2", STYLE_2_TABLE["E09"], "E09")
    OBVIOUS
  <1>3. /\ RowOK("Style2", STYLE_2_TABLE["E10"], "E10")
       /\ RowOK("Style2", STYLE_2_TABLE["E11"], "E11")
       /\ RowOK("Style2", STYLE_2_TABLE["E11b"], "E11b")
       /\ RowOK("Style2", STYLE_2_TABLE["E12"], "E12")
       /\ RowOK("Style2", STYLE_2_TABLE["E13"], "E13")
    OBVIOUS
  <1>4. /\ RowOK("Style2", STYLE_2_TABLE["E14"], "E14")
       /\ RowOK("Style2", STYLE_2_TABLE["E15"], "E15")
       /\ RowOK("Style2", STYLE_2_TABLE["E16"], "E16")
       /\ RowOK("Style2", STYLE_2_TABLE["E17"], "E17")
       /\ RowOK("Style2", STYLE_2_TABLE["E18"], "E18")
    OBVIOUS
  <1>. HIDE RowIntro DEF STYLE_2_TABLE
  <1>. QED BY <1>1, <1>2, <1>3, <1>4 DEF RowsOK

\* The cells of the Style 3 table.
LEMMA RowsStyle3 == RowsOK("Style3", STYLE_3_TABLE)
  <1>. USE RowIntro DEF STYLE_3_TABLE, CellOK, DeviceStates, ActionNames, C, I, W, N, DNE,
                        NoSuchEvent
  <1>1. /\ RowOK("Style3", STYLE_3_TABLE["E00"], "E00")
       /\ RowOK("Style3", STYLE_3_TABLE["E01"], "E01")
       /\ RowOK("Style3", STYLE_3_TABLE["E02"], "E02")
       /\ RowOK("Style3", STYLE_3_TABLE["E03"], "E03")
       /\ RowOK("Style3", STYLE_3_TABLE["E04"], "E04")
    OBVIOUS
  <1>2. /\ RowOK("Style3", STYLE_3_TABLE["E05"], "E05")
       /\ RowOK("Style3", STYLE_3_TABLE["E06"], "E06")
       /\ RowOK("Style3", STYLE_3_TABLE["E07"], "E07")
       /\ RowOK("Style3", STYLE_3_TABLE["E08"], "E08")
       /\ RowOK("Style3", STYLE_3_TABLE["E09"], "E09")
    OBVIOUS
  <1>3. /\ RowOK("Style3", STYLE_3_TABLE["E10"], "E10")
       /\ RowOK("Style3", STYLE_3_TABLE["E11"], "E11")
       /\ RowOK("Style3", STYLE_3_TABLE["E11b"], "E11b")
       /\ RowOK("Style3", STYLE_3_TABLE["E12"], "E12")
       /\ RowOK("Style3", STYLE_3_TABLE["E13"], "E13")
    OBVIOUS
  <1>4. /\ RowOK("Style3", STYLE_3_TABLE["E14"], "E14")
       /\ RowOK("Style3", STYLE_3_TABLE["E15"], "E15")
       /\ RowOK("Style3", STYLE_3_TABLE["E16"], "E16")
       /\ RowOK("Style3", STYLE_3_TABLE["E17"], "E17")
       /\ RowOK("Style3", STYLE_3_TABLE["E18"], "E18")
    OBVIOUS
  <1>. HIDE RowIntro DEF STYLE_3_TABLE
  <1>. QED BY <1>1, <1>2, <1>3, <1>4 DEF RowsOK

\* The cells of the Style 1 Rationalised table.
LEMMA RowsStyle1R == RowsOK("Style1R", STYLE_1R_TABLE)
  <1>. USE RowIntro DEF STYLE_1R_TABLE, STYLE_1_TABLE, CellOK, DeviceStates, ActionNames, C, I, W, N, DNE,
                        NoSuchEvent
  <1>1. /\ RowOK("Style1R", STYLE_1R_TABLE["E00"], "E00")
       /\ RowOK("Style1R", STYLE_1R_TABLE["E01"], "E01")
       /\ RowOK("Style1R", STYLE_1R_TABLE["E02"], "E02")
       /\ RowOK("Style1R", STYLE_1R_TABLE["E03"], "E03")
       /\ RowOK("Style1R", STYLE_1R_TABLE["E04"], "E04")
    OBVIOUS
  <1>2. /\ RowOK("Style1R", STYLE_1R_TABLE["E05"], "E05")
       /\ RowOK("Style1R", STYLE_1R_TABLE["E06"], "E06")
       /\ RowOK("Style1R", STYLE_1R_TABLE["E07"], "E07")
       /\ RowOK("Style1R", STYLE_1R_TABLE["E08"], "E08")
       /\ RowOK("Style1R", STYLE_1R_TABLE["E09"], "E09")
    OBVIOUS
  <1>3. /\ RowOK("Style1R", STYLE_1R_TABLE["E10"], "E10")
       /\ RowOK("Style1R", STYLE_1R_TABLE["E11"], "E11")
       /\ RowOK("Style1R", STYLE_1R_TABLE["E11b"], "E11b")
       /\ RowOK("Style1R", STYLE_1R_TABLE["E12"], "E12")
       /\ RowOK("Style1R", STYLE_1R_TABLE["E13"], "E13")
    OBVIOUS
  <1>4. /\ RowOK("Style1R", STYLE_1R_TABLE["E14"], "E14")
       /\ RowOK("Style1R", STYLE_1R_TABLE["E15"], "E15")
       /\ RowOK("Style1R", STYLE_1R_TABLE["E16"], "E16")
       /\ RowOK("Style1R", STYLE_1R_TABLE["E17"], "E17")
       /\ RowOK("Style1R", STYLE_1R_TABLE["E18"], "E18")
    OBVIOUS
  <1>. HIDE RowIntro DEF STYLE_1R_TABLE
  <1>. QED BY <1>1, <1>2, <1>3, <1>4 DEF RowsOK

(* Every cell a device connection can reach obeys CellOK.                  *)
LEMMA CellFacts ==
    ASSUME NEW style \in Styles, NEW st \in DeviceStates, NEW e \in EventNames
    PROVE  CellOK(style, lookup(style, st, e), st, e)
  <1>1. RowsOK(style, Table(style))
    BY RowsStyle1, RowsStyle2, RowsStyle3, RowsStyle1R DEF Styles, Table
  <1>2. RowOK(style, Table(style)[e], e)
    BY <1>1 DEF RowsOK, EventNames
  <1>. QED BY <1>2 DEF RowOK, lookup

-----------------------------------------------------------------------------
(* What each specification action asks of the embedder, as far as timers   *)
(* and stored messages go.                                                 *)
AsksOK(a, x) ==
    /\ Asks(x, "StartAckTimer") <=> a \in {"A7", "A9"}
    /\ Asks(x, "StopAckTimer") <=> a \in {"A5", "A6", "A8", "A8b"}
    /\ Asks(x, "StartConnTimer") <=> a \in {"A1", "A2", "A3", "A4", "A7", "A8", "A8b", "A9"}
    /\ Asks(x, "StopConnTimer") <=> a \in {"A5", "A6"}
    /\ Asks(x, "ClearPendingMessage") <=> a \in {"A8", "A8b"}
    /\ Asks(x, "QueueEvent") <=> a = "A11"

(* The operations that put a message into the outbox.                      *)
Emitters == {"SendAck", "SendNack", "SendDisconnect", "IndicateConnected",
             "IndicateDisconnected", "IndicateData", "Retransmit"}

EmittersOK(x, addr) ==
    \A k \in DOMAIN x : x[k].op \in Emitters => x[k].addr = addr /\ x[k].seq \in SeqNos

\* What each of execute_action's actions asks of timers and stored message.
LEMMA AskFacts ==
    ASSUME NEW a \in ActionNames, NEW c, NEW ev
    PROVE  AsksOK(a, Actions(a, c, ev))
  <1>. USE DEF AsksOK, Actions, StartAck, StopAck, StartConn, StopConn, Store, Clear,
               Asks, Do, Timer
  <1>1. AsksOK("A0", Actions("A0", c, ev)) OBVIOUS
  <1>2. AsksOK("A1", Actions("A1", c, ev)) OBVIOUS
  <1>3. AsksOK("A2", Actions("A2", c, ev)) OBVIOUS
  <1>4. AsksOK("A3", Actions("A3", c, ev)) OBVIOUS
  <1>5. AsksOK("A4", Actions("A4", c, ev)) OBVIOUS
  <1>6. AsksOK("A5", Actions("A5", c, ev)) OBVIOUS
  <1>7. AsksOK("A6", Actions("A6", c, ev)) OBVIOUS
  <1>8. AsksOK("A7", Actions("A7", c, ev)) OBVIOUS
  <1>9. AsksOK("A8", Actions("A8", c, ev)) OBVIOUS
  <1>10. AsksOK("A8b", Actions("A8b", c, ev)) OBVIOUS
  <1>11. AsksOK("A9", Actions("A9", c, ev)) OBVIOUS
  <1>12. AsksOK("A10", Actions("A10", c, ev)) OBVIOUS
  <1>13. AsksOK("A11", Actions("A11", c, ev)) OBVIOUS
  <1>14. AsksOK("DoesNotExist", Actions("DoesNotExist", c, ev)) OBVIOUS
  <1>. HIDE DEF AsksOK, Actions
  <1>. QED BY <1>1, <1>2, <1>3, <1>4, <1>5, <1>6, <1>7,
            <1>8, <1>9, <1>10, <1>11, <1>12, <1>13, <1>14 DEF ActionNames

\* Every message execute_action asks for goes to the connection's own peer.
LEMMA EmitterFacts ==
    ASSUME NEW a \in ActionNames, NEW c, NEW ev,
           c.seq_no_recv \in SeqNos, c.seq_no_send \in SeqNos, ev.seq \in SeqNos,
           ev.addr = c.remote_addr
    PROVE  EmittersOK(Actions(a, c, ev), c.remote_addr)
  <1>0. 0 \in SeqNos BY SeqModAssumption DEF SeqNos
  <1>. USE <1>0 DEF EmittersOK, Emitters, Actions, StartAck, StopAck, StartConn, StopConn,
               Store, Clear, Do, Timer
  <1>1. EmittersOK(Actions("A0", c, ev), c.remote_addr) OBVIOUS
  <1>2. EmittersOK(Actions("A1", c, ev), c.remote_addr) OBVIOUS
  <1>3. EmittersOK(Actions("A2", c, ev), c.remote_addr) OBVIOUS
  <1>4. EmittersOK(Actions("A3", c, ev), c.remote_addr) OBVIOUS
  <1>5. EmittersOK(Actions("A4", c, ev), c.remote_addr) OBVIOUS
  <1>6. EmittersOK(Actions("A5", c, ev), c.remote_addr) OBVIOUS
  <1>7. EmittersOK(Actions("A6", c, ev), c.remote_addr) OBVIOUS
  <1>8. EmittersOK(Actions("A7", c, ev), c.remote_addr) OBVIOUS
  <1>9. EmittersOK(Actions("A8", c, ev), c.remote_addr) OBVIOUS
  <1>10. EmittersOK(Actions("A8b", c, ev), c.remote_addr) OBVIOUS
  <1>11. EmittersOK(Actions("A9", c, ev), c.remote_addr) OBVIOUS
  <1>12. EmittersOK(Actions("A10", c, ev), c.remote_addr) OBVIOUS
  <1>13. EmittersOK(Actions("A11", c, ev), c.remote_addr) OBVIOUS
  <1>14. EmittersOK(Actions("DoesNotExist", c, ev), c.remote_addr) OBVIOUS
  <1>. HIDE DEF EmittersOK, Actions
  <1>. QED BY <1>1, <1>2, <1>3, <1>4, <1>5, <1>6, <1>7,
            <1>8, <1>9, <1>10, <1>11, <1>12, <1>13, <1>14 DEF ActionNames

-----------------------------------------------------------------------------
(* The condition on one slot.                                              *)
Disciplined(c) ==
    /\ Open(c) => c.conn_timer # "off"
    /\ c.state = "OpenWait" <=> c.ack_timer # "off"
    /\ Open(c) => (c.state = "OpenWait" <=> c.pending_msg # NoMsg)
    /\ c.state = "OpenWait" => c.pending_msg.seq = c.seq_no_send
    /\ Open(c) /\ c.queued_outgoing # NoMsg => c.state = "OpenWait"

SlotOK(c) ==
    /\ c \in Connection /\ c.state # "Connecting"
    /\ ~Open(c) => c.ack_timer = "off" /\ c.conn_timer = "off"
    /\ Style # "Style2" => Disciplined(c)

(* The connection after the deferred transition and a possible release.    *)
Final(c) == IF c.state = "OpenIdle" /\ c.queued_outgoing # NoMsg THEN Released(c) ELSE c

DeviceEvents == {"ReceivedConnect", "ReceivedDisconnect", "ReceivedData", "ReceivedAck",
                 "ReceivedNack", "ConnectionTimeout", "AckTimeout"}

\* Sequence numbers stay in their range when they are advanced.
LEMMA SeqFacts ==
    /\ 0 \in SeqNos
    /\ \A q \in SeqNos : inc_seq(q) \in SeqNos
    /\ NoMsg \notin Stored
  <1>1. \A q \in SeqNos : (q + 1) % SeqMod \in 0 .. SeqMod - 1
    BY SeqModAssumption DEF SeqNos
  <1>. QED BY <1>1, SeqModAssumption DEF SeqNos, inc_seq, NoMsg, Stored

(* The class of an event and the repetition bound that goes with it.       *)
LEMMA ClassFacts ==
    ASSUME NEW c, NEW ev, ev.type \in DeviceEvents \cup {"RequestData"}
    PROVE  LET e == classify_event(Style, c, ev) IN
           /\ e \in EventNames \cup {"None"}
           /\ e \in {"E12", "E17"} => c.rep_count < MaxRepetitions
           /\ e = "E15" <=> ev.type = "RequestData"
           /\ e # "None" \/ ev.type = "AckTimeout"
  BY ZenonT(40) DEF classify_event, DeviceEvents, EventNames

(* process_event does nothing, or takes the action of a table cell.        *)
CellStep(c, ev, r, st, a) ==
    /\ a \in ActionNames \ {"DoesNotExist"}
    /\ <<st, a>> = lookup(Style, c.state, classify_event(Style, c, ev))
    /\ CellOK(Style, <<st, a>>, c.state, classify_event(Style, c, ev))
    /\ r = [conn |-> CoreAfter(a, c, ev), actions |-> Actions(a, c, ev), next_state |-> st]

\* process_event either ignores the event or takes one cell of the table.
LEMMA ProcessFacts ==
    ASSUME NEW c, SlotOK(c), NEW ev, ev.type \in DeviceEvents \cup {"RequestData"},
           NEW r, r = process_event(Style, c, ev)
    PROVE  \/ /\ r = [conn |-> c, actions |-> << >>, next_state |-> "None"]
              /\ ev.type = "RequestData" => c.state = "Closed"
           \/ \E st \in DeviceStates, a \in ActionNames : CellStep(c, ev, r, st, a)
  <1>. DEFINE e == classify_event(Style, c, ev)
              cell == lookup(Style, c.state, e)
  <1>1. c.state \in DeviceStates
    BY DEF SlotOK, Connection, ConnStates, DeviceStates
  <1>2. CASE e = "None"
    BY <1>2, ClassFacts DEF process_event, DNE, DeviceEvents
  <1>3. CASE e # "None"
    <2>1. e \in EventNames /\ CellOK(Style, cell, c.state, e)
      BY <1>1, <1>3, ClassFacts, CellFacts, StyleAssumption
    <2>2. cell \in DeviceStates \X ActionNames /\ cell = <<cell[1], cell[2]>>
      BY <2>1 DEF CellOK
    <2>. HIDE DEF cell
    <2>3. CASE cell[2] = "DoesNotExist"
      <3>1. r = [conn |-> c, actions |-> << >>, next_state |-> "None"]
        BY <1>3, <2>3 DEF process_event, cell
      <3>2. ev.type = "RequestData" => c.state = "Closed"
        BY <2>1, <2>3, ClassFacts DEF CellOK
      <3>. QED BY <3>1, <3>2
    <2>4. CASE cell[2] # "DoesNotExist"
      <3>1. r = [conn |-> CoreAfter(cell[2], c, ev), actions |-> Actions(cell[2], c, ev),
                 next_state |-> cell[1]]
        BY <1>3, <2>4 DEF process_event, cell
      <3>2. CellStep(c, ev, r, cell[1], cell[2])
        BY <2>1, <2>2, <2>4, <3>1 DEF CellStep, cell
      <3>. QED BY <2>2, <3>2
    <2>. QED BY <2>3, <2>4
  <1>. QED BY <1>2, <1>3

(* Before a queued response is released it may sit in an idle connection.  *)
PreOK(c) ==
    /\ c \in Connection /\ c.state # "Connecting"
    /\ ~Open(c) => c.ack_timer = "off" /\ c.conn_timer = "off"
    /\ Style # "Style2" =>
         /\ Open(c) => c.conn_timer # "off"
         /\ c.state = "OpenWait" <=> c.ack_timer # "off"
         /\ Open(c) => (c.state = "OpenWait" <=> c.pending_msg # NoMsg)
         /\ c.state = "OpenWait" => c.pending_msg.seq = c.seq_no_send

\* Releasing a queued response leaves a good slot and keeps its address.
LEMMA FinalOK ==
    ASSUME NEW c, PreOK(c)
    PROVE  SlotOK(Final(c)) /\ Final(c).remote_addr = c.remote_addr
  <1>1. CASE c.state = "OpenIdle" /\ c.queued_outgoing # NoMsg
    <2>. DEFINE q == [c.queued_outgoing EXCEPT !.seq = c.seq_no_send]
    <2>1. q \in Stored /\ q.seq = c.seq_no_send /\ q # NoMsg
      BY <1>1, SeqFacts DEF PreOK, Connection, Stored
    <2>2. 0 \in 0 .. MaxRepetitions
      BY MaxRepAssumption
    <2>. HIDE DEF q
    <2>3. Final(c) = [c EXCEPT !.rep_count = 0, !.pending_msg = q, !.queued_outgoing = NoMsg,
                               !.ack_timer = "running", !.conn_timer = "running",
                               !.state = "OpenWait"]
      BY <1>1 DEF Final, Released, q
    <2>. QED BY ZenonT(40), <2>1, <2>2, <2>3 DEF PreOK, SlotOK, Disciplined, Connection, ConnStates,
                                    TimerVals, Open
  <1>2. CASE ~(c.state = "OpenIdle" /\ c.queued_outgoing # NoMsg)
    <2>1. Final(c) = c
      BY <1>2 DEF Final
    <2>. QED BY <1>2, <2>1 DEF PreOK, SlotOK, Disciplined, Connection, ConnStates, Open
  <1>. QED BY <1>1, <1>2

(* The counters an action changes stay in range.                           *)
LEMMA CoreType ==
    ASSUME NEW c \in Connection, NEW ev, ev.addr = c.remote_addr, NEW a \in ActionNames,
           a = "A9" => c.rep_count < MaxRepetitions
    PROVE  LET d == CoreAfter(a, c, ev) IN
           /\ d \in Connection
           /\ d.state = c.state /\ d.remote_addr = c.remote_addr
           /\ d.ack_timer = c.ack_timer /\ d.conn_timer = c.conn_timer
           /\ d.pending_msg = c.pending_msg /\ d.queued_outgoing = c.queued_outgoing
           /\ a \notin {"A1", "A8", "A8b"} => d.seq_no_send = c.seq_no_send
  <1>. USE SeqFacts, MaxRepAssumption DEF Connection, CoreAfter
  <1>1. CASE a = "A1"
    <2>1. CoreAfter(a, c, ev) = [c EXCEPT !.seq_no_send = 0, !.seq_no_recv = 0, !.rep_count = 0]
      BY <1>1
    <2>2. 0 \in 0 .. MaxRepetitions
      OBVIOUS
    <2>. QED BY <1>1, <2>1, <2>2
  <1>2. CASE a = "A2" BY <1>2
  <1>3. CASE a = "A7" BY <1>3
  <1>4. CASE a \in {"A8", "A8b"} BY <1>4
  <1>5. CASE a = "A9"
    <2>1. c.rep_count + 1 \in 0 .. MaxRepetitions
      BY <1>5
    <2>. QED BY <1>5, <2>1
  <1>6. CASE a \in {"A0", "A3", "A4", "A5", "A6", "A10", "A11", "DoesNotExist"} BY <1>6
  <1>. QED BY <1>1, <1>2, <1>3, <1>4, <1>5, <1>6 DEF ActionNames

(* Timers, stored message and state after the embedder executed action a.  *)
LEMMA ApplyFacts ==
    ASSUME NEW c, NEW d \in Connection, NEW ev, NEW st \in DeviceStates, NEW a \in ActionNames,
           NEW r, r.actions = Actions(a, c, ev), r.next_state = st
    PROVE  LET x == ApplyTo(d, r) IN
           /\ x \in Connection /\ x.state = st
           /\ x.remote_addr = d.remote_addr /\ x.seq_no_send = d.seq_no_send
           /\ x.queued_outgoing = d.queued_outgoing
           /\ x.ack_timer = IF a \in {"A7", "A9"} THEN "running"
                            ELSE IF a \in {"A5", "A6", "A8", "A8b"} THEN "off" ELSE d.ack_timer
           /\ x.conn_timer = IF a \in {"A1", "A2", "A3", "A4", "A7", "A8", "A8b", "A9"}
                             THEN "running"
                             ELSE IF a \in {"A5", "A6"} THEN "off" ELSE d.conn_timer
           /\ x.pending_msg = IF a \in {"A8", "A8b"} THEN NoMsg ELSE d.pending_msg
  <1>1. AsksOK(a, r.actions)
    BY AskFacts
  <1>2. st # "None" /\ st \in ConnStates
    BY DEF DeviceStates, ConnStates
  <1>3. NoMsg \in Stored \cup {NoMsg}
    OBVIOUS
  <1>. QED BY <1>1, <1>2, <1>3 DEF AsksOK, ApplyTo, Connection, TimerVals

(* One event, fed to one connection, and the actions it asks for.          *)
LEMMA EventSlot ==
    ASSUME NEW c, SlotOK(c), ~Open(c) => c.pending_msg = NoMsg,
           NEW ev, ev.type \in DeviceEvents, ev.seq \in SeqNos,
           ev.addr = c.remote_addr, NEW r, r = process_event(Style, c, ev)
    PROVE  /\ r.conn \in Connection /\ r.conn.remote_addr = c.remote_addr
           /\ PreOK(ApplyTo(r.conn, r)) /\ ApplyTo(r.conn, r).remote_addr = c.remote_addr
           /\ EmittersOK(r.actions, c.remote_addr)
  <1>0. c \in Connection
    BY DEF SlotOK
  <1>1. CASE r = [conn |-> c, actions |-> << >>, next_state |-> "None"]
    <2>1. \A op : ~Asks(r.actions, op)
      BY <1>1 DEF Asks
    <2>2. ApplyTo(r.conn, r) = c
      <3>0. r.conn = c /\ r.next_state = "None"
        BY <1>1
      <3>1. /\ ~Asks(r.actions, "StartAckTimer") /\ ~Asks(r.actions, "StopAckTimer")
            /\ ~Asks(r.actions, "StartConnTimer") /\ ~Asks(r.actions, "StopConnTimer")
            /\ ~Asks(r.actions, "ClearPendingMessage")
        BY <2>1
      <3>2. ApplyTo(c, r) =
              [c EXCEPT !.ack_timer = c.ack_timer, !.conn_timer = c.conn_timer,
                        !.pending_msg = c.pending_msg, !.state = c.state]
        BY <3>0, <3>1 DEF ApplyTo
      <3>. QED BY <1>0, <3>0, <3>2 DEF Connection
    <2>3. EmittersOK(r.actions, c.remote_addr)
      BY <1>1 DEF EmittersOK
    <2>. QED BY <1>0, <1>1, <2>2, <2>3 DEF PreOK, SlotOK, Disciplined
  <1>2. ASSUME NEW st \in DeviceStates, NEW a \in ActionNames, CellStep(c, ev, r, st, a)
        PROVE  /\ r.conn \in Connection /\ r.conn.remote_addr = c.remote_addr
               /\ PreOK(ApplyTo(r.conn, r)) /\ ApplyTo(r.conn, r).remote_addr = c.remote_addr
               /\ EmittersOK(r.actions, c.remote_addr)
    <2>. DEFINE e == classify_event(Style, c, ev)
                d == CoreAfter(a, c, ev)
                x == ApplyTo(r.conn, r)
    <2>1. r.conn = d /\ r.actions = Actions(a, c, ev) /\ r.next_state = st
      BY <1>2 DEF CellStep
    <2>2. CellOK(Style, <<st, a>>, c.state, e) /\ e # "E15"
      BY <1>2, ClassFacts DEF CellStep, DeviceEvents
    <2>3. /\ a = "A9" => c.rep_count < MaxRepetitions
          /\ a \notin {"A7", "A11"}
      BY <2>2, ClassFacts DEF CellOK
    <2>4. EmittersOK(r.actions, c.remote_addr)
      BY <1>0, <2>1, EmitterFacts DEF Connection
    <2>5. /\ d \in Connection
          /\ d.state = c.state /\ d.remote_addr = c.remote_addr
          /\ d.ack_timer = c.ack_timer /\ d.conn_timer = c.conn_timer
          /\ d.pending_msg = c.pending_msg /\ d.queued_outgoing = c.queued_outgoing
          /\ a \notin {"A1", "A8", "A8b"} => d.seq_no_send = c.seq_no_send
      BY <1>0, <2>3, CoreType
    <2>. HIDE DEF e, d
    <2>6. /\ x \in Connection /\ x.state = st
          /\ x.remote_addr = d.remote_addr /\ x.seq_no_send = d.seq_no_send
          /\ x.queued_outgoing = d.queued_outgoing
          /\ x.ack_timer = IF a = "A9" THEN "running"
                           ELSE IF a \in {"A5", "A6", "A8", "A8b"} THEN "off" ELSE d.ack_timer
          /\ x.conn_timer = IF a \in {"A1", "A2", "A3", "A4", "A8", "A8b", "A9"}
                            THEN "running"
                            ELSE IF a \in {"A5", "A6"} THEN "off" ELSE d.conn_timer
          /\ x.pending_msg = IF a \in {"A8", "A8b"} THEN NoMsg ELSE d.pending_msg
      BY <2>1, <2>3, <2>5, ApplyFacts
    <2>. HIDE DEF x
    <2>7. PreOK(x)
      <3>. USE <2>2, <2>3, <2>5, <2>6 DEF CellOK, PreOK, SlotOK, Disciplined, Open
      <3>1. CASE a \in {"A0", "A10"} BY <3>1
      <3>2. CASE a \in {"A1", "A2", "A3", "A4"} BY <3>2
      <3>3. CASE a \in {"A5", "A6"} BY <3>3
      <3>4. CASE a \in {"A8", "A8b"} BY <3>4
      <3>5. CASE a = "A9" BY <3>5
      <3>. QED BY <1>2, <3>1, <3>2, <3>3, <3>4, <3>5 DEF CellStep, ActionNames
    <2>. QED BY <2>1, <2>4, <2>5, <2>6, <2>7 DEF x
  <1>. QED BY <1>1, <1>2, ProcessFacts

(* A data request of the application layer on an open connection.          *)
LEMMA RequestSlot ==
    ASSUME NEW c, SlotOK(c), Open(c), NEW ev, ev.type = "RequestData", ev.seq \in SeqNos,
           ev.addr = c.remote_addr, NEW r, r = process_event(Style, c, ev),
           NEW m, m.mac_seq \in SeqNos, m.re \in SeqNos, NEW d, d = StoreRequest(c, r, m)
    PROVE  /\ d \in Connection /\ d.remote_addr = c.remote_addr
           /\ ~Asks(r.actions, "QueueEvent") => d.pending_msg \in Stored
           /\ PreOK(ApplyTo(d, r)) /\ ApplyTo(d, r).remote_addr = c.remote_addr
           /\ EmittersOK(r.actions, c.remote_addr)
  <1>0. c \in Connection
    BY DEF SlotOK
  <1>1. PICK st \in DeviceStates, a \in ActionNames : CellStep(c, ev, r, st, a)
    BY ProcessFacts DEF Open
  <1>. DEFINE e == classify_event(Style, c, ev)
              b == CoreAfter(a, c, ev)
              x == ApplyTo(d, r)
  <1>2. r.conn = b /\ r.actions = Actions(a, c, ev) /\ r.next_state = st
    BY <1>1 DEF CellStep
  <1>3. CellOK(Style, <<st, a>>, c.state, e) /\ e = "E15"
    BY <1>1, ClassFacts DEF CellStep
  <1>4. a \in {"A6", "A7", "A11"}
    BY <1>3 DEF CellOK, Open
  <1>5. EmittersOK(r.actions, c.remote_addr)
    BY <1>0, <1>2, EmitterFacts DEF Connection
  <1>6. /\ b \in Connection
        /\ b.state = c.state /\ b.remote_addr = c.remote_addr
        /\ b.ack_timer = c.ack_timer /\ b.conn_timer = c.conn_timer
        /\ b.pending_msg = c.pending_msg /\ b.queued_outgoing = c.queued_outgoing
        /\ b.seq_no_send = c.seq_no_send
    BY <1>0, <1>4, CoreType
  <1>7. Asks(r.actions, "QueueEvent") <=> a = "A11"
    BY <1>2, AskFacts DEF AsksOK
  <1>. HIDE DEF e, b
  <1>8. CASE a = "A11"
    <2>. DEFINE q == [seq |-> 0, mac_seq |-> m.mac_seq, re |-> m.re]
    <2>1. q \in Stored
      BY SeqFacts DEF Stored
    <2>. HIDE DEF q
    <2>2. d = [b EXCEPT !.queued_outgoing = q]
      BY <1>2, <1>7, <1>8 DEF StoreRequest, q
    <2>3. /\ d \in Connection /\ d.remote_addr = c.remote_addr
          /\ d.state = c.state /\ d.seq_no_send = c.seq_no_send
          /\ d.ack_timer = c.ack_timer /\ d.conn_timer = c.conn_timer
          /\ d.pending_msg = c.pending_msg
      BY <1>6, <2>1, <2>2 DEF Connection
    <2>4. /\ x \in Connection /\ x.state = st /\ x.remote_addr = c.remote_addr
          /\ x.seq_no_send = c.seq_no_send /\ x.ack_timer = c.ack_timer
          /\ x.conn_timer = c.conn_timer /\ x.pending_msg = c.pending_msg
      BY <1>2, <1>8, <2>3, ApplyFacts
    <2>5. PreOK(x)
      BY <1>3, <1>8, <2>4 DEF CellOK, PreOK, SlotOK, Disciplined, Open
    <2>. QED BY <1>5, <1>7, <1>8, <2>3, <2>4, <2>5
  <1>9. CASE a \in {"A6", "A7"}
    <2>. DEFINE q == [seq |-> c.seq_no_send, mac_seq |-> m.mac_seq, re |-> m.re]
    <2>1. q \in Stored /\ q.seq = c.seq_no_send
      BY <1>0 DEF Stored, Connection
    <2>. HIDE DEF q
    <2>2. d = [b EXCEPT !.pending_msg = q]
      BY <1>2, <1>7, <1>9 DEF StoreRequest, q
    <2>3. /\ d \in Connection /\ d.remote_addr = c.remote_addr
          /\ d.seq_no_send = c.seq_no_send /\ d.pending_msg = q
      BY <1>6, <2>1, <2>2 DEF Connection
    <2>4. /\ x \in Connection /\ x.state = st /\ x.remote_addr = c.remote_addr
          /\ x.seq_no_send = c.seq_no_send /\ x.pending_msg = q
          /\ x.ack_timer = IF a = "A7" THEN "running" ELSE "off"
          /\ x.conn_timer = IF a = "A7" THEN "running" ELSE "off"
      BY <1>2, <1>9, <2>3, ApplyFacts
    <2>5. q # NoMsg
      BY <2>1, SeqFacts
    <2>6. PreOK(x)
      BY <1>3, <1>9, <2>1, <2>4, <2>5 DEF CellOK, PreOK, Open
    <2>. QED BY <1>5, <2>1, <2>3, <2>4, <2>6
  <1>. QED BY <1>4, <1>8, <1>9

-----------------------------------------------------------------------------
(* First returns the smallest member, or NoSlot.                           *)
LEMMA FirstProps ==
    ASSUME NEW S \in SUBSET Slots
    PROVE  /\ S = {} => First(S) = NoSlot
           /\ S # {} => First(S) \in S /\ \A j \in S : First(S) <= j
  <1>1. ASSUME S # {}
        PROVE  \E x \in S : \A y \in S : x <= y
    <2>1. S \subseteq Nat
      BY SlotsAssumption DEF Slots
    <2>2. \E x \in S : \A y \in S : <<y, x>> \notin OpToRel(<, Nat)
      BY <1>1, <2>1, WFMin, NatLessThanWellFounded
    <2>3. \A x, y \in Nat : <<y, x>> \notin OpToRel(<, Nat) => x <= y
      BY DEF OpToRel
    <2>. QED BY <2>1, <2>2, <2>3
  <1>. QED BY <1>1 DEF First

(* Each open slot is the first one with its address.                       *)
Unique(cs) ==
    \A j \in Slots : Open(cs[j]) =>
        \A i \in Slots : i < j => cs[i].remote_addr # cs[j].remote_addr

(* execute_actions writes the slot its event came from, and no other one.  *)
ExecutePre(cs, i, addr, d, r) ==
    /\ cs \in [Slots -> Connection] /\ Unique(cs)
    /\ i \in Slots /\ cs[i].remote_addr = addr
    /\ \A k \in Slots : k < i => cs[k].remote_addr # addr
    /\ d \in Connection /\ d.remote_addr = addr
    /\ ApplyTo(d, r).remote_addr = addr

ExecutePost(cs, i, addr, d, r, cs1, cs2) ==
    /\ find_any_including_closed(cs1, addr) = i
    /\ cs2 = [cs EXCEPT ![i] = ApplyTo(d, r)]
    /\ MustRelease(cs2, addr) =>
          find_any(cs2, addr) = i /\ cs2[i].queued_outgoing # NoMsg
    /\ AfterRelease(cs2, addr) = [cs EXCEPT ![i] = Final(ApplyTo(d, r))]

\* execute_actions changes the slot the event was for and no other.
LEMMA ExecuteTable ==
    ASSUME NEW cs, NEW i, NEW addr, NEW d, NEW r, ExecutePre(cs, i, addr, d, r)
    PROVE  ExecutePost(cs, i, addr, d, r, [cs EXCEPT ![i] = d],
                       AfterActions([cs EXCEPT ![i] = d], r, addr))
  <1>. DEFINE cs1 == [cs EXCEPT ![i] = d]
              cs2 == AfterActions(cs1, r, addr)
              x   == ApplyTo(d, r)
  <1>. USE DEF ExecutePre
  <1>. DEFINE cs3 == AfterRelease(cs2, addr)
              S1  == {k \in Slots : cs1[k].remote_addr = addr}
              S2  == {k \in Slots : Open(cs2[k]) /\ cs2[k].remote_addr = addr}
  <1>0. \A k \in Slots : k \in Nat
    BY SlotsAssumption DEF Slots
  <1>1. i # NoSlot
    BY SlotsAssumption DEF Slots, NoSlot
  <1>2. i \in S1 /\ \A k \in S1 : i <= k
    BY <1>0
  <1>3. find_any_including_closed(cs1, addr) = i
    <2>1. First(S1) \in S1 /\ First(S1) <= i
      BY SMTT(30), <1>2, FirstProps
    <2>2. First(S1) = i
      BY <1>0, <1>2, <2>1
    <2>. QED BY <2>2 DEF find_any_including_closed
  <1>4. cs2 = [cs EXCEPT ![i] = x]
    BY <1>1, <1>3 DEF AfterActions
  <1>. HIDE DEF cs1, cs2, x
  <1>5. \A k \in S2 : k = i
    <2>. SUFFICES ASSUME NEW k \in Slots, Open(cs2[k]), cs2[k].remote_addr = addr, k # i
                  PROVE  FALSE
      OBVIOUS
    <2>1. Open(cs[k]) /\ cs[k].remote_addr = addr
      BY <1>4
    <2>2. k < i \/ i < k
      BY <1>0
    <2>. QED BY <2>1, <2>2 DEF Unique
  <1>6. find_any(cs2, addr) = IF i \in S2 THEN i ELSE NoSlot
    <2>1. find_any(cs2, addr) = First(S2)
      BY DEF find_any
    <2>. QED BY SMTT(30), <1>5, <2>1, FirstProps
  <1>7. cs2[i] = x /\ x.remote_addr = addr /\ (i \in S2 <=> Open(x))
    BY <1>4 DEF x
  <1>8. MustRelease(cs2, addr) <=> x.state = "OpenIdle" /\ x.queued_outgoing # NoMsg
    BY <1>1, <1>6, <1>7 DEF MustRelease, Open
  <1>9. cs3 = [cs EXCEPT ![i] = Final(x)]
    <2>1. CASE MustRelease(cs2, addr)
      <3>1. find_any(cs2, addr) = i /\ Final(x) = Released(x)
        BY <1>1, <1>6, <1>8, <2>1 DEF MustRelease, Final
      <3>2. cs3 = [cs2 EXCEPT ![i] = Released(x)]
        BY <1>7, <2>1, <3>1 DEF AfterRelease
      <3>. QED BY <1>4, <3>1, <3>2
    <2>2. CASE ~MustRelease(cs2, addr)
      BY <1>4, <1>8, <2>2 DEF AfterRelease, Final
    <2>. QED BY SMTT(30), <2>1, <2>2
  <1>10. MustRelease(cs2, addr) => find_any(cs2, addr) = i /\ cs2[i].queued_outgoing # NoMsg
    BY <1>1, <1>6, <1>7, <1>8 DEF MustRelease
  <1>. QED BY <1>3, <1>4, <1>9, <1>10 DEF ExecutePost, cs1, cs2, x

-----------------------------------------------------------------------------
(* The outbox holds well-formed messages.                                  *)
LEMMA MsgFacts ==
    ASSUME NEW addr \in Addrs
    PROVE  /\ \A kind \in NlServices, q \in SeqNos : Pdu(kind, addr, q) \in Messages
           /\ \A kind \in AlNotices : Ind(kind, addr) \in Messages
           /\ \A m \in Stored : Data(addr, m) \in Messages
           /\ \A q, re \in SeqNos, slot \in 0 .. MaxIncoming :
                 Msg("T_Data_Ind", addr, 0, q, re, slot) \in Messages
  <1>1. SeqMod \in 0 .. SeqMod /\ NoSlot \in 0 .. MaxIncoming /\ 0 \in SeqNos
        /\ SeqNos \subseteq 0 .. SeqMod
    BY SeqModAssumption, SlotsAssumption DEF SeqNos, NoSlot
  <1>2. "N_Data" \in NlServices
    BY DEF NlServices
  <1>. QED BY <1>1, <1>2 DEF Pdu, Ind, Data, Msg, Messages, Stored

\* One entry of the action list emits at most one well-formed message.
LEMMA OutOK ==
    ASSUME NEW cs \in [Slots -> Connection], NEW addr \in Addrs, NEW i \in Slots,
           find_any_including_closed(cs, addr) = i, NEW x, EmittersOK(x, addr),
           NEW k, NEW starved
    PROVE  Out(cs, x, k, starved) \in Seq(Messages)
  <1>1. CASE ~(k \in DOMAIN x /\ Emits(cs, x[k], starved))
    BY <1>1 DEF Out
  <1>2. CASE k \in DOMAIN x /\ Emits(cs, x[k], starved)
    <2>. DEFINE a == x[k]
    <2>1. a.op \in Emitters /\ a.addr = addr /\ a.seq \in SeqNos
      BY <1>2 DEF Emits, Emitters, EmittersOK
    <2>2. cs[i] \in Connection /\ i \in 0 .. MaxIncoming /\ 0 \in SeqNos
      BY SlotsAssumption, SeqFacts DEF Slots
    <2>3. outgoing_tl_seq(cs[i]) \in SeqNos
      <3>1. \A q \in SeqNos : (q + 0) % SeqMod \in SeqNos /\ (q + 1) % SeqMod \in SeqNos
        BY SeqModAssumption DEF SeqNos
      <3>. QED BY <2>2, <3>1 DEF outgoing_tl_seq, Connection
    <2>4. a.op = "Retransmit" => cs[i].pending_msg \in Stored
      BY <1>2, <2>1, <2>2 DEF Emits, Connection
    <2>. HIDE DEF a
    <2>5. Emitted(cs, a) \in Messages
      <3>. USE <2>1, MsgFacts DEF Emitted
      <3>1. CASE a.op \in {"SendAck", "SendNack", "SendDisconnect"}
        BY <2>2, <3>1 DEF NlServices
      <3>2. CASE a.op \in {"IndicateConnected", "IndicateDisconnected"}
        BY <3>2 DEF AlNotices
      <3>3. CASE a.op = "Retransmit" BY <2>4, <3>3
      <3>4. CASE a.op = "IndicateData" BY <2>2, <2>3, <3>4
      <3>. QED BY <3>1, <3>2, <3>3, <3>4 DEF Emitters
    <2>. QED BY <1>2, <2>5 DEF Out, a
  <1>. QED BY <1>1, <1>2

\* The action list emits well-formed messages.
LEMMA OutputsOK ==
    ASSUME NEW cs \in [Slots -> Connection], NEW addr \in Addrs, NEW i \in Slots,
           find_any_including_closed(cs, addr) = i, NEW x, EmittersOK(x, addr), NEW starved
    PROVE  Outputs(cs, x, starved) \in Seq(Messages)
  <1>1. \A k : Out(cs, x, k, starved) \in Seq(Messages)
    BY OutOK
  <1>. QED BY <1>1 DEF Outputs

\* Releasing a queued response emits at most one well-formed message.
LEMMA ReleaseOK ==
    ASSUME NEW cs \in [Slots -> Connection], NEW addr \in Addrs, NEW i \in Slots,
           MustRelease(cs, addr) => find_any(cs, addr) = i /\ cs[i].queued_outgoing # NoMsg,
           NEW starved
    PROVE  ReleaseOutput(cs, addr, starved) \in Seq(Messages)
  <1>1. CASE MustRelease(cs, addr) /\ "down" \notin starved
    <2>1. cs[i].queued_outgoing \in Stored /\ cs[i] \in Connection
      BY <1>1 DEF Connection
    <2>2. Released(cs[i]).pending_msg = [cs[i].queued_outgoing EXCEPT !.seq = cs[i].seq_no_send]
      BY <2>1 DEF Released, Connection
    <2>3. Released(cs[i]).pending_msg \in Stored
      BY <2>1, <2>2 DEF Stored, Connection
    <2>4. Data(addr, Released(cs[i]).pending_msg) \in Messages
      BY <2>3, MsgFacts
    <2>. QED BY <1>1, <2>4 DEF ReleaseOutput
  <1>2. CASE ~(MustRelease(cs, addr) /\ "down" \notin starved)
    BY <1>2 DEF ReleaseOutput
  <1>. QED BY <1>1, <1>2

-----------------------------------------------------------------------------
(* The inductive invariant.                                                *)
TableOK(cs) ==
    /\ cs \in [Slots -> Connection]
    /\ Unique(cs)
    /\ \A k \in Slots : SlotOK(cs[k])

Inv == TypeOK /\ TableOK(conns) /\ CemiExclusive /\ AccessNotInherited

IsFirst(cs, i) == \A k \in Slots : k < i => cs[k].remote_addr # cs[i].remote_addr

\* Replacing a slot by a good one with the same address keeps the table good.
LEMMA UpdateOK ==
    ASSUME NEW cs, TableOK(cs), NEW i \in Slots, IsFirst(cs, i),
           NEW c, SlotOK(c), c.remote_addr = cs[i].remote_addr
    PROVE  TableOK([cs EXCEPT ![i] = c])
  <1>. DEFINE ds == [cs EXCEPT ![i] = c]
  <1>1. ds \in [Slots -> Connection] /\ \A k \in Slots : SlotOK(ds[k])
    BY DEF TableOK, SlotOK
  <1>2. \A k \in Slots : ds[k].remote_addr = cs[k].remote_addr
    BY DEF TableOK
  <1>3. \A k \in Slots : k # i => ds[k] = cs[k]
    BY DEF TableOK
  <1>. HIDE DEF ds
  <1>4. Unique(ds)
    BY <1>2, <1>3 DEF TableOK, Unique, IsFirst
  <1>. QED BY <1>1, <1>4 DEF TableOK, ds

\* One event, classified, executed and its queued response released, keeps
\* the table good.
LEMMA HandleEventOK ==
    ASSUME NEW cs, TableOK(cs), NEW i \in Slots, IsFirst(cs, i),
           ~Open(cs[i]) => cs[i].pending_msg = NoMsg,
           NEW ev, ev.type \in DeviceEvents, ev.seq \in SeqNos,
           ev.addr = cs[i].remote_addr, outbox \in Seq(Messages),
           NEW starved, HandleEvent(cs, i, ev, starved)
    PROVE  TableOK(conns') /\ outbox' \in Seq(Messages)
  <1>1. cs \in [Slots -> Connection] /\ SlotOK(cs[i]) /\ ev.addr \in Addrs /\ Unique(cs)
    BY DEF TableOK, Connection
  <1>2. PICK r : /\ r = process_event(Style, cs[i], ev)
                 /\ Execute([cs EXCEPT ![i] = r.conn], r, ev.addr, starved, outbox, << >>)
    BY DEF HandleEvent
  <1>. DEFINE cs1 == [cs EXCEPT ![i] = r.conn]
              cs2 == AfterActions(cs1, r, ev.addr)
              x   == ApplyTo(r.conn, r)
  <1>3. /\ r.conn \in Connection /\ r.conn.remote_addr = ev.addr
        /\ PreOK(x) /\ x.remote_addr = ev.addr
        /\ EmittersOK(r.actions, ev.addr)
    BY <1>1, <1>2, EventSlot
  <1>. HIDE DEF x
  <1>4. /\ find_any_including_closed(cs1, ev.addr) = i
        /\ cs2 = [cs EXCEPT ![i] = x]
        /\ MustRelease(cs2, ev.addr) =>
              find_any(cs2, ev.addr) = i /\ cs2[i].queued_outgoing # NoMsg
        /\ AfterRelease(cs2, ev.addr) = [cs EXCEPT ![i] = Final(x)]
    <2>1. \A k \in Slots : k < i => cs[k].remote_addr # ev.addr
      BY DEF IsFirst
    <2>2. ExecutePre(cs, i, ev.addr, r.conn, r)
      BY <1>1, <1>3, <2>1 DEF ExecutePre, x
    <2>3. ExecutePost(cs, i, ev.addr, r.conn, r, cs1, cs2)
      BY <2>2, ExecuteTable
    <2>. QED BY <2>3 DEF ExecutePost, x
  <1>5. cs1 \in [Slots -> Connection] /\ cs2 \in [Slots -> Connection]
    BY <1>1, <1>3, <1>4 DEF PreOK
  <1>. HIDE DEF cs1, cs2
  <1>6. /\ conns' = AfterRelease(cs2, ev.addr)
        /\ outbox' = outbox \o Outputs(cs1, r.actions, starved)
                           \o ReleaseOutput(cs2, ev.addr, starved) \o << >>
    BY <1>2 DEF Execute, cs1, cs2
  <1>7. Outputs(cs1, r.actions, starved) \in Seq(Messages)
    BY <1>1, <1>3, <1>4, <1>5, OutputsOK
  <1>8. ReleaseOutput(cs2, ev.addr, starved) \in Seq(Messages)
    BY <1>1, <1>4, <1>5, ReleaseOK
  <1>9. outbox' \in Seq(Messages)
    BY <1>6, <1>7, <1>8
  <1>10. SlotOK(Final(x)) /\ Final(x).remote_addr = cs[i].remote_addr
    BY <1>3, FinalOK
  <1>11. TableOK(conns')
    <2>1. TableOK([cs EXCEPT ![i] = Final(x)])
      BY <1>10, UpdateOK
    <2>. QED BY <1>4, <1>6, <2>1
  <1>. QED BY <1>9, <1>11

(* The slot an address lookup returns is open, has that address, and is    *)
(* the first slot with it.                                                 *)
LEMMA FindAnyOK ==
    ASSUME NEW cs, TableOK(cs), NEW addr, find_any(cs, addr) # NoSlot
    PROVE  LET i == find_any(cs, addr) IN
           i \in Slots /\ Open(cs[i]) /\ cs[i].remote_addr = addr /\ IsFirst(cs, i)
  <1>. DEFINE S == {k \in Slots : Open(cs[k]) /\ cs[k].remote_addr = addr}
  <1>1. find_any(cs, addr) = First(S)
    BY DEF find_any
  <1>2. First(S) \in S
    BY <1>1, FirstProps
  <1>. QED BY <1>1, <1>2 DEF TableOK, Unique, IsFirst

\* A T_Data request of the application layer keeps the table good.
LEMMA DataRequestOK ==
    ASSUME TypeOK, TableOK(conns), NEW i \in Slots, Open(conns[i]), IsFirst(conns, i),
           outbox # << >>, NEW m, m = Head(outbox), m.svc = "T_Data_Req",
           m.addr = conns[i].remote_addr, NEW starved, DataRequest(i, m, starved)
    PROVE  TableOK(conns') /\ outbox' \in Seq(Messages)
  <1>. DEFINE ev == Event("RequestData", m.addr, 0)
  <1>0. ev.type = "RequestData" /\ ev.addr = m.addr /\ ev.seq \in SeqNos
    BY SeqFacts DEF Event
  <1>1. /\ conns \in [Slots -> Connection] /\ SlotOK(conns[i]) /\ m.addr \in Addrs
        /\ Unique(conns) /\ Tail(outbox) \in Seq(Messages) /\ m \in Messages
    BY DEF TableOK, Connection, TypeOK
  <1>2. m.mac_seq \in SeqNos /\ m.re \in SeqNos
    BY <1>1 DEF Messages, NlServices, AlNotices
  <1>. HIDE DEF ev
  <1>3. PICK r, d :
          /\ r = process_event(Style, conns[i], ev)
          /\ d = StoreRequest(conns[i], r, m)
          /\ Execute([conns EXCEPT ![i] = d], r, m.addr, starved, Tail(outbox),
                IF "down" \in starved THEN << >>
                ELSE IF Asks(r.actions, "QueueEvent") THEN << Ind("T_Data_Con", m.addr) >>
                ELSE << Data(m.addr, d.pending_msg) >>)
    BY DEF DataRequest, ev
  <1>. DEFINE cs1 == [conns EXCEPT ![i] = d]
              cs2 == AfterActions(cs1, r, m.addr)
              x   == ApplyTo(d, r)
              last == IF "down" \in starved THEN << >>
                      ELSE IF Asks(r.actions, "QueueEvent") THEN << Ind("T_Data_Con", m.addr) >>
                      ELSE << Data(m.addr, d.pending_msg) >>
  <1>4. /\ d \in Connection /\ d.remote_addr = m.addr
        /\ ~Asks(r.actions, "QueueEvent") => d.pending_msg \in Stored
        /\ PreOK(x) /\ x.remote_addr = m.addr
        /\ EmittersOK(r.actions, m.addr)
    BY <1>0, <1>1, <1>2, <1>3, RequestSlot
  <1>. HIDE DEF x
  <1>5. /\ find_any_including_closed(cs1, m.addr) = i
        /\ cs2 = [conns EXCEPT ![i] = x]
        /\ MustRelease(cs2, m.addr) =>
              find_any(cs2, m.addr) = i /\ cs2[i].queued_outgoing # NoMsg
        /\ AfterRelease(cs2, m.addr) = [conns EXCEPT ![i] = Final(x)]
    <2>1. \A k \in Slots : k < i => conns[k].remote_addr # m.addr
      BY DEF IsFirst
    <2>2. ExecutePre(conns, i, m.addr, d, r)
      BY <1>1, <1>4, <2>1 DEF ExecutePre, x
    <2>3. ExecutePost(conns, i, m.addr, d, r, cs1, cs2)
      BY <2>2, ExecuteTable
    <2>. QED BY <2>3 DEF ExecutePost, x
  <1>6. cs1 \in [Slots -> Connection] /\ cs2 \in [Slots -> Connection]
    BY <1>1, <1>4, <1>5 DEF PreOK
  <1>7. last \in Seq(Messages)
    <2>1. Ind("T_Data_Con", m.addr) \in Messages
      BY <1>1, MsgFacts DEF AlNotices
    <2>2. ~Asks(r.actions, "QueueEvent") => Data(m.addr, d.pending_msg) \in Messages
      BY <1>1, <1>4, MsgFacts
    <2>. QED BY <2>1, <2>2
  <1>. HIDE DEF cs1, cs2, last
  <1>8. /\ conns' = AfterRelease(cs2, m.addr)
        /\ outbox' = Tail(outbox) \o Outputs(cs1, r.actions, starved)
                                 \o ReleaseOutput(cs2, m.addr, starved) \o last
    BY <1>3 DEF Execute, cs1, cs2, last
  <1>9. Outputs(cs1, r.actions, starved) \in Seq(Messages)
    BY <1>1, <1>4, <1>5, <1>6, OutputsOK
  <1>10. ReleaseOutput(cs2, m.addr, starved) \in Seq(Messages)
    BY <1>1, <1>5, <1>6, ReleaseOK
  <1>11. outbox' \in Seq(Messages)
    BY <1>1, <1>7, <1>8, <1>9, <1>10
  <1>12. SlotOK(Final(x)) /\ Final(x).remote_addr = conns[i].remote_addr
    BY <1>4, FinalOK
  <1>13. TableOK([conns EXCEPT ![i] = Final(x)])
    BY <1>12, UpdateOK
  <1>. QED BY <1>5, <1>8, <1>11, <1>13

-----------------------------------------------------------------------------
(* Initially, and under every action.                                      *)
LEMMA ResetOK ==
    ASSUME NEW addr \in Addrs
    PROVE  SlotOK(ResetConn(addr)) /\ ResetConn(addr).remote_addr = addr
           /\ ~Open(ResetConn(addr)) /\ ResetConn(addr).pending_msg = NoMsg
  <1>1. 0 \in 0 .. MaxRepetitions
    BY MaxRepAssumption
  <1>. QED BY <1>1, SeqFacts DEF ResetConn, SlotOK, Disciplined, Connection, ConnStates,
                                TimerVals, Open

\* The initial state satisfies the invariant.
LEMMA InitOK == Init => Inv
  <1>. SUFFICES ASSUME Init PROVE Inv
    OBVIOUS
  <1>1. \A k \in Slots : conns[k] = ResetConn(NoAddr) /\ SlotOK(conns[k]) /\ ~Open(conns[k])
    BY ResetOK DEF Init, Addrs
  <1>2. conns \in [Slots -> Connection]
    BY <1>1 DEF Init, SlotOK
  <1>3. TableOK(conns)
    BY <1>1, <1>2 DEF TableOK, Unique
  <1>4. TypeOK
    <2>1. access \in [Slots -> {"default", "granted"}] /\ outbox \in Seq(Messages)
      BY DEF Init
    <2>2. active \in BOOLEAN /\ incoming_locked \in BOOLEAN /\ polling \in BOOLEAN
          /\ quiet \in BOOLEAN /\ authorized \subseteq Slots
      BY Zenon DEF Init
    <2>. QED BY <1>2, <2>1, <2>2, Zenon DEF TypeOK
  <1>5. CemiExclusive /\ AccessNotInherited
    BY DEF Init, CemiExclusive, AccessNotInherited
  <1>. QED BY <1>3, <1>4, <1>5 DEF Inv

(* The slot a T_Connect is given: the open one of the address, or a closed *)
(* one, reset.                                                             *)
AllocatedOK(cs, i, addr) ==
    /\ i \in Slots /\ TableOK(cs) /\ IsFirst(cs, i) /\ cs[i].remote_addr = addr
    /\ ~Open(cs[i]) => cs[i].pending_msg = NoMsg
    /\ \/ Open(conns[i]) /\ cs = conns
       \/ ~Open(conns[i]) /\ cs = [conns EXCEPT ![i] = ResetConn(addr)]

\* allocate_incoming leaves a good table, with the slot it returns the
\* first one of the address.
LEMMA AllocateOK ==
    ASSUME TableOK(conns), NEW addr \in Addrs, Allocated(addr) # NoSlot
    PROVE  AllocatedOK(AfterAllocate(Allocated(addr), addr), Allocated(addr), addr)
  <1>. DEFINE i == Allocated(addr)
              cs == AfterAllocate(i, addr)
  <1>0. TableOK(conns) /\ conns \in [Slots -> Connection]
    BY DEF TableOK
  <1>1. CASE find_any(conns, addr) # NoSlot
    <2>1. i = find_any(conns, addr)
      BY <1>1 DEF Allocated
    <2>2. i \in Slots /\ Open(conns[i]) /\ conns[i].remote_addr = addr /\ IsFirst(conns, i)
      BY <1>0, <1>1, <2>1, FindAnyOK
    <2>3. cs = conns
      BY <2>2 DEF AfterAllocate
    <2>. QED BY <1>0, <2>2, <2>3 DEF AllocatedOK
  <1>2. CASE find_any(conns, addr) = NoSlot
    <2>. DEFINE F == {k \in Slots : ~Open(conns[k])}
                S == {k \in Slots : Open(conns[k]) /\ conns[k].remote_addr = addr}
    <2>0. \A k \in Slots : k \in Nat /\ k # NoSlot
      BY SlotsAssumption DEF Slots, NoSlot
    <2>1. i = First(F)
      BY <1>2 DEF Allocated, FreeSlot
    <2>2. i \in F /\ \A k \in F : i <= k
      BY <1>2, <2>1, FirstProps
    <2>3. \A k \in Slots : Open(conns[k]) => conns[k].remote_addr # addr
      <3>1. First(S) = NoSlot
        BY <1>2 DEF find_any
      <3>2. S = {}
        BY <2>0, <3>1, FirstProps
      <3>. QED BY <3>2
    <2>4. cs = [conns EXCEPT ![i] = ResetConn(addr)]
      BY <2>2 DEF AfterAllocate
    <2>5. /\ cs[i] = ResetConn(addr) /\ SlotOK(cs[i]) /\ ~Open(cs[i])
          /\ cs[i].remote_addr = addr /\ cs[i].pending_msg = NoMsg
      BY <1>0, <2>2, <2>4, ResetOK
    <2>6. \A k \in Slots : k # i => cs[k] = conns[k]
      BY <1>0, <2>4
    <2>. HIDE DEF cs, i
    <2>7. cs \in [Slots -> Connection] /\ \A k \in Slots : SlotOK(cs[k])
      <3>1. \A k \in Slots : SlotOK(cs[k])
        BY <1>0, <2>5, <2>6 DEF TableOK
      <3>2. ResetConn(addr) \in Connection
        BY <2>5 DEF SlotOK
      <3>. QED BY <1>0, <2>4, <3>1, <3>2
    <2>8. IsFirst(cs, i)
      <3>. SUFFICES ASSUME NEW k \in Slots, k < i PROVE cs[k].remote_addr # addr
        BY <2>5 DEF IsFirst
      <3>1. k # i /\ k \notin F
        BY <2>0, <2>2
      <3>. QED BY <2>3, <2>6, <3>1
    <2>9. Unique(cs)
      <3>. SUFFICES ASSUME NEW j \in Slots, Open(cs[j]), NEW k \in Slots, k < j
                    PROVE  cs[k].remote_addr # cs[j].remote_addr
        BY DEF Unique
      <3>1. j # i /\ Open(conns[j]) /\ cs[j] = conns[j]
        BY <2>5, <2>6
      <3>2. CASE k = i
        BY <2>3, <2>5, <3>1, <3>2
      <3>3. CASE k # i
        BY <1>0, <2>6, <3>1, <3>3 DEF TableOK, Unique
      <3>. QED BY <3>2, <3>3
    <2>10. AllocatedOK(cs, i, addr)
      BY <2>2, <2>4, <2>5, <2>7, <2>8, <2>9 DEF TableOK, AllocatedOK
    <2>. QED BY <2>10 DEF cs, i
  <1>. QED BY <1>1, <1>2

\* A T_Connect, with its allocation of a slot, keeps the invariant.
LEMMA ReceiveConnectOK ==
    ASSUME Inv, NEW addr \in Peers, ReceiveConnect(addr)
    PROVE  Inv'
  <1>. DEFINE i == Allocated(addr)
              cs == AfterAllocate(i, addr)
              ev == Event("ReceivedConnect", addr, 0)
  <1>0. /\ TypeOK /\ TableOK(conns) /\ CemiExclusive /\ AccessNotInherited
        /\ conns \in [Slots -> Connection] /\ outbox \in Seq(Messages) /\ addr \in Addrs
    BY DEF Inv, TypeOK, Addrs
  <1>u. UNCHANGED <<active, incoming_locked, polling, quiet>>
    BY DEF ReceiveConnect
  <1>1. CASE incoming_locked \/ i = NoSlot
    <2>1. UNCHANGED <<conns, access, authorized>>
      BY <1>1 DEF ReceiveConnect
    <2>2. Pdu("N_Disconnect", addr, 0) \in Messages
      BY <1>0, MsgFacts, SeqFacts DEF NlServices
    <2>3. \E starved \in Starvation :
            outbox' = IF "down" \in starved THEN outbox
                      ELSE Append(outbox, Pdu("N_Disconnect", addr, 0))
      BY <1>1 DEF ReceiveConnect
    <2>4. outbox' \in Seq(Messages)
      BY <1>0, <2>2, <2>3
    <2>. QED BY <1>0, <1>u, <2>1, <2>4 DEF Inv, TypeOK, CemiExclusive, AccessNotInherited
  <1>2. CASE ~incoming_locked /\ i # NoSlot
    <2>1. PICK starved \in Starvation :
            /\ access' = AccessAfterConnect(i)
            /\ authorized' = IF Open(conns[i]) THEN authorized ELSE authorized \ {i}
            /\ HandleEvent(cs, i, ev, starved)
      BY <1>2 DEF ReceiveConnect
    <2>2. /\ i \in Slots /\ TableOK(cs) /\ IsFirst(cs, i) /\ cs[i].remote_addr = addr
          /\ ~Open(cs[i]) => cs[i].pending_msg = NoMsg
      BY <1>0, <1>2, AllocateOK DEF AllocatedOK
    <2>3. ev.type \in DeviceEvents /\ ev.seq \in SeqNos /\ ev.addr = addr
      BY SeqFacts DEF Event, DeviceEvents
    <2>. HIDE DEF cs, ev, i
    <2>4. TableOK(conns') /\ outbox' \in Seq(Messages)
      BY <1>0, <2>1, <2>2, <2>3, HandleEventOK
    <2>5. /\ access' \in [Slots -> {"default", "granted"}] /\ authorized' \subseteq Slots
          /\ AccessNotInherited'
      BY <1>0, <2>1, <2>2 DEF TypeOK, AccessAfterConnect, AccessNotInherited
    <2>6. CemiExclusive'
      BY <1>0, <1>2, <1>u DEF CemiExclusive
    <2>. QED BY <1>0, <1>u, <2>4, <2>5, <2>6 DEF Inv, TypeOK, TableOK
  <1>. QED BY <1>1, <1>2

\* Any other PDU of a peer keeps the invariant.
LEMMA ReceivePduOK ==
    ASSUME Inv, NEW addr \in Peers, NEW type \in DeviceEvents, NEW seq \in SeqNos,
           ReceivePdu(type, addr, seq)
    PROVE  Inv'
  <1>. DEFINE i == find_any(conns, addr)
              ev == Event(type, addr, seq)
  <1>0. TypeOK /\ TableOK(conns) /\ CemiExclusive /\ AccessNotInherited
        /\ outbox \in Seq(Messages)
    BY DEF Inv, TypeOK
  <1>1. UNCHANGED <<access, active, incoming_locked, polling, quiet, authorized>>
    BY DEF ReceivePdu
  <1>2. PICK starved \in Starvation : HandleEvent(conns, i, ev, starved)
    BY DEF ReceivePdu
  <1>3. i \in Slots /\ Open(conns[i]) /\ conns[i].remote_addr = addr /\ IsFirst(conns, i)
    BY <1>0, FindAnyOK DEF ReceivePdu
  <1>4. ev.type \in DeviceEvents /\ ev.seq \in SeqNos /\ ev.addr = addr
    BY DEF Event
  <1>. HIDE DEF i, ev
  <1>5. TableOK(conns') /\ outbox' \in Seq(Messages)
    BY <1>0, <1>2, <1>3, <1>4, HandleEventOK
  <1>6. CemiExclusive' /\ AccessNotInherited'
    BY <1>0, <1>1, <1>3 DEF CemiExclusive, AccessNotInherited
  <1>. QED BY <1>0, <1>1, <1>5, <1>6 DEF Inv, TypeOK, TableOK

\* Opening a cEMI connection, which closes the bus connections, keeps the
\* invariant.
LEMMA CemiActivateOK ==
    ASSUME Inv, CemiActivate
    PROVE  Inv'
  <1>0. /\ TypeOK /\ TableOK(conns) /\ CemiExclusive /\ AccessNotInherited
        /\ conns \in [Slots -> Connection]
    BY DEF Inv, TypeOK
  <1>1. /\ UNCHANGED <<access, polling, quiet, authorized>>
        /\ active' = TRUE /\ incoming_locked' = TRUE /\ conns' = ForceClosed
    BY DEF CemiActivate
  <1>2. \A k \in Slots : /\ SlotOK(conns'[k]) /\ ~Open(conns'[k])
                         /\ conns'[k].remote_addr = conns[k].remote_addr
    <2>. SUFFICES ASSUME NEW k \in Slots
                  PROVE  /\ SlotOK(conns'[k]) /\ ~Open(conns'[k])
                         /\ conns'[k].remote_addr = conns[k].remote_addr
      OBVIOUS
    <2>1. conns'[k] = IF Open(conns[k]) THEN ResetConn(conns[k].remote_addr) ELSE conns[k]
      BY <1>1 DEF ForceClosed
    <2>2. conns[k].remote_addr \in Addrs /\ SlotOK(conns[k])
      BY <1>0 DEF Connection, TableOK
    <2>. QED BY <2>1, <2>2, ResetOK
  <1>3. conns' \in [Slots -> Connection]
    <2>1. \A k \in Slots : conns'[k] \in Connection
      BY <1>2 DEF SlotOK
    <2>. QED BY <1>1, <2>1 DEF ForceClosed
  <1>4. TableOK(conns')
    BY <1>2, <1>3 DEF TableOK, Unique
  <1>5. outbox' \in Seq(Messages)
    <2>1. PICK n \in 0 .. MaxIncoming : \E open \in [1 .. n -> OpenSlots] :
            \E m \in 0 .. 2 * n + 1 : outbox' = [k \in 1 .. m |-> CloseNotice(open, n, k)]
      BY DEF CemiActivate
    <2>2. PICK open \in [1 .. n -> OpenSlots], m \in 0 .. 2 * n + 1 :
            outbox' = [k \in 1 .. m |-> CloseNotice(open, n, k)]
      BY <2>1
    <2>3. n \in Nat /\ m \in Nat
      BY <2>1, <2>2, SlotsAssumption
    <2>4. ASSUME NEW k \in 1 .. m
          PROVE  CloseNotice(open, n, k) \in Messages
      <3>1. CASE k = 2 * n + 1
        BY <3>1, MsgFacts DEF CloseNotice, Addrs, AlNotices
      <3>2. CASE k # 2 * n + 1 /\ k % 2 = 1
        <4>1. (k + 1) \div 2 \in 1 .. n
          BY <2>3, <3>2
        <4>2. conns[open[(k + 1) \div 2]].remote_addr \in Addrs
          BY <1>0, <4>1 DEF OpenSlots, Connection
        <4>3. Pdu("N_Disconnect", conns[open[(k + 1) \div 2]].remote_addr, 0) \in Messages
          BY <4>2, MsgFacts, SeqFacts DEF NlServices
        <4>. QED BY <3>2, <4>3 DEF CloseNotice
      <3>3. CASE k # 2 * n + 1 /\ k % 2 = 0
        <4>1. k \div 2 \in 1 .. n
          BY <2>3, <3>3
        <4>2. conns[open[k \div 2]].remote_addr \in Addrs
          BY <1>0, <4>1 DEF OpenSlots, Connection
        <4>3. Ind("T_Disconnect_Ind", conns[open[k \div 2]].remote_addr) \in Messages
          BY <4>2, MsgFacts DEF AlNotices
        <4>. QED BY <3>3, <4>3 DEF CloseNotice
      <3>4. k % 2 = 1 \/ k % 2 = 0
        BY <2>3
      <3>. QED BY <3>1, <3>2, <3>3, <3>4
    <2>. QED BY <2>2, <2>3, <2>4
  <1>6. CemiExclusive' /\ AccessNotInherited'
    BY <1>0, <1>1, <1>2 DEF CemiExclusive, AccessNotInherited
  <1>7. TypeOK'
    <2>1. active' \in BOOLEAN /\ incoming_locked' \in BOOLEAN
      BY <1>1, Zenon
    <2>. QED BY <1>0, <1>1, <1>3, <1>5, <2>1, Zenon DEF TypeOK
  <1>. QED BY <1>4, <1>6, <1>7 DEF Inv

\* A sequence of one message.
LEMMA OneMessage ==
    ASSUME NEW q \in Messages
    PROVE  << q >> \in Seq(Messages)
  OBVIOUS

\* Closing a cEMI connection and a frame on it keep the invariant.
LEMMA CemiOK ==
    ASSUME Inv, CemiDeactivate \/ CemiFrame
    PROVE  Inv'
  <1>0. TypeOK /\ TableOK(conns) /\ CemiExclusive /\ AccessNotInherited
    BY DEF Inv
  <1>1. CASE CemiDeactivate
    <2>1. /\ UNCHANGED <<conns, access, polling, quiet, authorized>>
          /\ active' = FALSE /\ incoming_locked' = FALSE
          /\ outbox' \in {<< >>, << Ind("T_Disconnect_Ind", NoAddr) >>}
      BY <1>1 DEF CemiDeactivate
    <2>2. Ind("T_Disconnect_Ind", NoAddr) \in Messages
      BY MsgFacts DEF Addrs, AlNotices
    <2>3. outbox' \in Seq(Messages)
      <3>1. << Ind("T_Disconnect_Ind", NoAddr) >> \in Seq(Messages)
        BY <2>2, OneMessage, Zenon
      <3>2. << >> \in Seq(Messages)
        OBVIOUS
      <3>. QED BY <2>1, <3>1, <3>2, Zenon
    <2>4. active' \in BOOLEAN /\ incoming_locked' \in BOOLEAN
      BY <2>1, Zenon
    <2>5. TypeOK'
      BY <1>0, <2>1, <2>3, <2>4, Zenon DEF TypeOK
    <2>. QED BY <1>0, <2>1, <2>5 DEF Inv, CemiExclusive, AccessNotInherited, TableOK, Unique
  <1>2. CASE CemiFrame
    <2>1. /\ UNCHANGED <<conns, access, active, incoming_locked, polling, quiet, authorized>>
          /\ outbox' = << Msg("T_Data_Ind", NoAddr, 0, 0, 0, NoSlot) >>
      BY <1>2 DEF CemiFrame
    <2>2. Msg("T_Data_Ind", NoAddr, 0, 0, 0, NoSlot) \in Messages
      <3>1. NoSlot \in 0 .. MaxIncoming
        BY SlotsAssumption DEF NoSlot
      <3>. QED BY <3>1, MsgFacts, SeqFacts DEF Addrs
    <2>3. outbox' \in Seq(Messages)
      <3>1. << Msg("T_Data_Ind", NoAddr, 0, 0, 0, NoSlot) >> \in Seq(Messages)
        BY <2>2, OneMessage, Zenon
      <3>. QED BY <2>1, <3>1, Zenon
    <2>. QED BY <1>0, <2>1, <2>3 DEF Inv, TypeOK, CemiExclusive, AccessNotInherited, TableOK,
                                    Unique
  <1>. QED BY <1>1, <1>2

(* Draining the outbox.                                                    *)
LEMMA DrainPassiveOK ==
    ASSUME Inv, DrainPassive
    PROVE  Inv'
  <1>1. outbox' = Tail(outbox) /\ outbox # << >> /\ outbox \in Seq(Messages)
    BY DEF DrainPassive, HeadIs, Inv, TypeOK
  <1>2. outbox' \in Seq(Messages)
    BY <1>1
  <1>. QED BY <1>2 DEF DrainPassive, Inv, TypeOK, CemiExclusive, AccessNotInherited, TableOK,
                      Unique

\* The application layer's reaction to a data indication keeps the invariant.
LEMMA HandleDataIndOK ==
    ASSUME Inv, HandleDataInd
    PROVE  Inv'
  <1>. DEFINE m == Head(outbox)
  <1>0. TypeOK /\ TableOK(conns) /\ CemiExclusive /\ AccessNotInherited
    BY DEF Inv
  <1>1. /\ outbox \in Seq(Messages) /\ outbox # << >> /\ m.svc = "T_Data_Ind"
        /\ UNCHANGED <<conns, active, incoming_locked, polling, quiet>>
    BY <1>0 DEF HandleDataInd, HeadIs, TypeOK
  <1>2. m \in Messages /\ Tail(outbox) \in Seq(Messages)
    BY <1>1
  <1>3. /\ m.addr \in Addrs /\ m.mac_seq \in SeqNos /\ m.re \in SeqNos
        /\ m.slot \in 0 .. MaxIncoming
    BY <1>1, <1>2 DEF Messages, NlServices, AlNotices
  <1>4. Response(m) \in Messages
    <2>1. 0 \in SeqNos /\ NoSlot \in 0 .. MaxIncoming
      BY SeqFacts, SlotsAssumption DEF NoSlot
    <2>. QED BY <1>3, <2>1 DEF Response, Msg, Messages
  <1>5. /\ outbox' \in {Tail(outbox), Append(Tail(outbox), Response(m))}
        /\ \/ UNCHANGED <<access, authorized>>
           \/ /\ m.slot # NoSlot
              /\ \E level \in {"default", "granted"} : access' = [access EXCEPT ![m.slot] = level]
              /\ authorized' = authorized \cup {m.slot}
    BY DEF HandleDataInd
  <1>6. m.slot # NoSlot => m.slot \in Slots
    BY <1>3, SlotsAssumption DEF NoSlot, Slots
  <1>. HIDE DEF m
  <1>7. outbox' \in Seq(Messages)
    BY <1>2, <1>4, <1>5
  <1>8. /\ access' \in [Slots -> {"default", "granted"}] /\ authorized' \subseteq Slots
        /\ AccessNotInherited'
    BY <1>0, <1>5, <1>6 DEF TypeOK, AccessNotInherited
  <1>. QED BY <1>0, <1>1, <1>7, <1>8 DEF Inv, TypeOK, CemiExclusive, TableOK, Unique

\* The application layer's data request keeps the invariant.
LEMMA HandleDataReqOK ==
    ASSUME Inv, HandleDataReq
    PROVE  Inv'
  <1>. DEFINE m == Head(outbox)
              i == find_any(conns, m.addr)
  <1>0. TypeOK /\ TableOK(conns) /\ CemiExclusive /\ AccessNotInherited
    BY DEF Inv
  <1>1. /\ outbox \in Seq(Messages) /\ outbox # << >> /\ m.svc = "T_Data_Req"
        /\ UNCHANGED <<access, active, incoming_locked, polling, quiet, authorized>>
    BY <1>0 DEF HandleDataReq, HeadIs, TypeOK
  <1>2. m \in Messages /\ Tail(outbox) \in Seq(Messages)
    BY <1>1
  <1>3. m.addr \in Addrs
    BY <1>2 DEF Messages
  <1>4. CASE ~active /\ i # NoSlot
    <2>1. PICK starved \in Starvation : DataRequest(i, m, starved)
      BY <1>4 DEF HandleDataReq
    <2>2. i \in Slots /\ Open(conns[i]) /\ conns[i].remote_addr = m.addr /\ IsFirst(conns, i)
      BY <1>0, <1>4, FindAnyOK
    <2>3. m = Head(outbox)
      OBVIOUS
    <2>. HIDE DEF m, i
    <2>4. TableOK(conns') /\ outbox' \in Seq(Messages)
      BY <1>0, <1>1, <2>1, <2>2, <2>3, DataRequestOK
    <2>5. CemiExclusive' /\ AccessNotInherited'
      BY <1>0, <1>1, <1>4 DEF CemiExclusive, AccessNotInherited
    <2>. QED BY <1>0, <1>1, <2>4, <2>5 DEF Inv, TypeOK, TableOK
  <1>5. CASE ~(~active /\ i # NoSlot)
    <2>1. /\ outbox' = Tail(outbox) \o (IF active THEN << >> ELSE << Ind("T_Data_Con", m.addr) >>)
          /\ UNCHANGED conns
      BY <1>5 DEF HandleDataReq
    <2>2. Ind("T_Data_Con", m.addr) \in Messages
      BY <1>3, MsgFacts DEF AlNotices
    <2>3. outbox' \in Seq(Messages)
      BY <1>2, <2>1, <2>2
    <2>. QED BY <1>0, <1>1, <2>1, <2>3 DEF Inv, TypeOK, CemiExclusive, AccessNotInherited, TableOK,
                                          Unique
  <1>. QED BY <1>4, <1>5

(* Time passes: a deadline that is set and passes was set in an open       *)
(* connection.                                                             *)
LEMMA ExpireOK ==
    ASSUME Inv, NEW i \in Slots, ExpireAck(i) \/ ExpireConn(i)
    PROVE  Inv'
  <1>. DEFINE c == IF ExpireAck(i) THEN [conns[i] EXCEPT !.ack_timer = "expired"]
                                   ELSE [conns[i] EXCEPT !.conn_timer = "expired"]
  <1>0. /\ TypeOK /\ TableOK(conns) /\ CemiExclusive /\ AccessNotInherited
        /\ SlotOK(conns[i]) /\ conns[i] \in Connection
    BY DEF Inv, TableOK
  <1>1. /\ UNCHANGED <<access, active, incoming_locked, outbox, polling, quiet, authorized>>
        /\ conns' = [conns EXCEPT ![i] = c]
        /\ conns[i].ack_timer = "running" \/ conns[i].conn_timer = "running"
    BY DEF ExpireAck, ExpireConn
  <1>2. Open(conns[i])
    BY <1>0, <1>1 DEF SlotOK, Disciplined, Open
  <1>3. IsFirst(conns, i)
    BY <1>0, <1>2 DEF TableOK, Unique, IsFirst
  <1>4. SlotOK(c) /\ c.remote_addr = conns[i].remote_addr
    <2>1. CASE ExpireAck(i)
      BY <1>0, <1>2, <2>1 DEF SlotOK, Disciplined, Connection, TimerVals, Open, ExpireAck
    <2>2. CASE ~ExpireAck(i)
      BY <1>0, <1>2, <2>2 DEF SlotOK, Disciplined, Connection, TimerVals, Open, ExpireConn
    <2>. QED BY <2>1, <2>2
  <1>. HIDE DEF c
  <1>5. TableOK(conns')
    BY <1>0, <1>1, <1>3, <1>4, UpdateOK
  <1>6. CemiExclusive' /\ AccessNotInherited'
    BY <1>0, <1>1, <1>2 DEF CemiExclusive, AccessNotInherited
  <1>. QED BY <1>0, <1>1, <1>5, <1>6 DEF Inv, TypeOK, TableOK

\* One round of the timeout loop keeps the invariant.
LEMMA PollStepOK ==
    ASSUME Inv, PollStep
    PROVE  Inv'
  <1>. DEFINE i == TimedOut(conns)
              S == {k \in Slots : conns[k].ack_timer = "expired" \/ conns[k].conn_timer = "expired"}
              ev == Event(IF conns[i].ack_timer = "expired" THEN "AckTimeout" ELSE "ConnectionTimeout",
                          conns[i].remote_addr, 0)
  <1>0. /\ TypeOK /\ TableOK(conns) /\ CemiExclusive /\ AccessNotInherited
        /\ outbox \in Seq(Messages)
    BY DEF Inv, TypeOK
  <1>1. UNCHANGED <<access, active, incoming_locked, polling, quiet, authorized>>
    BY DEF PollStep
  <1>2. i # NoSlot /\ \E starved \in Starvation : HandleEvent(conns, i, ev, starved)
    BY DEF PollStep
  <1>3. i \in S
    BY <1>2, FirstProps DEF TimedOut
  <1>4. i \in Slots /\ Open(conns[i])
    BY <1>0, <1>3 DEF TableOK, SlotOK, Disciplined, Open
  <1>5. IsFirst(conns, i)
    BY <1>0, <1>4 DEF TableOK, Unique, IsFirst
  <1>6. ev.type \in DeviceEvents /\ ev.seq \in SeqNos /\ ev.addr = conns[i].remote_addr
    BY SeqFacts DEF Event, DeviceEvents
  <1>. HIDE DEF i, ev
  <1>7. TableOK(conns') /\ outbox' \in Seq(Messages)
    BY <1>0, <1>2, <1>4, <1>5, <1>6, HandleEventOK
  <1>8. CemiExclusive' /\ AccessNotInherited'
    BY <1>0, <1>1, <1>4 DEF CemiExclusive, AccessNotInherited
  <1>. QED BY <1>0, <1>1, <1>7, <1>8 DEF Inv, TypeOK, TableOK

(* The steps that change neither the table nor the outbox.                 *)
LEMMA QuietStepsOK ==
    ASSUME Inv, GoQuiet \/ PollStart \/ PollEnd \/ UNCHANGED vars
    PROVE  Inv'
  <1>1. UNCHANGED <<conns, access, active, incoming_locked, outbox, authorized>>
    BY DEF GoQuiet, PollStart, PollEnd, vars
  <1>2. polling' \in BOOLEAN /\ quiet' \in BOOLEAN
    BY Zenon DEF GoQuiet, PollStart, PollEnd, vars, Inv, TypeOK
  <1>. QED BY <1>1, <1>2 DEF Inv, TypeOK, CemiExclusive, AccessNotInherited, TableOK, Unique

(* The connection table, the cEMI switch and the access levels keep their  *)
(* invariant in every behaviour of the transport layer.                    *)
THEOREM InvariantHolds == Spec => []Inv
  <1>1. Init => Inv
    BY InitOK
  <1>2. Inv /\ [Next]_vars => Inv'
    <2>. SUFFICES ASSUME Inv, [Next]_vars PROVE Inv'
      OBVIOUS
    <2>1. ASSUME NEW addr \in Peers, Receive(addr)
          PROVE  Inv'
      <3>1. CASE ReceiveConnect(addr)
        BY <3>1, ReceiveConnectOK
      <3>2. CASE \E type \in DeviceEvents, seq \in SeqNos : ReceivePdu(type, addr, seq)
        BY <3>2, ReceivePduOK
      <3>. QED BY <2>1, <3>1, <3>2, SeqFacts
               DEF Receive, ReceiveDisconnect, ReceiveAck, ReceiveNack, ReceiveData, DeviceEvents
    <2>2. CASE CemiActivate BY <2>2, CemiActivateOK
    <2>3. CASE CemiDeactivate \/ CemiFrame BY <2>3, CemiOK
    <2>4. CASE Drain
      BY <2>4, DrainPassiveOK, HandleDataIndOK, HandleDataReqOK DEF Drain
    <2>5. ASSUME NEW i \in Slots, ExpireAck(i) \/ ExpireConn(i)
          PROVE  Inv'
      BY <2>5, ExpireOK
    <2>6. CASE PollStep BY <2>6, PollStepOK
    <2>7. CASE GoQuiet \/ PollStart \/ PollEnd \/ UNCHANGED vars BY <2>7, QuietStepsOK
    <2>. QED BY <2>1, <2>2, <2>3, <2>4, <2>5, <2>6, <2>7 DEF Next
  <1>. QED BY <1>1, <1>2, PTL DEF Spec

(* Every variable stays in its type: the table, the access levels and the  *)
(* outbox hold what the handlers of mod.rs expect to find there.           *)
THEOREM TypeCorrect == Spec => []TypeOK
  <1>1. Inv => TypeOK
    BY DEF Inv
  <1>. QED BY <1>1, InvariantHolds, PTL

(* find_any_including_closed always returns the open slot of an address:   *)
(* execute_actions never writes timers or state into a stale slot.         *)
THEOREM LookupCorrect == Spec => []LookupFindsOpen
  <1>1. Inv => LookupFindsOpen
    BY DEF Inv, TableOK, Unique, LookupFindsOpen
  <1>. QED BY <1>1, InvariantHolds, PTL

(* No bus connection is open while a cEMI device-management connection is  *)
(* active.                                                                 *)
THEOREM CemiCorrect == Spec => []CemiExclusive
  <1>1. Inv => CemiExclusive
    BY DEF Inv
  <1>. QED BY <1>1, InvariantHolds, PTL

(* A connection never inherits the access level its slot was granted under *)
(* an earlier connection.                                                  *)
THEOREM AccessCorrect == Spec => []AccessNotInherited
  <1>1. Inv => AccessNotInherited
    BY DEF Inv
  <1>. QED BY <1>1, InvariantHolds, PTL

(* In every style but Style 2 the timers of a slot say exactly whether it  *)
(* is open and whether a response is unacknowledged.                       *)
THEOREM TimersCorrect == ASSUME Style # "Style2" PROVE Spec => []TimerDiscipline
  <1>1. Inv => TimerDiscipline
    BY DEF Inv, TableOK, SlotOK, Disciplined, TimerDiscipline, Open
  <1>. QED BY <1>1, InvariantHolds, PTL

(* In every style but Style 2 an open connection keeps a message exactly   *)
(* while it is unacknowledged, under the number the T_ACK must carry.      *)
THEOREM PendingCorrect == ASSUME Style # "Style2" PROVE Spec => []PendingWhileWaiting
  <1>1. Inv => PendingWhileWaiting
    BY DEF Inv, TableOK, SlotOK, Disciplined, PendingWhileWaiting, Open
  <1>. QED BY <1>1, InvariantHolds, PTL

-----------------------------------------------------------------------------
(***************************************************************************)
(* What TransportLayer puts into the router's outbox: how many messages it *)
(* can hold, that the number in a response's MAC is the number the         *)
(* response leaves with, and that no unacknowledged response is replaced.  *)
(*                                                                         *)
(* The stamp of a response is computed when its request is indicated and   *)
(* used when the response is stored, two outbox messages later.  It is     *)
(* still right then because at most one indication or response is under    *)
(* way (OutboxShape) and nothing touches the table while it is (MacStamp). *)
(* The outbox is at its fullest after the cEMI activation closed every     *)
(* slot, or in the loop of check_timeouts, where a slot that was handled   *)
(* is no longer expired (OutboxRoom counts the ones still to come).        *)
(***************************************************************************)


DataMsgs == {"T_Data_Ind", "T_Data_Req"}

Expired(cs) == {i \in Slots : cs[i].ack_timer = "expired" \/ cs[i].conn_timer = "expired"}

(* A data message is the last of at most two, and none is there in the     *)
(* loop of check_timeouts.                                                 *)
OutboxShape ==
    \A k \in DOMAIN outbox : outbox[k].svc \in DataMsgs =>
        k = Len(outbox) /\ Len(outbox) <= 2 /\ ~polling

OutboxRoom ==
    /\ Len(outbox) <= 2 * MaxIncoming + 1
    /\ polling => Len(outbox) + 2 * Cardinality(Expired(conns)) <= 2 * MaxIncoming

(* An idle connection has released its queued response, in every style.    *)
IdleReleased(cs) ==
    \A i \in Slots : cs[i].state = "OpenIdle" => cs[i].queued_outgoing = NoMsg

OutRest == IdleReleased(conns) /\ OutboxShape /\ OutboxRoom

(* The numbers a slot's stored responses were stamped with.                *)
MacSlot(c) ==
    Open(c) =>
        /\ c.pending_msg # NoMsg => c.pending_msg.mac_seq = c.pending_msg.seq
        /\ c.queued_outgoing # NoMsg => c.queued_outgoing.mac_seq = inc_seq(c.seq_no_send)

(* The stamp of the data message under way is what outgoing_tl_seq still   *)
(* answers for its connection.                                             *)
MacStamp ==
    ~active => \A k \in DOMAIN outbox : outbox[k].svc \in DataMsgs =>
        \A j \in Slots : Open(conns[j]) /\ conns[j].remote_addr = outbox[k].addr =>
            outbox[k].mac_seq = outgoing_tl_seq(conns[j])

MacInv == (\A i \in Slots : MacSlot(conns[i])) /\ MacSequenceMatches /\ MacStamp

-----------------------------------------------------------------------------
(* What the proofs use of the tables beyond CellOK.                        *)

\* A timeout is ignored, closes the connection or repeats its message.
LEMMA TimeoutCells ==
    ASSUME NEW style \in Styles, NEW st \in DeviceStates, NEW e \in {"E16", "E17", "E18"}
    PROVE  lookup(style, st, e)[2] \in {"A0", "A6", "A9", "DoesNotExist"}
  <1>. DEFINE T == Table(style)
  <1>0. T["E16"] = Row(C("A0"), C("A6"), C("A6"), DNE) \/ T["E16"] = Row(C("A0"), C("A6"), C("A6"), C("A6"))
    <2>1. CASE style = "Style1" BY <2>1 DEF Table, STYLE_1_TABLE
    <2>2. CASE style = "Style2" BY <2>2 DEF Table, STYLE_2_TABLE
    <2>3. CASE style = "Style3" BY <2>3 DEF Table, STYLE_3_TABLE
    <2>4. CASE style = "Style1R" BY <2>4 DEF Table, STYLE_1R_TABLE, STYLE_1_TABLE
    <2>. QED BY <2>1, <2>2, <2>3, <2>4 DEF Styles
  <1>1. /\ T["E17"] \in {Row(C("A0"), I("A0"), W("A9"), DNE), Row(C("A0"), I("A0"), W("A9"), N("A0")), NoSuchEvent}
        /\ T["E18"] \in {Row(C("A0"), I("A0"), C("A6"), DNE), Row(C("A0"), I("A0"), C("A6"), N("A0")), NoSuchEvent}
    <2>1. CASE style = "Style1" BY <2>1 DEF Table, STYLE_1_TABLE
    <2>2. CASE style = "Style2" BY <2>2 DEF Table, STYLE_2_TABLE
    <2>3. CASE style = "Style3" BY <2>3 DEF Table, STYLE_3_TABLE
    <2>4. CASE style = "Style1R" BY <2>4 DEF Table, STYLE_1R_TABLE, STYLE_1_TABLE
    <2>. QED BY <2>1, <2>2, <2>3, <2>4 DEF Styles
  <1>. HIDE DEF T
  <1>2. lookup(style, st, e) = T[e][st]
    BY DEF lookup, T
  <1>. USE DEF Row, C, I, W, N, DNE, NoSuchEvent, DeviceStates
  <1>3. CASE e = "E16" BY <1>0, <1>2, <1>3
  <1>4. CASE e = "E17" BY <1>1, <1>2, <1>4
  <1>5. CASE e = "E18" BY <1>1, <1>2, <1>5
  <1>. QED BY <1>3, <1>4, <1>5

\* Styles 3 and 1R queue a response behind an unacknowledged one.
LEMMA RequestCells ==
    ASSUME NEW style \in {"Style3", "Style1R"}, NEW st \in DeviceStates, st # "Closed"
    PROVE  lookup(style, st, "E15")[2] = IF st = "OpenWait" THEN "A11" ELSE "A7"
  <1>. USE DEF lookup, Table, Row, C, I, W, N, DNE, NoSuchEvent, DeviceStates
  <1>1. CASE style = "Style3" BY SMTT(30), <1>1 DEF STYLE_3_TABLE
  <1>2. CASE style = "Style1R"
    <2>1. STYLE_1R_TABLE["E15"] = Row(C("A5"), W("A7"), W("A11"), DNE)
      BY DEF STYLE_1R_TABLE, STYLE_1_TABLE
    <2>. QED BY <1>2, <2>1
  <1>. QED BY <1>1, <1>2

-----------------------------------------------------------------------------
(* The messages an action list puts into the outbox.                       *)

(* What one entry with operation op can put there, for a connection d.     *)
MsgFx(m, op, addr, d) ==
    /\ m \in Messages
    /\ m.svc \in DataMsgs =>
          op = "IndicateData" /\ m.addr = addr /\ m.mac_seq = outgoing_tl_seq(d)
    /\ m.svc = "N_Data" =>
          /\ op = "Retransmit" /\ d.pending_msg # NoMsg
          /\ m.seq = d.pending_msg.seq /\ m.mac_seq = d.pending_msg.mac_seq

(* An entry of the list: no message, or one that its operation explains.   *)
EntryFx(o, x, k, addr, d) ==
    \/ o = << >>
    \/ \E m : o = << m >> /\ k \in DOMAIN x /\ x[k].op \in Emitters /\ MsgFx(m, x[k].op, addr, d)

\* One entry of an action list, for the connection its address finds.
LEMMA OutFacts ==
    ASSUME NEW cs \in [Slots -> Connection], NEW addr \in Addrs, NEW i \in Slots,
           find_any_including_closed(cs, addr) = i, NEW x, EmittersOK(x, addr),
           NEW k, NEW starved
    PROVE  EntryFx(Out(cs, x, k, starved), x, k, addr, cs[i])
  <1>1. CASE ~(k \in DOMAIN x /\ Emits(cs, x[k], starved))
    BY <1>1 DEF Out, EntryFx
  <1>2. CASE k \in DOMAIN x /\ Emits(cs, x[k], starved)
    <2>. DEFINE a == x[k]
    <2>1. a.op \in Emitters /\ a.addr = addr /\ a.seq \in SeqNos
      BY <1>2 DEF Emits, Emitters, EmittersOK
    <2>2. Out(cs, x, k, starved) = << Emitted(cs, a) >>
      BY <1>2 DEF Out
    <2>3. a.op = "Retransmit" => cs[i].pending_msg # NoMsg
      BY <1>2, <2>1 DEF Emits
    <2>4. Emitted(cs, a) \in Messages
      <3>1. Out(cs, x, k, starved) \in Seq(Messages)
        BY OutOK
      <3>. QED BY <2>2, <3>1
    <2>. HIDE DEF a
    <2>5. MsgFx(Emitted(cs, a), a.op, addr, cs[i])
      <3>. USE <2>1, <2>3, <2>4 DEF Emitted, MsgFx, DataMsgs, Msg
      <3>1. CASE a.op \in {"SendAck", "SendNack", "SendDisconnect"} BY <3>1 DEF Pdu
      <3>2. CASE a.op \in {"IndicateConnected", "IndicateDisconnected"} BY <3>2 DEF Ind
      <3>3. CASE a.op = "Retransmit" BY <3>3 DEF Data
      <3>4. CASE a.op = "IndicateData" BY <3>4
      <3>. QED BY <3>1, <3>2, <3>3, <3>4 DEF Emitters
    <2>. QED BY <1>2, <2>1, <2>2, <2>5 DEF EntryFx, a
  <1>. QED BY <1>1, <1>2

(* Where in its list an action has operations that emit.                   *)
Silent == {"A0", "A7", "A8", "A8b", "A11", "DoesNotExist"}

Places(a, x) ==
    /\ \A k \in DOMAIN x : x[k].op \in Emitters =>
          CASE a = "A2" -> k \in {1, 2} [] a = "A6" -> k \in {1, 4}
            [] a \in {"A3", "A4", "A9", "A10"} -> k = 1 [] a = "A1" -> k = 2
            [] a = "A5" -> k = 3 [] OTHER -> FALSE
    /\ \A k \in DOMAIN x : x[k].op = "IndicateData" => a = "A2" /\ k = 2
    /\ \A k \in DOMAIN x : x[k].op = "Retransmit" => a = "A9"

\* The entries of each action list that emit.
LEMMA PlaceFacts ==
    ASSUME NEW a \in ActionNames, NEW c, NEW ev
    PROVE  Places(a, Actions(a, c, ev))
  <1>. USE DEF Places, Emitters, Actions, StartAck, StopAck, StartConn, StopConn,
               Store, Clear, Do, Timer
  <1>1. Places("A0", Actions("A0", c, ev)) OBVIOUS
  <1>2. Places("A1", Actions("A1", c, ev)) OBVIOUS
  <1>3. Places("A2", Actions("A2", c, ev)) OBVIOUS
  <1>4. Places("A3", Actions("A3", c, ev)) OBVIOUS
  <1>5. Places("A4", Actions("A4", c, ev)) OBVIOUS
  <1>6. Places("A5", Actions("A5", c, ev)) OBVIOUS
  <1>7. Places("A6", Actions("A6", c, ev)) OBVIOUS
  <1>8. Places("A7", Actions("A7", c, ev)) OBVIOUS
  <1>9. Places("A8", Actions("A8", c, ev)) OBVIOUS
  <1>10. Places("A8b", Actions("A8b", c, ev)) OBVIOUS
  <1>11. Places("A9", Actions("A9", c, ev)) OBVIOUS
  <1>12. Places("A10", Actions("A10", c, ev)) OBVIOUS
  <1>13. Places("A11", Actions("A11", c, ev)) OBVIOUS
  <1>14. Places("DoesNotExist", Actions("DoesNotExist", c, ev)) OBVIOUS
  <1>. HIDE DEF Places, Actions
  <1>. QED BY <1>1, <1>2, <1>3, <1>4, <1>5, <1>6, <1>7,
            <1>8, <1>9, <1>10, <1>11, <1>12, <1>13, <1>14 DEF ActionNames

(* What an action list puts into the outbox, for a connection d.           *)
OutFx(a, O, addr, d) ==
    /\ O \in Seq(Messages)
    /\ a \in Silent => O = << >>
    /\ Len(O) <= 2 /\ (a \notin {"A2", "A6"} => Len(O) <= 1)
    /\ \A k \in DOMAIN O : O[k].svc \in DataMsgs =>
          a = "A2" /\ k = Len(O) /\ O[k].addr = addr /\ O[k].mac_seq = outgoing_tl_seq(d)
    /\ \A k \in DOMAIN O : O[k].svc = "N_Data" =>
          /\ a = "A9" /\ d.pending_msg # NoMsg
          /\ O[k].seq = d.pending_msg.seq /\ O[k].mac_seq = d.pending_msg.mac_seq

\* The empty sequence adds nothing.
LEMMA EmptyCat ==
    ASSUME NEW S, NEW s \in Seq(S)
    PROVE  s \o << >> = s /\ << >> \o s = s
  OBVIOUS

\* Sequences of one and of two messages.
LEMMA ShortSeqs ==
    ASSUME NEW m, NEW n
    PROVE  /\ Len(<< m >>) = 1 /\ DOMAIN << m >> = {1} /\ << m >>[1] = m
           /\ \A s, t \in Seq(Messages) : s = << m >> /\ t = << n >> =>
                 /\ Len(s \o t) = 2 /\ DOMAIN (s \o t) = {1, 2}
                 /\ (s \o t)[1] = m /\ (s \o t)[2] = n
  <1>1. Len(<< m >>) = 1 /\ DOMAIN << m >> = {1} /\ << m >>[1] = m
    OBVIOUS
  <1>2. ASSUME NEW s \in Seq(Messages), NEW t \in Seq(Messages), s = << m >>, t = << n >>
        PROVE  /\ Len(s \o t) = 2 /\ DOMAIN (s \o t) = {1, 2}
               /\ (s \o t)[1] = m /\ (s \o t)[2] = n
    <2>1. Len(s) = 1 /\ Len(t) = 1 /\ s[1] = m /\ t[1] = n
      BY <1>2
    <2>2. Len(s \o t) = 2 /\ DOMAIN (s \o t) = 1 .. 2
      <3>1. s \o t \in Seq(Messages)
        OBVIOUS
      <3>2. Len(s \o t) = Len(s) + Len(t)
        OBVIOUS
      <3>. QED BY <2>1, <3>1, <3>2
    <2>3. (s \o t)[1] = s[1] /\ (s \o t)[2] = t[1]
      BY <2>1
    <2>. QED BY <2>1, <2>2, <2>3
  <1>. QED BY <1>1, <1>2

\* The outputs of one specification action.
LEMMA OutputsFacts ==
    ASSUME NEW cs \in [Slots -> Connection], NEW addr \in Addrs, NEW i \in Slots,
           find_any_including_closed(cs, addr) = i,
           NEW a \in ActionNames, NEW x, EmittersOK(x, addr), Places(a, x), NEW starved
    PROVE  OutFx(a, Outputs(cs, x, starved), addr, cs[i])
  <1>. DEFINE o(k) == Out(cs, x, k, starved)
              d == cs[i]
              O == Outputs(cs, x, starved)
  <1>1. EntryFx(o(1), x, 1, addr, d) /\ EntryFx(o(2), x, 2, addr, d)
        /\ EntryFx(o(3), x, 3, addr, d) /\ EntryFx(o(4), x, 4, addr, d)
    BY OutFacts
  <1>2. o(1) \in Seq(Messages) /\ o(2) \in Seq(Messages)
        /\ o(3) \in Seq(Messages) /\ o(4) \in Seq(Messages)
    BY OutOK
  <1>3. O = ((o(1) \o o(2)) \o o(3)) \o o(4)
    BY DEF Outputs
  <1>. HIDE DEF o, O, d
  <1>4. CASE a \in Silent
    <2>1. o(1) = << >> /\ o(2) = << >> /\ o(3) = << >> /\ o(4) = << >>
      BY <1>1, <1>4 DEF EntryFx, Places, Silent
    <2>2. O = << >>
      BY <1>3, <2>1
    <2>. QED BY <2>2 DEF OutFx, O, d
  <1>5. ASSUME NEW p \in {1, 2, 3}, a \in {"A1", "A3", "A4", "A5", "A9", "A10"},
               \A k \in {1, 2, 3, 4} : k # p => o(k) = << >>
        PROVE  OutFx(a, O, addr, d)
    <2>1. O = o(p)
      <3>. USE <1>2, <1>3, <1>5, EmptyCat
      <3>1. CASE p = 1 BY <3>1
      <3>2. CASE p = 2 BY SMTT(30), <3>2
      <3>3. CASE p = 3 BY <3>3
      <3>. QED BY <3>1, <3>2, <3>3
    <2>2. EntryFx(o(p), x, p, addr, d) /\ a \notin Silent \cup {"A2", "A6"}
      BY <1>1, <1>5 DEF Silent
    <2>3. CASE o(p) = << >>
      BY <2>1, <2>2, <2>3 DEF OutFx
    <2>4. ASSUME NEW m, o(p) = << m >>, p \in DOMAIN x, MsgFx(m, x[p].op, addr, d)
          PROVE  OutFx(a, O, addr, d)
      <3>1. Len(O) = 1 /\ DOMAIN O = {1} /\ O[1] = m /\ O \in Seq(Messages)
        BY <1>2, <2>1, <2>4, ShortSeqs
      <3>2. m.svc \notin DataMsgs
        BY <2>2, <2>4 DEF MsgFx, Places
      <3>3. m.svc = "N_Data" => a = "A9"
        BY <2>4 DEF MsgFx, Places
      <3>. QED BY <2>2, <2>4, <3>1, <3>2, <3>3 DEF OutFx, MsgFx
    <2>. QED BY <2>2, <2>3, <2>4 DEF EntryFx
  <1>6. CASE a \in {"A3", "A4", "A9", "A10"}
    <2>1. \A k \in {1, 2, 3, 4} : k # 1 => o(k) = << >>
      BY <1>1, <1>6 DEF EntryFx, Places
    <2>. QED BY <1>5, <1>6, <2>1 DEF O, d
  <1>7. CASE a = "A1"
    <2>1. \A k \in {1, 2, 3, 4} : k # 2 => o(k) = << >>
      BY <1>1, <1>7 DEF EntryFx, Places
    <2>. QED BY <1>5, <1>7, <2>1 DEF O, d
  <1>8. CASE a = "A5"
    <2>1. \A k \in {1, 2, 3, 4} : k # 3 => o(k) = << >>
      BY <1>1, <1>8 DEF EntryFx, Places
    <2>. QED BY <1>5, <1>8, <2>1 DEF O, d
  <1>9. ASSUME NEW p \in {2, 4}, a = IF p = 2 THEN "A2" ELSE "A6",
               \A k \in {2, 3, 4} : k # p => o(k) = << >>
        PROVE  OutFx(a, O, addr, d)
    <2>1. O = o(1) \o o(p)
      <3>0. o(1) \o o(2) \in Seq(Messages)
        BY <1>2
      <3>. USE <1>2, <1>3, <1>9, EmptyCat
      <3>1. CASE p = 2
        <4>1. o(3) = << >> /\ o(4) = << >>
          BY <3>1
        <4>. QED BY ZenonT(40), <3>0, <3>1, <4>1
      <3>2. CASE p = 4
        <4>1. o(2) = << >> /\ o(3) = << >>
          BY <3>2
        <4>. QED BY <3>2, <4>1
      <3>. QED BY <3>1, <3>2
    <2>2. EntryFx(o(1), x, 1, addr, d) /\ EntryFx(o(p), x, p, addr, d) /\ a \notin Silent
      BY <1>1, <1>9 DEF Silent
    <2>3. \A m : MsgFx(m, x[1].op, addr, d) /\ 1 \in DOMAIN x =>
                    m.svc \notin DataMsgs /\ m.svc # "N_Data"
      BY <1>9 DEF MsgFx, Places
    <2>4. \A m : MsgFx(m, x[p].op, addr, d) /\ p \in DOMAIN x =>
                    /\ m.svc # "N_Data"
                    /\ m.svc \in DataMsgs => a = "A2"
                    /\ m.svc \in DataMsgs => m.addr = addr /\ m.mac_seq = outgoing_tl_seq(d)
      BY <1>9 DEF MsgFx, Places
    <2>5. CASE o(1) = << >> /\ o(p) = << >>
      <3>1. O = << >>
        BY <1>2, <2>1, <2>5
      <3>. QED BY <2>2, <3>1 DEF OutFx
    <2>6. ASSUME NEW m, o(1) = << m >>, m.svc \notin DataMsgs, m.svc # "N_Data", o(p) = << >>
          PROVE  OutFx(a, O, addr, d)
      <3>1. Len(O) = 1 /\ DOMAIN O = {1} /\ O[1] = m /\ O \in Seq(Messages)
        BY <1>2, <2>1, <2>6, ShortSeqs, EmptyCat
      <3>. QED BY <1>9, <2>2, <2>6, <3>1 DEF OutFx
    <2>7. ASSUME NEW m, o(p) = << m >>, p \in DOMAIN x, MsgFx(m, x[p].op, addr, d), o(1) = << >>
          PROVE  OutFx(a, O, addr, d)
      <3>1. Len(O) = 1 /\ DOMAIN O = {1} /\ O[1] = m /\ O \in Seq(Messages)
        BY <1>2, <2>1, <2>7, ShortSeqs, EmptyCat
      <3>. QED BY <1>9, <2>2, <2>4, <2>7, <3>1 DEF OutFx
    <2>8. ASSUME NEW m, NEW n, o(1) = << m >>, m.svc \notin DataMsgs, m.svc # "N_Data",
                 o(p) = << n >>, p \in DOMAIN x, MsgFx(n, x[p].op, addr, d)
          PROVE  OutFx(a, O, addr, d)
      <3>1. /\ Len(O) = 2 /\ DOMAIN O = {1, 2} /\ O[1] = m /\ O[2] = n
            /\ O \in Seq(Messages)
        <4>1. O \in Seq(Messages) /\ o(p) \in Seq(Messages)
          BY <1>2, <2>1
        <4>2. PICK s, t \in Seq(Messages) : s = << m >> /\ t = << n >> /\ O = s \o t
          BY <1>2, <2>1, <2>8, <4>1
        <4>. QED BY <4>1, <4>2, ShortSeqs
      <3>. QED BY <1>9, <2>2, <2>4, <2>8, <3>1 DEF OutFx
    <2>. QED BY <2>2, <2>3, <2>5, <2>6, <2>7, <2>8 DEF EntryFx
  <1>10. CASE a = "A2"
    <2>1. \A k \in {2, 3, 4} : k # 2 => o(k) = << >>
      BY <1>1, <1>10 DEF EntryFx, Places
    <2>. QED BY <1>9, <1>10, <2>1 DEF O, d
  <1>11. CASE a = "A6"
    <2>1. \A k \in {2, 3, 4} : k # 4 => o(k) = << >>
      BY <1>1, <1>11 DEF EntryFx, Places
    <2>. QED BY <1>9, <1>11, <2>1 DEF O, d
  <1>. QED BY <1>4, <1>6, <1>7, <1>8, <1>10, <1>11 DEF ActionNames, Silent

-----------------------------------------------------------------------------
(* What one event does to the connection c it is for, when its action is   *)
(* a: d has the new counters, x also the deferred changes.                 *)
SlotFx(c, a, d, x) ==
    /\ a \in ActionNames \ {"A7", "A11"}
    /\ d.pending_msg = c.pending_msg /\ d.seq_no_send = x.seq_no_send
    /\ x.queued_outgoing = c.queued_outgoing
    /\ x.pending_msg = IF a \in {"A8", "A8b"} THEN NoMsg ELSE c.pending_msg
    /\ x.seq_no_send = CASE a = "A1" -> 0
                         [] a \in {"A8", "A8b"} -> inc_seq(c.seq_no_send)
                         [] OTHER -> c.seq_no_send
    /\ a = "A1" => c.state = "Closed" /\ x.state = "OpenIdle"
    /\ a = "A2" => c.state # "Closed" /\ x.state = c.state
    /\ a \in {"A5", "A6"} => x.state = "Closed"
    /\ a \in {"A8", "A8b"} => c.state = "OpenWait" /\ x.state = "OpenIdle"
    /\ a = "A9" => x.state = "OpenWait"
    /\ a \notin {"A1", "A5", "A6", "A8", "A8b"} /\ Style # "Style2" => x.state = c.state
    /\ a \in {"A6", "A9"} => x.ack_timer # "expired" /\ x.conn_timer # "expired"

Timeouts == {"AckTimeout", "ConnectionTimeout"}

\* process_event and the actions it asks for, on one connection.
LEMMA EventFacts ==
    ASSUME NEW c, SlotOK(c), NEW ev, ev.type \in DeviceEvents, ev.addr = c.remote_addr,
           NEW r, r = process_event(Style, c, ev)
    PROVE  \E a \in ActionNames :
              /\ r.actions = Actions(a, c, ev)
              /\ SlotFx(c, a, r.conn, ApplyTo(r.conn, r))
              /\ ev.type \in Timeouts => a \in {"A0", "A6", "A9", "DoesNotExist"}
  <1>0. c \in Connection
    BY DEF SlotOK
  <1>1. CASE r = [conn |-> c, actions |-> << >>, next_state |-> "None"]
    <2>0. r.conn = c /\ r.next_state = "None" /\ r.actions = << >>
      BY <1>1
    <2>1. /\ ~Asks(r.actions, "StartAckTimer") /\ ~Asks(r.actions, "StopAckTimer")
          /\ ~Asks(r.actions, "StartConnTimer") /\ ~Asks(r.actions, "StopConnTimer")
          /\ ~Asks(r.actions, "ClearPendingMessage")
      BY <2>0 DEF Asks
    <2>2. ApplyTo(c, r) =
            [c EXCEPT !.ack_timer = c.ack_timer, !.conn_timer = c.conn_timer,
                      !.pending_msg = c.pending_msg, !.state = c.state]
      BY <2>0, <2>1 DEF ApplyTo
    <2>3. ApplyTo(r.conn, r) = c
      BY <1>0, <2>0, <2>2 DEF Connection
    <2>4. Actions("DoesNotExist", c, ev) = << >>
      BY DEF Actions
    <2>5. SlotFx(c, "DoesNotExist", c, c)
      BY DEF SlotFx, ActionNames
    <2>. QED BY <2>0, <2>3, <2>4, <2>5 DEF ActionNames
  <1>2. ASSUME NEW st \in DeviceStates, NEW a \in ActionNames, CellStep(c, ev, r, st, a)
        PROVE  /\ r.actions = Actions(a, c, ev)
               /\ SlotFx(c, a, r.conn, ApplyTo(r.conn, r))
               /\ ev.type \in Timeouts => a \in {"A0", "A6", "A9", "DoesNotExist"}
    <2>. DEFINE e == classify_event(Style, c, ev)
                d == CoreAfter(a, c, ev)
                x == ApplyTo(r.conn, r)
    <2>1. r.conn = d /\ r.actions = Actions(a, c, ev) /\ r.next_state = st
      BY <1>2 DEF CellStep
    <2>2. CellOK(Style, <<st, a>>, c.state, e) /\ e # "E15"
      BY <1>2, ClassFacts DEF CellStep, DeviceEvents
    <2>3. /\ a = "A9" => c.rep_count < MaxRepetitions
          /\ a \notin {"A7", "A11", "DoesNotExist"}
      BY <1>2, <2>2, ClassFacts DEF CellOK, CellStep
    <2>4. /\ d \in Connection /\ d.pending_msg = c.pending_msg
          /\ d.queued_outgoing = c.queued_outgoing
          /\ a \notin {"A1", "A8", "A8b"} => d.seq_no_send = c.seq_no_send
      BY <1>0, <2>3, CoreType
    <2>5. /\ a = "A1" => d.seq_no_send = 0
          /\ a \in {"A8", "A8b"} => d.seq_no_send = inc_seq(c.seq_no_send)
      BY <1>0 DEF CoreAfter, Connection
    <2>6. ev.type \in Timeouts => a \in {"A0", "A6", "A9", "DoesNotExist"}
      <3>. SUFFICES ASSUME ev.type \in Timeouts PROVE a \in {"A0", "A6", "A9", "DoesNotExist"}
        OBVIOUS
      <3>1. e \in {"E16", "E17", "E18", "None"}
        BY DEF classify_event, Timeouts
      <3>2. a = lookup(Style, c.state, e)[2]
        BY <1>2 DEF CellStep
      <3>3. c.state \in DeviceStates
        BY DEF SlotOK, Connection, ConnStates, DeviceStates
      <3>4. e # "None"
        <4>1. r.next_state # "None"
          BY <2>1 DEF DeviceStates
        <4>. QED BY <4>1 DEF process_event, DNE
      <3>. QED BY <3>1, <3>2, <3>3, <3>4, TimeoutCells, StyleAssumption
    <2>. HIDE DEF e, d
    <2>7. /\ x.state = st /\ x.seq_no_send = d.seq_no_send
          /\ x.queued_outgoing = d.queued_outgoing
          /\ x.ack_timer = IF a = "A9" THEN "running"
                           ELSE IF a \in {"A5", "A6", "A8", "A8b"} THEN "off" ELSE d.ack_timer
          /\ x.conn_timer = IF a \in {"A1", "A2", "A3", "A4", "A8", "A8b", "A9"}
                            THEN "running"
                            ELSE IF a \in {"A5", "A6"} THEN "off" ELSE d.conn_timer
          /\ x.pending_msg = IF a \in {"A8", "A8b"} THEN NoMsg ELSE d.pending_msg
      BY <2>1, <2>3, <2>4, ApplyFacts
    <2>. HIDE DEF x
    <2>8. SlotFx(c, a, d, x)
      BY <2>2, <2>3, <2>4, <2>5, <2>7 DEF SlotFx, CellOK, ActionNames
    <2>. QED BY <2>1, <2>6, <2>8 DEF x
  <1>3. \/ r = [conn |-> c, actions |-> << >>, next_state |-> "None"]
        \/ \E st \in DeviceStates, a \in ActionNames : CellStep(c, ev, r, st, a)
    BY ProcessFacts
  <1>. QED BY <1>1, <1>2, <1>3

-----------------------------------------------------------------------------
(* The effect of an event on the table and on the outbox.                  *)

(* The release of a queued response: at most one message, only when the    *)
(* connection x is idle with a queued response.                            *)
RelFx(R, x) ==
    \/ R = << >>
    \/ /\ x.state = "OpenIdle" /\ x.queued_outgoing # NoMsg
       /\ \E m \in Messages : /\ R = << m >> /\ m.svc = "N_Data"
                              /\ m.seq = x.seq_no_send
                              /\ m.mac_seq = x.queued_outgoing.mac_seq

\* What releasing a queued response puts into the outbox.
LEMMA ReleaseFacts ==
    ASSUME NEW cs \in [Slots -> Connection], NEW addr \in Addrs, NEW i \in Slots,
           MustRelease(cs, addr) => find_any(cs, addr) = i /\ cs[i].queued_outgoing # NoMsg,
           NEW starved
    PROVE  RelFx(ReleaseOutput(cs, addr, starved), cs[i])
  <1>1. CASE MustRelease(cs, addr) /\ "down" \notin starved
    <2>1. /\ cs[i].queued_outgoing \in Stored /\ cs[i] \in Connection
          /\ cs[i].state = "OpenIdle" /\ cs[i].queued_outgoing # NoMsg
      BY <1>1 DEF Connection, MustRelease
    <2>2. Released(cs[i]).pending_msg = [cs[i].queued_outgoing EXCEPT !.seq = cs[i].seq_no_send]
      BY <2>1 DEF Released, Connection
    <2>3. PICK q : q = Released(cs[i]).pending_msg
      OBVIOUS
    <2>4. q \in Stored /\ q.seq = cs[i].seq_no_send /\ q.mac_seq = cs[i].queued_outgoing.mac_seq
      BY <2>1, <2>2, <2>3 DEF Stored, Connection
    <2>5. PICK m : m = Data(addr, q)
      OBVIOUS
    <2>6. m \in Messages /\ m.svc = "N_Data" /\ m.seq = q.seq /\ m.mac_seq = q.mac_seq
      BY <2>4, <2>5, MsgFacts DEF Data, Msg
    <2>7. ReleaseOutput(cs, addr, starved) = << m >>
      BY <1>1, <2>3, <2>5 DEF ReleaseOutput
    <2>. QED BY <2>1, <2>4, <2>6, <2>7 DEF RelFx
  <1>2. CASE ~(MustRelease(cs, addr) /\ "down" \notin starved)
    BY <1>2 DEF ReleaseOutput, RelFx
  <1>. QED BY <1>1, <1>2

EventResult(cs, i, ev, a, x, O, R) ==
    /\ x \in Connection /\ \E d : SlotFx(cs[i], a, d, x)
    /\ ev.type \in Timeouts => a \in {"A0", "A6", "A9", "DoesNotExist"}
    /\ OutFx(a, O, ev.addr, x) /\ RelFx(R, x)
    /\ conns' = [cs EXCEPT ![i] = Final(x)]
    /\ outbox' = (outbox \o O) \o R

\* One event, classified, executed and its queued response released.
LEMMA HandleEventFacts ==
    ASSUME NEW cs, TableOK(cs), NEW i \in Slots, IsFirst(cs, i),
           ~Open(cs[i]) => cs[i].pending_msg = NoMsg,
           NEW ev, ev.type \in DeviceEvents, ev.seq \in SeqNos,
           ev.addr = cs[i].remote_addr, outbox \in Seq(Messages),
           NEW starved, HandleEvent(cs, i, ev, starved)
    PROVE  \E a \in ActionNames : \E x, O, R : EventResult(cs, i, ev, a, x, O, R)
  <1>1. cs \in [Slots -> Connection] /\ SlotOK(cs[i]) /\ ev.addr \in Addrs /\ Unique(cs)
    BY DEF TableOK, Connection
  <1>2. PICK r : /\ r = process_event(Style, cs[i], ev)
                 /\ Execute([cs EXCEPT ![i] = r.conn], r, ev.addr, starved, outbox, << >>)
    BY DEF HandleEvent
  <1>. DEFINE cs1 == [cs EXCEPT ![i] = r.conn]
              cs2 == AfterActions(cs1, r, ev.addr)
              x   == ApplyTo(r.conn, r)
              O   == Outputs(cs1, r.actions, starved)
              R   == ReleaseOutput(cs2, ev.addr, starved)
  <1>3. /\ r.conn \in Connection /\ r.conn.remote_addr = ev.addr
        /\ PreOK(x) /\ x.remote_addr = ev.addr
        /\ EmittersOK(r.actions, ev.addr)
    BY <1>1, <1>2, EventSlot
  <1>4. PICK a \in ActionNames :
            /\ r.actions = Actions(a, cs[i], ev)
            /\ SlotFx(cs[i], a, r.conn, x)
            /\ ev.type \in Timeouts => a \in {"A0", "A6", "A9", "DoesNotExist"}
    BY <1>1, <1>2, EventFacts
  <1>. HIDE DEF x
  <1>5. /\ find_any_including_closed(cs1, ev.addr) = i
        /\ cs2 = [cs EXCEPT ![i] = x]
        /\ MustRelease(cs2, ev.addr) =>
              find_any(cs2, ev.addr) = i /\ cs2[i].queued_outgoing # NoMsg
        /\ AfterRelease(cs2, ev.addr) = [cs EXCEPT ![i] = Final(x)]
    <2>1. \A k \in Slots : k < i => cs[k].remote_addr # ev.addr
      BY DEF IsFirst
    <2>2. ExecutePre(cs, i, ev.addr, r.conn, r)
      BY <1>1, <1>3, <2>1 DEF ExecutePre, x
    <2>3. ExecutePost(cs, i, ev.addr, r.conn, r, cs1, cs2)
      BY <2>2, ExecuteTable
    <2>. QED BY <2>3 DEF ExecutePost, x
  <1>6. x \in Connection
    BY <1>3 DEF PreOK
  <1>7. cs1 \in [Slots -> Connection] /\ cs2 \in [Slots -> Connection]
        /\ cs1[i] = r.conn /\ cs2[i] = x
    BY <1>1, <1>3, <1>5, <1>6
  <1>. HIDE DEF cs1, cs2
  <1>8. /\ conns' = AfterRelease(cs2, ev.addr)
        /\ outbox' = ((outbox \o O) \o R) \o << >>
    BY <1>2 DEF Execute, cs1, cs2
  <1>9. OutFx(a, O, ev.addr, r.conn)
    <2>1. Places(a, r.actions)
      BY <1>4, PlaceFacts
    <2>. QED BY <1>1, <1>3, <1>5, <1>7, <2>1, OutputsFacts
  <1>10. RelFx(R, x)
    BY <1>1, <1>5, <1>7, ReleaseFacts
  <1>11. O \in Seq(Messages) /\ R \in Seq(Messages)
    BY <1>1, <1>3, <1>5, <1>7, OutputsOK, ReleaseOK
  <1>. HIDE DEF O, R
  <1>12. OutFx(a, O, ev.addr, x)
    <2>1. a = "A2" => outgoing_tl_seq(r.conn) = outgoing_tl_seq(x)
      BY <1>4 DEF SlotFx, outgoing_tl_seq
    <2>2. a = "A9" => r.conn.pending_msg = x.pending_msg
      BY <1>4 DEF SlotFx
    <2>. QED BY <1>9, <2>1, <2>2 DEF OutFx
  <1>13. outbox' = (outbox \o O) \o R
    BY <1>8, <1>11
  <1>14. EventResult(cs, i, ev, a, x, O, R)
    BY <1>4, <1>5, <1>6, <1>8, <1>10, <1>12, <1>13 DEF EventResult
  <1>. QED BY <1>14

(* A data request m, on the open connection c.                             *)
ReqFx(c, m, a, x) ==
    /\ a \in {"A6", "A7", "A11"} /\ (a = "A6" => Style \notin {"Style3", "Style1R"})
    /\ a = "A6" => x.state = "Closed"
    /\ a # "A6" => x.state = "OpenWait" /\ x.seq_no_send = c.seq_no_send
    /\ a = "A7" => /\ c.state = "OpenIdle" /\ x.queued_outgoing = c.queued_outgoing
                   /\ x.pending_msg.seq = c.seq_no_send
                   /\ x.pending_msg.mac_seq = m.mac_seq
    /\ a = "A11" => /\ c.state = "OpenWait" /\ x.pending_msg = c.pending_msg
                    /\ x.queued_outgoing.mac_seq = m.mac_seq

(* The message handle_data_request itself pushes.                          *)
LastFx(L, a, x) ==
    \/ L = << >>
    \/ \E n \in Messages :
          /\ L = << n >> /\ n.svc \notin DataMsgs
          /\ n.svc = "N_Data" /\ a # "A6" =>
                n.seq = x.pending_msg.seq /\ n.mac_seq = x.pending_msg.mac_seq

RequestResult(i, m, a, x, O, L) ==
    /\ x \in Connection /\ ReqFx(conns[i], m, a, x)
    /\ O \in Seq(Messages) /\ Len(O) <= 2 /\ (a # "A6" => O = << >>)
    /\ \A k \in DOMAIN O : O[k].svc \notin DataMsgs /\ O[k].svc # "N_Data"
    /\ LastFx(L, a, x)
    /\ conns' = [conns EXCEPT ![i] = x]
    /\ outbox' = (Tail(outbox) \o O) \o L

\* The connection a data request is for.
LEMMA RequestFacts ==
    ASSUME NEW c, SlotOK(c), Open(c), NEW ev, ev.type = "RequestData", ev.seq \in SeqNos,
           ev.addr = c.remote_addr, NEW r, r = process_event(Style, c, ev),
           NEW m, m.mac_seq \in SeqNos, m.re \in SeqNos, NEW d, d = StoreRequest(c, r, m)
    PROVE  \E a \in ActionNames :
              /\ r.actions = Actions(a, c, ev) /\ ReqFx(c, m, a, ApplyTo(d, r))
              /\ Asks(r.actions, "QueueEvent") <=> a = "A11"
              /\ a # "A11" => d.pending_msg = ApplyTo(d, r).pending_msg
  <1>0. c \in Connection /\ c.state \in DeviceStates /\ c.state # "Closed"
    BY DEF SlotOK, Connection, ConnStates, DeviceStates, Open
  <1>1. PICK st \in DeviceStates, a \in ActionNames : CellStep(c, ev, r, st, a)
    BY ProcessFacts DEF Open
  <1>. DEFINE e == classify_event(Style, c, ev)
              b == CoreAfter(a, c, ev)
              x == ApplyTo(d, r)
  <1>2. r.conn = b /\ r.actions = Actions(a, c, ev) /\ r.next_state = st
    BY <1>1 DEF CellStep
  <1>3. /\ CellOK(Style, <<st, a>>, c.state, e) /\ e = "E15"
        /\ <<st, a>> = lookup(Style, c.state, e)
    BY <1>1, ClassFacts DEF CellStep
  <1>4. a \in {"A6", "A7", "A11"}
    BY <1>3 DEF CellOK, Open
  <1>5. a = "A6" => Style \notin {"Style3", "Style1R"}
    BY <1>0, <1>3, RequestCells
  <1>6. /\ b \in Connection /\ b.pending_msg = c.pending_msg
        /\ b.queued_outgoing = c.queued_outgoing /\ b.seq_no_send = c.seq_no_send
    BY <1>0, <1>4, CoreType
  <1>7. Asks(r.actions, "QueueEvent") <=> a = "A11"
    BY <1>2, AskFacts DEF AsksOK
  <1>. HIDE DEF e, b
  <1>8. CASE a = "A11"
    <2>1. PICK q : q = [seq |-> 0, mac_seq |-> m.mac_seq, re |-> m.re]
      OBVIOUS
    <2>2. q \in Stored /\ q.mac_seq = m.mac_seq
      BY <2>1, SeqFacts DEF Stored
    <2>3. d = [b EXCEPT !.queued_outgoing = q]
      BY <1>2, <1>7, <1>8, <2>1 DEF StoreRequest
    <2>4. /\ d \in Connection /\ d.queued_outgoing = q /\ d.pending_msg = c.pending_msg
          /\ d.seq_no_send = c.seq_no_send
      BY <1>6, <2>2, <2>3 DEF Connection
    <2>5. /\ x.state = st /\ x.seq_no_send = d.seq_no_send /\ x.queued_outgoing = q
          /\ x.pending_msg = d.pending_msg
      BY <1>2, <1>8, <2>4, ApplyFacts
    <2>6. ReqFx(c, m, a, x)
      BY <1>3, <1>8, <2>2, <2>4, <2>5 DEF ReqFx, CellOK
    <2>. QED BY <1>2, <1>7, <1>8, <2>6
  <1>9. CASE a \in {"A6", "A7"}
    <2>1. PICK q : q = [seq |-> c.seq_no_send, mac_seq |-> m.mac_seq, re |-> m.re]
      OBVIOUS
    <2>2. q \in Stored /\ q.mac_seq = m.mac_seq /\ q.seq = c.seq_no_send
      BY <1>0, <2>1 DEF Stored, Connection
    <2>3. d = [b EXCEPT !.pending_msg = q]
      BY <1>2, <1>7, <1>9, <2>1 DEF StoreRequest
    <2>4. /\ d \in Connection /\ d.queued_outgoing = c.queued_outgoing /\ d.pending_msg = q
          /\ d.seq_no_send = c.seq_no_send
      BY <1>6, <2>2, <2>3 DEF Connection
    <2>5. /\ x.state = st /\ x.seq_no_send = d.seq_no_send
          /\ x.queued_outgoing = d.queued_outgoing /\ x.pending_msg = q
      BY <1>2, <1>9, <2>4, ApplyFacts
    <2>. HIDE DEF x
    <2>6. ReqFx(c, m, a, x)
      BY <1>3, <1>5, <1>9, <2>2, <2>4, <2>5 DEF ReqFx, CellOK
    <2>. QED BY <1>2, <1>7, <1>9, <2>4, <2>5, <2>6 DEF x
  <1>. QED BY <1>4, <1>8, <1>9

\* A data request of the application layer, on the table and the outbox.
LEMMA DataRequestFacts ==
    ASSUME TypeOK, TableOK(conns), NEW i \in Slots, Open(conns[i]), IsFirst(conns, i),
           outbox # << >>, NEW m, m = Head(outbox), m.svc = "T_Data_Req",
           m.addr = conns[i].remote_addr, NEW starved, DataRequest(i, m, starved)
    PROVE  \E a \in ActionNames : \E x, O, L : RequestResult(i, m, a, x, O, L)
  <1>. DEFINE ev == Event("RequestData", m.addr, 0)
  <1>0. ev.type = "RequestData" /\ ev.addr = m.addr /\ ev.seq \in SeqNos
    BY SeqFacts DEF Event
  <1>1. /\ conns \in [Slots -> Connection] /\ SlotOK(conns[i]) /\ m.addr \in Addrs
        /\ Unique(conns) /\ Tail(outbox) \in Seq(Messages) /\ m \in Messages
    BY DEF TableOK, Connection, TypeOK
  <1>2. m.mac_seq \in SeqNos /\ m.re \in SeqNos
    BY <1>1 DEF Messages, NlServices, AlNotices
  <1>. HIDE DEF ev
  <1>3. PICK r, d :
          /\ r = process_event(Style, conns[i], ev)
          /\ d = StoreRequest(conns[i], r, m)
          /\ Execute([conns EXCEPT ![i] = d], r, m.addr, starved, Tail(outbox),
                IF "down" \in starved THEN << >>
                ELSE IF Asks(r.actions, "QueueEvent") THEN << Ind("T_Data_Con", m.addr) >>
                ELSE << Data(m.addr, d.pending_msg) >>)
    BY DEF DataRequest, ev
  <1>. DEFINE cs1 == [conns EXCEPT ![i] = d]
              cs2 == AfterActions(cs1, r, m.addr)
              x   == ApplyTo(d, r)
              O   == Outputs(cs1, r.actions, starved)
              R   == ReleaseOutput(cs2, m.addr, starved)
              L   == IF "down" \in starved THEN << >>
                     ELSE IF Asks(r.actions, "QueueEvent") THEN << Ind("T_Data_Con", m.addr) >>
                     ELSE << Data(m.addr, d.pending_msg) >>
  <1>4. /\ d \in Connection /\ d.remote_addr = m.addr
        /\ ~Asks(r.actions, "QueueEvent") => d.pending_msg \in Stored
        /\ PreOK(x) /\ x.remote_addr = m.addr
        /\ EmittersOK(r.actions, m.addr)
    BY <1>0, <1>1, <1>2, <1>3, RequestSlot
  <1>5. PICK a \in ActionNames :
          /\ r.actions = Actions(a, conns[i], ev) /\ ReqFx(conns[i], m, a, x)
          /\ Asks(r.actions, "QueueEvent") <=> a = "A11"
          /\ a # "A11" => d.pending_msg = x.pending_msg
    BY <1>0, <1>1, <1>2, <1>3, RequestFacts
  <1>. HIDE DEF x
  <1>6. /\ find_any_including_closed(cs1, m.addr) = i
        /\ cs2 = [conns EXCEPT ![i] = x]
        /\ MustRelease(cs2, m.addr) =>
              find_any(cs2, m.addr) = i /\ cs2[i].queued_outgoing # NoMsg
        /\ AfterRelease(cs2, m.addr) = [conns EXCEPT ![i] = Final(x)]
    <2>1. \A k \in Slots : k < i => conns[k].remote_addr # m.addr
      BY DEF IsFirst
    <2>2. ExecutePre(conns, i, m.addr, d, r)
      BY <1>1, <1>4, <2>1 DEF ExecutePre, x
    <2>3. ExecutePost(conns, i, m.addr, d, r, cs1, cs2)
      BY <2>2, ExecuteTable
    <2>. QED BY <2>3 DEF ExecutePost, x
  <1>7. x \in Connection
    BY <1>4 DEF PreOK
  <1>8. cs1 \in [Slots -> Connection] /\ cs2 \in [Slots -> Connection] /\ cs2[i] = x
    BY <1>1, <1>4, <1>6, <1>7
  <1>. HIDE DEF cs1, cs2
  <1>9. /\ conns' = AfterRelease(cs2, m.addr)
        /\ outbox' = ((Tail(outbox) \o O) \o R) \o L
    BY <1>3 DEF Execute, cs1, cs2
  <1>10. OutFx(a, O, m.addr, cs1[i])
    <2>1. Places(a, r.actions)
      BY <1>5, PlaceFacts
    <2>. QED BY <1>1, <1>4, <1>6, <1>8, <2>1, OutputsFacts
  <1>11. x.state # "OpenIdle" /\ a \in {"A6", "A7", "A11"}
    BY <1>5 DEF ReqFx
  <1>12. R = << >>
    <2>1. RelFx(R, x)
      BY <1>1, <1>6, <1>8, ReleaseFacts
    <2>. QED BY <1>11, <2>1 DEF RelFx
  <1>13. LastFx(L, a, x)
    <2>1. CASE "down" \in starved
      BY <2>1 DEF LastFx
    <2>2. CASE "down" \notin starved /\ a = "A11"
      <3>1. PICK n : n = Ind("T_Data_Con", m.addr)
        OBVIOUS
      <3>2. n \in Messages /\ n.svc = "T_Data_Con"
        BY <1>1, <3>1, MsgFacts DEF AlNotices, Ind, Msg
      <3>3. L = << n >>
        BY <1>5, <2>2, <3>1
      <3>. QED BY <3>2, <3>3 DEF LastFx, DataMsgs
    <2>3. CASE "down" \notin starved /\ a # "A11"
      <3>1. PICK n : n = Data(m.addr, d.pending_msg)
        OBVIOUS
      <3>2. /\ n \in Messages /\ n.svc = "N_Data"
            /\ n.seq = x.pending_msg.seq /\ n.mac_seq = x.pending_msg.mac_seq
        BY <1>1, <1>4, <1>5, <2>3, <3>1, MsgFacts DEF Data, Msg
      <3>3. L = << n >>
        BY <1>5, <2>3, <3>1
      <3>. QED BY <3>2, <3>3 DEF LastFx, DataMsgs
    <2>. QED BY <2>1, <2>2, <2>3
  <1>. HIDE DEF O, R, L
  <1>14. /\ O \in Seq(Messages) /\ Len(O) <= 2 /\ (a # "A6" => O = << >>)
         /\ \A k \in DOMAIN O : O[k].svc \notin DataMsgs /\ O[k].svc # "N_Data"
    BY <1>10, <1>11 DEF OutFx, Silent
  <1>15. outbox' = (Tail(outbox) \o O) \o L
    BY <1>1, <1>9, <1>12, <1>14
  <1>16. conns' = [conns EXCEPT ![i] = x]
    BY <1>6, <1>9, <1>11 DEF Final
  <1>17. RequestResult(i, m, a, x, O, L)
    BY <1>5, <1>7, <1>13, <1>14, <1>15, <1>16 DEF RequestResult
  <1>. QED BY <1>17

-----------------------------------------------------------------------------
(* The outbox keeps its shape and its bound.                               *)

\* The elements of a concatenation.
LEMMA CatFacts ==
    ASSUME NEW s \in Seq(Messages), NEW t \in Seq(Messages)
    PROVE  /\ s \o t \in Seq(Messages) /\ Len(s \o t) = Len(s) + Len(t)
           /\ \A k \in DOMAIN (s \o t) :
                 \/ k \in DOMAIN s /\ (s \o t)[k] = s[k]
                 \/ k - Len(s) \in DOMAIN t /\ (s \o t)[k] = t[k - Len(s)]
  <1>1. s \o t \in Seq(Messages) /\ Len(s \o t) = Len(s) + Len(t)
    OBVIOUS
  <1>2. ASSUME NEW k \in DOMAIN (s \o t)
        PROVE  \/ k \in DOMAIN s /\ (s \o t)[k] = s[k]
               \/ k - Len(s) \in DOMAIN t /\ (s \o t)[k] = t[k - Len(s)]
    <2>1. k \in 1 .. (Len(s) + Len(t))
      BY <1>1
    <2>2. CASE k <= Len(s)
      BY <2>1, <2>2
    <2>3. CASE k > Len(s)
      <3>1. k - Len(s) \in DOMAIN t
        BY <2>1, <2>3
      <3>2. (s \o t)[k] = t[k - Len(s)]
        BY <2>1, <2>3
      <3>. QED BY <3>1, <3>2
    <2>. QED BY <2>1, <2>2, <2>3
  <1>. QED BY <1>1, <1>2

\* The release puts at most one message into the outbox, never a data message.
LEMMA RelSeq ==
    ASSUME NEW R, NEW x, RelFx(R, x)
    PROVE  /\ R \in Seq(Messages) /\ Len(R) <= 1
           /\ \A k \in DOMAIN R : R[k].svc = "N_Data" /\ R[k].seq = x.seq_no_send
                                     /\ R[k].mac_seq = x.queued_outgoing.mac_seq
           /\ R # << >> => x.state = "OpenIdle" /\ x.queued_outgoing # NoMsg
  <1>1. CASE R = << >>
    BY <1>1
  <1>2. ASSUME NEW m \in Messages, R = << m >>, m.svc = "N_Data", m.seq = x.seq_no_send,
               m.mac_seq = x.queued_outgoing.mac_seq,
               x.state = "OpenIdle" /\ x.queued_outgoing # NoMsg
        PROVE  /\ R \in Seq(Messages) /\ Len(R) <= 1
               /\ \A k \in DOMAIN R : R[k].svc = "N_Data" /\ R[k].seq = x.seq_no_send
                                         /\ R[k].mac_seq = x.queued_outgoing.mac_seq
               /\ R # << >> => x.state = "OpenIdle" /\ x.queued_outgoing # NoMsg
    BY <1>2, ShortSeqs, OneMessage
  <1>. QED BY <1>1, <1>2 DEF RelFx

\* After a release no connection is idle with a queued response.
LEMMA IdleKept ==
    ASSUME NEW cs \in [Slots -> Connection], IdleReleased(cs), NEW i \in Slots, NEW x
    PROVE  IdleReleased([cs EXCEPT ![i] = Final(x)])
  BY DEF IdleReleased, Final, Released

\* An event that finds the outbox empty.
LEMMA ReadyEventOut ==
    ASSUME NEW cs \in [Slots -> Connection], IdleReleased(cs), NEW i \in Slots, NEW ev,
           NEW a \in ActionNames, NEW x, NEW O, NEW R, EventResult(cs, i, ev, a, x, O, R),
           outbox = << >>, ~polling, UNCHANGED polling
    PROVE  OutRest'
  <1>1. IdleReleased(conns')
    BY IdleKept DEF EventResult
  <1>2. OutFx(a, O, ev.addr, x) /\ RelFx(R, x) /\ O \in Seq(Messages)
    BY DEF EventResult, OutFx
  <1>3. /\ R \in Seq(Messages) /\ Len(R) <= 1 /\ \A k \in DOMAIN R : R[k].svc \notin DataMsgs
        /\ R # << >> => x.state = "OpenIdle" /\ x.queued_outgoing # NoMsg
    BY <1>2, RelSeq DEF DataMsgs
  <1>4. outbox' = O \o R
    <2>1. outbox \o O = O
      BY <1>2, EmptyCat
    <2>. QED BY <2>1 DEF EventResult
  <1>5. Len(O) <= 2 /\ Len(O) \in Nat /\ Len(R) \in Nat
    BY <1>2, <1>3 DEF OutFx
  <1>6. OutboxRoom'
    <2>1. Len(outbox') <= 3
      BY <1>2, <1>3, <1>4, <1>5
    <2>. QED BY <1>5, <2>1, SlotsAssumption, <1>4, <1>2, <1>3 DEF OutboxRoom
  <1>7. OutboxShape'
    <2>1. CASE a = "A2"
      <3>1. x.state = "OpenIdle" => x.queued_outgoing = NoMsg
        BY <2>1 DEF EventResult, SlotFx, IdleReleased
      <3>2. R = << >>
        BY <1>3, <3>1
      <3>3. outbox' = O
        BY <1>2, <1>4, <3>2, EmptyCat
      <3>. QED BY <1>2, <1>5, <3>3 DEF OutboxShape, OutFx
    <2>2. CASE a # "A2"
      <3>1. \A k \in DOMAIN O : O[k].svc \notin DataMsgs
        BY <1>2, <2>2 DEF OutFx
      <3>2. \A k \in DOMAIN outbox' : outbox'[k].svc \notin DataMsgs
        BY <1>2, <1>3, <1>4, <3>1, CatFacts
      <3>. QED BY <3>2 DEF OutboxShape
    <2>. QED BY <2>1, <2>2
  <1>. QED BY <1>1, <1>6, <1>7 DEF OutRest

\* A T_Connect.
LEMMA ReceiveConnectOut ==
    ASSUME Inv, OutRest, NEW addr \in Peers, ReceiveConnect(addr)
    PROVE  OutRest'
  <1>. DEFINE i == Allocated(addr)
              cs == AfterAllocate(i, addr)
              ev == Event("ReceivedConnect", addr, 0)
  <1>0. /\ TypeOK /\ TableOK(conns) /\ conns \in [Slots -> Connection]
        /\ outbox = << >> /\ ~polling /\ UNCHANGED polling /\ addr \in Addrs
        /\ IdleReleased(conns)
    BY DEF Inv, TypeOK, ReceiveConnect, Ready, Addrs, OutRest
  <1>1. CASE incoming_locked \/ i = NoSlot
    <2>1. UNCHANGED conns
      BY <1>1 DEF ReceiveConnect
    <2>2. outbox' = << >> \/ outbox' = << Pdu("N_Disconnect", addr, 0) >>
      BY <1>0, <1>1 DEF ReceiveConnect
    <2>3. PICK m : m = Pdu("N_Disconnect", addr, 0)
      OBVIOUS
    <2>4. m.svc \notin DataMsgs
      BY <2>3 DEF Pdu, Msg, DataMsgs
    <2>5. Len(outbox') <= 1 /\ Len(outbox') \in Nat
          /\ \A k \in DOMAIN outbox' : outbox'[k].svc \notin DataMsgs
      <3>1. CASE outbox' = << >> BY <3>1
      <3>2. CASE outbox' = << m >> BY <2>4, <3>2, ShortSeqs
      <3>. QED BY <2>2, <2>3, <3>1, <3>2
    <2>. QED BY <1>0, <2>1, <2>5, SlotsAssumption DEF OutRest, OutboxShape, OutboxRoom, IdleReleased
  <1>2. CASE ~incoming_locked /\ i # NoSlot
    <2>1. PICK starved \in Starvation : HandleEvent(cs, i, ev, starved)
      BY <1>2 DEF ReceiveConnect
    <2>2. AllocatedOK(cs, i, addr)
      BY <1>0, <1>2, AllocateOK
    <2>3. ev.type \in DeviceEvents /\ ev.seq \in SeqNos /\ ev.addr = addr
      BY SeqFacts DEF Event, DeviceEvents
    <2>. HIDE DEF cs, ev, i
    <2>4. PICK a \in ActionNames : \E x, O, R : EventResult(cs, i, ev, a, x, O, R)
      BY <1>0, <2>1, <2>2, <2>3, HandleEventFacts DEF AllocatedOK, TypeOK
    <2>6. PICK x, O, R : EventResult(cs, i, ev, a, x, O, R)
      BY <2>4
    <2>5. cs \in [Slots -> Connection] /\ i \in Slots /\ IdleReleased(cs)
      BY <1>0, <2>2 DEF AllocatedOK, TableOK, IdleReleased, ResetConn
    <2>. QED BY <1>0, <2>5, <2>6, ReadyEventOut
  <1>. QED BY <1>1, <1>2

\* Any other PDU of a peer.
LEMMA ReceivePduOut ==
    ASSUME Inv, OutRest, NEW addr \in Peers, NEW type \in DeviceEvents, NEW seq \in SeqNos,
           ReceivePdu(type, addr, seq)
    PROVE  OutRest'
  <1>. DEFINE i == find_any(conns, addr)
              ev == Event(type, addr, seq)
  <1>0. /\ TypeOK /\ TableOK(conns) /\ conns \in [Slots -> Connection]
        /\ outbox = << >> /\ ~polling /\ UNCHANGED polling /\ IdleReleased(conns)
    BY DEF Inv, TypeOK, ReceivePdu, Ready, OutRest
  <1>1. PICK starved \in Starvation : HandleEvent(conns, i, ev, starved)
    BY DEF ReceivePdu
  <1>2. i \in Slots /\ Open(conns[i]) /\ conns[i].remote_addr = addr /\ IsFirst(conns, i)
    BY <1>0, FindAnyOK DEF ReceivePdu
  <1>3. ev.type \in DeviceEvents /\ ev.seq \in SeqNos /\ ev.addr = addr
    BY DEF Event
  <1>. HIDE DEF i, ev
  <1>4. PICK a \in ActionNames : \E x, O, R : EventResult(conns, i, ev, a, x, O, R)
    BY <1>0, <1>1, <1>2, <1>3, HandleEventFacts DEF TypeOK
  <1>5. PICK x, O, R : EventResult(conns, i, ev, a, x, O, R)
    BY <1>4
  <1>. QED BY <1>0, <1>2, <1>5, ReadyEventOut

\* The cEMI switch: two notices per closed connection and one T_Connect.
LEMMA CemiActivateOut ==
    ASSUME Inv, OutRest, CemiActivate
    PROVE  OutRest'
  <1>0. ~polling /\ UNCHANGED polling /\ conns' = ForceClosed /\ IdleReleased(conns)
    BY DEF CemiActivate, Ready, OutRest
  <1>1. PICK n \in 0 .. MaxIncoming : \E open \in [1 .. n -> OpenSlots] :
          \E m \in 0 .. 2 * n + 1 : outbox' = [k \in 1 .. m |-> CloseNotice(open, n, k)]
    BY DEF CemiActivate
  <1>2. PICK open \in [1 .. n -> OpenSlots], m \in 0 .. 2 * n + 1 :
          outbox' = [k \in 1 .. m |-> CloseNotice(open, n, k)]
    BY <1>1
  <1>3. n \in Nat /\ m \in Nat /\ n <= MaxIncoming /\ m <= 2 * n + 1
    BY <1>1, <1>2, SlotsAssumption
  <1>4. Len(outbox') = m /\ DOMAIN outbox' = 1 .. m
    BY <1>2, <1>3
  <1>5. \A k \in 1 .. m : outbox'[k].svc \notin DataMsgs
    <2>. SUFFICES ASSUME NEW k \in 1 .. m PROVE CloseNotice(open, n, k).svc \notin DataMsgs
      BY <1>2
    <2>. USE DEF CloseNotice, Ind, Pdu, Msg, DataMsgs
    <2>1. CASE k = 2 * n + 1 BY <2>1
    <2>2. CASE k # 2 * n + 1 /\ k % 2 = 1 BY <2>2
    <2>3. CASE k # 2 * n + 1 /\ k % 2 = 0 BY <2>3
    <2>4. k % 2 = 1 \/ k % 2 = 0
      BY <1>3
    <2>. QED BY <2>1, <2>2, <2>3, <2>4
  <1>6. IdleReleased(conns')
    BY <1>0 DEF IdleReleased, ForceClosed, ResetConn
  <1>7. OutboxShape' /\ OutboxRoom'
    BY <1>0, <1>3, <1>4, <1>5, SlotsAssumption DEF OutboxShape, OutboxRoom
  <1>. QED BY <1>6, <1>7 DEF OutRest

\* An outbox of at most one message has the shape, out of the polling loop.
LEMMA ShortOutbox ==
    ASSUME OutRest, UNCHANGED conns, ~polling', \/ outbox' = << >> \/ \E m : outbox' = << m >>
    PROVE  OutRest'
  <1>1. IdleReleased(conns')
    BY DEF OutRest, IdleReleased
  <1>2. Len(outbox') <= 1 /\ Len(outbox') \in Nat
        /\ \A k \in DOMAIN outbox' : k = Len(outbox')
    <2>1. CASE outbox' = << >>
      BY <2>1
    <2>2. ASSUME NEW m, outbox' = << m >>
          PROVE  /\ Len(outbox') <= 1 /\ Len(outbox') \in Nat
                 /\ \A k \in DOMAIN outbox' : k = Len(outbox')
      BY <2>2, ShortSeqs
    <2>. QED BY <2>1, <2>2
  <1>. QED BY <1>1, <1>2, SlotsAssumption DEF OutRest, OutboxShape, OutboxRoom

\* Closing a cEMI connection, and a frame on it.
LEMMA CemiOut ==
    ASSUME OutRest, CemiDeactivate \/ CemiFrame
    PROVE  OutRest'
  <1>1. UNCHANGED conns /\ ~polling'
    BY DEF CemiDeactivate, CemiFrame, Ready
  <1>2. outbox' = << >> \/ \E m : outbox' = << m >>
    BY DEF CemiDeactivate, CemiFrame
  <1>. QED BY <1>1, <1>2, ShortOutbox

\* The next message is not a data message.
LEMMA DrainPassiveOut ==
    ASSUME Inv, OutRest, DrainPassive
    PROVE  OutRest'
  <1>1. /\ outbox' = Tail(outbox) /\ outbox # << >> /\ outbox \in Seq(Messages)
        /\ UNCHANGED conns /\ ~polling /\ UNCHANGED polling
    BY DEF DrainPassive, HeadIs, Inv, TypeOK
  <1>2. /\ Len(outbox') = Len(outbox) - 1 /\ Len(outbox) \in Nat
        /\ \A k \in DOMAIN outbox' : k + 1 \in DOMAIN outbox /\ outbox'[k] = outbox[k + 1]
    BY <1>1
  <1>3. OutboxShape'
    <2>. SUFFICES ASSUME NEW k \in DOMAIN outbox', outbox'[k].svc \in DataMsgs
                  PROVE  k = Len(outbox') /\ Len(outbox') <= 2 /\ ~polling'
      BY DEF OutboxShape
    <2>1. k \in Nat
      BY <1>1
    <2>2. k + 1 = Len(outbox) /\ Len(outbox) <= 2
      BY <1>2 DEF OutRest, OutboxShape
    <2>. QED BY <1>1, <1>2, <2>1, <2>2
  <1>4. OutboxRoom'
    BY <1>1, <1>2, SlotsAssumption DEF OutRest, OutboxRoom
  <1>. QED BY <1>1, <1>3, <1>4 DEF OutRest, IdleReleased

\* A data message at the head of the outbox is alone in it.
LEMMA DataAlone ==
    ASSUME Inv, OutboxShape, HeadIs(DataMsgs)
    PROVE  outbox \in Seq(Messages) /\ Len(outbox) = 1 /\ Tail(outbox) = << >>
  <1>1. outbox \in Seq(Messages) /\ outbox # << >> /\ Head(outbox).svc \in DataMsgs
    BY DEF HeadIs, Inv, TypeOK
  <1>2. 1 \in DOMAIN outbox /\ outbox[1] = Head(outbox)
    BY <1>1
  <1>3. Len(outbox) = 1
    BY <1>1, <1>2 DEF OutboxShape
  <1>4. Tail(outbox) \in Seq(Messages) /\ Len(Tail(outbox)) = 0
    BY <1>1, <1>3
  <1>5. \A s \in Seq(Messages) : Len(s) = 0 => s = << >>
    OBVIOUS
  <1>. QED BY <1>1, <1>3, <1>4, <1>5

\* The application layer takes a data indication.
LEMMA HandleDataIndOut ==
    ASSUME Inv, OutRest, HandleDataInd
    PROVE  OutRest'
  <1>1. HeadIs(DataMsgs)
    BY DEF HandleDataInd, HeadIs, DataMsgs
  <1>2. Tail(outbox) = << >>
    BY <1>1, DataAlone DEF OutRest
  <1>3. /\ outbox' \in {Tail(outbox), Append(Tail(outbox), Response(Head(outbox)))}
        /\ UNCHANGED conns /\ ~polling'
    BY DEF HandleDataInd, HeadIs
  <1>4. outbox' = << >> \/ \E m : outbox' = << m >>
    <2>1. \A m : Append(<< >>, m) = << m >>
      OBVIOUS
    <2>. QED BY <1>2, <1>3, <2>1
  <1>. QED BY <1>3, <1>4, ShortOutbox

\* The application layer's response is stored, queued or refused.
LEMMA HandleDataReqOut ==
    ASSUME Inv, OutRest, HandleDataReq
    PROVE  OutRest'
  <1>. DEFINE m == Head(outbox)
              i == find_any(conns, m.addr)
  <1>0. /\ TypeOK /\ TableOK(conns) /\ conns \in [Slots -> Connection]
        /\ HeadIs(DataMsgs) /\ ~polling /\ UNCHANGED polling
        /\ outbox # << >> /\ m.svc = "T_Data_Req"
    BY DEF Inv, TypeOK, HandleDataReq, HeadIs, DataMsgs
  <1>1. Tail(outbox) = << >>
    BY <1>0, DataAlone DEF OutRest
  <1>2. CASE ~active /\ i # NoSlot
    <2>1. PICK starved \in Starvation : DataRequest(i, m, starved)
      BY <1>2 DEF HandleDataReq
    <2>2. i \in Slots /\ Open(conns[i]) /\ conns[i].remote_addr = m.addr /\ IsFirst(conns, i)
      BY <1>0, <1>2, FindAnyOK
    <2>3. m = Head(outbox)
      OBVIOUS
    <2>. HIDE DEF m, i
    <2>4. PICK a \in ActionNames : \E x, O, L : RequestResult(i, m, a, x, O, L)
      BY <1>0, <2>1, <2>2, <2>3, DataRequestFacts
    <2>5. PICK x, O, L : RequestResult(i, m, a, x, O, L)
      BY <2>4
    <2>6. L \in Seq(Messages) /\ Len(L) <= 1 /\ \A k \in DOMAIN L : L[k].svc \notin DataMsgs
      <3>1. CASE L = << >> BY <3>1
      <3>2. ASSUME NEW n \in Messages, L = << n >>, n.svc \notin DataMsgs
            PROVE  /\ L \in Seq(Messages) /\ Len(L) <= 1
                   /\ \A k \in DOMAIN L : L[k].svc \notin DataMsgs
        BY <3>2, ShortSeqs, OneMessage
      <3>. QED BY <2>5, <3>1, <3>2 DEF RequestResult, LastFx
    <2>7. /\ O \in Seq(Messages) /\ Len(O) <= 2
          /\ \A k \in DOMAIN O : O[k].svc \notin DataMsgs
      BY <2>5 DEF RequestResult
    <2>8. outbox' = O \o L
      <3>1. << >> \o O = O
        BY <2>7, EmptyCat
      <3>. QED BY <1>1, <2>5, <3>1 DEF RequestResult
    <2>9. Len(outbox') <= 3 /\ Len(outbox') \in Nat
          /\ \A k \in DOMAIN outbox' : outbox'[k].svc \notin DataMsgs
      BY <2>6, <2>7, <2>8, CatFacts
    <2>10. IdleReleased(conns')
      <3>1. x.state # "OpenIdle" /\ conns' = [conns EXCEPT ![i] = x]
        BY <2>5 DEF RequestResult, ReqFx
      <3>. QED BY <1>0, <3>1 DEF OutRest, IdleReleased
    <2>. QED BY <1>0, <2>9, <2>10, SlotsAssumption DEF OutRest, OutboxShape, OutboxRoom
  <1>3. CASE ~(~active /\ i # NoSlot)
    <2>1. /\ outbox' = Tail(outbox) \o (IF active THEN << >> ELSE << Ind("T_Data_Con", m.addr) >>)
          /\ UNCHANGED conns
      BY <1>3 DEF HandleDataReq
    <2>2. PICK n : n = Ind("T_Data_Con", m.addr)
      OBVIOUS
    <2>3. n \in Messages
      <3>1. m.addr \in Addrs
        <4>1. m \in Messages
          BY <1>0 DEF TypeOK
        <4>. QED BY <4>1 DEF Messages
      <3>. QED BY <2>2, <3>1, MsgFacts DEF AlNotices
    <2>4. << n >> \in Seq(Messages)
      BY <2>3, OneMessage
    <2>5. outbox' = << >> \/ outbox' = << n >>
      <3>1. << >> \o << n >> = << n >>
        BY <2>4, EmptyCat
      <3>2. << >> \o << >> = << >>
        OBVIOUS
      <3>. HIDE DEF m
      <3>3. CASE active BY <1>1, <2>1, <3>2, <3>3
      <3>4. CASE ~active BY <1>1, <2>1, <2>2, <3>1, <3>4
      <3>. QED BY <3>3, <3>4
    <2>. QED BY <1>0, <2>1, <2>5, ShortOutbox
  <1>. QED BY <1>2, <1>3

\* The loop of check_timeouts starts with at most every slot expired.
LEMMA PollStartOut ==
    ASSUME OutRest, PollStart
    PROVE  OutRest'
  <1>1. outbox = << >> /\ UNCHANGED <<conns, outbox>>
    BY DEF PollStart, Ready
  <1>2. IsFiniteSet(Slots) /\ Cardinality(Slots) = MaxIncoming
    <2>1. /\ IsFiniteSet(0 .. MaxIncoming - 1)
          /\ Cardinality(0 .. MaxIncoming - 1) =
                IF 0 > MaxIncoming - 1 THEN 0 ELSE (MaxIncoming - 1) - 0 + 1
      BY FS_Interval, SlotsAssumption
    <2>. QED BY <2>1, SlotsAssumption DEF Slots
  <1>3. PICK E : E = Expired(conns)
    OBVIOUS
  <1>4. Cardinality(E) <= MaxIncoming /\ Cardinality(E) \in Nat
    <2>1. E \subseteq Slots
      BY <1>3 DEF Expired
    <2>2. IsFiniteSet(E) /\ Cardinality(E) <= Cardinality(Slots)
      BY <1>2, <2>1, FS_Subset
    <2>. QED BY <1>2, <2>2, FS_CardinalityType
  <1>5. Expired(conns') = E /\ Len(outbox') = 0
    BY <1>1, <1>3 DEF Expired
  <1>6. OutboxRoom'
    BY <1>4, <1>5, SlotsAssumption DEF OutboxRoom
  <1>7. OutboxShape'
    BY <1>1 DEF OutboxShape
  <1>. QED BY <1>1, <1>6, <1>7 DEF OutRest, IdleReleased

\* One round of the loop: the slot it handled pays for its messages by no
\* longer being expired.
LEMMA PollStepOut ==
    ASSUME Inv, OutRest, PollStep
    PROVE  OutRest'
  <1>. DEFINE i == TimedOut(conns)
              ev == Event(IF conns[i].ack_timer = "expired" THEN "AckTimeout" ELSE "ConnectionTimeout",
                          conns[i].remote_addr, 0)
  <1>0. /\ TypeOK /\ TableOK(conns) /\ conns \in [Slots -> Connection]
        /\ outbox \in Seq(Messages) /\ polling /\ UNCHANGED polling
    BY DEF Inv, TypeOK, PollStep
  <1>1. PICK E : E = Expired(conns)
    OBVIOUS
  <1>2. i \in E
    <2>1. i # NoSlot /\ i = First(E) /\ E \subseteq Slots
      BY <1>1 DEF PollStep, TimedOut, Expired
    <2>. QED BY <2>1, FirstProps
  <1>3. i \in Slots /\ Open(conns[i])
    BY <1>0, <1>1, <1>2 DEF Expired, TableOK, SlotOK, Disciplined, Open
  <1>4. IsFirst(conns, i)
    BY <1>0, <1>3 DEF TableOK, Unique, IsFirst
  <1>5. /\ ev.type \in DeviceEvents \cap Timeouts /\ ev.seq \in SeqNos
        /\ ev.addr = conns[i].remote_addr
    BY SeqFacts DEF Event, DeviceEvents, Timeouts
  <1>6. PICK starved \in Starvation : HandleEvent(conns, i, ev, starved)
    BY DEF PollStep
  <1>. HIDE DEF i, ev
  <1>7. PICK a \in ActionNames : \E x, O, R : EventResult(conns, i, ev, a, x, O, R)
    BY <1>0, <1>3, <1>4, <1>5, <1>6, HandleEventFacts
  <1>8. PICK x, O, R : EventResult(conns, i, ev, a, x, O, R)
    BY <1>7
  <1>9. /\ a \in {"A0", "A6", "A9", "DoesNotExist"} /\ x \in Connection
        /\ OutFx(a, O, ev.addr, x) /\ RelFx(R, x)
        /\ conns' = [conns EXCEPT ![i] = Final(x)]
        /\ outbox' = (outbox \o O) \o R
        /\ a \in {"A6", "A9"} =>
              x.state # "OpenIdle" /\ x.ack_timer # "expired" /\ x.conn_timer # "expired"
    BY <1>5, <1>8 DEF EventResult, SlotFx
  <1>10. IdleReleased(conns')
    BY <1>0, <1>3, <1>9, IdleKept DEF OutRest
  <1>11. /\ O \in Seq(Messages) /\ Len(O) <= 2 /\ (a \in {"A0", "DoesNotExist"} => O = << >>)
         /\ \A k \in DOMAIN O : O[k].svc \notin DataMsgs
    BY <1>9 DEF OutFx, Silent
  <1>12. /\ R \in Seq(Messages) /\ Len(R) <= 1 /\ \A k \in DOMAIN R : R[k].svc \notin DataMsgs
         /\ R # << >> => x.state = "OpenIdle" /\ x.queued_outgoing # NoMsg
    BY <1>9, RelSeq DEF DataMsgs
  <1>13. PICK P : P = outbox \o O
    OBVIOUS
  <1>14. P \in Seq(Messages) /\ Len(P) = Len(outbox) + Len(O)
         /\ \A k \in DOMAIN P : P[k].svc \notin DataMsgs
    <2>1. \A k \in DOMAIN outbox : outbox[k].svc \notin DataMsgs
      BY <1>0 DEF OutRest, OutboxShape
    <2>. QED BY <1>0, <1>11, <1>13, <2>1, CatFacts
  <1>15. Len(outbox') = Len(outbox) + Len(O) + Len(R) /\ Len(outbox') \in Nat
         /\ \A k \in DOMAIN outbox' : outbox'[k].svc \notin DataMsgs
    <2>1. outbox' = P \o R
      BY <1>9, <1>13
    <2>2. Len(outbox') = Len(P) + Len(R) /\ outbox' \in Seq(Messages)
      BY <1>12, <1>14, <2>1, CatFacts
    <2>3. \A k \in DOMAIN outbox' : outbox'[k].svc \notin DataMsgs
      BY <1>12, <1>14, <2>1, CatFacts
    <2>. QED BY <1>14, <2>2, <2>3
  <1>16. PICK F : F = Expired(conns')
    OBVIOUS
  <1>17. F \subseteq E /\ IsFiniteSet(E) /\ Cardinality(E) \in Nat
    <2>1. IsFiniteSet(Slots)
      BY FS_Interval, SlotsAssumption DEF Slots
    <2>2. E \subseteq Slots
      BY <1>1 DEF Expired
    <2>3. F \subseteq E
      BY <1>0, <1>1, <1>2, <1>9, <1>16 DEF Expired
    <2>. QED BY <2>1, <2>2, <2>3, FS_Subset, FS_CardinalityType
  <1>18. Len(outbox) + 2 * Cardinality(E) <= 2 * MaxIncoming /\ Len(outbox) \in Nat
    BY <1>0, <1>1 DEF OutRest, OutboxRoom
  <1>19. CASE O = << >> /\ R = << >>
    <2>1. Cardinality(F) <= Cardinality(E) /\ Cardinality(F) \in Nat
      BY <1>17, FS_Subset, FS_CardinalityType
    <2>2. OutboxRoom'
      BY <1>0, <1>15, <1>16, <1>18, <1>17, <1>19, <2>1, SlotsAssumption DEF OutboxRoom
    <2>. QED BY <1>10, <1>15, <2>2 DEF OutRest, OutboxShape
  <1>20. CASE ~(O = << >> /\ R = << >>)
    <2>1. Len(O) + Len(R) <= 2 /\ Len(O) \in Nat /\ Len(R) \in Nat
      <3>1. O = << >> \/ R = << >>
        BY <1>9, <1>11, <1>12
      <3>2. Len(O) \in Nat /\ Len(R) \in Nat
        BY <1>11, <1>12
      <3>. QED BY <1>11, <1>12, <3>1, <3>2
    <2>2. i \notin F
      <3>1. Final(x).ack_timer # "expired" /\ Final(x).conn_timer # "expired"
        <4>1. CASE R # << >>
          BY <1>9, <1>12, <4>1 DEF Final, Released, Connection
        <4>2. CASE R = << >>
          BY <1>9, <1>11, <1>20, <4>2 DEF Final
        <4>. QED BY <4>1, <4>2
      <3>. QED BY <1>0, <1>3, <1>9, <1>16, <3>1 DEF Expired
    <2>3. Cardinality(F) <= Cardinality(E) - 1 /\ Cardinality(F) \in Nat
      <3>1. /\ IsFiniteSet(E \ {i}) /\ Cardinality(E \ {i}) = Cardinality(E) - 1
        BY <1>2, <1>17, FS_RemoveElement
      <3>2. F \subseteq E \ {i}
        BY <1>17, <2>2
      <3>3. IsFiniteSet(F) /\ Cardinality(F) <= Cardinality(E \ {i})
        BY <3>1, <3>2, FS_Subset
      <3>. QED BY <3>1, <3>3, FS_CardinalityType
    <2>4. OutboxRoom'
      BY <1>0, <1>15, <1>16, <1>17, <1>18, <2>1, <2>3, SlotsAssumption DEF OutboxRoom
    <2>. QED BY <1>10, <1>15, <2>4 DEF OutRest, OutboxShape
  <1>. QED BY <1>19, <1>20

\* A deadline that passes changes nothing but a timer.
LEMMA ExpireFields ==
    ASSUME conns \in [Slots -> Connection], NEW i \in Slots, ExpireAck(i) \/ ExpireConn(i)
    PROVE  \A k \in Slots :
              /\ conns'[k].state = conns[k].state /\ conns'[k].remote_addr = conns[k].remote_addr
              /\ conns'[k].queued_outgoing = conns[k].queued_outgoing
              /\ conns'[k].pending_msg = conns[k].pending_msg
              /\ conns'[k].seq_no_send = conns[k].seq_no_send
  <1>1. CASE ExpireAck(i)
    <2>1. conns' = [conns EXCEPT ![i] = [conns[i] EXCEPT !.ack_timer = "expired"]]
      BY <1>1 DEF ExpireAck
    <2>. QED BY <2>1 DEF Connection
  <1>2. CASE ExpireConn(i)
    <2>1. conns' = [conns EXCEPT ![i] = [conns[i] EXCEPT !.conn_timer = "expired"]]
      BY <1>2 DEF ExpireConn
    <2>. QED BY <2>1 DEF Connection
  <1>. QED BY <1>1, <1>2

\* The steps that leave the outbox alone.
LEMMA QuietOut ==
    ASSUME Inv, OutRest,
           GoQuiet \/ PollEnd \/ UNCHANGED vars \/ \E i \in Slots : ExpireAck(i) \/ ExpireConn(i)
    PROVE  OutRest'
  <1>0. conns \in [Slots -> Connection] /\ outbox \in Seq(Messages)
    BY DEF Inv, TypeOK
  <1>1. CASE UNCHANGED vars \/ GoQuiet
    <2>1. UNCHANGED <<conns, outbox, polling>>
      BY <1>1 DEF vars, GoQuiet
    <2>. QED BY <2>1 DEF OutRest, OutboxShape, OutboxRoom, IdleReleased, Expired
  <1>2. CASE PollEnd
    <2>1. UNCHANGED <<conns, outbox>> /\ ~polling'
      BY <1>2 DEF PollEnd
    <2>. QED BY <2>1 DEF OutRest, OutboxShape, OutboxRoom, IdleReleased
  <1>3. ASSUME NEW i \in Slots, ExpireAck(i) \/ ExpireConn(i)
        PROVE  OutRest'
    <2>1. UNCHANGED outbox /\ outbox = << >> /\ ~polling'
      BY <1>3 DEF ExpireAck, ExpireConn, Ready
    <2>2. IdleReleased(conns')
      <3>1. \A k \in Slots : conns'[k].state = conns[k].state
                             /\ conns'[k].queued_outgoing = conns[k].queued_outgoing
        BY <1>0, <1>3, ExpireFields
      <3>. QED BY <3>1 DEF IdleReleased, OutRest
    <2>. QED BY <2>1, <2>2, SlotsAssumption DEF OutRest, OutboxShape, OutboxRoom
  <1>. QED BY <1>1, <1>2, <1>3

\* Every step keeps the shape and the bound of the outbox.
LEMMA OutStep == Inv /\ OutRest /\ [Next]_vars => OutRest'
  <1>. SUFFICES ASSUME Inv, OutRest, [Next]_vars PROVE OutRest'
    OBVIOUS
  <1>1. ASSUME NEW addr \in Peers, Receive(addr)
        PROVE  OutRest'
    <2>1. CASE ReceiveConnect(addr)
      BY <2>1, ReceiveConnectOut
    <2>2. CASE \E type \in DeviceEvents, seq \in SeqNos : ReceivePdu(type, addr, seq)
      BY <2>2, ReceivePduOut
    <2>. QED BY <1>1, <2>1, <2>2, SeqFacts
             DEF Receive, ReceiveDisconnect, ReceiveAck, ReceiveNack, ReceiveData, DeviceEvents
  <1>2. CASE CemiActivate BY <1>2, CemiActivateOut
  <1>3. CASE CemiDeactivate \/ CemiFrame BY <1>3, CemiOut
  <1>4. CASE Drain
    BY <1>4, DrainPassiveOut, HandleDataIndOut, HandleDataReqOut DEF Drain
  <1>5. CASE PollStart BY <1>5, PollStartOut
  <1>6. CASE PollStep BY <1>6, PollStepOut
  <1>7. CASE GoQuiet \/ PollEnd \/ UNCHANGED vars \/ \E i \in Slots : ExpireAck(i) \/ ExpireConn(i)
    BY <1>7, QuietOut
  <1>. QED BY <1>1, <1>2, <1>3, <1>4, <1>5, <1>6, <1>7 DEF Next

(* The outbox has its shape and its room in every behaviour, in every      *)
(* style and for any number of slots.                                      *)
THEOREM OutboxInvariant == Spec => []OutRest
  <1>1. Init => OutRest
    BY SlotsAssumption DEF Init, OutRest, IdleReleased, ResetConn, OutboxShape, OutboxRoom
  <1>. QED BY <1>1, OutStep, InvariantHolds, PTL DEF Spec

(* The assertion of Outbox::push never fires, in any style: a capacity of  *)
(* two messages per incoming slot and one more is enough.  With            *)
(* OUTBOX_CAPACITY = 8 this allows MAX_INCOMING up to 3.                    *)
THEOREM OutboxSuffices ==
    ASSUME Outbox_Capacity \in Nat, 2 * MaxIncoming + 1 <= Outbox_Capacity
    PROVE  Spec => []OutboxBounded
  <1>1. Inv /\ OutRest => OutboxBounded
    <2>. SUFFICES ASSUME Inv, OutRest PROVE OutboxBounded
      OBVIOUS
    <2>1. Len(outbox) \in Nat /\ Len(outbox) <= 2 * MaxIncoming + 1
      BY DEF Inv, TypeOK, OutRest, OutboxRoom
    <2>. QED BY <2>1, SlotsAssumption DEF OutboxBounded
  <1>. QED BY <1>1, InvariantHolds, OutboxInvariant, PTL

-----------------------------------------------------------------------------
(* The number in the MAC.                                                  *)

Queueing == Style \in {"Style3", "Style1R"}

NoData(s) == \A k \in DOMAIN s : s[k].svc \notin DataMsgs
MacOK(s)  == \A k \in DOMAIN s : s[k].svc = "N_Data" => s[k].seq = s[k].mac_seq

\* outgoing_tl_seq is the number of the next response, or the one after it.
LEMMA TlSeq ==
    ASSUME NEW c \in Connection
    PROVE  outgoing_tl_seq(c) = IF c.pending_msg # NoMsg THEN inc_seq(c.seq_no_send)
                                ELSE c.seq_no_send
  <1>1. c.seq_no_send \in SeqNos
    BY DEF Connection
  <1>2. (c.seq_no_send + 0) % SeqMod = c.seq_no_send
    BY <1>1, SeqModAssumption DEF SeqNos
  <1>. QED BY <1>2 DEF outgoing_tl_seq, inc_seq

\* A release stamps the response with the number it leaves with.
LEMMA ReleasedMac ==
    ASSUME NEW x \in Connection, x.queued_outgoing # NoMsg,
           x.queued_outgoing.mac_seq = x.seq_no_send
    PROVE  MacSlot(Released(x))
  <1>1. x.queued_outgoing \in Stored
    BY DEF Connection
  <1>2. PICK q : q = [x.queued_outgoing EXCEPT !.seq = x.seq_no_send]
    OBVIOUS
  <1>3. q.seq = x.seq_no_send /\ q.mac_seq = x.seq_no_send
    BY <1>1, <1>2 DEF Stored
  <1>4. Released(x).pending_msg = q /\ Released(x).queued_outgoing = NoMsg
    BY <1>2 DEF Released, Connection
  <1>. QED BY <1>3, <1>4 DEF MacSlot

\* One event keeps the stamps of the slot it is for, and what it sends
\* matches them.
LEMMA EventMac ==
    ASSUME Queueing, NEW cs, TableOK(cs), IdleReleased(cs), NEW i \in Slots, MacSlot(cs[i]),
           ~Open(cs[i]) => cs[i].pending_msg = NoMsg /\ cs[i].queued_outgoing = NoMsg,
           NEW ev, NEW a \in ActionNames, NEW x, NEW O, NEW R,
           EventResult(cs, i, ev, a, x, O, R)
    PROVE  /\ MacSlot(Final(x)) /\ MacOK(O) /\ MacOK(R)
           /\ O \in Seq(Messages) /\ R \in Seq(Messages) /\ NoData(R)
           /\ a = "A2" => Final(x) = x /\ Open(cs[i]) /\ R = << >>
  <1>. DEFINE c == cs[i]
  <1>1. /\ c \in Connection /\ (c.state = "OpenIdle" => c.queued_outgoing = NoMsg)
        /\ Style # "Style2" /\ x \in Connection /\ OutFx(a, O, ev.addr, x) /\ RelFx(R, x)
    BY DEF TableOK, IdleReleased, Queueing, EventResult
  <1>2. PICK d : SlotFx(c, a, d, x)
    BY DEF EventResult
  <1>. HIDE DEF c
  <1>3. /\ O \in Seq(Messages) /\ R \in Seq(Messages) /\ NoData(R)
        /\ \A k \in DOMAIN R : R[k].seq = x.seq_no_send
                                  /\ R[k].mac_seq = x.queued_outgoing.mac_seq
        /\ R # << >> => x.state = "OpenIdle" /\ x.queued_outgoing # NoMsg
    BY <1>1, RelSeq DEF OutFx, NoData, DataMsgs
  <1>4. CASE a \in {"A8", "A8b"}
    <2>1. /\ Open(c) /\ x.pending_msg = NoMsg /\ x.seq_no_send = inc_seq(c.seq_no_send)
          /\ x.queued_outgoing = c.queued_outgoing /\ x.state = "OpenIdle"
      BY <1>2, <1>4 DEF SlotFx, Open
    <2>2. x.queued_outgoing # NoMsg => x.queued_outgoing.mac_seq = x.seq_no_send
      BY <2>1 DEF MacSlot, c
    <2>3. MacSlot(Final(x))
      <3>1. CASE x.queued_outgoing # NoMsg
        BY <1>1, <2>1, <2>2, <3>1, ReleasedMac DEF Final
      <3>2. CASE x.queued_outgoing = NoMsg
        BY <2>1, <3>2 DEF Final, MacSlot
      <3>. QED BY <3>1, <3>2
    <2>4. MacOK(R)
      BY <1>3, <2>2 DEF MacOK
    <2>5. MacOK(O)
      BY <1>1, <1>4 DEF OutFx, MacOK
    <2>. QED BY <1>3, <1>4, <2>3, <2>4, <2>5
  <1>5. CASE a \notin {"A8", "A8b"}
    <2>1. /\ x.pending_msg = c.pending_msg /\ x.queued_outgoing = c.queued_outgoing
          /\ a # "A1" => x.seq_no_send = c.seq_no_send
      BY <1>2, <1>5 DEF SlotFx
    <2>2. x.state = "OpenIdle" => x.queued_outgoing = NoMsg
      <3>1. CASE a = "A1"
        BY <1>2, <2>1, <3>1 DEF SlotFx, c, Open
      <3>2. CASE a \in {"A5", "A6"}
        BY <1>2, <3>2 DEF SlotFx
      <3>3. CASE a \notin {"A1", "A5", "A6"}
        BY <1>1, <1>2, <1>5, <2>1, <3>3 DEF SlotFx
      <3>. QED BY <3>1, <3>2, <3>3
    <2>3. Final(x) = x /\ R = << >>
      BY <1>3, <2>2 DEF Final
    <2>4. MacSlot(x)
      <3>1. CASE a = "A1"
        BY <1>2, <2>1, <3>1 DEF SlotFx, c, Open, MacSlot
      <3>2. CASE a \in {"A5", "A6"}
        BY <1>2, <3>2 DEF SlotFx, MacSlot, Open
      <3>3. CASE a \notin {"A1", "A5", "A6"}
        BY <1>1, <1>2, <1>5, <2>1, <3>3 DEF SlotFx, MacSlot, Open, c
      <3>. QED BY <3>1, <3>2, <3>3
    <2>5. MacOK(O)
      BY <1>1, <1>2, <2>4 DEF OutFx, MacOK, SlotFx, MacSlot, Open
    <2>6. MacOK(R)
      BY <2>3 DEF MacOK
    <2>7. a = "A2" => Open(c)
      BY <1>2 DEF SlotFx, Open
    <2>. QED BY <1>3, <2>3, <2>4, <2>5, <2>6, <2>7 DEF c
  <1>. QED BY <1>4, <1>5

\* A concatenation of sequences whose data PDUs match.
LEMMA MacCat ==
    ASSUME NEW s \in Seq(Messages), NEW t \in Seq(Messages), MacOK(s), MacOK(t)
    PROVE  MacOK(s \o t)
  BY CatFacts DEF MacOK

\* The slots an event does not concern.
LEMMA OthersMac ==
    ASSUME NEW cs \in [Slots -> Connection], \A k \in Slots : MacSlot(cs[k]), NEW i \in Slots,
           NEW x, MacSlot(x), conns' = [cs EXCEPT ![i] = x]
    PROVE  \A k \in Slots : MacSlot(conns'[k])
  <1>1. \A k \in Slots : conns'[k] = IF k = i THEN x ELSE cs[k]
    OBVIOUS
  <1>. QED BY <1>1

\* An event that finds the outbox empty.
LEMMA ReadyEventMac ==
    ASSUME Queueing, NEW cs, TableOK(cs), IdleReleased(cs), NEW i \in Slots,
           \A k \in Slots : MacSlot(cs[k]),
           ~Open(cs[i]) => cs[i].pending_msg = NoMsg /\ cs[i].queued_outgoing = NoMsg,
           NEW ev, ev.addr = cs[i].remote_addr,
           NEW a \in ActionNames, NEW x, NEW O, NEW R, EventResult(cs, i, ev, a, x, O, R),
           outbox = << >>
    PROVE  MacInv'
  <1>1. /\ MacSlot(Final(x)) /\ MacOK(O) /\ MacOK(R) /\ NoData(R)
        /\ O \in Seq(Messages) /\ R \in Seq(Messages)
        /\ a = "A2" => Final(x) = x /\ Open(cs[i]) /\ R = << >>
    BY EventMac
  <1>2. /\ conns' = [cs EXCEPT ![i] = Final(x)] /\ outbox' = O \o R /\ OutFx(a, O, ev.addr, x)
        /\ cs \in [Slots -> Connection] /\ Unique(cs)
    <2>1. << >> \o O = O
      BY <1>1, EmptyCat
    <2>. QED BY <2>1 DEF EventResult, TableOK
  <1>3. \A k \in Slots : MacSlot(conns'[k])
    BY <1>1, <1>2, OthersMac
  <1>4. MacSequenceMatches'
    BY <1>1, <1>2, MacCat DEF MacSequenceMatches, MacOK
  <1>5. MacStamp'
    <2>. SUFFICES ASSUME NEW k \in DOMAIN outbox', outbox'[k].svc \in DataMsgs,
                         NEW j \in Slots, Open(conns'[j]),
                         conns'[j].remote_addr = outbox'[k].addr
                  PROVE  outbox'[k].mac_seq = outgoing_tl_seq(conns'[j])
      BY DEF MacStamp
    <2>1. PICK l \in DOMAIN O : outbox'[k] = O[l]
      BY <1>1, <1>2, CatFacts DEF NoData
    <2>2. a = "A2" /\ O[l].addr = ev.addr /\ O[l].mac_seq = outgoing_tl_seq(x)
      BY <1>2, <2>1 DEF OutFx
    <2>3. j = i
      <3>. SUFFICES ASSUME j # i PROVE FALSE
        OBVIOUS
      <3>1. conns'[j] = cs[j] /\ Open(cs[i])
        BY <1>1, <1>2, <2>2
      <3>2. i < j \/ j < i
        BY SlotsAssumption DEF Slots
      <3>. QED BY <1>2, <2>1, <2>2, <3>1, <3>2 DEF Unique
    <2>4. conns'[i] = x
      BY <1>1, <1>2, <2>2
    <2>. QED BY <2>1, <2>2, <2>3, <2>4
  <1>. QED BY <1>3, <1>4, <1>5 DEF MacInv

\* A T_Connect.
LEMMA ReceiveConnectMac ==
    ASSUME Queueing, Inv, OutRest, MacInv, NEW addr \in Peers, ReceiveConnect(addr)
    PROVE  MacInv'
  <1>. DEFINE i == Allocated(addr)
              cs == AfterAllocate(i, addr)
              ev == Event("ReceivedConnect", addr, 0)
  <1>0. /\ TypeOK /\ TableOK(conns) /\ conns \in [Slots -> Connection]
        /\ outbox = << >> /\ addr \in Addrs /\ IdleReleased(conns)
        /\ \A k \in Slots : MacSlot(conns[k])
    BY DEF Inv, TypeOK, ReceiveConnect, Ready, Addrs, OutRest, MacInv
  <1>1. CASE incoming_locked \/ i = NoSlot
    <2>1. UNCHANGED conns
      BY <1>1 DEF ReceiveConnect
    <2>2. outbox' = << >> \/ outbox' = << Pdu("N_Disconnect", addr, 0) >>
      BY <1>0, <1>1 DEF ReceiveConnect
    <2>3. PICK m : m = Pdu("N_Disconnect", addr, 0)
      OBVIOUS
    <2>4. m.svc \notin DataMsgs /\ m.svc # "N_Data"
      BY <2>3 DEF Pdu, Msg, DataMsgs
    <2>5. MacOK(outbox') /\ NoData(outbox')
      <3>1. CASE outbox' = << >> BY <3>1 DEF MacOK, NoData
      <3>2. CASE outbox' = << m >> BY <2>4, <3>2, ShortSeqs DEF MacOK, NoData
      <3>. QED BY <2>2, <2>3, <3>1, <3>2
    <2>. QED BY <1>0, <2>1, <2>5 DEF MacInv, MacSequenceMatches, MacStamp, MacOK, NoData
  <1>2. CASE ~incoming_locked /\ i # NoSlot
    <2>1. PICK starved \in Starvation : HandleEvent(cs, i, ev, starved)
      BY <1>2 DEF ReceiveConnect
    <2>2. AllocatedOK(cs, i, addr)
      BY <1>0, <1>2, AllocateOK
    <2>3. ev.type \in DeviceEvents /\ ev.seq \in SeqNos /\ ev.addr = addr
      BY SeqFacts DEF Event, DeviceEvents
    <2>. HIDE DEF cs, ev, i
    <2>4. PICK a \in ActionNames : \E x, O, R : EventResult(cs, i, ev, a, x, O, R)
      BY <1>0, <2>1, <2>2, <2>3, HandleEventFacts DEF AllocatedOK, TypeOK
    <2>5. PICK x, O, R : EventResult(cs, i, ev, a, x, O, R)
      BY <2>4
    <2>6. /\ TableOK(cs) /\ i \in Slots /\ IdleReleased(cs) /\ cs[i].remote_addr = addr
          /\ \A k \in Slots : MacSlot(cs[k])
          /\ ~Open(cs[i]) => cs[i].pending_msg = NoMsg /\ cs[i].queued_outgoing = NoMsg
      <3>1. TableOK(cs) /\ i \in Slots /\ cs[i].remote_addr = addr
        BY <2>2 DEF AllocatedOK
      <3>2. CASE Open(conns[i]) /\ cs = conns
        BY <1>0, <3>1, <3>2
      <3>3. CASE ~Open(conns[i]) /\ cs = [conns EXCEPT ![i] = ResetConn(addr)]
        <4>1. \A k \in Slots : cs[k] = IF k = i THEN ResetConn(addr) ELSE conns[k]
          BY <1>0, <3>3
        <4>2. /\ ResetConn(addr).state = "Closed" /\ ResetConn(addr).pending_msg = NoMsg
              /\ ResetConn(addr).queued_outgoing = NoMsg
          BY DEF ResetConn
        <4>. QED BY <1>0, <3>1, <4>1, <4>2 DEF IdleReleased, MacSlot, Open
      <3>. QED BY <2>2, <3>2, <3>3 DEF AllocatedOK
    <2>. QED BY <1>0, <2>3, <2>5, <2>6, ReadyEventMac
  <1>. QED BY <1>1, <1>2

\* Any other PDU of a peer.
LEMMA ReceivePduMac ==
    ASSUME Queueing, Inv, OutRest, MacInv, NEW addr \in Peers, NEW type \in DeviceEvents,
           NEW seq \in SeqNos, ReceivePdu(type, addr, seq)
    PROVE  MacInv'
  <1>. DEFINE i == find_any(conns, addr)
              ev == Event(type, addr, seq)
  <1>0. /\ TypeOK /\ TableOK(conns) /\ outbox = << >> /\ IdleReleased(conns)
        /\ \A k \in Slots : MacSlot(conns[k])
    BY DEF Inv, ReceivePdu, Ready, OutRest, MacInv
  <1>1. PICK starved \in Starvation : HandleEvent(conns, i, ev, starved)
    BY DEF ReceivePdu
  <1>2. i \in Slots /\ Open(conns[i]) /\ conns[i].remote_addr = addr /\ IsFirst(conns, i)
    BY <1>0, FindAnyOK DEF ReceivePdu
  <1>3. ev.type \in DeviceEvents /\ ev.seq \in SeqNos /\ ev.addr = addr
    BY DEF Event
  <1>. HIDE DEF i, ev
  <1>4. PICK a \in ActionNames : \E x, O, R : EventResult(conns, i, ev, a, x, O, R)
    BY <1>0, <1>1, <1>2, <1>3, HandleEventFacts DEF TypeOK
  <1>5. PICK x, O, R : EventResult(conns, i, ev, a, x, O, R)
    BY <1>4
  <1>. QED BY <1>0, <1>2, <1>3, <1>5, ReadyEventMac

\* An outbox without data messages has no stamp to keep.
LEMMA PlainOutbox ==
    ASSUME \A k \in Slots : MacSlot(conns'[k]), MacOK(outbox'), NoData(outbox')
    PROVE  MacInv'
  <1>1. MacSequenceMatches'
    BY DEF MacSequenceMatches, MacOK
  <1>2. MacStamp'
    BY DEF MacStamp, NoData
  <1>. QED BY <1>1, <1>2 DEF MacInv

\* The cEMI switch closes every connection.
LEMMA CemiActivateMac ==
    ASSUME MacInv, CemiActivate
    PROVE  MacInv'
  <1>1. PICK n \in 0 .. MaxIncoming : \E open \in [1 .. n -> OpenSlots] :
          \E m \in 0 .. 2 * n + 1 : outbox' = [k \in 1 .. m |-> CloseNotice(open, n, k)]
    BY DEF CemiActivate
  <1>2. PICK open \in [1 .. n -> OpenSlots], m \in 0 .. 2 * n + 1 :
          outbox' = [k \in 1 .. m |-> CloseNotice(open, n, k)]
    BY <1>1
  <1>3. \A k \in 1 .. m : outbox'[k].svc \notin DataMsgs /\ outbox'[k].svc # "N_Data"
    <2>. SUFFICES ASSUME NEW k \in 1 .. m
                  PROVE  /\ CloseNotice(open, n, k).svc \notin DataMsgs
                         /\ CloseNotice(open, n, k).svc # "N_Data"
      BY <1>2
    <2>. USE DEF CloseNotice, Ind, Pdu, Msg, DataMsgs
    <2>1. CASE k = 2 * n + 1 BY <2>1
    <2>2. CASE k # 2 * n + 1 /\ k % 2 = 1 BY <2>2
    <2>3. CASE k # 2 * n + 1 /\ k % 2 = 0 BY <2>3
    <2>4. k % 2 = 1 \/ k % 2 = 0
      BY <1>1, <1>2, SlotsAssumption
    <2>. QED BY <2>1, <2>2, <2>3, <2>4
  <1>4. MacOK(outbox') /\ NoData(outbox')
    BY <1>2, <1>3 DEF MacOK, NoData
  <1>5. \A k \in Slots : MacSlot(conns'[k])
    BY DEF CemiActivate, ForceClosed, ResetConn, MacSlot, Open, MacInv
  <1>. QED BY <1>4, <1>5, PlainOutbox

\* Closing a cEMI connection, and a frame on it, which no bus connection
\* answers.
LEMMA CemiMac ==
    ASSUME MacInv, CemiDeactivate \/ CemiFrame
    PROVE  MacInv'
  <1>1. \A k \in Slots : MacSlot(conns'[k])
    BY DEF CemiDeactivate, CemiFrame, MacInv
  <1>2. CASE CemiDeactivate
    <2>1. PICK n : n = Ind("T_Disconnect_Ind", NoAddr)
      OBVIOUS
    <2>2. n.svc \notin DataMsgs /\ n.svc # "N_Data"
      BY <2>1 DEF Ind, Msg, DataMsgs
    <2>3. outbox' = << >> \/ outbox' = << n >>
      BY <1>2, <2>1 DEF CemiDeactivate
    <2>4. MacOK(outbox') /\ NoData(outbox')
      <3>1. CASE outbox' = << >> BY <3>1 DEF MacOK, NoData
      <3>2. CASE outbox' = << n >> BY <2>2, <3>2, ShortSeqs DEF MacOK, NoData
      <3>. QED BY <2>3, <3>1, <3>2
    <2>. QED BY <1>1, <2>4, PlainOutbox
  <1>3. CASE CemiFrame
    <2>1. PICK n : n = Msg("T_Data_Ind", NoAddr, 0, 0, 0, NoSlot)
      OBVIOUS
    <2>2. outbox' = << n >> /\ n.svc # "N_Data" /\ active'
      BY <1>3, <2>1 DEF CemiFrame, Msg
    <2>3. MacSequenceMatches'
      BY <2>2, ShortSeqs DEF MacSequenceMatches
    <2>. QED BY <1>1, <2>2, <2>3 DEF MacInv, MacStamp
  <1>. QED BY <1>2, <1>3

\* The next message is not a data message.
LEMMA DrainPassiveMac ==
    ASSUME Inv, MacInv, DrainPassive
    PROVE  MacInv'
  <1>1. /\ outbox' = Tail(outbox) /\ outbox # << >> /\ outbox \in Seq(Messages)
        /\ UNCHANGED <<conns, active>>
    BY DEF DrainPassive, HeadIs, Inv, TypeOK
  <1>2. \A k \in DOMAIN outbox' : k + 1 \in DOMAIN outbox /\ outbox'[k] = outbox[k + 1]
    BY <1>1
  <1>3. MacSequenceMatches'
    BY <1>2 DEF MacInv, MacSequenceMatches
  <1>4. MacStamp'
    BY <1>1, <1>2 DEF MacInv, MacStamp
  <1>. QED BY <1>1, <1>3, <1>4 DEF MacInv

\* A response carries the stamp of the indication it answers.
LEMMA HandleDataIndMac ==
    ASSUME Inv, OutRest, MacInv, HandleDataInd
    PROVE  MacInv'
  <1>. DEFINE m == Head(outbox)
  <1>1. HeadIs(DataMsgs) /\ UNCHANGED <<conns, active>>
    BY DEF HandleDataInd, HeadIs, DataMsgs
  <1>2. outbox \in Seq(Messages) /\ Len(outbox) = 1 /\ Tail(outbox) = << >>
    BY <1>1, DataAlone DEF OutRest
  <1>3. 1 \in DOMAIN outbox /\ outbox[1] = m /\ m.svc \in DataMsgs
    BY <1>1, <1>2 DEF HeadIs
  <1>4. PICK n : n = Response(m)
    OBVIOUS
  <1>5. outbox' = << >> \/ outbox' = << n >>
    <2>1. Append(<< >>, n) = << n >>
      OBVIOUS
    <2>. QED BY <1>2, <1>4, <2>1 DEF HandleDataInd
  <1>. HIDE DEF m
  <1>6. n.addr = m.addr /\ n.mac_seq = m.mac_seq /\ n.svc # "N_Data"
    BY <1>4 DEF Response, Msg
  <1>7. CASE outbox' = << >>
    BY <1>1, <1>7, PlainOutbox DEF MacInv, MacOK, NoData
  <1>8. CASE outbox' = << n >>
    <2>1. DOMAIN outbox' = {1} /\ outbox'[1] = n
      BY <1>8, ShortSeqs
    <2>2. MacStamp'
      BY <1>1, <1>3, <1>6, <2>1 DEF MacStamp, MacInv
    <2>3. MacSequenceMatches'
      BY <1>6, <2>1 DEF MacSequenceMatches
    <2>. QED BY <1>1, <2>2, <2>3 DEF MacInv
  <1>. QED BY <1>5, <1>7, <1>8

\* The response is stored or queued under the number it was stamped with.
LEMMA HandleDataReqMac ==
    ASSUME Queueing, Inv, OutRest, MacInv, HandleDataReq
    PROVE  MacInv'
  <1>. DEFINE m == Head(outbox)
              i == find_any(conns, m.addr)
  <1>0. /\ TypeOK /\ TableOK(conns) /\ conns \in [Slots -> Connection]
        /\ HeadIs(DataMsgs) /\ outbox # << >> /\ m.svc = "T_Data_Req"
        /\ \A k \in Slots : MacSlot(conns[k])
    BY DEF Inv, TypeOK, HandleDataReq, HeadIs, DataMsgs, MacInv
  <1>1. outbox \in Seq(Messages) /\ Len(outbox) = 1 /\ Tail(outbox) = << >>
    BY <1>0, DataAlone DEF OutRest
  <1>2. CASE ~active /\ i # NoSlot
    <2>1. PICK starved \in Starvation : DataRequest(i, m, starved)
      BY <1>2 DEF HandleDataReq
    <2>2. i \in Slots /\ Open(conns[i]) /\ conns[i].remote_addr = m.addr /\ IsFirst(conns, i)
      BY <1>0, <1>2, FindAnyOK
    <2>3. m = Head(outbox) /\ 1 \in DOMAIN outbox /\ outbox[1] = m
      BY <1>1
    <2>. HIDE DEF m, i
    <2>4. PICK a \in ActionNames : \E x, O, L : RequestResult(i, m, a, x, O, L)
      BY <1>0, <2>1, <2>2, <2>3, DataRequestFacts
    <2>5. PICK x, O, L : RequestResult(i, m, a, x, O, L)
      BY <2>4
    <2>6. /\ a \in {"A7", "A11"} /\ ReqFx(conns[i], m, a, x) /\ O = << >> /\ LastFx(L, a, x)
          /\ x \in Connection /\ conns' = [conns EXCEPT ![i] = x]
          /\ outbox' = (Tail(outbox) \o O) \o L
      BY <2>5 DEF RequestResult, ReqFx, Queueing
    <2>7. /\ SlotOK(conns[i]) /\ Disciplined(conns[i]) /\ conns[i] \in Connection
          /\ MacSlot(conns[i])
      BY <1>0, <2>2 DEF TableOK, SlotOK, Queueing
    <2>8. m.mac_seq = outgoing_tl_seq(conns[i])
      BY <1>0, <1>2, <2>2, <2>3 DEF MacInv, MacStamp, DataMsgs
    <2>9. MacSlot(x) /\ x.pending_msg.seq = x.pending_msg.mac_seq
      <3>1. CASE a = "A7"
        <4>1. conns[i].pending_msg = NoMsg /\ conns[i].queued_outgoing = NoMsg
          BY <2>2, <2>6, <2>7, <3>1 DEF ReqFx, Disciplined
        <4>2. m.mac_seq = conns[i].seq_no_send
          BY <2>7, <2>8, <4>1, TlSeq
        <4>. QED BY <2>6, <3>1, <4>1, <4>2 DEF ReqFx, MacSlot
      <3>2. CASE a = "A11"
        <4>1. conns[i].pending_msg # NoMsg
          BY <2>2, <2>6, <2>7, <3>2 DEF ReqFx, Disciplined
        <4>2. m.mac_seq = inc_seq(conns[i].seq_no_send)
          BY <2>7, <2>8, <4>1, TlSeq
        <4>. QED BY <2>2, <2>6, <2>7, <3>2, <4>1, <4>2 DEF ReqFx, MacSlot
      <3>. QED BY <2>6, <3>1, <3>2
    <2>10. MacOK(L) /\ NoData(L) /\ L \in Seq(Messages)
      <3>1. CASE L = << >> BY <3>1 DEF MacOK, NoData
      <3>2. ASSUME NEW n \in Messages, L = << n >>, n.svc \notin DataMsgs,
                   n.svc = "N_Data" => n.seq = x.pending_msg.seq
                                         /\ n.mac_seq = x.pending_msg.mac_seq
            PROVE  MacOK(L) /\ NoData(L) /\ L \in Seq(Messages)
        BY <2>9, <3>2, ShortSeqs, OneMessage DEF MacOK, NoData
      <3>. QED BY <2>6, <3>1, <3>2 DEF LastFx
    <2>11. outbox' = L
      <3>1. << >> \o << >> = << >> /\ << >> \o L = L
        BY <2>10, EmptyCat
      <3>. QED BY <1>1, <2>6, <3>1
    <2>12. \A k \in Slots : MacSlot(conns'[k])
      BY <1>0, <2>2, <2>6, <2>9, OthersMac
    <2>. QED BY <2>10, <2>11, <2>12, PlainOutbox
  <1>3. CASE ~(~active /\ i # NoSlot)
    <2>1. /\ outbox' = Tail(outbox) \o (IF active THEN << >> ELSE << Ind("T_Data_Con", m.addr) >>)
          /\ UNCHANGED conns
      BY <1>3 DEF HandleDataReq
    <2>2. PICK n : n = Ind("T_Data_Con", m.addr)
      OBVIOUS
    <2>3. n \in Messages /\ n.svc = "T_Data_Con"
      <3>1. m.addr \in Addrs
        <4>1. m \in Messages
          BY <1>0 DEF TypeOK
        <4>. QED BY <4>1 DEF Messages
      <3>. QED BY <2>2, <3>1, MsgFacts DEF AlNotices, Ind, Msg
    <2>4. << n >> \in Seq(Messages)
      BY <2>3, OneMessage
    <2>5. outbox' = << >> \/ outbox' = << n >>
      <3>1. << >> \o << n >> = << n >>
        BY <2>4, EmptyCat
      <3>2. << >> \o << >> = << >>
        OBVIOUS
      <3>. HIDE DEF m
      <3>3. CASE active BY <1>1, <2>1, <3>2, <3>3
      <3>4. CASE ~active BY <1>1, <2>1, <2>2, <3>1, <3>4
      <3>. QED BY <3>3, <3>4
    <2>6. MacOK(outbox') /\ NoData(outbox')
      <3>1. CASE outbox' = << >> BY <3>1 DEF MacOK, NoData
      <3>2. CASE outbox' = << n >> BY <2>3, <3>2, ShortSeqs DEF MacOK, NoData, DataMsgs
      <3>. QED BY <2>5, <3>1, <3>2
    <2>. QED BY <1>0, <2>1, <2>6, PlainOutbox
  <1>. QED BY <1>2, <1>3

\* One round of the loop of check_timeouts.
LEMMA PollStepMac ==
    ASSUME Queueing, Inv, OutRest, MacInv, PollStep
    PROVE  MacInv'
  <1>. DEFINE i == TimedOut(conns)
              ev == Event(IF conns[i].ack_timer = "expired" THEN "AckTimeout" ELSE "ConnectionTimeout",
                          conns[i].remote_addr, 0)
  <1>0. /\ TypeOK /\ TableOK(conns) /\ conns \in [Slots -> Connection]
        /\ outbox \in Seq(Messages) /\ polling /\ IdleReleased(conns)
        /\ \A k \in Slots : MacSlot(conns[k])
    BY DEF Inv, TypeOK, PollStep, OutRest, MacInv
  <1>1. i \in Expired(conns)
    <2>1. PICK E : E = Expired(conns)
      OBVIOUS
    <2>2. i # NoSlot /\ i = First(E) /\ E \subseteq Slots
      BY <2>1 DEF PollStep, TimedOut, Expired
    <2>. QED BY <2>1, <2>2, FirstProps
  <1>2. i \in Slots /\ Open(conns[i])
    BY <1>0, <1>1 DEF Expired, TableOK, SlotOK, Open
  <1>3. IsFirst(conns, i)
    BY <1>0, <1>2 DEF TableOK, Unique, IsFirst
  <1>4. /\ ev.type \in DeviceEvents \cap Timeouts /\ ev.seq \in SeqNos
        /\ ev.addr = conns[i].remote_addr
    BY SeqFacts DEF Event, DeviceEvents, Timeouts
  <1>5. PICK starved \in Starvation : HandleEvent(conns, i, ev, starved)
    BY DEF PollStep
  <1>. HIDE DEF i, ev
  <1>6. PICK a \in ActionNames : \E x, O, R : EventResult(conns, i, ev, a, x, O, R)
    BY <1>0, <1>2, <1>3, <1>4, <1>5, HandleEventFacts
  <1>7. PICK x, O, R : EventResult(conns, i, ev, a, x, O, R)
    BY <1>6
  <1>8. /\ MacSlot(Final(x)) /\ MacOK(O) /\ MacOK(R) /\ NoData(R)
        /\ O \in Seq(Messages) /\ R \in Seq(Messages)
    BY <1>0, <1>2, <1>7, EventMac
  <1>9. NoData(O) /\ NoData(outbox) /\ MacOK(outbox)
    <2>1. NoData(O)
      BY <1>4, <1>7 DEF EventResult, OutFx, NoData
    <2>2. NoData(outbox)
      BY <1>0 DEF OutRest, OutboxShape, NoData
    <2>3. MacOK(outbox)
      BY DEF MacInv, MacSequenceMatches, MacOK
    <2>. QED BY <2>1, <2>2, <2>3
  <1>10. conns' = [conns EXCEPT ![i] = Final(x)] /\ outbox' = (outbox \o O) \o R
    BY <1>7 DEF EventResult
  <1>11. PICK P : P = outbox \o O
    OBVIOUS
  <1>12. P \in Seq(Messages) /\ MacOK(P) /\ NoData(P)
    BY <1>0, <1>8, <1>9, <1>11, MacCat, CatFacts DEF NoData
  <1>13. outbox' = P \o R
    BY <1>10, <1>11
  <1>14. MacOK(outbox') /\ NoData(outbox')
    BY <1>8, <1>12, <1>13, MacCat, CatFacts DEF NoData
  <1>15. \A k \in Slots : MacSlot(conns'[k])
    BY <1>0, <1>2, <1>8, <1>10, OthersMac
  <1>. QED BY <1>14, <1>15, PlainOutbox

\* The steps that leave the outbox and the stored responses alone.
LEMMA QuietMac ==
    ASSUME Inv, MacInv,
           \/ GoQuiet \/ PollStart \/ PollEnd \/ UNCHANGED vars
           \/ \E i \in Slots : ExpireAck(i) \/ ExpireConn(i)
    PROVE  MacInv'
  <1>1. UNCHANGED <<outbox, active>>
    BY DEF GoQuiet, PollStart, PollEnd, ExpireAck, ExpireConn, vars
  <1>2. \A k \in Slots :
          /\ conns'[k].state = conns[k].state /\ conns'[k].remote_addr = conns[k].remote_addr
          /\ conns'[k].queued_outgoing = conns[k].queued_outgoing
          /\ conns'[k].pending_msg = conns[k].pending_msg
          /\ conns'[k].seq_no_send = conns[k].seq_no_send
    <2>1. CASE GoQuiet \/ PollStart \/ PollEnd \/ UNCHANGED vars
      <3>1. UNCHANGED conns
        BY <2>1 DEF GoQuiet, PollStart, PollEnd, vars
      <3>. QED BY <3>1
    <2>2. CASE \E i \in Slots : ExpireAck(i) \/ ExpireConn(i)
      BY <2>2, ExpireFields DEF Inv, TypeOK
    <2>. QED BY <2>1, <2>2
  <1>3. \A k \in Slots : MacSlot(conns'[k])
    BY <1>2 DEF MacInv, MacSlot, Open
  <1>4. MacSequenceMatches'
    BY <1>1 DEF MacInv, MacSequenceMatches
  <1>5. MacStamp'
    BY <1>1, <1>2 DEF MacInv, MacStamp, Open, outgoing_tl_seq
  <1>. QED BY <1>3, <1>4, <1>5 DEF MacInv

\* Every step keeps the stamps.
LEMMA MacStep == Queueing /\ Inv /\ OutRest /\ MacInv /\ [Next]_vars => MacInv'
  <1>. SUFFICES ASSUME Queueing, Inv, OutRest, MacInv, [Next]_vars PROVE MacInv'
    OBVIOUS
  <1>1. ASSUME NEW addr \in Peers, Receive(addr)
        PROVE  MacInv'
    <2>1. CASE ReceiveConnect(addr)
      BY <2>1, ReceiveConnectMac
    <2>2. CASE \E type \in DeviceEvents, seq \in SeqNos : ReceivePdu(type, addr, seq)
      BY <2>2, ReceivePduMac
    <2>. QED BY <1>1, <2>1, <2>2, SeqFacts
             DEF Receive, ReceiveDisconnect, ReceiveAck, ReceiveNack, ReceiveData, DeviceEvents
  <1>2. CASE CemiActivate BY <1>2, CemiActivateMac
  <1>3. CASE CemiDeactivate \/ CemiFrame BY <1>3, CemiMac
  <1>4. CASE Drain
    BY <1>4, DrainPassiveMac, HandleDataIndMac, HandleDataReqMac DEF Drain
  <1>5. CASE PollStep BY <1>5, PollStepMac
  <1>6. CASE \/ GoQuiet \/ PollStart \/ PollEnd \/ UNCHANGED vars
             \/ \E i \in Slots : ExpireAck(i) \/ ExpireConn(i)
    BY <1>6, QuietMac
  <1>. QED BY <1>1, <1>2, <1>3, <1>4, <1>5, <1>6 DEF Next

(* In the styles that queue a response behind an unacknowledged one        *)
(* (Style 3, which every device profile selects, and Style 1R) every data  *)
(* PDU, first sent, released from the queue or repeated, carries the       *)
(* number that outgoing_tl_seq put into its MAC.                           *)
THEOREM MacAlwaysMatches ==
    ASSUME Style \in {"Style3", "Style1R"}
    PROVE  Spec => []MacSequenceMatches
  <1>1. Queueing
    BY DEF Queueing
  <1>2. Init => MacInv
    BY DEF Init, MacInv, MacSlot, MacStamp, MacSequenceMatches, ResetConn, Open
  <1>3. MacInv => MacSequenceMatches
    BY DEF MacInv
  <1>4. Inv /\ OutRest /\ MacInv /\ [Next]_vars => MacInv'
    BY <1>1, MacStep
  <1>. QED BY <1>2, <1>3, <1>4, InvariantHolds, OutboxInvariant, PTL DEF Spec

-----------------------------------------------------------------------------
(* Unacknowledged responses.                                               *)

(* What PendingNotReplaced says of one slot.                               *)
KeptOrDone(c, d) ==
    Open(c) /\ c.pending_msg # NoMsg /\ d.pending_msg # c.pending_msg
        => ~Open(d) \/ d.seq_no_send = inc_seq(c.seq_no_send)

Kept == \A i \in Slots : KeptOrDone(conns[i], conns'[i])

\* Any step that leaves the stored responses alone.
LEMMA SameKept ==
    ASSUME \A k \in Slots : conns'[k].pending_msg = conns[k].pending_msg
    PROVE  Kept
  BY DEF Kept, KeptOrDone

\* One event gives up the stored response only with the connection or with
\* the number it was acknowledged under.
LEMMA EventKept ==
    ASSUME Style # "Style2", NEW cs \in [Slots -> Connection], IdleReleased(cs), NEW i \in Slots,
           \/ Open(conns[i]) /\ cs = conns
           \/ ~Open(conns[i]) /\ \A k \in Slots : k # i => cs[k] = conns[k],
           NEW ev, NEW a \in ActionNames, NEW x, NEW O, NEW R,
           EventResult(cs, i, ev, a, x, O, R)
    PROVE  Kept
  <1>1. conns' = [cs EXCEPT ![i] = Final(x)] /\ x \in Connection
    BY DEF EventResult
  <1>2. \A k \in Slots : k # i => cs[k] = conns[k] /\ conns'[k] = conns[k]
    BY <1>1
  <1>3. conns'[i] = Final(x)
    BY <1>1
  <1>4. KeptOrDone(conns[i], Final(x))
    <2>. SUFFICES ASSUME Open(conns[i]) PROVE KeptOrDone(cs[i], Final(x))
      BY DEF KeptOrDone
    <2>1. PICK d : SlotFx(cs[i], a, d, x)
      BY DEF EventResult
    <2>2. Final(x).seq_no_send = x.seq_no_send
      BY <1>1 DEF Final, Released, Connection
    <2>3. CASE a \in {"A8", "A8b"}
      BY <2>1, <2>2, <2>3 DEF SlotFx, KeptOrDone
    <2>4. CASE a \in {"A5", "A6"}
      BY <2>1, <2>4 DEF SlotFx, KeptOrDone, Final, Open
    <2>5. CASE a \notin {"A5", "A6", "A8", "A8b"}
      <3>1. /\ x.pending_msg = cs[i].pending_msg /\ x.queued_outgoing = cs[i].queued_outgoing
            /\ a # "A1" => x.state = cs[i].state
            /\ a = "A1" => ~Open(cs[i])
        BY <2>1, <2>5 DEF SlotFx, Open
      <3>2. CASE a = "A1"
        BY <3>1, <3>2 DEF KeptOrDone
      <3>3. CASE a # "A1"
        <4>1. Final(x) = x
          BY <3>1, <3>3 DEF Final, IdleReleased
        <4>. QED BY <3>1, <4>1 DEF KeptOrDone
      <3>. QED BY <3>2, <3>3
    <2>. QED BY <2>3, <2>4, <2>5
  <1>5. \A k \in Slots : k # i => KeptOrDone(conns[k], conns'[k])
    BY <1>2 DEF KeptOrDone
  <1>. QED BY <1>3, <1>4, <1>5 DEF Kept

\* A T_Connect, or any other PDU of a peer.
LEMMA ReceiveKept ==
    ASSUME Style # "Style2", Inv, OutRest, NEW addr \in Peers, Receive(addr)
    PROVE  Kept
  <1>0. /\ TypeOK /\ TableOK(conns) /\ conns \in [Slots -> Connection]
        /\ addr \in Addrs /\ IdleReleased(conns)
    BY DEF Inv, TypeOK, Addrs, OutRest
  <1>1. CASE ReceiveConnect(addr)
    <2>. DEFINE i == Allocated(addr)
                cs == AfterAllocate(i, addr)
                ev == Event("ReceivedConnect", addr, 0)
    <2>1. CASE incoming_locked \/ i = NoSlot
      <3>1. UNCHANGED conns
        BY <1>1, <2>1 DEF ReceiveConnect
      <3>. QED BY <3>1, SameKept
    <2>2. CASE ~incoming_locked /\ i # NoSlot
      <3>1. PICK starved \in Starvation : HandleEvent(cs, i, ev, starved)
        BY <1>1, <2>2 DEF ReceiveConnect
      <3>2. AllocatedOK(cs, i, addr)
        BY <1>0, <2>2, AllocateOK
      <3>3. ev.type \in DeviceEvents /\ ev.seq \in SeqNos /\ ev.addr = addr
        BY SeqFacts DEF Event, DeviceEvents
      <3>. HIDE DEF cs, ev, i
      <3>4. PICK a \in ActionNames : \E x, O, R : EventResult(cs, i, ev, a, x, O, R)
        BY <1>0, <3>1, <3>2, <3>3, HandleEventFacts DEF AllocatedOK, TypeOK
      <3>5. PICK x, O, R : EventResult(cs, i, ev, a, x, O, R)
        BY <3>4
      <3>6. /\ cs \in [Slots -> Connection] /\ i \in Slots /\ IdleReleased(cs)
            /\ \/ Open(conns[i]) /\ cs = conns
               \/ ~Open(conns[i]) /\ \A k \in Slots : k # i => cs[k] = conns[k]
        BY <1>0, <3>2 DEF AllocatedOK, TableOK, IdleReleased, ResetConn
      <3>. QED BY <3>5, <3>6, EventKept
    <2>. QED BY <2>1, <2>2
  <1>2. ASSUME NEW type \in DeviceEvents, NEW seq \in SeqNos, ReceivePdu(type, addr, seq)
        PROVE  Kept
    <2>. DEFINE i == find_any(conns, addr)
                ev == Event(type, addr, seq)
    <2>1. PICK starved \in Starvation : HandleEvent(conns, i, ev, starved)
      BY <1>2 DEF ReceivePdu
    <2>2. i \in Slots /\ Open(conns[i]) /\ conns[i].remote_addr = addr /\ IsFirst(conns, i)
      BY <1>0, <1>2, FindAnyOK DEF ReceivePdu
    <2>3. ev.type \in DeviceEvents /\ ev.seq \in SeqNos /\ ev.addr = addr
      BY DEF Event
    <2>. HIDE DEF i, ev
    <2>4. PICK a \in ActionNames : \E x, O, R : EventResult(conns, i, ev, a, x, O, R)
      BY <1>0, <2>1, <2>2, <2>3, HandleEventFacts DEF TypeOK
    <2>5. PICK x, O, R : EventResult(conns, i, ev, a, x, O, R)
      BY <2>4
    <2>. QED BY <1>0, <2>2, <2>5, EventKept
  <1>. QED BY <1>1, <1>2, SeqFacts
           DEF Receive, ReceiveDisconnect, ReceiveAck, ReceiveNack, ReceiveData, DeviceEvents

\* A response of the application layer meets no stored one, is queued, or
\* closes the connection.
LEMMA RequestKept ==
    ASSUME Style # "Style2", Inv, HandleDataReq
    PROVE  Kept
  <1>. DEFINE m == Head(outbox)
              i == find_any(conns, m.addr)
  <1>0. /\ TypeOK /\ TableOK(conns) /\ conns \in [Slots -> Connection]
        /\ outbox # << >> /\ m.svc = "T_Data_Req"
    BY DEF Inv, TypeOK, HandleDataReq, HeadIs
  <1>1. CASE ~active /\ i # NoSlot
    <2>1. PICK starved \in Starvation : DataRequest(i, m, starved)
      BY <1>1 DEF HandleDataReq
    <2>2. i \in Slots /\ Open(conns[i]) /\ conns[i].remote_addr = m.addr /\ IsFirst(conns, i)
      BY <1>0, <1>1, FindAnyOK
    <2>3. m = Head(outbox)
      OBVIOUS
    <2>. HIDE DEF m, i
    <2>4. PICK a \in ActionNames : \E x, O, L : RequestResult(i, m, a, x, O, L)
      BY <1>0, <2>1, <2>2, <2>3, DataRequestFacts
    <2>5. PICK x, O, L : RequestResult(i, m, a, x, O, L)
      BY <2>4
    <2>6. conns' = [conns EXCEPT ![i] = x] /\ ReqFx(conns[i], m, a, x)
      BY <2>5 DEF RequestResult
    <2>7. Disciplined(conns[i])
      BY <1>0, <2>2 DEF TableOK, SlotOK
    <2>8. KeptOrDone(conns[i], x)
      BY <2>6, <2>7 DEF ReqFx, Disciplined, KeptOrDone, Open
    <2>9. \A k \in Slots : conns'[k] = IF k = i THEN x ELSE conns[k]
      BY <1>0, <2>2, <2>6
    <2>. QED BY <2>8, <2>9 DEF Kept, KeptOrDone
  <1>2. CASE ~(~active /\ i # NoSlot)
    <2>1. UNCHANGED conns
      BY <1>2 DEF HandleDataReq
    <2>. QED BY <2>1, SameKept
  <1>. QED BY <1>1, <1>2

\* One round of the loop of check_timeouts.
LEMMA PollKept ==
    ASSUME Style # "Style2", Inv, OutRest, PollStep
    PROVE  Kept
  <1>. DEFINE i == TimedOut(conns)
              ev == Event(IF conns[i].ack_timer = "expired" THEN "AckTimeout" ELSE "ConnectionTimeout",
                          conns[i].remote_addr, 0)
  <1>0. /\ TypeOK /\ TableOK(conns) /\ conns \in [Slots -> Connection]
        /\ outbox \in Seq(Messages) /\ IdleReleased(conns)
    BY DEF Inv, TypeOK, OutRest
  <1>1. i \in Expired(conns)
    <2>1. PICK E : E = Expired(conns)
      OBVIOUS
    <2>2. i # NoSlot /\ i = First(E) /\ E \subseteq Slots
      BY <2>1 DEF PollStep, TimedOut, Expired
    <2>. QED BY <2>1, <2>2, FirstProps
  <1>2. i \in Slots /\ Open(conns[i])
    BY <1>0, <1>1 DEF Expired, TableOK, SlotOK, Open
  <1>3. IsFirst(conns, i)
    BY <1>0, <1>2 DEF TableOK, Unique, IsFirst
  <1>4. ev.type \in DeviceEvents /\ ev.seq \in SeqNos /\ ev.addr = conns[i].remote_addr
    BY SeqFacts DEF Event, DeviceEvents
  <1>5. PICK starved \in Starvation : HandleEvent(conns, i, ev, starved)
    BY DEF PollStep
  <1>. HIDE DEF i, ev
  <1>6. PICK a \in ActionNames : \E x, O, R : EventResult(conns, i, ev, a, x, O, R)
    BY <1>0, <1>2, <1>3, <1>4, <1>5, HandleEventFacts
  <1>7. PICK x, O, R : EventResult(conns, i, ev, a, x, O, R)
    BY <1>6
  <1>. QED BY <1>0, <1>2, <1>7, EventKept

\* No step replaces an unacknowledged response.
LEMMA KeptStep == Style # "Style2" /\ Inv /\ OutRest /\ [Next]_vars => Kept
  <1>. SUFFICES ASSUME Style # "Style2", Inv, OutRest, [Next]_vars PROVE Kept
    OBVIOUS
  <1>1. CASE \E addr \in Peers : Receive(addr) BY <1>1, ReceiveKept
  <1>2. CASE HandleDataReq BY <1>2, RequestKept
  <1>3. CASE PollStep BY <1>3, PollKept
  <1>4. CASE CemiActivate
    <2>1. \A k \in Slots : ~Open(conns'[k]) \/ conns'[k] = conns[k]
      BY <1>4 DEF CemiActivate, ForceClosed, ResetConn, Open
    <2>. QED BY <2>1 DEF Kept, KeptOrDone
  <1>5. CASE \E i \in Slots : ExpireAck(i) \/ ExpireConn(i)
    <2>1. \A k \in Slots : conns'[k].pending_msg = conns[k].pending_msg
      BY <1>5, ExpireFields DEF Inv, TypeOK
    <2>. QED BY <2>1, SameKept
  <1>6. CASE \/ CemiDeactivate \/ CemiFrame \/ GoQuiet \/ DrainPassive \/ HandleDataInd
             \/ PollStart \/ PollEnd \/ UNCHANGED vars
    <2>1. UNCHANGED conns
      BY <1>6 DEF CemiDeactivate, CemiFrame, GoQuiet, DrainPassive, HandleDataInd,
                  PollStart, PollEnd, vars
    <2>. QED BY <2>1, SameKept
  <1>. QED BY <1>1, <1>2, <1>3, <1>4, <1>5, <1>6 DEF Next, Drain

(* Outside Style 2 an unacknowledged response is given up only with its    *)
(* connection or because the peer acknowledged it.                         *)
THEOREM NeverReplaced ==
    ASSUME Style # "Style2"
    PROVE  Spec => PendingNotReplaced
  <1>1. Inv /\ OutRest /\ [Next]_vars =>
          [\A i \in Slots :
              Open(conns[i]) /\ conns[i].pending_msg # NoMsg
                 /\ conns'[i].pending_msg # conns[i].pending_msg
              => ~Open(conns'[i]) \/ conns'[i].seq_no_send = inc_seq(conns[i].seq_no_send)]_vars
    BY KeptStep DEF Kept, KeptOrDone
  <1>. QED BY <1>1, InvariantHolds, OutboxInvariant, PTL DEF Spec, PendingNotReplaced

=============================================================================
