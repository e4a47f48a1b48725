------------------------------ MODULE CapiB3 ------------------------------
(***************************************************************************)
(* The CAPI (kernel/message.c with kernel/capifunc.c): one connected PLCI  *)
(* with its B3 connections, the data an application sends on them, and the *)
(* way to the removal of the PLCI.                                         *)
(*                                                                         *)
(* Everything runs under api_lock, so that one message of the application  *)
(* (api_put), one callback of the card (callback) and CapiRelease are one  *)
(* action each.  What makes it hard is what lies between: a PLCI has one   *)
(* request at the card at a time, requests wait in RBuffer, messages wait  *)
(* in msg_in_queue, data waits in DBuffer, and a channel may be flow       *)
(* controlled (return code OK_FC, later OK) while others go on.            *)
(*                                                                         *)
(* An NCCI has the number of its channel, as get_ncci gives it while no    *)
(* other NCCI of the adapter has that number.  The application holds its   *)
(* transmit buffers from TransmitBufferSet to TransmitBufferFree.  Not     *)
(* modelled: fax, the received data and its XON/XOFF, the connection set   *)
(* up of the call, supplementary services, line interconnect.              *)
(***************************************************************************)
EXTENDS Integers, Sequences, FiniteSets, SequencesExt

CONSTANTS Ch, Buf, NULL,
          Cases,      \* B3 protocols with what application and card make use of
                      \* and the messages msg_in_queue has room for
          MAX_DATA_B3,
          MaxDis,     \* bound: ends of one NCCI the application has not answered
          MaxRefused  \* HANGUP refused before the PLCI is given up (100)

ASSUME CapiB3Assumption ==
  /\ NULL \notin Ch \cup Buf
  /\ \A k \in Cases : k.prot \in {"TRANSPARENT", "ISO8208"} /\ k.room \in Nat \ {0}
  /\ MAX_DATA_B3 \in Nat \ {0} /\ MaxDis \in Nat \ {0} /\ MaxRefused \in Nat \ {0}

VARIABLES p,  \* the PLCI with its NCCIs, and the requests of it at the card
          hw  \* the card

vars == <<p, hw>>

None == "none"
MAX_DATA_ACK == MAX_DATA_B3

\* A request at the card.
Nothing == [req |-> None, ch |-> NULL, buf |-> NULL, ack |-> FALSE]

Request(req, c) == [Nothing EXCEPT !.req = req, !.ch = c]

\* The channels the card uses for a B3 protocol: one for a transparent one.
Lines(b3) == IF b3 = "TRANSPARENT" THEN {{c} : c \in Ch} ELSE {Ch}

\* Short names: fc is N_OK_FC_PENDING of the channels, fcId FlowControlIdTable,
\* fcSkip FlowControlSkipTable, inc_dis inc_dis_ncci_table, ring the ring of
\* NCCIs from ncci_ring_list on, hangups hangup_flow_ctrl_timer; used are the
\* transmit buffers TransmitBufferSet has marked, room the messages msg_in_queue
\* can take, atNL and atSig the requests at the card.  released, lost, due and
\* ghost are history for the properties.
\* NL.ReqCh is kept only while nl_req is set, FlowControlSkipTable only while
\* FlowControlIdTable has the channel: the code does not use them otherwise.
Init ==
  \E k \in Cases : \E line \in Lines(k.prot) :
     /\ p = [room |-> k.room, B3_prot |-> k.prot, Id |-> TRUE, appl |-> TRUE, State |-> "CONNECTED",
            channels |-> 0, inc_dis |-> [c \in Ch |-> 0], hangups |-> 0,
            ncci_plci |-> {}, ncci_state |-> [c \in Ch |-> "IDLE"], ring |-> <<>>,
            DBuffer |-> [c \in Ch |-> <<>>], DataAck |-> [c \in Ch |-> <<>>],
            fc |-> {}, fcId |-> {}, fcSkip |-> {},
            NL |-> TRUE, Sig |-> TRUE,
            nl_req |-> None, ReqCh |-> NULL, sig_req |-> None, data_sent |-> NULL,
            nl_remove |-> FALSE, sig_remove |-> FALSE,
            RBuffer |-> <<>>, req_in |-> FALSE, command |-> None,
            send_disc |-> NULL, internal_command |-> FALSE,
            msg_in_queue |-> <<>>, used |-> {},
            atNL |-> Nothing, atSig |-> Nothing,
            released |-> FALSE, lost |-> {}, due |-> [c \in Ch |-> <<>>], ghost |-> {}]
     /\ hw = [use |-> k.use, ch |-> [c \in Ch |-> "free"], line |-> line, fc |-> {},
              acks |-> [c \in Ch |-> 0], reset |-> {}, call |-> TRUE, hang |-> FALSE]

Note(q, what, cond) == IF cond THEN [q EXCEPT !.ghost = @ \cup {what}] ELSE q

(***************************************************************************)
(* NCCIs.                                                                  *)
(***************************************************************************)
\* The new NCCI comes next in the ring after ncci_ring_list, its last element.
get_ncci(q, c) ==
  IF c \in q.ncci_plci THEN Note(q, "remapped", TRUE)
  ELSE [q EXCEPT !.ncci_plci = @ \cup {c}, !.ncci_state[c] = "IDLE",
                 !.ring = <<c>> \o @]

\* Fault: the buffer the card is reading is freed as well.
cleanup_ncci_data_All(q, c) ==
  IF c \notin q.ncci_plci THEN q
  ELSE [q EXCEPT !.used = @ \ {d.P : d \in ToSet(q.DBuffer[c])},
                 !.DBuffer[c] = <<>>, !.DataAck[c] = <<>>, !.due[c] = <<>>]

\* The buffer the card is reading is left to data_rc.
cleanup_ncci_data(q, c) ==
  IF c \notin q.ncci_plci THEN q
  ELSE [q EXCEPT
          !.used = IF q.appl
                   THEN @ \ ({d.P : d \in ToSet(q.DBuffer[c])} \ {q.data_sent})
                   ELSE @,
          !.DBuffer[c] = <<>>, !.DataAck[c] = <<>>, !.due[c] = <<>>]

ncci_remove(q, c) ==
  IF c \notin q.ncci_plci THEN q
  ELSE [cleanup_ncci_data(q, c) EXCEPT
          !.ncci_plci = @ \ {c}, !.ncci_state[c] = "IDLE",
          !.ring = SelectSeq(@, LAMBDA x : x # c)]

ncci_remove_all(q) == FoldLeft(ncci_remove, q, q.ring)

(***************************************************************************)
(* Requests.                                                               *)
(***************************************************************************)
Queued(q, r) == [q EXCEPT !.RBuffer = Append(@, r), !.req_in = TRUE]

sig_req(q, req) ==
  Queued([q EXCEPT !.sig_remove = @ \/ req = "REMOVE"],
         [req |-> req, ch |-> NULL, sig |-> TRUE])

nl_req_ncci(q, req, c) ==
  Queued([q EXCEPT !.nl_remove = @ \/ req = "REMOVE"],
         [req |-> req, ch |-> c, sig |-> FALSE])

\* DIRequest passes a request of the network layer entity on.
DIRequest(q, r) ==
  LET q1 == Note(Note(q, "overlap", q.atNL # Nothing), "orphan", ~q.NL) IN
  [q1 EXCEPT !.nl_req = r.req, !.ReqCh = r.ch, !.atNL = r,
             !.fcSkip = IF r.ch \in q.fcId THEN @ \cup {r.ch} ELSE @]

send_req(q) ==
  IF q.RBuffer = <<>> \/ q.nl_req # None \/ q.sig_req # None THEN q
  ELSE LET r == Head(q.RBuffer)
           q1 == [q EXCEPT !.RBuffer = Tail(@)]
       IN IF r.sig
          THEN [Note(q1, "orphan", ~q.Sig) EXCEPT
                  !.sig_req = r.req, !.atSig = Request(r.req, NULL)]
          ELSE DIRequest(q1, Request(r.req, r.ch))

Sending == {"CONNECTED", "INC_ACT_PENDING"}

HasData(q, c) == q.DBuffer[c] # <<>>
MaySend(q, c) == q.ncci_state[c] \in Sending \/ q.send_disc = c
Sends(q, c) ==
  /\ c \notin q.fc
  /\ IF HasData(q, c) THEN MaySend(q, c) ELSE q.send_disc = c /\ q.command = None

\* The turn of an NCCI that has something to send.
Transmit(q, c) ==
  IF HasData(q, c)
  THEN LET d == Head(q.DBuffer[c])
       IN [DIRequest(q, [Request("N_DATA", c) EXCEPT !.buf = d.P, !.ack = d.ack])
             EXCEPT !.data_sent = d.P]
  ELSE [DIRequest(q, Request("N_DISC", c)) EXCEPT
          !.command = "DISCONNECT_B3_REQ", !.send_disc = NULL]

\* The turn of one that has not: the data of a connection that ends is dropped.
Skip(q, c) == IF c \notin q.fc /\ HasData(q, c) THEN cleanup_ncci_data(q, c) ELSE q

\* Round robin over the ring, until a request is at the card.
send_data(q) ==
  IF q.nl_req # None \/ q.ring = <<>> THEN q
  ELSE LET ready == {i \in DOMAIN q.ring : Sends(q, q.ring[i])} IN
       IF ready = {} THEN FoldLeft(Skip, q, q.ring)
       ELSE LET i == CHOOSE j \in ready : \A k \in ready : j <= k
                q1 == FoldLeft(Skip, q, SubSeq(q.ring, 1, i - 1))
            IN [Transmit(q1, q.ring[i]) EXCEPT
                  !.ring = SubSeq(@, i + 1, Len(@)) \o SubSeq(@, 1, i)]

(***************************************************************************)
(* Confirmations of data.                                                  *)
(***************************************************************************)
\* A DATA_B3_CONF for the buffer b: the properties compare it with the oldest
\* request of its kind that is not confirmed yet.
Confirm(q, c, b, ack) ==
  LET same == {i \in DOMAIN q.due[c] : q.due[c][i].ack = ack} IN
  IF same = {} THEN Note(q, "misordered", TRUE)
  ELSE LET i == CHOOSE j \in same : \A k \in same : j <= k
       IN [Note(q, "misordered", q.due[c][i].P # b) EXCEPT
             !.due[c] = RemoveAt(@, i)]

\* Fault: data is confirmed here although its N_DATA_ACK confirms it.
data_rc_Twice(q, c, b) ==
  IF ~(q.appl /\ c \in q.ncci_plci /\ HasData(q, c) /\ Head(q.DBuffer[c]).P = b) THEN q
  ELSE Confirm([q EXCEPT !.used = @ \ {b}, !.DBuffer[c] = Tail(@)], c, b, FALSE)

data_rc(q, c, b) ==
  IF ~q.appl THEN q
  ELSE LET q1 == [q EXCEPT !.used = IF b = q.data_sent THEN @ ELSE @ \ {b}] IN
       IF ~(c \in q.ncci_plci /\ HasData(q, c) /\ Head(q.DBuffer[c]).P = b) THEN q1
       ELSE LET d == Head(q.DBuffer[c])
                q2 == [q1 EXCEPT !.DBuffer[c] = Tail(@)]
            IN IF ~d.ack /\ q.ncci_state[c] # "IDLE"
               THEN Confirm(q2, c, b, FALSE) ELSE q2

data_ack(q, c) ==
  IF q.DataAck[c] = <<>> THEN q
  ELSE LET q1 == [q EXCEPT !.DataAck[c] = Tail(@)]
       IN IF q.ncci_state[c] # "IDLE" /\ c \in q.ncci_plci
          THEN Confirm(q1, c, Head(q.DataAck[c]), TRUE) ELSE q1

(***************************************************************************)
(* Removal of the PLCI.                                                    *)
(***************************************************************************)
plci_free_msg_in_queue(q) ==
  [q EXCEPT !.used = IF q.appl THEN @ \ {m.P : m \in ToSet(q.msg_in_queue)} ELSE @,
            !.msg_in_queue = <<>>]

Removable(q) == ~q.NL /\ ~q.Sig

plci_remove_check(q) ==
  IF ~Removable(q) \/ ~q.Id THEN q
  ELSE [plci_free_msg_in_queue(ncci_remove_all(q)) EXCEPT
          !.fc = {}, !.Id = FALSE, !.State = "IDLE", !.channels = 0, !.appl = FALSE]

\* Without an application data_rc frees nothing: what the card is reading now is
\* lost to an application that goes on.
plci_remove(q) ==
  LET q1 == [q EXCEPT !.internal_command = FALSE,
                      !.lost = IF q.appl THEN @ \cup ({q.data_sent} \ {NULL}) ELSE @] IN
  IF Removable(q) THEN plci_remove_check(q1)
  ELSE LET busy == q.Sig \/ q.RBuffer # <<>> \/ q.nl_req # None \/ q.sig_req # None
           q2 == IF ~q.sig_remove /\ busy THEN send_req(sig_req(q1, "HANGUP")) ELSE q1
       IN [plci_free_msg_in_queue(ncci_remove_all(q2)) EXCEPT
             !.channels = 0, !.appl = FALSE]

(***************************************************************************)
(* Messages of the application.  A handler returns the PLCI; req_in tells  *)
(* whether it has left a request, which api_put_reenter then sends.        *)
(***************************************************************************)
Cleared == {"IDLE", "OUTG_DIS_PENDING", "INC_DIS_PENDING"}

\* The confirmations of the control messages are left out.
connect_b3_req(q) ==
  IF \/ q.State \in Cleared \/ ~q.NL
     \/ q.B3_prot = "TRANSPARENT" /\ q.channels # 0
  THEN q ELSE nl_req_ncci(q, "N_CONNECT", NULL)

connect_b3_res(q, c, accept) ==
  CASE q.ncci_state[c] # "INC_CON_PENDING" -> q
    [] OTHER ->
       IF accept
       THEN nl_req_ncci([q EXCEPT !.ncci_state[c] = "INC_ACT_PENDING"],
                        "N_CONNECT_ACK", c)
       ELSE nl_req_ncci(
              cleanup_ncci_data([q EXCEPT !.ncci_state[c] = "OUTG_REJ_PENDING"], c),
              "N_DISC", c)

connect_b3_a_res(q, c) ==
  IF q.State \notin Cleared /\ q.ncci_state[c] = "INC_ACT_PENDING"
  THEN [q EXCEPT !.ncci_state[c] = "CONNECTED", !.State = "CONNECTED"] ELSE q

\* Data of the queue has its buffer already.
data_b3_req(q, m, fromQ, mapped) ==
  IF mapped /\ q.ncci_state[m.ncci] \in Sending
  THEN LET d == [ack |-> m.ack, P |-> m.P]
       IN send_data([q EXCEPT
            !.used = @ \cup {m.P},
            !.DBuffer[m.ncci] = Append(@, d),
            !.DataAck[m.ncci] = IF m.ack THEN Append(@, m.P) ELSE @,
            !.due[m.ncci] = Append(@, d)])
  ELSE IF fromQ THEN [q EXCEPT !.used = @ \ {m.P}] ELSE q

\* Transparent data is sent to its end before the connection goes down.
disconnect_b3_req(q, c) ==
  LET open == {"CONNECTED", "OUTG_CON_PENDING", "INC_CON_PENDING", "INC_ACT_PENDING"}
      q1 == [q EXCEPT !.ncci_state[c] = "OUTG_DIS_PENDING"]
  IN IF q.ncci_state[c] \notin open THEN q
     ELSE IF HasData(q, c) /\ q.B3_prot = "TRANSPARENT"
     THEN [q1 EXCEPT !.send_disc = c, !.command = None]
     ELSE nl_req_ncci(cleanup_ncci_data(q1, c), "N_DISC", c)

\* Fault: the connection is not counted off.
disconnect_b3_res_Keep(q, c) ==
  IF q.inc_dis[c] = 0 THEN q ELSE [q EXCEPT !.inc_dis[c] = @ - 1]

disconnect_b3_res(q, c) ==
  IF q.inc_dis[c] = 0 THEN q
  ELSE LET q1 == [q EXCEPT !.inc_dis[c] = @ - 1,
                           !.channels = IF @ > 0 THEN @ - 1 ELSE @]
       IN IF q1.State = "IDLE" /\ q1.channels = 0 THEN plci_remove(q1) ELSE q1

\* Transparent data is confirmed, then the channel is reset under an internal
\* command (MANUFACTURER_FEATURE2_TRANSPARENT_N_RESET).
reset_b3_req(q, c) ==
  LET rcAll == FoldLeft(LAMBDA x, d : data_rc(x, c, d.P), q, q.DBuffer[c])
      ackAll == FoldLeft(LAMBDA x, d : data_ack(x, c), rcAll, q.DataAck[c])
  IN CASE q.ncci_state[c] # "CONNECTED" -> q
       [] q.B3_prot = "ISO8208" -> send_req(nl_req_ncci(q, "N_RESET", c))
       [] OTHER -> [send_req(nl_req_ncci(ackAll, "N_RESET", c)) EXCEPT
                      !.command = None, !.internal_command = TRUE]

reset_b3_res(q, c) ==
  IF q.ncci_state[c] = "INC_RES_PENDING"
  THEN nl_req_ncci([q EXCEPT !.ncci_state[c] = "CONNECTED"], "N_RESET_ACK", c)
  ELSE q

\* The User_Info option.
info_req(q) == IF q.State = "IDLE" THEN q ELSE send_req(sig_req(q, "USER_DATA"))

disconnect_req(q) ==
  IF q.Sig /\ q.State # "INC_DIS_PENDING"
  THEN [sig_req(q, "HANGUP") EXCEPT !.State = "OUTG_DIS_PENDING"] ELSE q

disconnect_res(q) ==
  IF Removable(q) THEN plci_remove_check(q)
  ELSE IF q.State # "INC_DIS_PENDING" THEN q
  ELSE LET q1 == [q EXCEPT !.State = "IDLE"]
       IN IF q.channels = 0 THEN plci_remove(q1) ELSE q1

NcciMsg == {"CONNECT_B3_RESP", "CONNECT_B3_REJECT", "CONNECT_B3_ACTIVE_RESP",
            "DATA_B3_REQ", "DISCONNECT_B3_REQ", "DISCONNECT_B3_RESP",
            "RESET_B3_REQ", "RESET_B3_RESP"}
PlciMsg == {"CONNECT_B3_REQ", "INFO_REQ", "DISCONNECT_REQ", "DISCONNECT_RESP"}

\* The function of ftable.
Handle(q, m, fromQ) ==
  LET c == m.ncci IN
  CASE m.command = "CONNECT_B3_REQ" -> connect_b3_req(q)
    [] m.command = "CONNECT_B3_RESP" -> connect_b3_res(q, c, TRUE)
    [] m.command = "CONNECT_B3_REJECT" -> connect_b3_res(q, c, FALSE)
    [] m.command = "CONNECT_B3_ACTIVE_RESP" -> connect_b3_a_res(q, c)
    [] m.command = "DATA_B3_REQ" -> data_b3_req(q, m, fromQ, TRUE)
    [] m.command = "DISCONNECT_B3_REQ" -> disconnect_b3_req(q, c)
    [] m.command = "DISCONNECT_B3_RESP" -> disconnect_b3_res(q, c)
    [] m.command = "RESET_B3_REQ" -> reset_b3_req(q, c)
    [] m.command = "RESET_B3_RESP" -> reset_b3_res(q, c)
    [] m.command = "INFO_REQ" -> info_req(q)
    [] m.command = "DISCONNECT_REQ" -> disconnect_req(q)
    [] m.command = "DISCONNECT_RESP" -> disconnect_res(q)

\* The PLCI of a message, or none.
Found(q, m) ==
  /\ q.Id
  /\ q.appl \/ m.command = "DISCONNECT_RESP"
  /\ m.ncci = NULL \/ m.command = "DISCONNECT_B3_RESP" \/ m.ncci \in q.ncci_plci

Of(q, c) == SelectSeq(q.msg_in_queue, LAMBDA x : x.command = "DATA_B3_REQ" /\ x.ncci = c)
\* Fault: the data that waits in msg_in_queue is not counted.
WindowFull_NoQueue(q, c) ==
  Len(q.DBuffer[c]) >= MAX_DATA_B3 \/ Len(q.DataAck[c]) >= MAX_DATA_ACK

WindowFull(q, c) ==
  \/ Len(q.DBuffer[c]) + Len(Of(q, c)) >= MAX_DATA_B3
  \/ Len(q.DataAck[c]) + Len(SelectSeq(Of(q, c), LAMBDA x : x.ack)) >= MAX_DATA_ACK

Busy(q) == q.req_in \/ q.internal_command

Refused(q, m, fromQ) ==
  /\ Found(q, m)
  /\ \/ Len(q.msg_in_queue) >= q.room
     \/ /\ m.command = "DATA_B3_REQ"
        /\ WindowFull(q, m.ncci) \/ (fromQ /\ Busy(q))

Enqueued(q, m, fromQ) == Busy(q) \/ (~fromQ /\ q.msg_in_queue # <<>>)

api_put_reenter(q, m, fromQ) ==
  IF ~Found(q, m)
  THEN IF m.command = "DATA_B3_REQ" THEN data_b3_req(q, m, fromQ, FALSE) ELSE q
  ELSE IF Enqueued(q, m, fromQ)
  THEN [q EXCEPT !.msg_in_queue = Append(@, m),
                 !.used = @ \cup ({m.P} \ {NULL})]
  ELSE LET q1 == send_req(Handle([q EXCEPT !.command = m.command], m, fromQ))
       IN IF q1.req_in THEN q1 ELSE [q1 EXCEPT !.command = None]

(***************************************************************************)
(* Callbacks.                                                              *)
(***************************************************************************)
\* A return code ends the command that waits, whichever request it is for: also
\* the end of a flow control, which leaves nl_req set (mistaken).
control_rc(q, rc, c) ==
  LET q1 == [q EXCEPT !.req_in = FALSE]
      q2 == [q1 EXCEPT !.command = None]
  IN IF q.RBuffer # <<>> THEN q
     ELSE IF ~q.appl \/ Removable(q) THEN plci_remove_check(q1)
     ELSE IF q.command = "CONNECT_B3_REQ" /\ rc = "OK"
     THEN [get_ncci(Note(q2, "mistaken", q.nl_req # None), c) EXCEPT
             !.channels = @ + 1, !.ncci_state[c] = "OUTG_CON_PENDING"]
     ELSE IF q.command # None THEN q2
     ELSE [q1 EXCEPT !.internal_command = @ /\ rc = "OK"]

\* Data without N_DATA_ACK is dropped for the data with it that waits behind.
Crowded(q, m) ==
  /\ ~m.ack /\ \E i \in DOMAIN q.msg_in_queue : q.msg_in_queue[i] \in ToSet(Of(q, m.ncci))
                                              /\ q.msg_in_queue[i].ack
  /\ Len(q.DBuffer[m.ncci]) + Len(Of(q, m.ncci)) < MAX_DATA_B3

\* The end of callback: messages that waited, until one is refused; data, requests.
Dequeue(s) ==
  LET q == s.q
      m == Head(q.msg_in_queue)
      q1 == [q EXCEPT !.msg_in_queue = Tail(@)]
  IN CASE Busy(q) \/ q.msg_in_queue = <<>> \/ ~s.on -> s
       [] Refused(q1, m, TRUE) ->
            [q |-> Note([q1 EXCEPT !.used = @ \ {m.P}], "dropped", ~Crowded(q1, m)), on |-> FALSE]
       [] OTHER -> [s EXCEPT !.q = api_put_reenter(q1, m, TRUE)]

Dequeued(q) ==
  FoldLeft(LAMBDA s, m : Dequeue(s), [q |-> q, on |-> TRUE], q.msg_in_queue).q

\* Fault: data is left to the next message of the application.
callback_suffix_NoData(q) == send_req(Dequeued(q))

\* Data goes out when no command waits.
SendIdle(q) == IF Busy(q) THEN q ELSE send_data(q)

callback_suffix(q) == send_req(SendIdle(Dequeued(q)))

\* REMOVE is complete: the XDI has taken the Id away.
NlRemoved(q) ==
  IF q.nl_req # "REMOVE" THEN q
  ELSE [ncci_remove_all([q EXCEPT !.data_sent = NULL]) EXCEPT
          !.NL = FALSE, !.fc = {}, !.fcId = {}, !.nl_remove = FALSE]

\* What follows once nl_req is settled.
NlAnswered(q, rc, c) ==
  callback_suffix(
    IF q.nl_req = None /\ q.data_sent # NULL
    THEN LET q1 == data_rc([q EXCEPT !.data_sent = NULL], c, q.data_sent)
         IN IF q.internal_command THEN control_rc(q1, rc, c) ELSE q1
    ELSE control_rc(q, rc, c))

\* Fault: every return code but a cancelled one settles the request.
nl_rc_Any(q0, rc, c) ==
  LET q == [NlRemoved(q0) EXCEPT !.nl_req = None, !.ReqCh = NULL]
      on == rc = "OK_FC"
  IN NlAnswered([q EXCEPT !.fc = IF on THEN @ \cup {c} ELSE @ \ {c},
                          !.fcId = IF on THEN @ \cup {c} ELSE @ \ {c},
                          !.fcSkip = @ \ {c}], rc, c)

\* A return code of the network layer entity, an answer or the end of a flow
\* control: FlowControlSkipTable tells that a request was sent on the channel
\* since OK_FC, N_OK_FC_PENDING and ReqCh which of the two it is.
nl_rc(q0, rc, c) ==
  LET q == NlRemoved(q0)
      ended == [q EXCEPT !.fcId = @ \ {c}, !.fcSkip = @ \ {c}]
      settled == IF c \in q.fc /\ c # q.ReqCh
                 THEN [ended EXCEPT !.fc = @ \ {c}]
                 ELSE [ended EXCEPT !.fc = @ \ {c}, !.nl_req = None, !.ReqCh = NULL]
  IN IF rc = "OK_FC"
     THEN NlAnswered([q EXCEPT !.fc = @ \cup {c}, !.fcId = @ \cup {c},
                               !.fcSkip = @ \ {c}, !.nl_req = None, !.ReqCh = NULL], rc, c)
     ELSE IF c \in q.fcId /\ c \in q.fcSkip /\ rc = "OK" THEN ended
     ELSE NlAnswered(settled, rc, c)

sig_rc(q, rc) ==
  LET q1 == [q EXCEPT !.sig_req = None] IN
  callback_suffix(control_rc(
    IF q.sig_req = "REMOVE" THEN [q1 EXCEPT !.Sig = FALSE, !.sig_remove = FALSE] ELSE q1,
    rc, NULL))

\* Fault: only the signalling entity is removed.
Hangup_SigOnly(q) ==
  LET gone == IF ~q.appl THEN send_req(sig_req([q EXCEPT !.State = "IDLE"], "REMOVE"))
              ELSE [q EXCEPT !.State = "INC_DIS_PENDING"]
  IN [gone EXCEPT !.internal_command = FALSE, !.hangups = 0]

\* HANGUP: the call is gone.
Hangup(q) ==
  LET q1 == [q EXCEPT !.State = "IDLE"]
      q2 == IF q.NL /\ ~q.nl_remove THEN nl_req_ncci(q1, "REMOVE", NULL) ELSE q1
      gone == IF ~q.appl THEN send_req(sig_req(q2, "REMOVE"))
              ELSE IF q.State \in {"IDLE", "INC_DIS_PENDING"} THEN q
              ELSE [q EXCEPT !.State = "INC_DIS_PENDING"]
  IN [gone EXCEPT !.internal_command = FALSE, !.hangups = 0]

\* The B3 connections the application has to answer for, and those of channels
\* that are up.
Unanswered(q) == FoldLeft(LAMBDA n, c : n + q.inc_dis[c], 0, SetToSeq(Ch))
Up(q) == q.channels > Unanswered(q)

\* "Exceptional disc": the network layer is taken for dead.
Exceptional(q) ==
  plci_remove(FoldLeft(cleanup_ncci_data, [q EXCEPT !.hangups = 0], q.ring))

\* HANGUP is refused while B3 connections are up, but not for ever: the card
\* keeps it (RNR = 1) and comes back with it.
RefusesHangup(q) == ~q.sig_remove /\ Up(q) /\ q.hangups + 1 # MaxRefused

sig_ind(q) ==
  callback_suffix(
    CASE q.sig_remove -> q
      [] RefusesHangup(q) -> [q EXCEPT !.hangups = @ + 1]
      [] ~q.sig_remove /\ Up(q) /\ ~RefusesHangup(q) -> Exceptional(q)
      [] OTHER -> Hangup(q))

\* Fault: the NCCI keeps its channel until the application has answered.
N_DISC_Keep(q, c) ==
  [q EXCEPT !.internal_command = FALSE, !.send_disc = IF @ = c THEN NULL ELSE @,
            !.inc_dis[c] = @ + 1]

\* N_DISC, N_DISC_ACK.  For a channel that has no NCCI, ncci_remove gets 0.
N_DISC(q, c) ==
  LET mapped == c \in q.ncci_plci
      q1 == [q EXCEPT !.internal_command = FALSE]
      q2 == IF mapped THEN ncci_remove(q1, c) ELSE ncci_remove_all(q1)
      q3 == [q2 EXCEPT !.send_disc = IF mapped /\ @ = c THEN NULL ELSE @,
                       !.inc_dis[c] = IF mapped THEN @ + 1 ELSE @]
  IN IF q.channels = 0 THEN q2
     ELSE IF q.ncci_state[c] = "OUTG_REJ_PENDING" /\ q.B3_prot = "TRANSPARENT"
     THEN [send_req(sig_req(q3, "HANGUP")) EXCEPT !.State = "OUTG_DIS_PENDING"]
     ELSE q3

Discards(q, ind) ==
  q.nl_remove \/ ~q.appl \/ (ind = "N_CONNECT" /\ q.State \in Cleared)

nl_ind(q, ind, c) ==
  LET q1 == IF c \in q.ncci_plci THEN q ELSE get_ncci(q, c) IN
  callback_suffix(
    CASE Discards(q, ind) -> q
      [] ind = "N_CONNECT" ->
           [q1 EXCEPT !.ncci_state[c] = "INC_CON_PENDING",
                   !.channels = IF q1.ncci_state[c] = "IDLE" THEN @ + 1 ELSE @]
      [] ind = "N_DISC" -> N_DISC(q, c)
      [] ind = "N_DATA_ACK" -> IF c \in q.ncci_plci THEN data_ack(q, c) ELSE q
      [] c \notin q.ncci_plci -> q
      [] ind = "N_CONNECT_ACK" -> [q EXCEPT !.ncci_state[c] = "INC_ACT_PENDING"]
      [] ind = "N_RESET" -> [q EXCEPT !.ncci_state[c] = "INC_RES_PENDING"]
      [] ind = "N_RESET_ACK" ->
           [q EXCEPT !.internal_command = FALSE,
                     !.ncci_state[c] = IF q.send_disc = NULL THEN "CONNECTED" ELSE @])

(***************************************************************************)
(* Actions of the application.                                             *)
(***************************************************************************)
Msg(cmd, c) == [ack |-> FALSE, command |-> cmd, P |-> NULL, ncci |-> c]

Uses(what) == what \in hw.use

api_put(m) ==
  /\ Uses(m.command) /\ m.ncci \in hw.line \cup {NULL}
  /\ ~Refused(p, m, FALSE)
  /\ p' = api_put_reenter(p, m, FALSE)
  /\ UNCHANGED hw

\* diva_send_message takes a free transmit buffer; TransmitBufferSet marks it.
diva_send_data(c, ack) ==
  /\ Uses(IF ack THEN "N_DATA_ACK" ELSE "N_DATA_RC")
  /\ \E b \in Buf \ p.used : api_put([Msg("DATA_B3_REQ", c) EXCEPT !.P = b, !.ack = ack])

\* The buffers of a released application are gone as a whole.
CapiRelease ==
  /\ p.Id /\ p.appl /\ Uses("CapiRelease")
  /\ p' = plci_remove([p EXCEPT !.appl = FALSE, !.released = TRUE])
  /\ UNCHANGED hw

(***************************************************************************)
(* The card.  It answers the requests of an entity one by one, and ends    *)
(* the flow control of a channel before it answers a later request there.  *)
(***************************************************************************)
Taken == [p EXCEPT !.atNL = Nothing]
Asked(req) == p.atNL.req = req /\ p.atNL.ch \notin hw.fc

FreeCh == {c \in hw.line : hw.ch[c] = "free" /\ c \notin hw.fc}
MayOpen ==
  hw.call /\ (p.B3_prot = "TRANSPARENT" => \A c \in Ch : hw.ch[c] = "free")

ConnectRc ==
  /\ Asked("N_CONNECT")
  /\ \/ \E c \in FreeCh : /\ MayOpen
                           /\ hw' = [hw EXCEPT !.ch[c] = "calling"]
                           /\ p' = nl_rc(Taken, "OK", c)
     \/ hw' = hw /\ p' = nl_rc(Taken, "WRONG_CH", NULL)

DataRc ==
  /\ Asked("N_DATA")
  /\ LET c == p.atNL.ch
         live == hw.call /\ hw.ch[c] = "open" /\ c \notin hw.reset
         owes == IF p.atNL.ack /\ live THEN 1 ELSE 0
         hw1 == [hw EXCEPT !.acks[c] = @ + owes]
     IN \/ hw' = hw1 /\ p' = nl_rc(Taken, "OK", c)
        \/ /\ hw.ch[c] = "open"
           /\ hw' = [hw1 EXCEPT !.fc = @ \cup {c}]
           /\ p' = nl_rc(Taken, "OK_FC", c)

ControlRc ==
  /\ \E req \in {"N_CONNECT_ACK", "N_DISC", "N_RESET", "N_RESET_ACK"} : Asked(req)
  /\ LET c == p.atNL.ch
         open == hw.ch[c] \in {"calling", "open"}
     IN /\ hw' = CASE p.atNL.req = "N_DISC" /\ open -> [hw EXCEPT !.ch[c] = "closing"]
                  [] p.atNL.req = "N_RESET" /\ open -> [hw EXCEPT !.reset = @ \cup {c}]
                  [] OTHER -> hw
        /\ p' = nl_rc(Taken, "OK", c)

RemoveRc ==
  /\ Asked("REMOVE")
  /\ hw' = [hw EXCEPT !.ch = [c \in Ch |-> "free"], !.fc = {}, !.reset = {},
                     !.acks = [c \in Ch |-> 0]]
  /\ p' = nl_rc(Taken, "OK", NULL)

\* The end of a flow control.  Return codes but the last one of a REMOVE are
\* ignored while it is at the card.
FlowRc(c) ==
  /\ c \in hw.fc
  /\ hw' = [hw EXCEPT !.fc = @ \ {c}]
  /\ p' = IF p.nl_req = "REMOVE" THEN p ELSE nl_rc(p, "OK", c)

SigRc ==
  /\ p.atSig # Nothing
  /\ hw' = [hw EXCEPT !.hang = @ \/ p.atSig.req = "HANGUP"]
  /\ p' = sig_rc([p EXCEPT !.atSig = Nothing], "OK")

\* hang: the card has a HANGUP to indicate, for the first time or again.
HangupInd ==
  /\ p.Sig /\ (hw.hang \/ (hw.call /\ Uses("HANGUP")))
  /\ hw' = [hw EXCEPT !.call = FALSE, !.hang = RefusesHangup(p)]
  /\ p' = sig_ind(p)

\* A N_CONNECT that the CAPI discards opens no channel.
ConnectInd(c) ==
  /\ p.NL /\ MayOpen /\ c \in FreeCh /\ Uses("N_CONNECT")
  /\ hw' = IF Discards(p, "N_CONNECT") THEN hw ELSE [hw EXCEPT !.ch[c] = "open"]
  /\ p' = nl_ind(p, "N_CONNECT", c)

ConnectAckInd(c) ==
  /\ p.NL /\ hw.ch[c] = "calling"
  /\ hw' = [hw EXCEPT !.ch[c] = "open"]
  /\ p' = nl_ind(p, "N_CONNECT_ACK", c)

\* N_DISC of the other side, or N_DISC_ACK.
DiscInd(c) ==
  /\ p.NL /\ hw.ch[c] # "free" /\ p.inc_dis[c] < MaxDis
  /\ hw' = [hw EXCEPT !.ch[c] = "free", !.acks[c] = 0, !.reset = @ \ {c}]
  /\ p' = nl_ind(p, "N_DISC", c)

DataAckInd(c) ==
  /\ p.NL /\ hw.acks[c] > 0
  /\ hw' = [hw EXCEPT !.acks[c] = @ - 1]
  /\ p' = nl_ind(p, "N_DATA_ACK", c)

ResetAckInd(c) ==
  /\ p.NL /\ c \in hw.reset
  /\ hw' = [hw EXCEPT !.reset = @ \ {c}, !.acks[c] = 0]
  /\ p' = nl_ind(p, "N_RESET_ACK", c)

ResetInd(c) ==
  /\ p.NL /\ hw.ch[c] = "open" /\ p.B3_prot = "ISO8208" /\ Uses("N_RESET")
  /\ p' = nl_ind(p, "N_RESET", c)
  /\ UNCHANGED hw

Step ==
  \/ \E cmd \in PlciMsg : api_put(Msg(cmd, NULL))
  \/ \E cmd \in NcciMsg \ {"DATA_B3_REQ"}, c \in Ch : api_put(Msg(cmd, c))
  \/ \E c \in Ch, ack \in BOOLEAN : diva_send_data(c, ack)
  \/ CapiRelease
  \/ ConnectRc \/ DataRc \/ ControlRc \/ RemoveRc \/ SigRc \/ HangupInd
  \/ \E c \in Ch : \/ FlowRc(c) \/ ConnectInd(c) \/ ConnectAckInd(c) \/ DiscInd(c)
                   \/ DataAckInd(c) \/ ResetAckInd(c) \/ ResetInd(c)

\* What follows when the end of a flow control was taken for the answer to
\* N_CONNECT is not looked at: each time counts a connection more.
Mistaken == "mistaken" \in p.ghost

Next == (~Mistaken /\ Step) \/ (Mistaken /\ UNCHANGED vars)

Spec == Init /\ [][Next]_vars

(***************************************************************************)
(* Properties.                                                             *)
(***************************************************************************)
Entries(q) == q.msg_in_queue \o FoldLeft(LAMBDA s, c : s \o q.DBuffer[c], <<>>, q.ring)
Held(q) == SelectSeq(Entries(q), LAMBDA d : d.P # NULL)

\* As long as the application is there, a transmit buffer is in use exactly while
\* one message of the queue, one entry of DBuffer or the request at the card has
\* it, and no two of them share one: no buffer is freed twice or too early, and
\* none is kept but the one that the card was reading when plci_remove took the
\* application from the PLCI.
BuffersSound == ~p.released =>
  /\ p.atNL.buf # NULL => p.atNL.buf \in p.used /\ p.data_sent = p.atNL.buf
  /\ Cardinality({d.P : d \in ToSet(Held(p))}) = Len(Held(p))
  /\ p.used = {d.P : d \in ToSet(Held(p))} \cup ({p.data_sent} \ {NULL}) \cup p.lost

\* The data of an NCCI is confirmed once and in the order it was sent, both
\* the data confirmed by its return code and the data confirmed by N_DATA_ACK.
ConfirmedInOrder == "misordered" \notin p.ghost

\* A message that api_put has taken is not lost when it leaves the queue: the
\* window it was admitted to is still open.  Not so data without N_DATA_ACK that
\* has data with it behind: api_put_reenter counts that against it.
NotDropped == "dropped" \notin p.ghost

\* The entity has one request at the card at a time, although the end of a
\* flow control looks like an answer, and none once it has been removed.
OneRequest == p.ghost \cap {"overlap", "orphan"} = {}

\* Nobody waits for an answer that does not come: what waits in RBuffer, in
\* msg_in_queue or in DBuffer has a request before it or a callback to come, what
\* waits in msg_in_queue behind data that was dropped an N_DATA_ACK or a HANGUP.
NoStall ==
  /\ p.nl_req # None => p.atNL # Nothing
  /\ p.sig_req # None => p.atSig # Nothing
  /\ Busy(p) \/ p.RBuffer # <<>> \/ p.msg_in_queue # <<>>
       => \/ p.atNL # Nothing \/ p.atSig # Nothing
          \/ hw.reset # {} \/ \E c \in Ch : hw.ch[c] = "closing"
          \/ /\ ~Busy(p) /\ p.RBuffer = <<>>
             /\ hw.hang \/ \E c \in Ch : hw.acks[c] > 0
  /\ \A c \in p.ncci_plci \ hw.fc :
       HasData(p, c) \/ p.send_disc = c => Busy(p) \/ p.atNL # Nothing

\* channels counts the B3 connections whose end the application has not
\* answered, by which sig_ind tells whether one is still up and the application's
\* answers when the PLCI of a cleared call may be removed.  The end of a flow
\* control taken for the answer to N_CONNECT counts a connection twice.
ChannelsExact ==
  p.appl /\ ~Mistaken => p.channels = Cardinality(p.ncci_plci) + Unanswered(p)

\* A PLCI is free only when nothing of it is at the card or in a table, and
\* one without an application, released or given up, is on its way there.
FreedIsQuiet ==
  /\ ~p.Id => /\ p.atNL = Nothing /\ p.atSig = Nothing
              /\ p.RBuffer = <<>> /\ p.msg_in_queue = <<>>
              /\ p.ncci_plci = {} /\ p.ring = <<>>
  /\ p.Id /\ ~p.appl => p.atNL # Nothing \/ p.atSig # Nothing \/ hw.hang

\* get_ncci is called for channels without an NCCI: message.c counts and
\* reports any other call as "NCCI mapping exists" (diva_capi_ncci_mapping_bug).
\* It happens when the end of a flow control is taken for the answer to
\* N_CONNECT, and only then.
MappedOnce == "remapped" \in p.ghost => Mistaken
=============================================================================
