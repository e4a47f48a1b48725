------------------------------- MODULE UmIdi -------------------------------
(***************************************************************************)
(* The user mode IDI (kernel/um_idi.c with kernel/divasi.c): files of      *)
(* applications that talk to the management interface of one adapter.      *)
(*                                                                         *)
(* A file is a management entity of its own ("man"), or a logical entity   *)
(* that shares a master entity with the other files, an ordinary one       *)
(* ("idi") or the one of the license server ("license").  The files of one *)
(* behaviour are all of one kind: the kinds share nothing but the count of *)
(* delayed entities.  Every handler runs under adapter_lock and is one     *)
(* action; what runs outside is split: the watchdog sets aborted before it *)
(* takes the lock, a close waits between its steps, and an indication is   *)
(* announced in one callback and completed in another.                     *)
(*                                                                         *)
(* The card (with the XDI) is external: it answers the requests of an      *)
(* entity in order, a READ by a return code and an indication in either    *)
(* order; an indication may announce further ones (the ind_count of        *)
(* check_chained_indication).  It may refuse a request, and lose an ASSIGN *)
(* (the XDI is out of entities and calls nobody back).  When the adapter   *)
(* is removed its card has stopped.                                        *)
(*                                                                         *)
(* A tag names a request by its file and a bit that each write flips.      *)
(***************************************************************************)
EXTENDS Integers, Sequences, FiniteSets, SequencesExt

CONSTANTS File, Master,
          Kinds,        \* the kinds of files, of "man", "idi" and "license"
          MaxTimeouts,  \* DIVA_UM_IDI_MAX_TIMEOUTS
          DataLen,      \* indications a file's data queue holds
          MaxChain,     \* indications an indication may announce
          MaxRefused,   \* ASSIGNs of a file that the XDI has no entity for
          LicLen,       \* lengths of license data, in bytes
          NULL

ASSUME UmIdiAssumption ==
  /\ Kinds \subseteq {"man", "idi", "license"}
  /\ File \cap Master = {} /\ NULL \notin File \cup Master
  /\ MaxTimeouts \in Nat /\ MaxChain \in Nat /\ MaxRefused \in Nat
  /\ DataLen \in Nat \ {0}
  /\ LicLen \subseteq Nat

VARIABLES
  kind,     \* what the files of this behaviour are
  present,  \* the adapter is in adapter_q
  nr_delayed_cleanup_entities,
  fi,       \* the files: divas_um_idi_entity_t and diva_um_idi_os_context_t
  ma,       \* the masters: divas_um_idi_entity_t
  up,       \* what the card has yet to deliver to each entity
  known,    \* the entities the card has assigned
  ghost     \* what the properties remember

vars == <<kind, present, nr_delayed_cleanup_entities, fi, ma, up, known, ghost>>

Ent == File \cup Master
Tag == File \X {0, 1}
NoTag == <<NULL, 0>>

(***************************************************************************)
(* State of a file that is not open, and of a master that does not exist.  *)
(***************************************************************************)
Closed ==
  [st |-> "closed", me |-> NULL, on_active_q |-> FALSE, Id |-> FALSE,
   rc_count |-> 0, status |-> {}, Req |-> "none", buffer |-> "none",
   len |-> 0, rc |-> FALSE, data |-> 0, bit |-> 0,
   timer |-> FALSE, handler |-> FALSE, aborted |-> FALSE]

NoMaster ==
  [st |-> "free", rc_count |-> 0, license_state |-> "Idle", chained |-> FALSE,
   timeout |-> FALSE, active |-> <<>>, idle |-> <<>>, cbuffer |-> NoTag,
   rest |-> 0]

Init ==
  /\ kind \in Kinds
  /\ present = TRUE
  /\ nr_delayed_cleanup_entities = 0
  /\ fi = [f \in File |-> Closed]
  /\ ma = [m \in Master |-> NoMaster]
  /\ up = [x \in Ent |-> <<>>]
  /\ known = {}
  /\ ghost = {}

TagOf(f) == <<f, fi[f].bit>>

\* The card has nothing of this entity and will not call it back.
Quiet(x) == up[x] = <<>> /\ x \notin known

\* Ghosts: cut, the announcement of a chain was not counted; wrong, an answer
\* went to another request than its own; freed, an entity was freed that the
\* card still has; race, the same while its watchdog was running; stall, a
\* license answer was cancelled half way.
Note(p, g) == IF p THEN {g} ELSE {}

(***************************************************************************)
(* The card: what it answers is chosen when it begins to answer, and       *)
(* delivered event by event, at any time or never.                         *)
(***************************************************************************)
Rc(q, ok) == [k |-> "rc", ok |-> ok, req |-> q.req, tag |-> q.tag, n |-> 0]
Ind(q, n) == [k |-> "ind", ok |-> TRUE, req |-> q.req, tag |-> q.tag, n |-> n]

\* The answers to request q.
Answers(q) ==
  CASE q.req = "READ" ->
         {<<Rc(q, FALSE)>>} \cup
         UNION {LET more == [i \in 1 .. n |-> Ind(q, 0)] IN
                {<<Rc(q, TRUE), Ind(q, n)>> \o more, <<Ind(q, n), Rc(q, TRUE)>> \o more}
                  : n \in 0 .. (IF kind = "idi" THEN MaxChain ELSE 0)}
    [] q.req = "REMOVE" -> {<<Rc(q, TRUE)>>}
    [] OTHER -> {<<Rc(q, ok)>> : ok \in BOOLEAN}

\* (*(adapter->d.request))(&e) for entity x; u is what the card still has to
\* deliver, "none" that nothing is sent.
Send(u, x, req, tag) ==
  up' = IF req = "none" THEN u
        ELSE [u EXCEPT ![x] = Append(@, [k |-> "req", req |-> req, tag |-> tag])]

\* What the card may deliver to entity x now.
Deliveries(x) ==
  IF up[x] = <<>> THEN {}
  ELSE IF Head(up[x]).k = "req" THEN {a \o Tail(up[x]) : a \in Answers(Head(up[x]))}
  ELSE {up[x]}

\* The tag of a new request of file f, unlike those of the answers under way.
NewBit(f) == IF \E x \in Ent : \E i \in DOMAIN up[x] : up[x][i].tag = <<f, 0>>
             THEN 1 ELSE 0

(***************************************************************************)
(* diva_um_idi_xdi_callback of a file.                                     *)
(***************************************************************************)
StopWdog(e) == [e EXCEPT !.timer = FALSE]
StartWdog(e) == [e EXCEPT !.timer = TRUE]

\* write_return_code; one that RC_PENDING does not wait for is left out.
WriteRc(e) == [e EXCEPT !.rc = "RC_PENDING" \in e.status]

\* process_idi_rc, after the XDI has put Id to 0 when a REMOVE succeeded.
ProcessIdiRc(e, ok) ==
  LET a == IF "ASSIGN_PENDING" \in e.status /\ ~ok
           THEN [e EXCEPT !.Id = FALSE, !.Req = "none"] ELSE e
      b == [a EXCEPT !.status = @ \ {"ASSIGN_PENDING"}]
  IN  IF b.Req = "REMOVE" /\ b.Id /\ ok THEN b
      ELSE LET c == IF b.Req = "REMOVE" /\ ~b.Id
                    THEN [b EXCEPT !.Req = "none", !.rc_count = 0] ELSE b
               d == WriteRc(c)
           IN  [d EXCEPT !.rc_count = IF @ > 0 THEN @ - 1 ELSE 0]

\* Fault: the watchdog of a close is stopped too.
XdiCallbackRc_Stop(e, ok) ==
  IF "TIMEOUT" \in e.status THEN e ELSE ProcessIdiRc(StopWdog(e), ok)

XdiCallbackRc(e, ok) ==
  IF "TIMEOUT" \in e.status THEN e
  ELSE ProcessIdiRc(IF "REMOVE_PENDING" \in e.status THEN e ELSE StopWdog(e), ok)

\* An indication for the file: accepted when its data queue has room.  The data
\* queue of a logical entity, which can only lose it, is left out.
Accepts(e) == e.data < DataLen
TakeInd(e) ==
  IF kind = "man" /\ {"REMOVE_PENDING", "TIMEOUT"} \cap e.status = {} /\ Accepts(e)
  THEN [e EXCEPT !.data = @ + 1] ELSE e

(***************************************************************************)
(* Opening a file.                                                         *)
(***************************************************************************)
\* The master a new logical entity joins: one in use, or a new one.
Joinable == {m \in Master : ma[m].st \in {"Idle", "AssignPending", "Assigned",
                                          "ResponsePending", "Cancelled"}}

\* Bound: of the management entities, which share nothing, one is open.
um_idi_open_adapter(f) ==
  /\ fi[f].st = "closed"
  /\ present /\ nr_delayed_cleanup_entities <= MaxTimeouts
  /\ \/ /\ kind = "man" /\ \A g \in File \ {f} : fi[g].st \in {"closed", "delayed"}
        /\ fi' = [fi EXCEPT ![f].st = "open"]
        /\ UNCHANGED ma
     \/ /\ kind # "man"
        /\ \E m \in IF Joinable # {} THEN Joinable
                    ELSE {m \in Master : ma[m].st = "free" /\ Quiet(m)} :
             /\ fi' = [fi EXCEPT ![f].st = "open", ![f].me = m]
             /\ ma' = [ma EXCEPT ![m].idle = Append(@, f),
                                 ![m].st = IF @ = "free" THEN "Idle" ELSE @]
  /\ UNCHANGED <<kind, present, nr_delayed_cleanup_entities, up, known, ghost>>

\* Conditions of um_idi_write and diva_um_idi_write, common to both kinds.
CanWrite(f) ==
  /\ fi[f].st = "open" /\ ~fi[f].aborted /\ present
  /\ {"REMOVE_PENDING", "REMOVED", "RC_PENDING"} \cap fi[f].status = {}

(***************************************************************************)
(* process_idi_request of a management entity.                             *)
(***************************************************************************)
process_idi_request(f, req) ==
  LET e == fi[f]
      t == StartWdog([e EXCEPT !.Id = TRUE, !.Req = req, !.bit = NewBit(f),
             !.status = @ \cup {"RC_PENDING"}, !.rc_count = @ + 1])
  IN  /\ kind = "man" /\ CanWrite(f)
      /\ (req = "ASSIGN") = ~e.Id
      /\ \/ /\ fi' = [fi EXCEPT ![f] = IF req = "ASSIGN"
                 THEN [t EXCEPT !.status = @ \cup {"ASSIGN_PENDING"}] ELSE t]
            /\ Send(up, f, req, <<f, t.bit>>)
         \/ \* the XDI is out of entities; the count and the watchdog stay
            /\ req = "ASSIGN" /\ e.rc_count < MaxRefused
            /\ fi' = [fi EXCEPT ![f] = WriteRc([t EXCEPT !.Id = FALSE])]
            /\ UNCHANGED up
      /\ UNCHANGED <<kind, present, nr_delayed_cleanup_entities, ma, known, ghost>>

(***************************************************************************)
(* process_logical_idi_request: the file asks its master.                  *)
(***************************************************************************)
\* Fault: the file stays on the idle queue too.
OnActive_Both(r, f) == [r EXCEPT !.active = Append(@, f)]

OnActive(r, f) == [r EXCEPT !.idle = RemoveFirst(@, f), !.active = Append(@, f)]

\* Fault: the indication of a READ is not counted.
Ask_One(r, req) == [r EXCEPT !.st = "ResponsePending", !.rc_count = 1]

\* The request of the file at the head of the active queue is sent.
Ask(r, req) == [r EXCEPT !.st = "ResponsePending",
                         !.rc_count = IF req = "READ" THEN 2 ELSE 1]

\* send_init_license
InitLicense(r) == [r EXCEPT !.st = "ResponsePending", !.rc_count = 1,
                            !.license_state = "Init", !.cbuffer = NoTag]

CanAsk(f) == kind # "man" /\ CanWrite(f) /\ fi[f].me # NULL

\* The first request of a logical entity, whatever it is, is its ASSIGN.
le_assign(f) ==
  LET m == fi[f].me
      r == ma[m]
      e == [fi[f] EXCEPT !.rc_count = 1,
              !.status = @ \cup {"RC_PENDING", "ASSIGN_PENDING"}]
  IN  /\ CanAsk(f) /\ ~fi[f].Id /\ ~fi[f].on_active_q
      /\ \/ /\ r.st \in {"RemovePending", "OutOfService"}
            /\ fi' = [fi EXCEPT ![f] = XdiCallbackRc(e, FALSE)]
            /\ UNCHANGED <<ma, up>>
         \/ /\ r.st \in {"Assigned", "ResponsePending", "Cancelled"}
            /\ fi' = [fi EXCEPT ![f] = XdiCallbackRc([e EXCEPT !.Id = TRUE], TRUE)]
            /\ UNCHANGED <<ma, up>>
         \/ /\ r.st \in {"Idle", "AssignPending"}
            /\ fi' = [fi EXCEPT ![f] = StartWdog([e EXCEPT !.on_active_q = TRUE])]
            /\ ma' = [ma EXCEPT ![m] =
                 IF r.st = "Idle"
                 THEN [OnActive(r, f) EXCEPT !.st = "AssignPending", !.rc_count = 1]
                 ELSE OnActive(r, f)]
            /\ Send(up, m, IF r.st = "Idle" THEN "ASSIGN" ELSE "none", NoTag)
      /\ UNCHANGED <<kind, present, nr_delayed_cleanup_entities, known, ghost>>

\* The requests of a logical entity: only the license data has a length here.
Requests == IF kind = "license" THEN {"WRITE"} \X LicLen ELSE {"READ", "WRITE"} \X {0}

\* A further request; it is sent at once when the master is not busy.  The
\* chained flag of the master is left as it is.
le_request(f, req, len) ==
  LET m == fi[f].me
      e == [fi[f] EXCEPT !.on_active_q = TRUE, !.buffer = req, !.len = len,
                         !.bit = NewBit(f)]
      r == OnActive(ma[m], f)
      g == Head(r.active)
      first == IF g = f THEN e ELSE fi[g]
      sends == r.st = "Assigned" /\ (kind = "license" => r.license_state = "Idle")
  IN  /\ CanAsk(f) /\ fi[f].Id /\ ~fi[f].on_active_q
      /\ fi' = [fi EXCEPT ![f] = StartWdog(e)]
      /\ ma' = [ma EXCEPT ![m] = IF ~sends THEN r
                                 ELSE IF kind = "idi" THEN Ask(r, first.buffer)
                                 ELSE InitLicense(r)]
      /\ Send(up, m, IF ~sends THEN "none" ELSE IF kind = "idi" THEN first.buffer
                     ELSE "EXECUTE", <<g, first.bit>>)
      /\ UNCHANGED <<kind, present, nr_delayed_cleanup_entities, known, ghost>>

\* A write while the request before waits is refused, but only after the
\* buffer of that request was overwritten.
le_busy(f, req, len) ==
  /\ CanAsk(f) /\ fi[f].on_active_q
  /\ fi' = [fi EXCEPT ![f].buffer = req, ![f].len = len]
  /\ UNCHANGED <<kind, present, nr_delayed_cleanup_entities, ma, up, known, ghost>>

(***************************************************************************)
(* diva_um_idi_read: a return code first, and no data while one is due.    *)
(***************************************************************************)
diva_um_idi_read(f) ==
  LET e == fi[f] IN
  /\ e.st = "open" /\ ~e.aborted /\ present
  /\ {"REMOVE_PENDING", "REMOVED"} \cap e.status = {}
  /\ \/ e.rc /\ fi' = [fi EXCEPT ![f].rc = FALSE, ![f].status = @ \ {"RC_PENDING"}]
     \/ /\ ~e.rc /\ "RC_PENDING" \notin e.status /\ e.data > 0
        /\ fi' = [fi EXCEPT ![f].data = @ - 1]
  /\ UNCHANGED <<kind, present, nr_delayed_cleanup_entities, ma, up, known, ghost>>

(***************************************************************************)
(* The callbacks of a master.  After its event the master that has nothing *)
(* outstanding sends the next request, or REMOVE when its last file has    *)
(* gone: Follow gives the master and the request, "none" if there is none. *)
(***************************************************************************)
Nothing(r) == [r |-> r, req |-> "none", tag |-> NoTag]
SendRemove(r) == [r |-> [r EXCEPT !.st = "RemovePending", !.rc_count = 1],
              req |-> "REMOVE", tag |-> NoTag]

\* Fault: the next request is not sent.
Follow_NoNext(r, fs) ==
  IF r.st = "Assigned" /\ r.active \o r.idle = <<>> THEN SendRemove(r) ELSE Nothing(r)
\* Fault: nothing is ever sent from the callback.
Follow_Nothing(r, fs) == Nothing(r)

Follow(r, fs) ==
  IF r.st # "Assigned" \/ (kind = "idi" /\ r.rc_count # 0)
  THEN Nothing(r)
  ELSE IF r.active # <<>>
  THEN LET g == Head(r.active) IN
       IF kind = "idi"
       THEN [r |-> [Ask(r, fs[g].buffer) EXCEPT !.chained = FALSE, !.cbuffer = NoTag],
             req |-> fs[g].buffer, tag |-> <<g, fs[g].bit>>]
       ELSE IF r.license_state = "Idle"
       THEN [r |-> InitLicense(r), req |-> "EXECUTE", tag |-> <<g, fs[g].bit>>]
       ELSE Nothing(r)
  ELSE IF r.idle = <<>> THEN SendRemove(r)
  ELSE Nothing(r)

\* What the card knows of x once it has delivered ev.
KnownAfter(x, ev) ==
  IF ev.k = "rc" /\ ev.req = "ASSIGN" /\ ev.ok THEN known \cup {x}
  ELSE IF ev.k = "rc" /\ ev.req = "REMOVE" THEN known \ {x} ELSE known

\* The event is consumed, the master becomes r and the files fs.
Done(m, u, r, fs, g) ==
  LET n == Follow(r, fs) IN
  /\ ma' = [ma EXCEPT ![m] = n.r]
  /\ fi' = fs
  /\ Send([up EXCEPT ![m] = Tail(u)], m, n.req, n.tag)
  /\ known' = KnownAfter(m, Head(u))
  /\ ghost' = ghost \cup g
  /\ UNCHANGED <<kind, present, nr_delayed_cleanup_entities>>

\* The callbacks take the next event from what the card delivers, u.
MasterEvent(m, u, k) == Head(u).k = k /\ ~ma[m].timeout

\* The file at the head of the active queue is through.
ToIdle(r) == [r EXCEPT !.active = Tail(@), !.idle = Append(@, Head(r.active))]
Wrong(r, tag) == Note(r.active = <<>> \/ tag # TagOf(Head(r.active)), "wrong")

\* The end of diva_um_idi_master_xdi_callback: the return code and the
\* indication in cbuffer go to the file at the head of the active queue; while
\* a chain is pending only the indication does.
Delivered(r, ok) ==
  LET f == Head(r.active)
      e == IF r.chained THEN fi[f]
           ELSE XdiCallbackRc([fi[f] EXCEPT !.on_active_q = FALSE, !.bit = 0,
                                         !.buffer = "none"], ok)
  IN  [fi EXCEPT ![f] = IF ok /\ r.cbuffer # NoTag THEN TakeInd(e) ELSE e]

AfterDelivery(r) == [(IF r.chained THEN r ELSE ToIdle(r)) EXCEPT !.cbuffer = NoTag]

\* The answer to the ASSIGN of a master, for both callbacks.
me_assign_rc(m, u) ==
  LET r == ma[m]
      ok == Head(u).ok
      told == Range(r.active)
  IN  /\ MasterEvent(m, u, "rc") /\ r.st = "AssignPending"
      /\ Done(m, u, [r EXCEPT !.st = IF ok THEN "Assigned" ELSE "OutOfService",
                           !.rc_count = 0, !.chained = FALSE, !.active = <<>>,
                           !.idle = @ \o r.active],
              [f \in File |-> IF f \notin told THEN fi[f] ELSE
                 XdiCallbackRc([fi[f] EXCEPT !.on_active_q = FALSE, !.Id = TRUE], ok)],
              {})

\* The answer to a REMOVE: the master is unlinked and freed.
me_removed(m, u) ==
  /\ MasterEvent(m, u, "rc") /\ ma[m].st = "RemovePending"
  /\ ma' = [ma EXCEPT ![m] = NoMaster]
  /\ up' = [up EXCEPT ![m] = <<>>]
  /\ known' = known \ {m}
  /\ ghost' = ghost \cup Note(Len(u) > 1 \/ m \in KnownAfter(m, Head(u)), "freed")
  /\ UNCHANGED <<kind, present, nr_delayed_cleanup_entities, fi>>

\* diva_um_idi_master_xdi_callback, a return code.
me_rc(m, u) ==
  LET r == ma[m]
      ev == Head(u)
      n == IF ev.ok THEN r.rc_count - 1 ELSE 0
      a == [r EXCEPT !.st = "Assigned", !.rc_count = 0, !.chained = FALSE]
  IN  /\ MasterEvent(m, u, "rc") /\ kind = "idi"
      /\ \/ /\ r.st \in {"ResponsePending", "Cancelled"} /\ n # 0
            /\ Done(m, u, [r EXCEPT !.rc_count = n], fi, {})
         \/ /\ r.st = "ResponsePending" /\ n = 0
            /\ Done(m, u, AfterDelivery(a), Delivered(a, ev.ok), Wrong(r, ev.tag))
         \/ /\ r.st = "Assigned" \/ (r.st = "Cancelled" /\ n = 0)
            /\ Done(m, u, IF r.st = "Assigned" THEN r ELSE a, fi, {})

\* An indication is announced: taken only while its file waits for it.
me_announced(m, u) ==
  LET r == ma[m]
      ev == Head(u)
      last == r.rc_count = 1
  IN  /\ MasterEvent(m, u, "ind") /\ kind = "idi"
      /\ \/ /\ r.st # "ResponsePending"
            /\ Done(m, u, [r EXCEPT !.rc_count = @ - 1,
                                 !.st = IF last THEN "Assigned" ELSE @,
                                 !.chained = @ /\ ~last],
                    fi, Note(ev.n > 0, "cut"))
         \/ /\ r.st = "ResponsePending"
            /\ up' = [up EXCEPT ![m] = [u EXCEPT ![1].k = "data"]]
            /\ UNCHANGED <<kind, present, nr_delayed_cleanup_entities, fi, ma, known, ghost>>

\* The indication is complete.  The first of a chain raises the count.
me_complete(m, u) ==
  LET r == ma[m]
      ev == Head(u)
      starts == ~r.chained /\ ev.n > 0
      n == r.rc_count - 1 + (IF starts THEN ev.n ELSE 0)
      a == [r EXCEPT !.cbuffer = ev.tag, !.rc_count = n,
                     !.st = IF n = 0 THEN "Assigned" ELSE @,
                     !.chained = n # 0 /\ (@ \/ starts)]
  IN  /\ MasterEvent(m, u, "data") /\ kind = "idi"
      /\ \/ /\ r.st # "ResponsePending"
            /\ Done(m, u, [r EXCEPT !.cbuffer = NoTag, !.rc_count = @ - 1,
                                 !.st = IF r.rc_count = 1 THEN "Assigned" ELSE @],
                    fi, Note(ev.n > 0, "cut"))
         \/ /\ r.st = "ResponsePending" /\ (n = 0 \/ a.chained)
            /\ Done(m, u, AfterDelivery(a), Delivered(a, TRUE),
                    Wrong(r, ev.tag) \cup Note(r.chained /\ ev.n > 0, "cut"))
         \/ /\ r.st = "ResponsePending" /\ n # 0 /\ ~a.chained
            /\ Done(m, u, a, fi, {})

\* A master that a watchdog has given up ignores the card.
me_timeout(m, u) ==
  /\ ma[m].timeout
  /\ up' = [up EXCEPT ![m] = Tail(u)]
  /\ known' = KnownAfter(m, Head(u))
  /\ UNCHANGED <<kind, present, nr_delayed_cleanup_entities, fi, ma, ghost>>

(***************************************************************************)
(* diva_um_idi_license_xdi_callback: the license data of a file is written *)
(* in pieces of at most 100 bytes, then the response is read.              *)
(***************************************************************************)
\* write_license_data: the length is cast to a byte.
ToWrite(rest) == LET b == rest % 256 IN IF b < 100 THEN b ELSE 100

\* delivery_license_response; it stops the watchdog only of an entity whose
\* removal is pending.
DeliverLicense(r) ==
  LET f == Head(r.active)
      e == [fi[f] EXCEPT !.on_active_q = FALSE, !.status = @ \ {"RC_PENDING"},
              !.bit = 0, !.buffer = "none", !.len = 0,
              !.timer = @ /\ "REMOVE_PENDING" \notin fi[f].status,
              !.rc_count = IF @ > 0 THEN @ - 1 ELSE 0]
  IN  [fi EXCEPT ![f] = TakeInd(e)]

Served(r) == [ToIdle(r) EXCEPT !.st = "Assigned", !.rc_count = 0,
                               !.license_state = "Idle"]

\* The next piece is written or, after the last, the response is read.
license_step(m, u, rest) ==
  LET r == ma[m]
      w == ToWrite(rest)
      tag == TagOf(Head(r.active))
  IN  /\ ma' = [ma EXCEPT ![m] =
           IF w # 0 THEN [r EXCEPT !.rc_count = 1, !.license_state = "Write",
                                   !.rest = rest - w]
           ELSE [r EXCEPT !.rc_count = 2, !.license_state = "WaitResponse",
                          !.rest = 0]]
      /\ Send([up EXCEPT ![m] = Tail(u)], m, IF w # 0 THEN "WRITE" ELSE "READ", tag)
      /\ UNCHANGED <<kind, present, nr_delayed_cleanup_entities, fi, known, ghost>>

license_rc(m, u) ==
  LET r == ma[m]
      ev == Head(u)
      f == Head(r.active)
      n == IF ev.ok THEN r.rc_count - 1 ELSE 0
  IN  /\ MasterEvent(m, u, "rc") /\ kind = "license"
      /\ \/ /\ r.st \in {"ResponsePending", "Cancelled"} /\ n # 0
            /\ Done(m, u, [r EXCEPT !.rc_count = n], fi, {})
         \/ /\ r.st = "ResponsePending" /\ ev.ok /\ n = 0 /\ r.license_state = "Init"
            /\ license_step(m, u, fi[f].len)
         \/ /\ r.st = "ResponsePending" /\ ev.ok /\ n = 0 /\ r.license_state = "Write"
            /\ license_step(m, u, r.rest)
         \/ /\ r.st = "ResponsePending" /\ ev.ok /\ n = 0
            /\ r.license_state = "WaitResponse"
            /\ Done(m, u, Served(r), DeliverLicense(r), Wrong(r, ev.tag))
         \/ /\ r.st = "ResponsePending" /\ ~ev.ok
            /\ Done(m, u, Served(r),
                    [fi EXCEPT ![f] = XdiCallbackRc([@ EXCEPT !.on_active_q = FALSE, !.bit = 0,
                                          !.buffer = "none", !.len = 0], FALSE)],
                    Wrong(r, ev.tag))
         \/ /\ r.st = "Cancelled" /\ n = 0
            /\ Done(m, u, [r EXCEPT !.rc_count = 0, !.st = "Assigned",
                                 !.license_state = "Idle"], fi, {})

\* The cancelled answer is over with its indication too, but license_state is
\* not reset then.
license_cancelled(m, u) ==
  LET r == ma[m]
      n == IF r.rc_count > 0 THEN r.rc_count - 1 ELSE 0
      last == r.rc_count = 1
  IN  /\ MasterEvent(m, u, "ind") \/ MasterEvent(m, u, "data")
      /\ kind = "license" /\ r.st # "ResponsePending"
      /\ Done(m, u, [r EXCEPT !.rc_count = n,
                           !.st = IF @ = "Cancelled" /\ last THEN "Assigned" ELSE @],
              fi, Note(last /\ r.st = "Cancelled" /\ r.license_state # "Idle", "stall"))

license_ind(m, u) ==
  LET r == ma[m]
      ev == Head(u)
  IN  /\ kind = "license" /\ r.st = "ResponsePending"
      /\ \/ /\ MasterEvent(m, u, "ind")
            /\ up' = [up EXCEPT ![m] = [u EXCEPT ![1].k = "data"]]
            /\ UNCHANGED <<kind, present, nr_delayed_cleanup_entities, fi, ma, known, ghost>>
         \/ /\ MasterEvent(m, u, "data") /\ r.rc_count > 1
            /\ Done(m, u, [r EXCEPT !.rc_count = @ - 1], fi, {})
         \/ /\ MasterEvent(m, u, "data") /\ r.rc_count = 1
            /\ Done(m, u, Served(r), DeliverLicense(r), Wrong(r, ev.tag))

(***************************************************************************)
(* Closing a logical entity: divas_um_idi_delete_entity.                   *)
(***************************************************************************)
\* The file's memory is free again; a handler of its watchdog that has begun
\* goes on (del_timer does not wait).
Freed(e) == [Closed EXCEPT !.handler = e.handler]

\* The card has the request of file f, which leaves.
Cancels(r, f) == fi[f].on_active_q /\ r.st = "ResponsePending" /\ Head(r.active) = f

um_idi_release(f) ==
  LET e == fi[f]
      m == e.me
      r == ma[m]
      s == [r EXCEPT !.active = IF e.on_active_q THEN RemoveFirst(@, f) ELSE @,
                     !.idle = IF e.on_active_q THEN @ ELSE RemoveFirst(@, f),
                     !.st = IF Cancels(r, f) THEN "Cancelled" ELSE @]
      last == s.active = <<>> /\ s.idle = <<>>
  IN  /\ e.st = "open" /\ kind # "man"
      /\ fi' = [fi EXCEPT ![f] = Freed(e)]
      /\ \/ /\ m = NULL
            /\ UNCHANGED <<ma, up, ghost, nr_delayed_cleanup_entities>>
         \/ /\ m # NULL /\ last /\ s.st = "Assigned"
            /\ ma' = [ma EXCEPT ![m] = [s EXCEPT !.st = "RemovePending", !.rc_count = 1]]
            /\ Send(up, m, "REMOVE", NoTag)
            /\ UNCHANGED <<ghost, nr_delayed_cleanup_entities>>
         \/ /\ m # NULL /\ last /\ s.st \in {"Idle", "OutOfService"}
            /\ ma' = [ma EXCEPT ![m] = IF s.timeout THEN [s EXCEPT !.st = "delayed"]
                                       ELSE NoMaster]
            /\ nr_delayed_cleanup_entities' =
                 nr_delayed_cleanup_entities + (IF s.timeout THEN 1 ELSE 0)
            /\ ghost' = ghost \cup Note(~s.timeout /\ ~Quiet(m), "freed")
            /\ UNCHANGED up
         \/ /\ m # NULL /\ ~(last /\ s.st \in {"Assigned", "Idle", "OutOfService"})
            /\ ma' = [ma EXCEPT ![m] = s]
            /\ UNCHANGED <<up, ghost, nr_delayed_cleanup_entities>>
      /\ UNCHANGED <<kind, present, known>>

(***************************************************************************)
(* The callbacks of a management entity.                                   *)
(***************************************************************************)
file_rc(f, u) ==
  LET ev == Head(u)
      e == IF ev.req = "REMOVE" THEN [fi[f] EXCEPT !.Id = FALSE] ELSE fi[f]
  IN  /\ kind = "man" /\ Head(u).k = "rc"
      /\ fi' = [fi EXCEPT ![f] = XdiCallbackRc(e, ev.ok)]
      /\ up' = [up EXCEPT ![f] = Tail(u)]
      /\ ghost' = ghost \cup Note("TIMEOUT" \notin e.status /\ ev.req # "REMOVE"
                                  /\ ev.tag # TagOf(f), "wrong")
      /\ known' = KnownAfter(f, ev)
      /\ UNCHANGED <<kind, present, nr_delayed_cleanup_entities, ma>>

\* With RNR the card repeats the indication when there is room.
file_ind(f, u) ==
  LET gone == {"REMOVE_PENDING", "TIMEOUT"} \cap fi[f].status # {} IN
  /\ kind = "man"
  /\ \/ /\ Head(u).k = "ind" /\ ~gone /\ Accepts(fi[f])
        /\ up' = [up EXCEPT ![f] = [u EXCEPT ![1].k = "data"]]
        /\ UNCHANGED fi
     \/ /\ Head(u).k = "ind" /\ gone
        /\ up' = [up EXCEPT ![f] = Tail(u)]
        /\ UNCHANGED fi
     \/ /\ Head(u).k = "data"
        /\ up' = [up EXCEPT ![f] = Tail(u)]
        /\ fi' = [fi EXCEPT ![f] = TakeInd(@)]
  /\ UNCHANGED <<kind, present, nr_delayed_cleanup_entities, ma, known, ghost>>

(***************************************************************************)
(* Closing a management entity: um_idi_release with remove_entity waits    *)
(* until the card has removed the entity or the watchdog ends the wait.    *)
(***************************************************************************)
\* divas_um_idi_entity_assigned also marks the entity.
Marked(e) == IF present THEN [e EXCEPT !.status = @ \cup {"REMOVE_PENDING"}] ELSE e
IsAssigned(e) == present /\ (e.Id \/ e.rc_count > 0 \/ "ASSIGN_PENDING" \in e.status)

remove_entity(f) ==
  LET e == StopWdog(Marked(fi[f])) IN
  /\ kind = "man" /\ fi[f].st = "open"
  /\ fi' = [fi EXCEPT ![f] = IF ~IsAssigned(e) \/ e.aborted
                             THEN [e EXCEPT !.st = "deleting"]
                             ELSE StartWdog([e EXCEPT !.st = "removing"])]
  /\ UNCHANGED <<kind, present, nr_delayed_cleanup_entities, ma, up, known, ghost>>

\* The first wait: until nothing is outstanding; REMOVE is sent then.
entity_start_remove(f) ==
  LET e == fi[f]
      sends == present /\ e.rc_count = 0 /\ e.Id
  IN  /\ e.st = "removing"
      /\ ~present \/ e.rc_count = 0 \/ e.aborted
      /\ fi' = [fi EXCEPT ![f] =
           IF sends THEN [e EXCEPT !.st = "waiting", !.Req = "REMOVE",
                                   !.rc_count = @ + 1]
           ELSE [e EXCEPT !.st = "waiting"]]
      /\ Send(up, f, IF sends THEN "REMOVE" ELSE "none", TagOf(f))
      /\ UNCHANGED <<kind, present, nr_delayed_cleanup_entities, ma, known, ghost>>

\* The second wait: until the entity is removed.
entity_removed(f) ==
  LET e == fi[f] IN
  /\ e.st = "waiting"
  /\ ~IsAssigned(e) \/ e.aborted
  /\ fi' = [fi EXCEPT ![f] = [StopWdog(Marked(e)) EXCEPT !.st = "deleting",
                                                         !.aborted = FALSE]]
  /\ UNCHANGED <<kind, present, nr_delayed_cleanup_entities, ma, up, known, ghost>>

\* Fault: a timeout is forgotten.
Late_Never(e) == FALSE

\* divas_um_idi_delete_entity: one that timed out is kept for later.
Late(e) == present /\ "TIMEOUT" \in e.status

divas_um_idi_delete_entity(f) ==
  LET e == fi[f] IN
  /\ e.st = "deleting"
  /\ \/ /\ Late(e)
        /\ fi' = [fi EXCEPT ![f] = [StopWdog(e) EXCEPT !.st = "delayed"]]
        /\ nr_delayed_cleanup_entities' = nr_delayed_cleanup_entities + 1
        /\ UNCHANGED <<up, known, ghost>>
     \/ /\ ~Late(e)
        /\ fi' = [fi EXCEPT ![f] = Freed(e)]
        /\ up' = [up EXCEPT ![f] = <<>>]
        /\ known' = known \ {f}
        /\ ghost' = ghost \cup Note(~Quiet(f), IF e.handler THEN "race" ELSE "freed")
        /\ UNCHANGED nr_delayed_cleanup_entities
  /\ UNCHANGED <<kind, present, ma>>

(***************************************************************************)
(* The watchdog of a file.                                                 *)
(***************************************************************************)
diva_um_timer_function(f) ==
  /\ fi[f].timer
  /\ fi' = [fi EXCEPT ![f].timer = FALSE, ![f].aborted = TRUE, ![f].handler = TRUE]
  /\ UNCHANGED <<kind, present, nr_delayed_cleanup_entities, ma, up, known, ghost>>

\* Its second half, under the lock: the file is looked for among the entities
\* of the adapter and the logical entities of the ordinary masters.
divas_um_notify_timeout(f) ==
  LET e == fi[f]
      man == kind = "man" /\ present /\ e.st \in {"open", "removing", "waiting", "deleting"}
      log == kind = "idi" /\ e.me # NULL
  IN  /\ e.handler
      /\ fi' = [fi EXCEPT ![f].handler = FALSE,
                  ![f].status = IF man THEN @ \cup {"TIMEOUT"} ELSE @]
      /\ ma' = IF log THEN [ma EXCEPT ![e.me].timeout = TRUE] ELSE ma
      /\ nr_delayed_cleanup_entities' =
           nr_delayed_cleanup_entities + (IF log THEN 1 ELSE 0)
      /\ UNCHANGED <<kind, present, up, known, ghost>>

(***************************************************************************)
(* diva_user_mode_idi_remove_adapter with cleanup_adapter.                 *)
(***************************************************************************)
diva_user_mode_idi_remove_adapter ==
  /\ present
  /\ present' = FALSE
  /\ fi' = [f \in File |->
       IF fi[f].st = "closed" THEN fi[f]
       ELSE IF fi[f].st = "delayed" THEN Freed(fi[f])
       ELSE [fi[f] EXCEPT !.status = {"REMOVED", "REMOVE_PENDING"}, !.Id = FALSE,
                          !.rc_count = 0, !.me = NULL]]
  /\ ma' = [m \in Master |-> NoMaster]
  /\ up' = [x \in Ent |-> <<>>]
  /\ known' = {}
  /\ UNCHANGED <<kind, nr_delayed_cleanup_entities, ghost>>

\* The XDI has no entity for the ASSIGN of a master and calls nobody back.
xdi_ignores(m) ==
  /\ up[m] # <<>> /\ Head(up[m]).k = "req" /\ Head(up[m]).req = "ASSIGN"
  /\ up' = [up EXCEPT ![m] = Tail(@)]
  /\ UNCHANGED <<kind, present, nr_delayed_cleanup_entities, fi, ma, known, ghost>>

ManReq == {"ASSIGN", "READ", "WRITE", "REMOVE"}

\* An event of a file or of a master is delivered.
callback(x) ==
  \E u \in Deliveries(x) :
  \/ /\ x \in Master
     /\ \/ me_assign_rc(x, u) \/ me_removed(x, u) \/ me_rc(x, u) \/ me_announced(x, u)
        \/ me_complete(x, u) \/ me_timeout(x, u)
        \/ license_rc(x, u) \/ license_cancelled(x, u) \/ license_ind(x, u)
  \/ x \in File /\ (file_rc(x, u) \/ file_ind(x, u))

\* A close that has begun goes on.
closing(f) ==
  entity_start_remove(f) \/ entity_removed(f) \/ divas_um_idi_delete_entity(f)

Next ==
  \/ \E f \in File :
       \/ um_idi_open_adapter(f) \/ le_assign(f) \/ diva_um_idi_read(f)
       \/ \E req \in ManReq : process_idi_request(f, req)
       \/ \E q \in Requests : le_request(f, q[1], q[2]) \/ le_busy(f, q[1], q[2])
       \/ um_idi_release(f) \/ remove_entity(f) \/ closing(f)
       \/ diva_um_timer_function(f) \/ divas_um_notify_timeout(f)
  \/ \E x \in Ent : callback(x)
  \/ \E m \in Master : xdi_ignores(m)
  \/ diva_user_mode_idi_remove_adapter

Spec == Init /\ [][Next]_vars

(***************************************************************************)
(* Properties.                                                             *)
(***************************************************************************)
\* Every open logical entity is on one queue of its master, once, and on the
\* active one exactly if on_active_q says so; no queue holds another entity.
\* divas_um_idi_delete_entity picks the queue to unlink from by on_active_q.
Times(f, q) == Cardinality({i \in DOMAIN q : q[i] = f})
QueuesSound ==
  \A f \in File, m \in Master :
    /\ Times(f, ma[m].active) = IF fi[f].me = m /\ fi[f].on_active_q THEN 1 ELSE 0
    /\ Times(f, ma[m].idle) = IF fi[f].me = m /\ ~fi[f].on_active_q THEN 1 ELSE 0

\* What the card answers reaches the file that asked, for its latest request,
\* although files share a master and may close at any moment; except after
\* the announcement of a chain was dropped with the answer of a closed file.
AnswerToAsker == "wrong" \in ghost => "cut" \in ghost

\* Nothing is freed that the card may still call back, except when a close
\* comes between the two halves of the watchdog's handler, which sets aborted
\* before DIVA_UM_IDI_TIMEOUT, and after a chain was cut.
FreedIsQuiet == "freed" \in ghost => "cut" \in ghost

\* A master that can send has nobody waiting: the callbacks and the requests
\* never leave a file on the active queue of an idle master.  The license
\* master does after an answer was cancelled between its two parts.
NoStall ==
  \A m \in Master : ma[m].st \in {"Idle", "Assigned"} /\ ma[m].active # <<>>
                      => "stall" \in ghost

\* A file that waits for its master, and a close that waits for the card, has
\* its watchdog running unless the watchdog has fired, so a dead card blocks
\* nobody for ever: neither a return code nor the removal of the adapter stops
\* the watchdog of a close.  The watchdog of an ordinary logical entity runs
\* for nothing but a wait.
Watched ==
  \A f \in File :
    LET e == fi[f] IN
    /\ e.me # NULL /\ e.on_active_q => e.timer \/ e.aborted
    /\ e.st \in {"removing", "waiting"} => e.timer \/ e.aborted
    /\ kind = "idi" /\ e.me # NULL /\ e.timer => e.on_active_q

\* A master without files is on its way out: the card owes it an answer, or a
\* watchdog has given it up, or its ASSIGN was ignored or refused.
MasterLeaves ==
  \A m \in Master : ma[m].active \o ma[m].idle = <<>> =>
    \/ ma[m].st \in {"free", "delayed", "AssignPending", "OutOfService"}
    \/ ma[m].timeout
    \/ up[m] # <<>>
=============================================================================
