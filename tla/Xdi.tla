-------------------------------- MODULE Xdi --------------------------------
(***************************************************************************)
(* The request path of one XDI adapter (kernel/di.c with request and       *)
(* DIDpcRoutine of kernel/io.c): clients hand entities to request, the DPC *)
(* sends them to the card in pr_out and applies the card's return codes in *)
(* isdn_rc.                                                                *)
(*                                                                         *)
(* Three parties interleave: clients, which call request on any CPU; the   *)
(* DPC, of which one instance runs (module SoftIsr); and the card, which takes *)
(* requests out of the shared memory and puts return codes into it.  The   *)
(* steps of the DPC are separated wherever the others can come between:    *)
(* after each return code, before each look at the request queue, and      *)
(* before the filled request buffers are published in ReqInput.            *)
(*                                                                         *)
(* The request queue is a sequence of table slots and the reference of an  *)
(* ASSIGN is its slot: module EntityTable shows that the linked lists of   *)
(* io.c implement both.  The table never fills up here.  A request is its  *)
(* code, its channel and the number of buffers of the card it needs.       *)
(*                                                                         *)
(* request does not look whether an entity without Id is in the table: one *)
(* that asks again before its ASSIGN is answered gets a second slot and is *)
(* queued a second time.  The clients in this repository wait (nl_req and  *)
(* sig_req of message.c, DIVA_UM_IDI_RC_PENDING of um_idi.c, req_busy of   *)
(* maintidi.c).  The step is here, but it is the last one (twice): the two *)
(* ASSIGNs share e->No, and get_assign may never return.                   *)
(*                                                                         *)
(* The card is external.  What it does is taken from the code that talks   *)
(* to it: it answers the requests in order, posts a new batch of return    *)
(* codes after the host cleared the interrupt, and while a channel is flow *)
(* controlled answers its requests OK_FC and one OK when it is released    *)
(* (the comment at the end of the REMOVE case of isdn_rc).                 *)
(***************************************************************************)
EXTENDS Naturals, Sequences, FiniteSets

CONSTANTS Entity,       \* the clients' ENTITY structures
          NL,           \* those of type NL_ID
          Id,           \* the Ids the card assigns
          NumCh,        \* channels of an entity
          NumReq,       \* request buffers of the card
          MaxFrag,      \* most request buffers one request needs
          Kinds,        \* requests the clients use besides ASSIGN
          Setups,       \* what meets: ext, the card labels its return codes;
                        \* wait, clients spare a channel until its release
          NULL

ASSUME XdiAssumption ==
  /\ NL \subseteq Entity /\ NULL \notin Entity
  /\ 0 \notin Id
  /\ NumCh \in Nat /\ NumReq \in Nat \ {0} /\ MaxFrag \in Nat \ {0}
  /\ Kinds \subseteq {"DATA", "DISC", "REMOVE", "UREMOVE"}
  /\ Setups \subseteq [ext : BOOLEAN, wait : BOOLEAN]

\* Room for the slot of a failed ASSIGN and for a second one of an entity.
Slot == 1 .. (Cardinality(Entity) + 2)

\* The channels of the adapter; one belongs to one entity at a time.
Ch == Entity \X (1 .. NumCh)
NoCh == <<NULL, 0>>

VARIABLES
  \* ENTITY
  eId, eNo, More,   \* Id, No, More
  Req,              \* the request: Req, ReqCh and what is left of X
  held,             \* channels the clients know to be flow controlled
  \* ADAPTER and ISDN_ADAPTER
  e_tbl, queue, IdTable, flags, FlowControlIdTable, FlowControlSkipTable,
  RcExtensionSupported, ReadyInt, soft_isr,
  \* locals of the DPC
  pc, ReadyCount, filled, this, failed,
  \* the card and the memory shared with it
  irq, ReqMem, RcMem, cardRc, cardIds, cardFc, cardReadyInt, setup,
  twice             \* history: an entity asked for a second slot

entity == <<eId, eNo, More, Req, held>>
tables == <<e_tbl, IdTable, flags, FlowControlIdTable, FlowControlSkipTable,
            RcExtensionSupported>>
locals == <<ReadyCount, filled, this, failed>>
card == <<cardRc, cardIds, cardFc, cardReadyInt, setup>>
vars == <<entity, tables, queue, ReadyInt, soft_isr, pc, locals, irq, ReqMem,
          RcMem, card, twice>>

(***************************************************************************)
(* The byte More: bits 0-3 count the return codes to come.                 *)
(***************************************************************************)
XMOREP == 16       \* part of a chained request sent, the rest is queued
XMOREF == 32       \* the end of the request was sent
XBUSY == 64
Has(m, bit) == (m \div bit) % 2 = 1
Set(m, bit) == IF Has(m, bit) THEN m ELSE m + bit
Clr(m, bit) == IF Has(m, bit) THEN m - bit ELSE m
XMOREC(m) == m % 16

ReqCodes == {"ASSIGN", "DATA", "DISC", "REMOVE", "UREMOVE"}
Requests == [code : ReqCodes, ch : Ch \cup {NoCh}, left : 0 .. MaxFrag]

\* A request buffer: the code MDATA (MInd) marks a part of a chained request.
ReqBufs == [code : ReqCodes \cup {"MDATA"}, id : Id \cup {0}, ch : Ch \cup {NoCh},
            ref : Slot]

\* A return code with its extended information type.  The release of flow
\* control by a card that does not label it is told apart for the properties
\* only ("unlabelled"): the code sees "none".
RetCodes == [rc : {"OK", "OK_FC", "ASSIGN_OK", "ASSIGN_BAD", "READY_INT"},
             id : Id \cup {0}, ch : Ch \cup {NoCh}, ref : Slot \cup {0},
             type : {"none", "unlabelled", "OK_FC", "REMOVE_COMPLETE"}]

Init ==
  /\ eId = [x \in Entity |-> 0] /\ eNo = [x \in Entity |-> 0]
  /\ More = [x \in Entity |-> 0]
  /\ Req = [x \in Entity |-> [code |-> "ASSIGN", ch |-> NoCh, left |-> 0]]
  /\ held = {}
  /\ e_tbl = [s \in Slot |-> NULL] /\ queue = <<>>
  /\ IdTable = [i \in Id |-> 0] /\ flags = [s \in Slot |-> {}]
  /\ FlowControlIdTable = [c \in Ch |-> 0]
  /\ FlowControlSkipTable = [c \in Ch |-> FALSE]
  /\ RcExtensionSupported = FALSE /\ ReadyInt = 0
  /\ soft_isr = FALSE /\ pc = "idle"
  /\ ReadyCount = 0 /\ filled = <<>> /\ this = NULL /\ failed = 0
  /\ irq = FALSE /\ ReqMem = <<>> /\ RcMem = <<>>
  /\ cardRc = <<>> /\ cardIds = {} /\ cardFc = {} /\ cardReadyInt = 0
  /\ setup \in Setups /\ twice = FALSE

-----------------------------------------------------------------------------
(***************************************************************************)
(* Clients: request().                                                     *)
(***************************************************************************)

\* Fault: the entity is not marked busy.
Accept_NoBusy(x, s, m, r) ==
  /\ More' = [More EXCEPT ![x] = Clr(m, XMOREF)]
  /\ Req' = [Req EXCEPT ![x] = r]
  /\ queue' = Append(queue, s)
  /\ soft_isr' = TRUE

\* The common end: mark the entity busy, queue it, schedule the DPC.
Accept(x, s, m, r) ==
  /\ More' = [More EXCEPT ![x] = Clr(Set(m, XBUSY), XMOREF)]
  /\ Req' = [Req EXCEPT ![x] = r]
  /\ queue' = Append(queue, s)
  /\ soft_isr' = TRUE

\* The entity waits for the answer to its ASSIGN.
Waits(x) == \E s \in Slot \ {failed} : e_tbl[s] = x

\* ASSIGN: the entity gets the first free slot.  More is cleared before it is
\* looked at, so an entity that waits is not ignored.
RequestAssign(x) ==
  /\ eId[x] = 0
  /\ \E s \in Slot :
       /\ e_tbl[s] = NULL /\ \A t \in 1 .. (s - 1) : e_tbl[t] # NULL
       /\ e_tbl' = [e_tbl EXCEPT ![s] = x]
       /\ eNo' = [eNo EXCEPT ![x] = s]
       /\ Accept(x, s, 0, [code |-> "ASSIGN", ch |-> NoCh, left |-> 1])
  /\ UNCHANGED <<eId, held, IdTable, flags, FlowControlIdTable,
                 FlowControlSkipTable, RcExtensionSupported, ReadyInt, pc, locals, irq, ReqMem,
                 RcMem, card>>

\* Fault: the client does not wait for the release before it asks for more.
MayUse_NoWait(x, code, ch) == code = "DATA" => ch \notin held

\* A client sends no data on a channel that is flow controlled, and if it
\* waits for the release, nothing else and no REMOVE either.
MayUse(x, code, ch) ==
  /\ code = "DATA" \/ setup.wait => ch \notin held
  /\ code \in {"REMOVE", "UREMOVE"} /\ setup.wait =>
       \A c \in 1 .. NumCh : <<x, c>> \notin held

\* Fault: a busy entity is queued again.
Request_Busy(x, code, ch, n) ==
  /\ eId[x] # 0
  /\ code # "DATA" => n = 1
  /\ MayUse(x, code, ch)
  /\ Accept(x, eNo[x], More[x], [code |-> code, ch |-> ch, left |-> n])
  /\ UNCHANGED <<eId, eNo, held, tables, ReadyInt, pc, locals, irq, ReqMem, RcMem, card>>

\* Any other request; one for an entity that is still busy is ignored.
Request(x, code, ch, n) ==
  /\ eId[x] # 0
  /\ code # "DATA" => n = 1
  /\ MayUse(x, code, ch)
  /\ ~Has(More[x], XBUSY)
  /\ Accept(x, eNo[x], More[x], [code |-> code, ch |-> ch, left |-> n])
  /\ UNCHANGED <<eId, eNo, held, tables, ReadyInt, pc, locals, irq, ReqMem, RcMem, card>>

-----------------------------------------------------------------------------
(***************************************************************************)
(* The DPC: DIDpcRoutine, pr_dpc and pr_out.  pc is the place it is at:    *)
(* rc (the loop over return codes), free (the end of a failed ASSIGN),     *)
(* out1 and send1 (pr_out called by pr_dpc), clr (clr_irq), out2 and send2 *)
(* (pr_out called by DIDpcRoutine).                                        *)
(***************************************************************************)
DpcStart ==
  /\ pc = "idle" /\ soft_isr
  /\ soft_isr' = FALSE
  /\ pc' = IF irq THEN "rc" ELSE "out2"
  /\ UNCHANGED <<entity, tables, queue, ReadyInt, locals, irq, ReqMem, RcMem, card>>

\* All return codes are applied: pr_dpc calls pr_out.
RcLoopEnd ==
  /\ pc = "rc" /\ RcMem = <<>>
  /\ pc' = "out1"
  /\ UNCHANGED <<entity, tables, queue, ReadyInt, soft_isr, locals, irq, ReqMem,
                 RcMem, card>>

clr_irq ==
  /\ pc = "clr"
  /\ irq' = FALSE /\ pc' = "out2"
  /\ UNCHANGED <<entity, tables, queue, ReadyInt, soft_isr, locals, ReqMem, RcMem,
                 card>>

AfterOut == IF pc \in {"out1", "send1"} THEN "clr" ELSE "idle"

\* Fault: the ready interrupt is asked for again while it is pending.
pr_ready_Again ==
  /\ pc \in {"out1", "out2"}
  /\ LET ready == NumReq - Len(ReqMem) IN
     IF queue = <<>>
     THEN /\ pc' = AfterOut
          /\ UNCHANGED <<ReadyInt, cardReadyInt, ReadyCount, this>>
     ELSE IF ready = 0
     THEN /\ ReadyInt' = 1
          /\ cardReadyInt' = cardReadyInt + 1
          /\ pc' = AfterOut
          /\ UNCHANGED <<ReadyCount, this>>
     ELSE /\ ReadyCount' = ready /\ this' = NULL
          /\ pc' = IF pc = "out1" THEN "send1" ELSE "send2"
          /\ UNCHANGED <<ReadyInt, cardReadyInt>>
  /\ UNCHANGED <<entity, tables, queue, soft_isr, filled, failed, irq, ReqMem, RcMem,
                 cardRc, cardIds, cardFc, setup>>

\* pr_out up to its loop; pr_ready asks the card for a ready interrupt when
\* there is no free request buffer.
pr_ready ==
  /\ pc \in {"out1", "out2"}
  /\ LET ready == NumReq - Len(ReqMem) IN
     IF queue = <<>>
     THEN /\ pc' = AfterOut
          /\ UNCHANGED <<ReadyInt, cardReadyInt, ReadyCount, this>>
     ELSE IF ready = 0
     THEN /\ ReadyInt' = 1
          /\ cardReadyInt' = cardReadyInt + (1 - ReadyInt)
          /\ pc' = AfterOut
          /\ UNCHANGED <<ReadyCount, this>>
     ELSE /\ ReadyCount' = ready /\ this' = NULL
          /\ pc' = IF pc = "out1" THEN "send1" ELSE "send2"
          /\ UNCHANGED <<ReadyInt, cardReadyInt>>
  /\ UNCHANGED <<entity, tables, queue, soft_isr, filled, failed, irq, ReqMem, RcMem,
                 cardRc, cardIds, cardFc, setup>>

Sending == pc \in {"send1", "send2"} /\ queue # <<>> /\ ReadyCount > 0

\* One turn of pr_out's loop fills a request buffer; the entity goes back to
\* the end of the queue while there is more of its request to send.
Fill(code, x, s) ==
  /\ filled' = Append(filled, [code |-> code, id |-> eId[x], ch |-> Req[x].ch,
                               ref |-> s])
  /\ Req' = [Req EXCEPT ![x].left = @ - 1]
  /\ ReadyCount' = ReadyCount - 1
  /\ this' = x
  /\ UNCHANGED <<eId, eNo, held, e_tbl, IdTable, FlowControlIdTable, RcExtensionSupported,
                 ReadyInt, soft_isr, pc, failed, irq, ReqMem, RcMem, card>>

\* Fault: the part is not counted in XMOREC.
SendPart_NoCount ==
  /\ Sending
  /\ LET s == Head(queue)
         x == e_tbl[s] IN
     /\ eId[x] # 0 /\ Req[x].left > 1 /\ x \in NL
     /\ More' = [More EXCEPT ![x] = Set(@, XMOREP)]
     /\ queue' = Append(Tail(queue), eNo[x])
     /\ Fill("MDATA", x, s)
  /\ UNCHANGED <<flags, FlowControlSkipTable>>

\* Fault: the entity is not put back into the queue for the rest.
SendPart_Lost ==
  /\ Sending
  /\ LET s == Head(queue)
         x == e_tbl[s] IN
     /\ eId[x] # 0 /\ Req[x].left > 1 /\ x \in NL
     /\ More' = [More EXCEPT ![x] = Set((@ + 1) % 256, XMOREP)]
     /\ queue' = Tail(queue)
     /\ Fill("MDATA", x, s)
  /\ UNCHANGED <<flags, FlowControlSkipTable>>

\* A part of a chained request of an NL entity.
SendPart ==
  /\ Sending
  /\ LET s == Head(queue)
         x == e_tbl[s] IN
     /\ eId[x] # 0 /\ Req[x].left > 1 /\ x \in NL
     /\ More' = [More EXCEPT ![x] = Set((@ + 1) % 256, XMOREP)]
     /\ queue' = Append(Tail(queue), eNo[x])
     /\ Fill("MDATA", x, s)
  /\ UNCHANGED <<flags, FlowControlSkipTable>>

\* The last or only part of a request.
SendEnd ==
  /\ Sending
  /\ LET s == Head(queue)
         x == e_tbl[s] IN
     /\ eId[x] # 0 /\ (Req[x].left > 1 => x \notin NL)
     /\ More' = [More EXCEPT ![x] = Clr(Set((@ + 1) % 256, XMOREF), XMOREP)]
     /\ queue' = Tail(queue)
     /\ FlowControlSkipTable' =
          [FlowControlSkipTable EXCEPT
             ![Req[x].ch] = @ \/ FlowControlIdTable[Req[x].ch] = eId[x]]
     /\ flags' = IF Req[x].code = "REMOVE"
                 THEN [flags EXCEPT ![s] = @ \cup {"REMOVE_PENDING"}]
                 ELSE flags
     /\ Fill(Req[x].code, x, s)

\* An ASSIGN, which carries the slot as its reference.
SendAssign ==
  /\ Sending
  /\ LET s == Head(queue)
         x == e_tbl[s] IN
     /\ eId[x] = 0
     /\ More' = [More EXCEPT ![x] = Clr(Set(@, XMOREF), XMOREP)]
     /\ queue' = Tail(queue)
     /\ Fill("ASSIGN", x, s)
  /\ UNCHANGED <<flags, FlowControlSkipTable>>

\* The Id is gone: forget the channels it flow controlled.
DropFlowControl(i) ==
  [c \in Ch |-> IF FlowControlIdTable[c] = i THEN 0 ELSE FlowControlIdTable[c]]

\* The end of pr_out: publish the filled buffers in ReqInput, then remove
\* the Id when the last request was a UREMOVE, which gets no return code.
Publish ==
  /\ pc \in {"send1", "send2"} /\ (queue = <<>> \/ ReadyCount = 0)
  /\ ReqMem' = ReqMem \o filled /\ filled' = <<>>
  /\ pc' = AfterOut
  /\ IF Req[this].code = "UREMOVE" /\ eId[this] # 0
     THEN /\ e_tbl' = [e_tbl EXCEPT ![IdTable[eId[this]]] = NULL]
          /\ FlowControlIdTable' = DropFlowControl(eId[this])
          /\ IdTable' = [IdTable EXCEPT ![eId[this]] = 0]
          /\ eId' = [eId EXCEPT ![this] = 0]
          /\ held' = {c \in held : c[1] # this}
     ELSE UNCHANGED <<e_tbl, FlowControlIdTable, IdTable, eId, held>>
  /\ ReadyCount' = 0 /\ this' = NULL
  /\ UNCHANGED <<eNo, More, Req, flags, FlowControlSkipTable, RcExtensionSupported,
                 queue, ReadyInt, soft_isr, failed, irq, RcMem, card>>

-----------------------------------------------------------------------------
(***************************************************************************)
(* isdn_rc: the first return code of the batch.                            *)
(***************************************************************************)
r == Head(RcMem)
rcSlot == IF r.id \in Id THEN IdTable[r.id] ELSE 0

TakeRc ==
  /\ pc = "rc" /\ RcMem # <<>>
  /\ RcMem' = Tail(RcMem)
  /\ UNCHANGED <<eNo, Req, queue, soft_isr, ReadyCount, filled, this, irq, ReqMem, card>>

RcReadyInt ==
  /\ TakeRc /\ r.rc = "READY_INT"
  /\ ReadyInt' = IF ReadyInt > 0 THEN ReadyInt - 1 ELSE 0
  /\ UNCHANGED <<eId, More, held, tables, pc, failed>>

RemoveRc == "REMOVE_PENDING" \in flags[rcSlot] /\ r.rc = "OK"

\* An OK before the REMOVE is complete: not the one to wait for.
IgnoredRc ==
  /\ RemoveRc /\ e_tbl[rcSlot] \in NL
  /\ RcExtensionSupported /\ r.type # "REMOVE_COMPLETE"

RcIgnored ==
  /\ TakeRc /\ r.rc # "READY_INT" /\ rcSlot # 0 /\ IgnoredRc
  /\ UNCHANGED <<eId, More, held, tables, ReadyInt, pc, failed>>

\* Any other return code of a known Id.  That of a REMOVE first frees the
\* entity; then OK_FC, a labelled release, an unlabelled release and a
\* plain return code are told apart, in this order.
RcKnown ==
  /\ TakeRc /\ r.rc # "READY_INT" /\ rcSlot # 0 /\ ~IgnoredRc
  /\ LET s == rcSlot
         x == e_tbl[s]
         m == IF RemoveRc /\ XMOREC(More[x]) > 1
              THEN More[x] - XMOREC(More[x]) + 1 ELSE More[x]
         fs == IF RemoveRc THEN {} ELSE flags[s]
         fc == IF RemoveRc THEN DropFlowControl(r.id) ELSE FlowControlIdTable
         cancel_rc == "NO_RC_CANCELLING" \notin fs
         dec == IF XMOREC(m) > 0 THEN m - 1 ELSE m
         answered == Clr(m - XMOREC(m), XBUSY)
         release == cancel_rc /\ r.ch \in Ch /\ fc[r.ch] = r.id
         told == r.rc # "OK" \/ ~FlowControlSkipTable[r.ch]
         done == /\ ~cancel_rc \/ Has(dec, XMOREF)
                 /\ XMOREC(dec) = 0 /\ ~Has(dec, XMOREP)
         free == IF RemoveRc THEN {c \in held : c[1] = x} ELSE {r.ch}
     IN
     /\ e_tbl' = IF RemoveRc THEN [e_tbl EXCEPT ![s] = NULL] ELSE e_tbl
     /\ IdTable' = IF RemoveRc THEN [IdTable EXCEPT ![r.id] = 0] ELSE IdTable
     /\ eId' = IF RemoveRc THEN [eId EXCEPT ![x] = 0] ELSE eId
     /\ RcExtensionSupported' =
          (RcExtensionSupported \/ (RemoveRc /\ x \in NL /\ r.type = "REMOVE_COMPLETE"))
     /\ \/ /\ r.rc = "OK_FC"
           /\ More' = [More EXCEPT ![x] = answered]
           /\ held' = held \cup {r.ch}
           /\ FlowControlIdTable' = [fc EXCEPT ![r.ch] = r.id]
           /\ FlowControlSkipTable' = [FlowControlSkipTable EXCEPT ![r.ch] = FALSE]
           /\ flags' = [flags EXCEPT ![s] = fs]
        \/ /\ r.rc # "OK_FC" /\ r.type = "OK_FC"
           /\ More' = [More EXCEPT ![x] = m]
           /\ held' = held \ free
           /\ flags' = [flags EXCEPT ![s] = fs \cup {"NO_RC_CANCELLING"}]
           /\ FlowControlIdTable' = fc
           /\ UNCHANGED FlowControlSkipTable
        \/ /\ r.rc # "OK_FC" /\ r.type # "OK_FC" /\ release
           /\ More' = [More EXCEPT ![x] =
                         IF told /\ r.ch = Req[x].ch THEN answered ELSE m]
           /\ held' = IF told THEN held \ free ELSE held
           /\ FlowControlIdTable' = [fc EXCEPT ![r.ch] = 0]
           /\ flags' = [flags EXCEPT ![s] = fs]
           /\ UNCHANGED FlowControlSkipTable
        \/ /\ r.rc # "OK_FC" /\ r.type # "OK_FC" /\ ~release
           /\ More' = [More EXCEPT ![x] =
                         IF done THEN Clr(dec, XBUSY) ELSE dec]
           /\ held' = IF done THEN held \ free ELSE held
           /\ FlowControlIdTable' = fc
           /\ flags' = [flags EXCEPT ![s] = fs]
           /\ UNCHANGED FlowControlSkipTable
  /\ UNCHANGED <<ReadyInt, pc, failed>>

\* Fault: the Id of the new entity is not entered in IdTable.
RcAssign_NoId ==
  /\ TakeRc /\ r.rc \in {"ASSIGN_OK", "ASSIGN_BAD"} /\ rcSlot = 0
  /\ LET x == e_tbl[r.ref] IN
     /\ eId' = [eId EXCEPT ![x] = r.id]
     /\ More' = [More EXCEPT ![x] = Clr(@, XBUSY)]
  /\ UNCHANGED <<tables, ReadyInt, held, pc, failed>>

\* The return code of an ASSIGN.  The client's callback runs before IdTable
\* is set, or before the slot of a failed ASSIGN is freed (RcFree): then it
\* may call request again.
RcAssign ==
  /\ TakeRc /\ r.rc \in {"ASSIGN_OK", "ASSIGN_BAD"} /\ rcSlot = 0
  /\ LET x == e_tbl[r.ref] IN
     /\ eId' = [eId EXCEPT ![x] = r.id]
     /\ More' = [More EXCEPT ![x] = Clr(@, XBUSY)]
  /\ IF r.rc = "ASSIGN_OK"
     THEN /\ IdTable' = [IdTable EXCEPT ![r.id] = r.ref]
          /\ UNCHANGED <<pc, failed>>
     ELSE /\ pc' = "free" /\ failed' = r.ref
          /\ UNCHANGED IdTable
  /\ UNCHANGED <<e_tbl, flags, FlowControlIdTable, FlowControlSkipTable,
                 RcExtensionSupported, ReadyInt, held>>

\* The slot of a failed ASSIGN is freed after the callback.
RcFree ==
  /\ pc = "free"
  /\ e_tbl' = [e_tbl EXCEPT ![failed] = NULL]
  /\ pc' = "rc" /\ failed' = 0
  /\ UNCHANGED <<entity, IdTable, flags, FlowControlIdTable, FlowControlSkipTable,
                 RcExtensionSupported, queue, ReadyInt, soft_isr, ReadyCount,
                 filled, this, irq, ReqMem, RcMem, card>>

\* A return code of an Id that is not known (any more).
RcUnknown ==
  /\ TakeRc /\ r.rc \in {"OK", "OK_FC"} /\ rcSlot = 0
  /\ UNCHANGED <<eId, More, held, tables, ReadyInt, pc, failed>>

isdn_rc == RcReadyInt \/ RcIgnored \/ RcKnown \/ RcAssign \/ RcUnknown

-----------------------------------------------------------------------------
(***************************************************************************)
(* The card.                                                               *)
(***************************************************************************)
CardOnly == UNCHANGED <<entity, tables, queue, ReadyInt, pc, locals, setup>>

Answer(rc, q, type) ==
  cardRc' = Append(cardRc, [rc |-> rc, id |-> q.id, ch |-> q.ch, ref |-> 0,
                            type |-> type])

\* The card takes the next request and answers it.
CardTake ==
  /\ ReqMem # <<>>
  /\ ReqMem' = Tail(ReqMem)
  /\ LET q == Head(ReqMem)
         fc == <<q.id, q.ch>> \in cardFc IN
     \/ /\ q.code = "ASSIGN"
        /\ \E i \in (Id \ cardIds) \cup {0} :
             /\ cardIds' = IF i = 0 THEN cardIds ELSE cardIds \cup {i}
             /\ cardRc' = Append(cardRc,
                  [rc |-> IF i = 0 THEN "ASSIGN_BAD" ELSE "ASSIGN_OK", id |-> i,
                   ch |-> NoCh, ref |-> q.ref, type |-> "none"])
        /\ UNCHANGED cardFc
     \/ /\ q.code = "MDATA" \/ (q.code \in {"DATA", "DISC"} /\ ~fc)
        /\ Answer("OK", q, "none")
        /\ UNCHANGED <<cardIds, cardFc>>
     \/ /\ q.code = "DATA" \/ (q.code = "DISC" /\ fc)
        /\ Answer("OK_FC", q, "none")
        /\ cardFc' = cardFc \cup {<<q.id, q.ch>>}
        /\ UNCHANGED cardIds
     \/ /\ q.code = "REMOVE"
        /\ Answer("OK", q, IF setup.ext THEN "REMOVE_COMPLETE" ELSE "none")
        /\ cardIds' = cardIds \ {q.id}
        /\ cardFc' = {f \in cardFc : f[1] # q.id}
     \/ /\ q.code = "UREMOVE"
        /\ cardIds' = cardIds \ {q.id}
        /\ cardFc' = {f \in cardFc : f[1] # q.id}
        /\ UNCHANGED cardRc
  /\ UNCHANGED <<soft_isr, irq, RcMem, cardReadyInt>> /\ CardOnly

\* The card releases a flow controlled channel.
CardRelease ==
  /\ \E f \in cardFc :
       /\ cardFc' = cardFc \ {f}
       /\ Answer("OK", [id |-> f[1], ch |-> f[2]], IF setup.ext THEN "OK_FC" ELSE "unlabelled")
  /\ UNCHANGED <<soft_isr, irq, ReqMem, RcMem, cardIds, cardReadyInt>> /\ CardOnly

\* The ready interrupt the host asked for: there is a free request buffer.
CardReady ==
  /\ cardReadyInt > 0 /\ Len(ReqMem) < NumReq
  /\ cardReadyInt' = cardReadyInt - 1
  /\ Answer("READY_INT", [id |-> 0, ch |-> NoCh], "none")
  /\ UNCHANGED <<soft_isr, irq, ReqMem, RcMem, cardIds, cardFc>> /\ CardOnly

\* The card posts its return codes; the interrupt handler schedules the DPC.
CardPost ==
  /\ ~irq /\ cardRc # <<>>
  /\ RcMem' = cardRc /\ cardRc' = <<>>
  /\ irq' = TRUE /\ soft_isr' = TRUE
  /\ UNCHANGED <<ReqMem, cardIds, cardFc, cardReadyInt>> /\ CardOnly

-----------------------------------------------------------------------------
ClientNext ==
  \E x \in Entity, code \in Kinds, c \in 1 .. NumCh, n \in 1 .. MaxFrag :
    Request(x, code, <<x, c>>, n)

DpcNext ==
  \/ DpcStart \/ RcLoopEnd \/ RcFree \/ clr_irq \/ isdn_rc
  \/ pr_ready \/ SendPart \/ SendEnd \/ SendAssign \/ Publish

CardNext == CardTake \/ CardRelease \/ CardReady \/ CardPost

\* The steps of the adapter in use; they end when an entity has two slots.
Goes(A) == ~twice /\ A /\ UNCHANGED twice

Next ==
  \/ \E x \in Entity : ~twice /\ RequestAssign(x) /\ twice' = Waits(x)
  \/ Goes(ClientNext)
  \/ Goes(DpcNext)
  \/ Goes(CardNext)
  \/ twice /\ UNCHANGED vars

Spec == Init /\ [][Next]_vars

\* The DPC runs when it is scheduled, the card serves what it was given.
\* Clients owe nothing.
FairSpec ==
  /\ Spec
  /\ WF_vars(Goes(DpcNext)) /\ WF_vars(Goes(CardTake))
  /\ WF_vars(Goes(CardReady)) /\ WF_vars(Goes(CardPost))

-----------------------------------------------------------------------------
Types ==
  /\ eId \in [Entity -> Id \cup {0}] /\ eNo \in [Entity -> Slot \cup {0}]
  /\ More \in [Entity -> 0 .. 255] /\ Req \in [Entity -> Requests]
  /\ held \in SUBSET Ch
  /\ e_tbl \in [Slot -> Entity \cup {NULL}] /\ queue \in Seq(Slot)
  /\ IdTable \in [Id -> Slot \cup {0}]
  /\ flags \in [Slot -> SUBSET {"REMOVE_PENDING", "NO_RC_CANCELLING"}]
  /\ FlowControlIdTable \in [Ch -> Id \cup {0}]
  /\ ReadyInt \in {0, 1}
  /\ pc \in {"idle", "rc", "free", "out1", "send1", "clr", "out2", "send2"}
  /\ ReadyCount \in 0 .. NumReq /\ filled \in Seq(ReqBufs)
  /\ this \in Entity \cup {NULL} /\ failed \in Slot \cup {0}
  /\ ReqMem \in Seq(ReqBufs) /\ RcMem \in Seq(RetCodes)
  /\ cardRc \in Seq(RetCodes) /\ cardIds \in SUBSET Id
  /\ cardFc \in SUBSET (Id \X Ch) /\ cardReadyInt \in {0, 1}
  /\ setup \in Setups
CodeTypes ==
  /\ Types
  /\ FlowControlSkipTable \in [Ch -> BOOLEAN] /\ RcExtensionSupported \in BOOLEAN
  /\ soft_isr \in BOOLEAN /\ irq \in BOOLEAN
TypeOK == CodeTypes /\ twice \in BOOLEAN

\* What is under way, oldest first: return codes and requests.
Answers == RcMem \o cardRc
Asked == ReqMem \o filled

\* How many elements of a sequence are in a set.
Num(seq, S) == Cardinality({k \in DOMAIN seq : seq[k] \in S})

\* The parts of x's requests that the card has or will get and the answers
\* to them that are on their way, releases of flow control excepted.
ReqsOf(i) == {q \in ReqBufs : q.id = i}
AnswersOf(i) == {a \in RetCodes : /\ a.id = i /\ a.rc # "ASSIGN_OK"
                                  /\ a.type \notin {"unlabelled", "OK_FC"}}
Parts(x) == Num(Asked, ReqsOf(eId[x])) + Num(Answers, AnswersOf(eId[x]))

Busy(x) == Has(More[x], XBUSY)

\* The request queue names only busy entities that are in the table, until an
\* entity has two slots: pr_out never meets a freed or a stale entry.
QueueSound ==
  ~twice => \A k \in DOMAIN queue : LET x == e_tbl[queue[k]] IN
    x # NULL /\ eNo[x] = queue[k] /\ Busy(x)

\* No entity is queued twice, although request and pr_out both queue, until one
\* asks again before its ASSIGN is answered, which request does not ignore.
QueuedOnce ==
  ~twice => \A k, n \in DOMAIN queue : k # n => e_tbl[queue[k]] # e_tbl[queue[n]]

\* IdTable and the entities agree on who owns which Id, in both directions:
\* a return code is always applied to the entity it belongs to.
IdTableSound ==
  /\ \A i \in Id : IdTable[i] # 0 =>
       LET x == e_tbl[IdTable[i]] IN x # NULL /\ eId[x] = i /\ eNo[x] = IdTable[i]
  /\ \A x \in Entity : eId[x] # 0 => IdTable[eId[x]] = eNo[x]

\* The client is told that its request is done only when all of it was sent
\* and answered: an idle entity is not queued and the card owes it nothing.
IdleIsQuiet ==
  \A x \in Entity : eId[x] # 0 /\ ~Busy(x) =>
    /\ Parts(x) = 0
    /\ \A k \in DOMAIN queue : queue[k] # eNo[x]

\* XMOREC counts exactly the answers to come.
CountExact == \A x \in Entity : eId[x] # 0 => XMOREC(More[x]) = Parts(x)

\* The host has forgotten an Id only if the card has: the client of a REMOVE
\* is called back for the answer to its REMOVE and for no other return code
\* (of clients that wait: otherwise the release of a channel may end the first
\* REMOVE early, before the host has learned that the card labels them).
RemovedIsGone ==
  setup.wait => \A i \in cardIds : IdTable[i] = 0 =>
    \/ \E k \in DOMAIN (RcMem \o cardRc) :
         (RcMem \o cardRc)[k].id = i /\ (RcMem \o cardRc)[k].rc = "ASSIGN_OK"
    \/ \E k \in DOMAIN ReqMem : ReqMem[k].id = i /\ ReqMem[k].code = "UREMOVE"

\* The entity of a UREMOVE, which gets no return code, is out of the tables
\* when pr_out has sent the request.
UremovedIsForgotten ==
  \A x \in Entity :
    pc = "idle" /\ Req[x].code = "UREMOVE" /\ Req[x].left = 0 => eId[x] = 0

\* Every request that gets a return code is answered: its entity becomes idle,
\* however often it had to wait for a free request buffer, unless an entity
\* asks again before its ASSIGN is answered.
Answered == \A x \in Entity : Busy(x) ~> (~Busy(x) \/ twice)

-----------------------------------------------------------------------------
(***************************************************************************)
(* The inductive invariant of the proofs (module XdiProofs).  Requests and *)
(* return codes under way are two queues, Asked and Answers: everything    *)
(* enters at the end and leaves at the head.  It holds until an entity has *)
(* two slots.                                                              *)
(***************************************************************************)
InQueue(s) == \E k \in DOMAIN queue : queue[k] = s
Live(i) == IdTable[i] # 0
Owner(i) == e_tbl[IdTable[i]]

\* The interrupt, the request buffers and the ready interrupt.
ReadyRcs == {a \in RetCodes : a.rc = "READY_INT"}
Plumbing ==
  /\ RcMem # <<>> => irq
  /\ pc \in {"rc", "free", "out1", "send1", "clr"} => irq
  /\ pc \in {"out1", "send1", "clr"} => RcMem = <<>>
  /\ pc \notin {"send1", "send2"} => filled = <<>> /\ ReadyCount = 0
  /\ Len(ReqMem) + Len(filled) + ReadyCount <= NumReq
  /\ pc \in {"send1", "send2"} /\ this = NULL => queue # <<>> /\ ReadyCount > 0
  /\ cardReadyInt + Num(Answers, ReadyRcs) = ReadyInt

\* A slot, its entity and its Id belong together; the slot of a failed ASSIGN
\* is on its way out.
TableInv ==
  /\ failed # 0 <=> pc = "free"
  /\ failed # 0 => e_tbl[failed] # NULL
  /\ \A s \in Slot : e_tbl[s] # NULL /\ s # failed => eNo[e_tbl[s]] = s
  /\ \A x \in Entity : eId[x] # 0 =>
       eNo[x] \in Slot \ {failed} /\ e_tbl[eNo[x]] = x /\ IdTable[eId[x]] = eNo[x]
  /\ \A i \in Id : Live(i) =>
       IdTable[i] # failed /\ Owner(i) # NULL /\ eId[Owner(i)] = i

QueueInv ==
  /\ \A k, n \in DOMAIN queue : k # n => queue[k] # queue[n]
  /\ \A k \in DOMAIN queue : e_tbl[queue[k]] # NULL /\ queue[k] # failed

\* An entity with an Id is idle, queued, partly sent and queued, or sent.
Phase(x) ==
  LET n == Parts(x)
      left == Req[x].left IN
  \/ More[x] = 32 /\ n = 0 /\ ~InQueue(eNo[x])
  \/ /\ More[x] = 64 /\ n = 0 /\ InQueue(eNo[x])
     /\ left >= 1 /\ (Req[x].code # "DATA" => left = 1)
  \/ /\ More[x] = 80 + n /\ InQueue(eNo[x])
     /\ left >= 1 /\ n + left <= MaxFrag /\ Req[x].code = "DATA"
  \/ /\ More[x] = 96 + n /\ n \in 1 .. MaxFrag /\ ~InQueue(eNo[x])
     /\ Req[x].code # "DATA" => n = 1

PhaseAt(x) ==
  /\ Req[x].code # "UREMOVE"
  /\ eId[x] # 0 => /\ Phase(x)
                   /\ More[x] # 32 => /\ Req[x].code # "ASSIGN"
                                      /\ Req[x].ch \in {x} \X (1 .. NumCh)
PhaseInv == \A x \in Entity : PhaseAt(x)

\* One without an Id waits in the queue or for the answer to its ASSIGN.
Assigning(s) == e_tbl[s] # NULL /\ s # failed /\ eId[e_tbl[s]] = 0
AssignReqs(s) == {q \in ReqBufs : q.code = "ASSIGN" /\ q.ref = s}
AssignRcs(s) == {a \in RetCodes : a.rc \in {"ASSIGN_OK", "ASSIGN_BAD"} /\ a.ref = s}
AssignAt(s) ==
  /\ Num(Asked, AssignReqs(s)) + Num(Answers, AssignRcs(s)) =
       IF Assigning(s) /\ ~InQueue(s) THEN 1 ELSE 0
  /\ Assigning(s) => /\ InQueue(s) => More[e_tbl[s]] = 64 /\ Req[e_tbl[s]].left = 1
                     /\ ~InQueue(s) => More[e_tbl[s]] = 96
AssignInv == \A s \in Slot : AssignAt(s)

\* The requests under way: those of a live Id are of its request, which ends
\* with the first that is not MDATA; an Id the host has forgotten has its REMOVE.
AskedAt(k) ==
  LET q == Asked[k]
      x == Owner(q.id) IN
  /\ q.code # "UREMOVE"
  /\ q.code = "ASSIGN" <=> q.id = 0
  /\ q.id # 0 =>
       /\ q.id \in cardIds
       /\ Live(q.id) =>
            /\ q.ch = Req[x].ch
            /\ IF q.code = "MDATA" THEN Req[x].code = "DATA"
                                   ELSE q.code = Req[x].code /\ More[x] >= 96
       /\ ~Live(q.id) => q.code = "REMOVE" /\ ~setup.wait
       /\ q.code # "MDATA" => \A n \in DOMAIN Asked : n > k => Asked[n].id # q.id
AskedInv == \A k \in DOMAIN Asked : AskedAt(k)

\* The answer to the REMOVE of a live Id.
IsRelease(a) == a.type \in {"unlabelled", "OK_FC"}
EndsRemove(n, i) ==
  /\ Answers[n].id = i /\ Answers[n].rc = "OK"
  /\ Answers[n].type = IF setup.ext THEN "REMOVE_COMPLETE" ELSE "none"

\* The return codes under way: that of an ASSIGN is the last of its Id and comes
\* after that of the REMOVE before, OK_FC ends a request.
AnswerAt(k) ==
  LET a == Answers[k]
      x == Owner(a.id) IN
  /\ a.rc \in {"ASSIGN_BAD", "READY_INT"} <=> a.id = 0
  /\ a.rc # "OK" => a.type = "none"
  /\ a.rc \in {"ASSIGN_OK", "ASSIGN_BAD"} => a.ref \in Slot
  /\ a.rc = "ASSIGN_OK" =>
       /\ a.id \in cardIds /\ \A f \in cardFc : f[1] # a.id
       /\ \A n \in DOMAIN Answers : n > k => Answers[n].id # a.id
       /\ \A n \in DOMAIN Asked : Asked[n].id # a.id
       /\ Live(a.id) => /\ Req[x].code = "REMOVE" /\ More[x] >= 96
                        /\ \E n \in DOMAIN Answers : n < k /\ EndsRemove(n, a.id)
  /\ a.rc = "OK_FC" =>
       /\ Live(a.id) /\ a.ch = Req[x].ch /\ More[x] >= 96
       /\ Req[x].code \in {"DATA", "DISC"}
       /\ \A n \in DOMAIN Answers : n > k /\ Answers[n].id = a.id => IsRelease(Answers[n])
       /\ \A n \in DOMAIN Asked : Asked[n].id # a.id
  /\ a.rc = "OK" /\ a.type = "none" =>
       /\ Live(a.id) /\ a.ch = Req[x].ch /\ More[x] >= 80
       /\ Req[x].code = "REMOVE" => ~setup.ext
  /\ a.type = "REMOVE_COMPLETE" =>
       setup.ext /\ (Live(a.id) => Req[x].code = "REMOVE" /\ More[x] >= 96)
AnswersInv == \A k \in DOMAIN Answers : AnswerAt(k)

Assigns(n, i) == Answers[n].id = i /\ Answers[n].rc = "ASSIGN_OK"

\* The card knows an Id unless it has answered its REMOVE, and the host unless
\* the ASSIGN is on its way or a client that does not wait has met a release.
PendingAt(s) == "REMOVE_PENDING" \in flags[s] =>
  /\ e_tbl[s] # NULL /\ eId[e_tbl[s]] # 0 /\ eNo[e_tbl[s]] = s
  /\ Req[e_tbl[s]].code = "REMOVE" /\ More[e_tbl[s]] >= 96
LiveAt(i) == Live(i) =>
  /\ Req[Owner(i)].code = "REMOVE" /\ More[Owner(i)] >= 96 =>
       "REMOVE_PENDING" \in flags[IdTable[i]]
  /\ i \notin cardIds => /\ Req[Owner(i)].code = "REMOVE" /\ More[Owner(i)] >= 96
                         /\ \E n \in DOMAIN Answers : EndsRemove(n, i)
  /\ i \in cardIds /\ "REMOVE_PENDING" \in flags[IdTable[i]] =>
       \/ \E n \in DOMAIN Asked : Asked[n].id = i
       \/ \E n \in DOMAIN Answers : Assigns(n, i)
GoneAt(i) == ~Live(i) =>
  \/ \E n \in DOMAIN Answers : Assigns(n, i)
  \/ ~setup.wait /\ \E n \in DOMAIN Asked : Asked[n].id = i
RemoveInv ==
  /\ \A s \in Slot : PendingAt(s)
  /\ \A i \in Id : LiveAt(i)
  /\ \A i \in cardIds : GoneAt(i)

\* Flow control: whose channel it is, and where the release is.
IsFc(n, i, c) == Answers[n].rc = "OK_FC" /\ Answers[n].id = i /\ Answers[n].ch = c
OwnFc(f) == f[1] \in cardIds /\ (Live(f[1]) => f[2][1] = Owner(f[1]))
OwnRelease(k) == IsRelease(Answers[k]) =>
  /\ Answers[k].rc = "OK" /\ Answers[k].ch \in Ch
  /\ setup.ext <=> Answers[k].type = "OK_FC"
  /\ Live(Answers[k].id) => Answers[k].ch[1] = Owner(Answers[k].id)
FlowInv ==
  /\ \A f \in cardFc : OwnFc(f)
  /\ \A k \in DOMAIN Answers : OwnRelease(k)
  /\ \A c \in Ch : FlowControlIdTable[c] # 0 => eId[c[1]] = FlowControlIdTable[c]
  /\ \A s \in Slot : "NO_RC_CANCELLING" \in flags[s] => setup.ext
  /\ RcExtensionSupported => setup.ext

\* Clients that wait: a channel is held until its only release has come.
ReleaseAt(k) ==
  LET a == Answers[k] IN
  IsRelease(a) =>
    /\ Live(a.id) /\ <<a.id, a.ch>> \notin cardFc
    /\ a.ch \in held \/ \E n \in DOMAIN Answers : n < k /\ IsFc(n, a.id, a.ch)
    /\ \A n \in DOMAIN Answers : n # k /\ IsRelease(Answers[n]) =>
         Answers[n].id # a.id \/ Answers[n].ch # a.ch
FcAt(f) ==
  Live(f[1]) /\ (f[2] \in held \/ \E n \in DOMAIN Answers : IsFc(n, f[1], f[2]))
SparesAt(x) == eId[x] # 0 /\ More[x] # 32 =>
  /\ Req[x].ch \notin held
  /\ Req[x].code = "REMOVE" => \A c \in 1 .. NumCh : <<x, c>> \notin held
WaitInv == setup.wait =>
  /\ \A f \in cardFc : FcAt(f)
  /\ \A k \in DOMAIN Answers : ReleaseAt(k)
  /\ \A x \in Entity : SparesAt(x)

\* A card that does not label its return codes.
PlainInv == ~setup.ext =>
  \A c \in Ch : /\ c \in held <=> FlowControlIdTable[c] # 0
                /\ c \in held => ~FlowControlSkipTable[c]

\* One that does, as long as the host has not seen a labelled release.
Released(k, i) == Answers[k].id = i /\ Answers[k].type = "OK_FC"
LabelAt(c) ==
  LET i == FlowControlIdTable[c]
      x == c[1] IN
  i # 0 /\ "NO_RC_CANCELLING" \notin flags[IdTable[i]] =>
    /\ c \in held
    /\ More[x] # 32 /\ Req[x].ch = c => Req[x].code # "DATA"
    /\ \/ "REMOVE_PENDING" \in flags[IdTable[i]] \/ <<i, c>> \in cardFc
       \/ \E n \in DOMAIN Answers : Released(n, i)
    /\ \A k \in DOMAIN Answers :
         /\ Answers[k].id = i /\ Answers[k].ch = c
         /\ Answers[k].rc = "OK" /\ Answers[k].type = "none"
         => \E n \in DOMAIN Answers : n < k /\ Released(n, i)
LabelInv == setup.ext =>
  /\ \A c \in Ch : LabelAt(c)
  /\ \A k \in DOMAIN Answers : Answers[k].rc = "OK_FC" =>
       \/ <<Answers[k].id, Answers[k].ch>> \in cardFc
       \/ \E n \in DOMAIN Answers : n > k /\ Released(n, Answers[k].id)

IInv ==
  /\ CodeTypes /\ Plumbing /\ TableInv /\ QueueInv /\ PhaseInv /\ AssignInv /\ AskedInv
  /\ AnswersInv /\ RemoveInv /\ FlowInv /\ WaitInv /\ PlainInv /\ LabelInv
=============================================================================
