---------------------------- MODULE EntityTable ----------------------------
(***************************************************************************)
(* The entity table of one XDI adapter (kernel/io.c): e_tbl with its two   *)
(* singly linked lists, the queue of entities with a request to send       *)
(* (head, tail) and the list of ASSIGN requests sent to the card (assign). *)
(* Both lists run through the same e_tbl[].next field, which is safe only  *)
(* because of the order in which pr_out, isdn_rc and the clients use it.   *)
(*                                                                         *)
(* Every operation holds data_spin_lock and is one action.  Who calls what *)
(* and when comes from io.c (request) and di.c (pr_out, isdn_rc): clients  *)
(* of several CPUs call request, the DPC takes an entity off the queue,    *)
(* sends a part of its request and puts it back (chaining), sends its end, *)
(* or sends its ASSIGN; later the card's return codes arrive.  Module Xdi  *)
(* models what these callers do with the entities; here the lists are the  *)
(* subject.                                                                *)
(*                                                                         *)
(* e_tbl has e_max entries, 0 .. e_max-1, and 0 means "no entity" in both  *)
(* lists.  The search for a free entry starts at 1 and does not check the  *)
(* upper end: it may use the word after the table, entry e_max, modelled   *)
(* as memory that reads zero.  Its index is a byte, so in a table of 256   *)
(* entries, that of the primary rate cards, it goes on with entry 0.       *)
(*                                                                         *)
(* request does not look whether an entity without Id is in the table: one *)
(* that asks again before its ASSIGN is answered gets a second entry.  The *)
(* clients in this repository wait (nl_req and sig_req of message.c,       *)
(* DIVA_UM_IDI_RC_PENDING of um_idi.c, req_busy of maintidi.c).  Both are  *)
(* steps here, but the last ones: once an entity is in entry 0 or in two   *)
(* entries, the lists are broken (Beyond) and the model goes no further.   *)
(***************************************************************************)
EXTENDS Integers, Sequences, FiniteSets

CONSTANTS e_max,       \* number of entries of e_tbl
          Entity,      \* the clients' ENTITY structures
          Refs,        \* the references the card gives its request buffers
          ByteRange,   \* values of a byte, the index of the search: 256
          NULL         \* no entity

ASSUME EMaxAssumption == e_max \in Nat \ {0}
ASSUME ByteAssumption == ByteRange \in Nat /\ e_max <= ByteRange
ASSUME EntityAssumption == NULL \notin Entity

Slot == 1 .. e_max
Link == 0 .. e_max

VARIABLES e,           \* e_tbl[].e
          next,        \* e_tbl[].next
          assign_ref,  \* e_tbl[].assign_ref
          head, tail,  \* queue of pending requests
          assign,      \* list of pending ASSIGNs
          e_count,     \* entities in the table
          phase,       \* where the entity of a slot is in its life
          hasId,       \* slots whose entity got its Id from the card
          reqq,        \* history: the request queue, first to send first
          pend,        \* history: ASSIGNs not answered, oldest first
          twice        \* history: an entity asked for a second entry

lists == <<next, assign_ref, head, tail, assign>>
vars == <<e, e_count, phase, hasId, reqq, pend, twice, lists>>

Phases == {"free", "queued", "sending", "assigning", "sent", "idle"}

Init ==
  /\ e = [i \in Link |-> NULL]
  /\ next = [i \in Link |-> 0]
  /\ assign_ref = [i \in Link |-> 0]
  /\ head = 0 /\ tail = 0 /\ assign = 0
  /\ e_count = 0
  /\ phase = [i \in Link |-> "free"]
  /\ hasId = {}
  /\ reqq = <<>> /\ pend = <<>> /\ twice = FALSE

\* Fault: the link the entry had in another list is kept.
Enqueue_KeepNext(i) ==
  /\ next' = IF head # 0 THEN [next EXCEPT ![tail] = i] ELSE next
  /\ head' = IF head # 0 THEN head ELSE i
  /\ tail' = i
  /\ reqq' = Append(reqq, i)
  /\ phase' = [phase EXCEPT ![i] = "queued"]
  /\ UNCHANGED <<assign_ref, assign>>

\* Append slot i to the request queue (the end of request, and req_queue).
Enqueue(i) ==
  /\ next' = IF head # 0 THEN [next EXCEPT ![i] = 0, ![tail] = i]
                         ELSE [next EXCEPT ![i] = 0]
  /\ head' = IF head # 0 THEN head ELSE i
  /\ tail' = i
  /\ reqq' = Append(reqq, i)
  /\ phase' = [phase EXCEPT ![i] = "queued"]
  /\ UNCHANGED <<assign_ref, assign>>

\* The first free entry, counted from 1 with a byte, wherever it is.
FirstFree(i) ==
  \E n \in 1 .. e_max :
    /\ i = n % ByteRange /\ e[i] = NULL
    /\ \A m \in 1 .. (n - 1) : e[m % ByteRange] # NULL

\* Fault: the entity is not counted.
RequestAssign_NoCount(x) ==
  /\ \A i \in hasId : e[i] # x
  /\ e_count < e_max
  /\ twice' = (twice \/ \E i \in Slot : e[i] = x)
  /\ \E i \in Link :
       /\ FirstFree(i)
       /\ e' = [e EXCEPT ![i] = x]
       /\ Enqueue(i)
  /\ UNCHANGED <<e_count, hasId, pend>>

\* request() of an entity without Id: ASSIGN.  When the table counts e_max
\* entities the request is ignored.
RequestAssign(x) ==
  /\ \A i \in hasId : e[i] # x
  /\ e_count < e_max
  /\ twice' = (twice \/ \E i \in Slot : e[i] = x)
  /\ \E i \in Link :
       /\ FirstFree(i)
       /\ e' = [e EXCEPT ![i] = x]
       /\ e_count' = e_count + 1
       /\ Enqueue(i)
  /\ UNCHANGED <<hasId, pend>>

\* request() of an entity that has its Id and is not busy.
Request(i) ==
  /\ phase[i] = "idle"
  /\ Enqueue(i)
  /\ UNCHANGED <<e, e_count, hasId, pend, twice>>

\* pr_out takes the first entity off the queue; one DPC runs at a time.
next_req ==
  /\ head # 0
  /\ \A i \in Slot : phase[i] # "sending"
  /\ head' = next[head]
  /\ tail' = IF next[head] = 0 THEN 0 ELSE tail
  /\ phase' = [phase EXCEPT ![head] = "sending"]
  /\ reqq' = Tail(reqq)
  /\ UNCHANGED <<e, e_count, hasId, pend, next, assign_ref, assign, twice>>

\* pr_out sent a part of the request and puts the entity back (chaining).
req_queue(i) ==
  /\ phase[i] = "sending" /\ i \in hasId
  /\ Enqueue(i)
  /\ UNCHANGED <<e, e_count, hasId, pend, twice>>

\* pr_out sent the whole request.
Sent(i) ==
  /\ phase[i] = "sending" /\ i \in hasId
  /\ phase' = [phase EXCEPT ![i] = "sent"]
  /\ UNCHANGED <<e, e_count, hasId, reqq, pend, lists, twice>>

\* Fault: the entry is not linked to the ASSIGNs sent before.
assign_queue_NoLink(i, ref) ==
  /\ phase[i] = "sending" /\ i \notin hasId
  /\ \A k \in DOMAIN pend : assign_ref[pend[k]] # ref
  /\ assign_ref' = [assign_ref EXCEPT ![i] = ref]
  /\ assign' = i
  /\ phase' = [phase EXCEPT ![i] = "assigning"]
  /\ pend' = Append(pend, i)
  /\ UNCHANGED <<e, e_count, hasId, reqq, next, head, tail, twice>>

\* pr_out sent the ASSIGN and saves the reference of its request buffer.
assign_queue(i, ref) ==
  /\ phase[i] = "sending" /\ i \notin hasId
  /\ \A k \in DOMAIN pend : assign_ref[pend[k]] # ref
  /\ assign_ref' = [assign_ref EXCEPT ![i] = ref]
  /\ next' = [next EXCEPT ![i] = assign]
  /\ assign' = i
  /\ phase' = [phase EXCEPT ![i] = "assigning"]
  /\ pend' = Append(pend, i)
  /\ UNCHANGED <<e, e_count, hasId, reqq, head, tail, twice>>

(***************************************************************************)
(* get_assign(ref) returns s: following next from assign, s is the first   *)
(* entry with this reference, or 0 when the list ends without one.  A walk *)
(* longer than the table visits an entry twice and never ends.             *)
(***************************************************************************)
get_assign(ref, s) ==
  \E n \in 0 .. e_max : \E p \in [0 .. n -> Link] :
    /\ p[0] = assign
    /\ \A k \in 0 .. (n - 1) : /\ p[k] # 0 /\ assign_ref[p[k]] # ref
                               /\ p[k + 1] = next[p[k]]
    /\ p[n] = s
    /\ s # 0 => assign_ref[s] = ref

\* free_entity: the entry and the Id are free, the count goes down.
free_entity(i) ==
  /\ e' = [e EXCEPT ![i] = NULL]
  /\ e_count' = e_count - 1
  /\ phase' = [phase EXCEPT ![i] = "free"]
  /\ hasId' = hasId \ {i}

\* isdn_rc, ASSIGN return code: the card answers ASSIGNs in the order in
\* which they were sent.  A failed ASSIGN frees the entry.
AssignRc(ok) ==
  /\ pend # <<>>
  /\ \E s \in Link :
       /\ get_assign(assign_ref[pend[1]], s)
       /\ s # 0
       /\ IF ok THEN /\ phase' = [phase EXCEPT ![s] = "idle"]
                     /\ hasId' = hasId \cup {s}
                     /\ UNCHANGED <<e, e_count>>
                ELSE free_entity(s)
  /\ pend' = Tail(pend)
  /\ UNCHANGED <<reqq, twice, lists>>

\* isdn_rc, the last return code of a request; of a REMOVE it frees the entry.
Rc(i, remove) ==
  /\ phase[i] = "sent"
  /\ IF remove THEN free_entity(i)
               ELSE /\ phase' = [phase EXCEPT ![i] = "idle"]
                    /\ UNCHANGED <<e, e_count, hasId>>
  /\ UNCHANGED <<reqq, pend, twice, lists>>

\* An entity is in entry 0 or in two entries.
Beyond == twice \/ e[0] # NULL

Step ==
  \/ \E x \in Entity : RequestAssign(x)
  \/ \E i \in Slot : Request(i)
  \/ next_req
  \/ \E i \in Slot : req_queue(i)
  \/ \E i \in Slot : Sent(i)
  \/ \E i \in Slot, ref \in Refs : assign_queue(i, ref)
  \/ \E ok \in BOOLEAN : AssignRc(ok)
  \/ \E i \in Slot, remove \in BOOLEAN : Rc(i, remove)

Next ==
  \/ ~Beyond /\ Step
  \/ Beyond /\ UNCHANGED vars

Spec == Init /\ [][Next]_vars

-----------------------------------------------------------------------------
TypeOK ==
  /\ e \in [Link -> Entity \cup {NULL}]
  /\ next \in [Link -> Link]
  /\ assign_ref \in [Link -> Refs \cup {0}]
  /\ head \in Link /\ tail \in Link /\ assign \in Link
  /\ e_count \in 0 .. e_max
  /\ phase \in [Link -> Phases]
  /\ hasId \in SUBSET Slot
  /\ reqq \in Seq(Link) /\ pend \in Seq(Slot)
  /\ twice \in BOOLEAN

\* One list from head to tail, of exactly the entries that wait to be sent.
Linked ==
  /\ IF reqq = <<>> THEN head = 0 /\ tail = 0
                    ELSE head = reqq[1] /\ tail = reqq[Len(reqq)]
  /\ \A k \in DOMAIN reqq :
       /\ next[reqq[k]] = IF k = Len(reqq) THEN 0 ELSE reqq[k + 1]
       /\ phase[reqq[k]] = "queued"
  /\ \A k, m \in DOMAIN reqq : k # m => reqq[k] # reqq[m]
  /\ \A i \in Slot : phase[i] = "queued" => \E k \in DOMAIN reqq : reqq[k] = i

\* The unanswered ASSIGNs are the front of the assign list, newest first,
\* although the list is never shortened and its entries are reused.
PendingLinked ==
  /\ pend # <<>> => assign = pend[Len(pend)]
  /\ \A k \in DOMAIN pend :
       /\ k # 1 => next[pend[k]] = pend[k - 1]
       /\ phase[pend[k]] = "assigning"
  /\ \A k, m \in DOMAIN pend :
       k # m => pend[k] # pend[m] /\ assign_ref[pend[k]] # assign_ref[pend[m]]

\* An entry is in use exactly while its entity has not been freed.
UsedPhases ==
  /\ \A i \in Slot : e[i] = NULL <=> phase[i] = "free"
  /\ \A i \in Slot : phase[i] = "assigning" => i \notin hasId
  /\ \A i, j \in Slot : phase[i] = "sending" /\ phase[j] = "sending" => i = j

\* The inductive invariant, as long as the lists are not broken.
Listed == reqq \in Seq(Slot)
Counted == e_count = Cardinality({i \in Link : e[i] # NULL})
Sound == TypeOK /\ Counted /\ Listed /\ Linked /\ PendingLinked /\ UsedPhases
IInv == TypeOK /\ (~Beyond => Sound)

\* Unless an entity is in entry 0 or in two entries, the request queue is one
\* list from head to tail that holds exactly the entities with an unsent
\* request, each once, in the order they asked.
QueueLinked == ~Beyond => Linked

\* A table of fewer than 256 entries never puts an entity into entry 0.
EntryZeroFree == e_max < ByteRange => e[0] = NULL

\* Unless an entity is in entry 0 or in two entries, the return code of every
\* unanswered ASSIGN would find its own entity.
AssignRcFindsRequester ==
  ~Beyond => \A k \in DOMAIN pend : \A s \in Link :
    get_assign(assign_ref[pend[k]], s) <=> s = pend[k]

\* request() only uses entries 1 .. e_max-1 of e_tbl, as "all Ids in use" says:
\* it ignores an ASSIGN when there is none left.
InTable == e[e_max] = NULL
=============================================================================
