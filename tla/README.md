# Verification of the DIVA Server driver core

TLA+ models, TLC runs and TLAPS proofs for the core of the divas4linux kernel
drivers (`src/kernel`): the path of requests, return codes and indications
between IDI clients and an ISDN card, the DPC framework it runs in, the
directory through which clients find adapters, the message ring that feeds
user processes; and of two of the clients themselves: the user mode IDI, which
shares one entity of the card between the files of many applications, and the
B3 connections of the CAPI.

## 1. The system

```
 CAPI (message.c)   user mode IDI (um_idi.c)   maintenance (debug.c)   tty, i4l, hsi
        |                    | dqueue.c rings           |
        +-------- IDI: ENTITY + request() / callback() -+
        |                                               |
   DIDD directory (dadapter.c): which adapters are there, who wants to know
        |
   XDI (io.c, di.c): entity table, request queue, return codes, indications
        |     DPC framework (divasmain.c): soft_isr_count, in_dpc
   shared memory of the card: ReqMem, RcMem, IndMem (pr_pc.h)
        |
      card firmware (external)
```

| Component | State | Operations | Modelled in |
|---|---|---|---|
| Entity table (`io.c`) | `e_tbl[].e/next/assign_ref`, `head`, `tail`, `assign`, `e_count` | `request`, `next_req`, `req_queue`, `assign_queue`, `get_assign`, `free_entity` | `EntityTable` |
| Request path (`io.c`, `di.c`) | `ENTITY.Id/No/More/Req`, `IdTable`, `misc_flags_table`, flow control tables, `ReadyInt` | `request`, `DIDpcRoutine`, `pr_dpc`, `pr_out`, `pr_ready`, `isdn_rc` | `Xdi` |
| Indication path (`di.c`) | `RCurrent`, `ROffset`, `RNR`, `R`, `RNRId` | second half of `pr_dpc`, `isdn_ind` | `XdiInd` |
| DPC framework (`divasmain.c`, `capimain.c`, `platform.h`) | `soft_isr_count`, `in_dpc` | schedule, DPC procedure | `SoftIsr` |
| Message ring (`dqueue.c`) | `Head`, `Tail`, `Wrap`, `Count`, the buffer | alloc, complete, peek, free | `MsgQueue`, abstract `MsgFifo` |
| DIDD (`dadapter.c`) | `HandleTable`, `Adapters`, `MAdapter`, `NotificationTable` | add, remove, read, register, deregister, notify | `Didd` |
| User mode IDI (`um_idi.c`, `divasi.c`) | entities of the files, master entities with their active and idle queue, `license_state`, watchdogs, `nr_delayed_cleanup_entities` | open, write, read, callbacks, watchdog, close, removal of the adapter | `UmIdi` (all but the proxies) |
| Virtual IDI (`vidi_di.c`) | request/indication rings in host memory | | not yet |
| Maintenance (`debug.c`, `maintidi.c`) | trace buffer, clients, management traces | | not yet |
| CAPI (`message.c`, `capifunc.c`) | PLCI, NCCIs, `RBuffer`, `msg_in_queue`, `DBuffer`, `DataAck`, flow control tables | `api_put`, `callback`, `CapiRelease` | `CapiB3`: the B3 connections of a connected PLCI and its removal |
| Adapter life cycle, hardware, cfglib, tty, tools, firmware | | | no (see 8) |

What is hard here, and hardly reached by a test:

* **Concurrency.** Clients call `request` on any CPU while the DPC applies
  return codes; `XBUSY` in a plain byte is what keeps them apart. The DPC
  itself has no lock: that only one runs is a promise of the DPC framework.
  The DIDD releases its lock between the turns of every loop.
* **Order.** The card answers in batches; releases of flow control mix with
  answers; a REMOVE meets answers of earlier requests; a refused indication
  is presented again.
* **Shared links.** Two lists run through one `next` field, one of them is
  never shortened.
* **Shared entities.** Files share a master, NCCIs share the network layer entity
  of their PLCI: one request at a time, answers in two parts, and the one who
  asked may be gone when the answer comes. A dead card must not block a close.
* **Limits.** Table full, no free request buffer, ring exactly full or exactly
  at its end, buffers exactly filled by a packet.

The list of hazards with their lines is in `PROJECT.json`.

## 2. Modules

### `MsgQueue` (implements `MsgFifo`)

Each function of `dqueue.c` is an action (all callers hold `adapter_lock`).
Addresses and sizes are in bytes, so the rounding of `DIVA_MSG_NEED`, the early
wrap and the exact fits are the real ones; `mem` maps an address to the header
stored there, and completing a message overwrites its payload, so a message
that overlapped another would destroy a header. `q` is a history variable: the
addresses of the live messages. `MsgFifo` is what the callers rely on: reserve,
publish in any order, consume the oldest once published.

### `EntityTable`

One action per list operation of `io.c`, each under `data_spin_lock`. `phase`
says where an entity is between these operations (queued, being sent, waiting
for its ASSIGN, sent, idle); it encodes in which order `pr_out` and `isdn_rc`
call them. `reqq` and `pend` are history variables, what the lists should be.
`get_assign` is a relation between a reference and the slot the loop ends at:
there is a path of links from `assign` to it; a walk that goes round has none.
The word behind the table (`e_max`) is an entry, because `request` can reach it,
and so is entry 0: the index of the search for a free entry is a byte (`ByteRange`
values), so in a table of 256 entries it goes on with 0. `request` does not look
whether an entity without Id is in the table already; one that asks again before its
ASSIGN is answered gets a second entry. Both are steps of the model, and the last
ones (`Beyond`): 0 in `head` or `next` means the end of a list, and of two entries
with one `e->No` the lists follow the second only.

### `Xdi`

Variables carry the names of the C fields. Clients are free to call `request`
at any time. A call for a busy entity that has an Id is ignored, and traps the
adapter, so it is no step here. A call for an entity whose ASSIGN is not answered is
not ignored, because `request` clears `More` (`io.c:506`) before it looks at `XBUSY`
(516): the entity takes a second slot, its `No` changes and it is queued twice. That
step is in the model and is the last of its behaviour (`twice`). The DPC's steps are split where another CPU or the card can
come between: `pc` is the place in `DIDpcRoutine`/`pr_dpc`/`pr_out`. `pr_out`
is `pr_ready` (start and ready interrupt), one of `SendPart`, `SendEnd`,
`SendAssign` per turn of its loop, and `Publish` (`ReqInput`, and the UREMOVE
test). `isdn_rc` is one action per outcome: `RcReadyInt`, `RcIgnored`,
`RcKnown` (with the four cases OK_FC, labelled release, unlabelled release,
plain answer in the code's order), `RcAssign` with `RcFree`, `RcUnknown`. The
byte `More` is the real one, its low four bits count. A request is its code,
its channel and how many buffers of the card it still needs.

`held` is what the client does with `OK_FC`, from `callback` of `message.c`:
no data on a channel whose release is pending. `Setups` says which cards and
clients meet: a card that labels its return codes (`ext`) or not, clients that
also spare other requests until the release (`wait`) or not.

### `XdiInd`

The loop of `pr_dpc` over the indications of one interrupt and `isdn_ind`, one
action per indication: refused because `RNRId` says so, look-ahead (the
client refuses, takes, discards or offers buffers), continuation of a packet
(discarded or copied by `Copy`, the do-while loop of `isdn_ind` with its
early break; one `Turn` of it at a time, as a recursive function), or unknown Id.
The card mixes the Ids of an interrupt as it likes. Data is counted in units. `got`,
`copied`, `forgot` and `behind` are history variables, and so is the field `before`
of an indication. `forgot` are the entities that were handed an indication although
one before it was refused: `RNRId` is one byte, and an indication of another Id
overwrites it. `behind` notes that the entry behind the client's buffers was touched:
read at `di.c:865` when they are full before the end of the chain, or written at
`di.c:896`. That entry is not the list's, so what it looks like is a choice (`pass`).

### `SoftIsr`

The work queue form of `diva_os_dpc_proc` around `DIDpcRoutine`, with every
load and store of `in_dpc` a step of its own: `platform.h` calls its increment
"fake because covered by os abstraction layer", and this module shows that it is
covered. `capimain.c` uses this form always, `divasmain.c` when it is built
without tasklets; with tasklets the kernel itself serialises the instances.

### `Didd`

Every turn of every loop of `dadapter.c` is a step, since `didd_spin` is held
for one entry at a time; a notification is a copy under the lock and a call
without it. Descriptors stand for their drivers. DIMAINT is kept outside the
array and changed without the lock. `RegisterFirst` selects the order in which
the clients start.

### `UmIdi`

Each handler of `um_idi.c` holds `adapter_lock` and is one action, the sends
and deliveries at its end included. Split is what the code does outside the lock:
the watchdog sets `aborted` before it takes the lock (`diva_um_timer_function`,
`divas_um_notify_timeout`), the close of a management entity waits twice
(`remove_entity`, `entity_start_remove`, `entity_removed`, then
`divas_um_idi_delete_entity`), an indication is announced in one callback and
complete in another (`me_announced`, `me_complete`). `kind` selects what the
files are: management entities of their own, logical entities of an ordinary
master, or of the license master; the three share only the count of delayed
entities. The callbacks of a master end in `Done`, which consumes the event and
does what `Follow` says: send the request of the file at the head of the active
queue, or REMOVE when the last file has gone. A request carries a tag (its file
and a bit), so that the model can tell whose answer it is; the code cannot.
`ghost` remembers what a state does not show: an answer that met another request
(`wrong`), memory freed that the card still has (`freed`; `race` when the
watchdog was between its halves), a chain whose announcement was dropped (`cut`),
a license answer cancelled half way (`stall`). Payloads are left out, and so is
the data queue of logical entities, which can only lose an indication.

### `CapiB3`

One connected PLCI. `api_put` (with `api_put_reenter` and the handlers of
`ftable`), `callback` and `CapiRelease` run under `api_lock`, and each is one
action: operators from PLCI to PLCI named as the C functions, composed as the
functions call each other. So `nl_rc` contains the choice between an answer and
the end of a flow control, `data_rc` or `control_rc`, the messages that waited
(`Dequeue`), `send_data` and `send_req`. `p` is the PLCI with its NCCIs; a few
short names are explained at `Init`. `ring` is the ring of NCCIs from
`ncci_ring_list`, so that `send_data` is round robin as in the code. `hw` is the
card. The history variable `due` is the data not confirmed yet; `ghost` notes a
confirmation out of order, a message dropped on its way out of the queue, a second
request at the card, a request for a removed entity, a second mapping of a
channel and whether it was mistaken for an answer. `lost` is the buffer that nobody
frees after `plci_remove`. HANGUP follows `sig_ind` from its start: it is discarded
while the signalling entity is removed, refused while B3 connections are up (the card
comes back with it), at the `MaxRefused`-th refusal taken for the end of the network
layer (`Exceptional`), and otherwise the call is gone (`Hangup`). When the end of a
flow control was taken for the answer to N_CONNECT (`Mistaken`) the model goes no
further: each time counts a connection more. `Cases` says which messages and indications a behaviour uses and how many
messages fit into `msg_in_queue`, whose bytes are not modelled.

### What is external

The card: it answers requests in order, presents a batch of return codes only
after the last interrupt was cleared, answers data on a flow controlled channel
OK_FC and releases it later with one OK (the comment in the REMOVE case of
`isdn_rc`), keeps the indications of an Id in order and presents a refused one
again. Towards `UmIdi` it answers a READ by a return code and an indication in
either order, carries a REMOVE out always, may refuse any other request and may
stop answering; the XDI may have no entity for an ASSIGN and then calls nobody
back; an adapter is removed only after its card has stopped; the answer of the
license server is one indication. Towards `CapiB3` it has one request per entity,
ends the flow control of a channel before it answers a later request there, sends
N_DISC only for channels in use, answers a HANGUP by the HANGUP indication, owes no
N_DATA_ACK after the end of the call or during a reset, and opens no channel with an
N_CONNECT that the CAPI discards; it works in the mode (`no_cancel_rc`) in
which no return code is cancelled. The number of an NCCI is that of its channel,
which is what `get_ncci` chooses while it is free. The kernel: a scheduled work item is started, possibly while another
instance runs.

## 3. Runs

| Run | Result | Bounds | What it asks |
|---|---|---|---|
| `msgqueue` | holds | 24 byte ring, payloads 0, 1, 4, 5, 9, 20, 21 | Do messages overlap or get lost; does the ring implement the FIFO? |
| `entity_table` | holds | table of 4 and a byte of 4 values, 4 entities, 3 references | Do the two lists survive every order of requests, chaining, ASSIGNs, failures and REMOVEs, up to a second entry of an entity or the use of entry 0? |
| `entity_table_full` | **violated** | table of 2, the byte of 256 values | Is the last ASSIGN refused in time? |
| `soft_isr` | holds | 3 CPUs, 2 counted instances | Is there one DPC, is no wake-up lost, is work done? |
| `xdi` | holds | 1 entity, 2 channels, 2 Ids, 2 request buffers, requests of up to 3 parts, both setups | Until an ASSIGN is asked for twice: is a request reported done exactly when it is, do the tables agree? |
| `xdi_live` | holds | 2 entities, 1 Id, 1 request buffer | Is every request answered? |
| `xdi_uremove` | **violated** | 2 entities | Is an entity forgotten after its UREMOVE? |
| `xdi_ind` | holds | 2 entities, 3 indications each, 3 per interrupt, packets 2,0,1 and 1,0, buffer lists 1 and 1,2 | Which indications arrive in order, once and complete; when is the entry behind the client's buffers touched? |
| `didd` | holds | 2 drivers and DIMAINT, 2 clients, 2 entries, 1 notification entry | Is the array exact, does a client that registers first see all? |
| `didd_order` | **violated** | 1 driver, 2 clients | The same for clients in the order they really use |
| `um_idi` | holds | 2 files, 2 masters, chains of 1, 1 data message, license data of 101 bytes, no further entity after a delayed one (`MaxTimeouts` 0) | Do answers reach the file that asked, is nothing freed that the card still has, does nobody wait in vain? |
| `capi_b3` | holds | 2 channels, 2 transmit buffers, window 2, 1 unanswered disconnection per NCCI, 2 refusals of HANGUP (the code's 100), 8 cases | Are buffers and connections accounted for, is data confirmed in order, is there one request, no stall and a clean removal? |

Why the bounds are enough. The ring of 24 bytes holds up to six messages of the
smallest size, has exact fits at `High`, at `Head` and at `Wrap`, a message that
fills it and one that can never fit. Four entities, four entries and three references
give every interleaving of three pending ASSIGNs with a fourth entity in the request
queue, the full table, and with a byte of four values the wrap to entry 0 as the
fourth ASSIGN of a full table, as the 256th is on a primary rate card. Two channels give a release on another channel than
the request's; three parts with two request buffers make a request span two
calls of `pr_out` with two answers out. Three CPUs give an active instance, one
that is counted and one that is starting. The chain 2, 0, 1 against
buffers of 1 and 2 units crosses a buffer end in the middle and has an empty part
between; the chain 1, 0 against one buffer of 1 unit is the exactly full list with an
empty part at the end. Three indications of one interrupt are what it takes to forget
a refusal. Two files on one master give a close in the middle of the
other's request; the second master is needed while the first is removed; 101
bytes make two pieces of license data. The runs of `UmIdi` are not followed
after a chain was cut, nor when a watchdog expires while two masters exist (the
constraint `Followed`). With two channels one can be flow controlled while the other
has the request. Room for two messages holds one of each kind of data, the queue in
which one is dropped; two refusals of HANGUP give one that comes again and one that
ends the PLCI. A transparent connection has one channel, so there one case has
everything but INFO_REQ and N_DATA_ACK at once; with two channels a case is data plus
one other concern.

Each property of a passing run also has a fault (definitions named
`<operator>_<fault>` next to the operator): a plausible slip in the code with
which TLC finds the property violated.

### What the violated runs show

* **`entity_table_full`** (`io.c:492-504`): entry 0 is never used but counts, so
  the limit check lets one ASSIGN too many pass; it is stored behind `e_tbl`.
* **`xdi_uremove`** (`di.c:217-230`): after its loop `pr_out` looks only at the
  last entity. A UREMOVE followed by another request in the batch leaves its
  entity in the tables, busy for ever.
* **`didd_order`** (`idifunc.c:140-156`, likewise `mntfunc.c`, `capifunc.c`):
  the clients read the array and register afterwards; the comment on
  `diva_notify_adapter_change` asks for the other order. An adapter added in
  between is never seen.

### Observations

Met while modelling or seen in counterexamples. The properties of the runs name
these cases as their exceptions; the models reach them.

Entity table (`io.c`):
* The index of the search for a free entry is a byte (236, 502). With 256 entries,
  the table of a primary rate card, the 256th ASSIGN is stored in entry 0: `head`
  then says that the queue is empty, and the request is not sent. (Run
  `entity_table_full` shows what smaller tables do instead.)
* A second ASSIGN of an entity whose first is pending is not ignored (506 before
  516; the comment at 513-515 is about busy entities). The clients of the repository
  do not send one. If one did, `assign_queue` could link an entry to itself, and
  `get_assign` would circle under the spin lock (`di.c:191-213`).

Indication path (`di.c`):
* The comment at 302-304 says that all further indications of a refused Id are
  refused; one of another Id in between resets `RNRId` (312), and the next of the first
  Id is handed over before the refused one (`forgot`).
* The test commented "avoid segmentation faults" (869) comes after `R[RCurrent].PLength`
  has been read (865), and at the end of a packet `R[RCurrent].PLength` is written
  without one (896): an empty last part and exactly full buffers touch the entry
  behind the client's list. `WithinBuffers` says that nothing else does.

User mode IDI (`um_idi.c`):
* When the file of a chained READ has closed, the number of announced indications
  is dropped; the rest of the chain goes to the next file's request (`cut`).
* A license answer cancelled between its return code and its indication leaves
  `license_state` at WaitResponse; the master sends nothing any more (`stall`).
  `delivery_license_response` stops the watchdog under the inverted condition, the
  timeout is not looked for in license masters, and the length of the data is cast
  to a byte, so that 256 bytes are none (1839).
* `aborted` is set before `DIVA_UM_IDI_TIMEOUT`; a close in between frees an entity
  that the card still has (`race`).
* A refused write has already overwritten the buffer of the request that waits
  (`le_busy`, 1189). When the XDI is out of entities, `rc_count` and the watchdog of
  a management entity stay raised; a master whose ASSIGN is refused after its last
  file closed, or ignored, is never freed.

CAPI (`message.c`):
* The end of a flow control while N_CONNECT is at the card is taken for its answer,
  and a channel that has an NCCI is mapped again, after eight steps (5554; counted as
  "NCCI mapping exists", 1063-1067). The connection is counted twice, the application is
  told the NCCI of another one. The same end of a flow control confirms a waiting INFO_REQ or
  DISCONNECT_B3_REQ early.
* A message that leaves the queue is checked against the window once more, and the
  window counts data behind it, also data with N_DATA_ACK against data without
  (642): it is dropped with its buffer and without a confirmation, and the rest of the
  queue waits for the next callback (5711-5719).
* The N_DISC that `send_data` defers shares `command` with later messages, so its
  confirmation can be lost or carry another number (12056); N_CONNECT_ACK and
  N_RESET_ACK overwrite OUTG_DIS_PENDING; N_DISC for a channel without NCCI removes
  all NCCIs.
* `plci_remove` clears `appl` with data at the card, after the 100th refusal of HANGUP
  (6745) while the application goes on; `data_rc` then frees nothing (6583) and that
  transmit buffer is lost. `N_OK_FC_PENDING` and `FlowControlIdTable` survive N_DISC. CapiRelease with
  open NCCIs may raise the mapping counter.

## 4. Fairness

`SoftIsr!FairSpec`: weak fairness of each CPU; the kernel runs scheduled work and
no CPU stops for ever. Scheduling itself is not fair: nobody has to call
`request`. `Xdi!FairSpec`: weak fairness of the DPC as a whole (`SoftIsr` shows
that scheduled work is done) and of the card taking requests, giving a ready
interrupt and posting return codes. Clients and the release of flow control owe
nothing. `Answered` is checked until an ASSIGN is asked for twice, and
without UREMOVE, for two reasons found with TLC:
a UREMOVE gets no return code, so it never clears `XBUSY`; and if all request
buffers of the card are taken by UREMOVEs, `pr_out` leaves its loop without asking
for a ready interrupt and the rest of the queue waits for an unrelated event.

## 5. Proofs

All for arbitrary constants (any buffer, table size, set of sizes, entities,
drivers, clients or CPUs), from the named ASSUMEs of the modules.

* `MsgQueueProofs`: `TypeCorrect`, `NoOverlap`, `ReaderSeesOldest`, and
  `RingIsFifo`, the refinement `Spec => FifoSpec`. That messages do not overlap
  is not inductive: whether an allocation below `Head` is safe depends on where
  *all* messages are. `IInv` adds that the messages follow one another without
  gap (`Chained`), that each has its header within the buffer (`LiveHeaders`),
  and their address order (`Ordered`): an unwrapped ring lies in [Head, Tail), a
  wrapped one in [Head, Wrap) then [Base, Tail) with Tail <= Head.
* `EntityTableProofs`: `TypeCorrect`, `RequestQueueIntact`, `AssignRcFound`,
  `EntryZeroUnused`, for every table that the byte can index (`e_max <= ByteRange`).
  The lists are intact until an entity is in entry 0 or in two entries (`Beyond`);
  `EntryZeroUnused` says that a table of fewer than 256 entries never comes to the
  first, while nothing in `io.c` prevents the second. The
  invariant says of both lists which links they have (`Linked`,
  `PendingLinked`) and which phases exclude each other (`UsedPhases`). The point
  of the argument: only the links of *unanswered* ASSIGNs matter, these are the
  front of the list, and an entity gets a new `next` only when it is queued,
  which an unanswered one never is. The walk of `get_assign` is then determined
  by the position of the reference among the unanswered ASSIGNs.
* `SoftIsrProofs`: `MutualExclusion`, `FakeAtomicsSuffice`, `WakeupsKept`. Mutual
  exclusion needs `CountIsActive` (the counter is -1 exactly while nobody is
  inside), the value of `in_dpc` needs what each load found (`Loaded`).
* `DiddProofs`: `ArrayExact`, `SearchSucceeds`, `RegisterFirstSuffices`,
  `TypeCorrect`, for any drivers, clients and table sizes. `Entries` says that the
  entries of the array and the drivers that count on one match one to one;
  `Ahead` that a search, which gives up the lock after every entry, still has its
  entry before it (nobody else moves or clears it); `Handles` and `NoneForgotten`
  that a registered client has been told of an adapter, or that the notification
  has not passed its entry yet, or that it has still to read. The last one only
  with `RegisterFirst`, which is what run `didd_order` shows to be needed.
* `XdiProofs`: `QueueNamesBusy`, `NeverQueuedTwice`, `IdsAgree`, `DoneIsDone`,
  `CountIsExact`, `ForgottenByBoth` and `TypesKept`, for any number of entities,
  Ids, channels and request buffers; the first two until an entity asks again before its
  ASSIGN is answered. They rest on one inductive invariant (`IInv`
  at the end of `Xdi`), because none of them is inductive: whether XMOREC is
  counted down rightly depends on which return codes may still come, and that on
  what the card was asked.

  The invariant sees what is under way as two queues: `Asked` (request memory and
  filled buffers) and `Answers` (return code memory and what the card still has to
  post). `Phase` relates the byte `More` of an entity to the queue and to the number
  of its parts in both, `AssignAt` does so for an entity without an Id. `AskedAt`
  and `AnswerAt` say of each element which state of its entity it allows and what
  may come after it: the answer to a REMOVE before that of the next ASSIGN of the
  same Id, nothing but releases after an OK_FC. `LiveAt` and `GoneAt` say where an
  Id is that only one side knows. The rest is about flow control, the hard part of
  `isdn_rc`: an OK for a channel that is flow controlled may be the answer or the
  release. `PlainInv` and `WaitInv` carry the argument for a card that does not
  label its return codes (a waiting client has no request on a held channel, and
  each channel has one release under way), `LabelInv` for one that does (an
  ordinary answer on a held channel comes only behind a labelled release, which
  sets NO_RC_CANCELLING first). One lemma per action shows that it is kept; the
  return codes of `RcKnown` and the requests of `CardTake` are split further.

  The theorems assume `Premises`: a request has at most 15 parts (XMOREC has four
  bits; `di.c` does not check it), clients do not use UREMOVE, and clients wait for
  the release where the card does not label its return codes. The second and third
  cannot be dropped: with UREMOVE and two entities, and with a card that does not
  label and clients that do not wait, TLC finds `CountExact` violated. Run `xdi`
  checks the same invariants with UREMOVE for one entity.

* `UmIdiMasterProofs`, `UmIdiProofs`: `QueuesSoundTheorem`, `WatchedTheorem`,
  `NoStallTheorem`, `AnswerTheorem`, `FreedTheorem`, `LeavesTheorem`, for any number
  of files and masters, any chain and any license data, and without the constraint
  `Followed` of the run. Again one inductive invariant carries all of them:
  whether an answer reaches its asker depends on what the card still owes, and
  that on which callbacks came before.

  `Files` relates the flags of one file: its watchdog, `status`, the state of its
  close, its queue. `Masters` says of each master: its queues hold its files, each
  once (`MasterFits`); while its ASSIGN is at the card the waiting files have sent
  nothing (`Assigns`); a master that could send has nobody waiting (`Rests`); one
  that could send has a file (`Used`); and what is under way is one request or the
  rest of its answer, whose parts are as many as `rc_count` and the announced
  indications (`Owes`, `Balanced`), all of them with the tag of the file at the head
  of the active queue. `Balanced` is what makes `AnswerToAsker` true: the next
  request is sent when the count is down to zero, and then nothing of the old one is
  left. `Entities` says the same of the entity of a file of its own: how many answers
  are owed (`Owed`) in each state of its close, and that a freed one is owed none.

  Two escapes are part of the invariant as they are of the code. After a chain was
  cut (`cut`) a master's count and the card's answers disagree, and `Owes` is not
  claimed any more; after a half cancelled license answer (`stall`) a master may rest
  with a file waiting. The callbacks of a master are first reduced to five effects
  (`Effect`: wait for more, put the head back, serve it, go on with a chain, tell all
  after the ASSIGN); each effect keeps the invariant, and what a callback
  sends at its end (`Done`, `Follow`) is treated once for all of them.

  `LeavesTheorem` states `MasterLeaves` until a chain is cut: afterwards how much the
  card owes is a sum over the queue, whose value after a step for every queue would
  need induction over its length. The unconditional form stays with TLC.

* `XdiIndProofs`: `InOrderTheorem`, `PacketCompleteTheorem`,
  `WithinBuffersTheorem`, for any entities, packets and client buffers (empty ones
  too), in three layers.

  The copy loop. `Units` (the first n buffers together) and `Copy` are recursive
  functions; `Recursion` says that a definition by a step over 1 .. n has a
  solution, by an induction over the numbers taken from the well-foundedness of
  `<`. `TurnStands` says that a turn of the loop keeps the number of units before
  the place it stands at plus the rest, and that it stops only when the rest is
  zero; `CopyStands` draws the sum: a copy of len units from a place of the
  buffers ends len units further, within them.

  The order. `Line` says where the indications of an Id are that its entity has
  not taken: they are numbered from the next one without a gap, first those of the
  interrupt that the loop has not come to or has refused, then those of the card.
  `Loop` says what the one byte of memory, `RNRId`, is good for: after a refused
  indication all of the same Id are refused until one of another Id has been handled.
  So the next one taken is the next in number, unless its entity is in `forgot`, and
  of such an entity nothing is claimed until its next ASSIGN.

  The packets. `Packs` says that those still to take are consecutive parts of whole
  packets, and `Middle` that between two parts the place in the client's buffers is
  what comes before the next part. `WithinBuffersTheorem` follows from the same: the
  place never passes the end of the buffers, and when it has reached it nothing of the
  packet is left and nothing of the buffers either, so that what still comes is empty.
  The first half, that nothing is copied beyond a buffer, holds of all entities.

Only model-checked: liveness (`WorkDone`, `Answered`), which the prover cannot do;
`UremovedIsForgotten`, which the code does not keep (`xdi_uremove`);
`MasterLeaves` after a cut; and `CapiB3` (built of folds over sequences, whose effect
for every input would need an induction for each).

## 6. Order of the work

1. Message ring with its abstract queue (done, proved).
2. Entity table (done, proved).
3. Request path, DPC framework, indication path (done, proved).
4. DIDD directory with its clients (done, proved).
5. User mode IDI (done, proved) and B3 connections of the CAPI (done, model-checked).
6. Possible next: the rings of `vidi_di.c`; the trace buffer of `debug.c`; the
   removal of a soft isr; the received data of the CAPI with its XON/XOFF.
7. Next proofs: `BuffersSound` and `OneRequest` of `CapiB3`.

## 7. Reading the models

Definitions keep the names of the C source where there is one. `PROJECT.json`
maps every definition to the lines it models, and lists the runs, faults,
findings, hazards and theorems.

    tlc -workers 2 -config Xdi.cfg MCXdi
    tlapm EntityTableProofs.tla

## 8. Not modelled, and why

* The card's firmware and the register access of `os_*.c` and `s_*.c`: external,
  or pure I/O.
* The synchronous requests of `request()` (`io.c:242-479`): independent queries.
* CMA and DMA streams in `pr_out` and `isdn_ind`: other ways to copy the same
  data. `Unavailable` and `cpu_stop_message_received`, which stop the DPC's work.
* The trap of the adapter on a request for a busy entity (`io.c:516-531`), and what
  follows the states in which a model stops (`Beyond`, `twice`, `Mistaken`).
* The indications of `sig_ind` other than HANGUP.
* The proxies of `um_idi.c` (`diva_um_idi_proxy_*`), which hand requests to
  another user process, and its entities for other features than management.
* Most of `message.c`: `CapiB3` has its request, flow control, data and removal
  machinery, through which everything else goes. Left out are the set-up of the
  call, supplementary services, fax, RTP, line interconnect, DTMF and the received
  data; they are parsing and formatting around the same few functions, and with
  them the state space of one PLCI is out of TLC's reach.
* `cfglib.c`, the tty driver, `divactrl`, scripts: no shared protocol with the
  core. They, `message.c` and the card support are most of the repository's lines;
  the models cover the protocols of the core, a small share of the text.
