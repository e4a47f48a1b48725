-------------------------------- MODULE Didd --------------------------------
(***************************************************************************)
(* The adapter directory of the DIDD driver (kernel/dadapter.c): drivers   *)
(* add and remove their adapters, IDI clients read the array of adapters   *)
(* and register a callback that is told of every change.                   *)
(*                                                                         *)
(* didd_spin is held for one entry of a table at a time, never during a    *)
(* search as a whole and never during a callback, so each turn of a loop   *)
(* is a step of its own: between two turns everybody else may go on.       *)
(*                                                                         *)
(* A descriptor stands for its driver, which adds it, keeps it and removes *)
(* it.  DIMAINT is kept outside the array: it has no search, and its entry *)
(* is changed without the lock.  The clients do what connect_didd of       *)
(* idifunc.c, mntfunc.c and divacapi_connect_didd of capifunc.c do: read   *)
(* the array, then register.  With RegisterFirst they do it in the order   *)
(* the comment on diva_notify_adapter_change asks for.                     *)
(***************************************************************************)
EXTENDS Naturals, FiniteSets

CONSTANTS Desc,           \* descriptors, each of one driver
          DIMAINT,        \* that of the debug driver
          Client,         \* IDI clients
          MaxDesc,        \* NEW_MAX_DESCRIPTORS
          MaxNfy,         \* DIVA_DIDD_MAX_NOTIFICATIONS
          RegisterFirst,  \* the order in which the clients start
          NULL

ASSUME DiddAssumption ==
  /\ NULL \notin Desc \cup Client
  /\ MaxDesc \in Nat \ {0} /\ MaxNfy \in Nat \ {0}
  /\ RegisterFirst \in BOOLEAN

VARIABLES HandleTable,        \* the array, NULL where type = 0
          Adapters,           \* number of adapters
          MAdapter,           \* DIMAINT is registered
          NotificationTable,
          pc, i, nfy,         \* of the drivers: place, loop index, copied entry
          cl, j, handle,      \* of the clients: place, loop index, handle
          view                \* the adapters a client works with

table == <<HandleTable, Adapters, MAdapter>>
driver == <<pc, i, nfy>>
client == <<cl, j, handle, view>>
vars == <<table, NotificationTable, driver, client>>

Slots == 1 .. MaxDesc
NfySlots == 1 .. MaxNfy

Init ==
  /\ HandleTable = [s \in Slots |-> NULL] /\ Adapters = 0 /\ MAdapter = FALSE
  /\ NotificationTable = [s \in NfySlots |-> NULL]
  /\ pc = [d \in Desc |-> "out"] /\ i = [d \in Desc |-> 1]
  /\ nfy = [d \in Desc |-> NULL]
  /\ cl = [c \in Client |-> "off"] /\ j = [c \in Client |-> 1]
  /\ handle = [c \in Client |-> 0] /\ view = [c \in Client |-> {}]

Goto(d, l, n) == pc' = [pc EXCEPT ![d] = l] /\ i' = [i EXCEPT ![d] = n]

-----------------------------------------------------------------------------
\* diva_didd_add_descriptor
StartAdd(d) ==
  /\ pc[d] = "out"
  /\ IF d = DIMAINT THEN MAdapter' = TRUE /\ Goto(d, "inserted", 1)
                    ELSE MAdapter' = MAdapter /\ Goto(d, "add", 1)
  /\ UNCHANGED <<HandleTable, Adapters, NotificationTable, nfy, client>>

\* Fault: the entry is taken whether it is free or not.
AddTurn_NotFree(d) ==
  /\ pc[d] = "add"
  /\ HandleTable' = [HandleTable EXCEPT ![i[d]] = d]
  /\ Adapters' = Adapters + 1
  /\ Goto(d, "inserted", 1)
  /\ UNCHANGED <<MAdapter, NotificationTable, nfy, client>>

\* One turn of its loop; out of resources when it ends.
AddTurn(d) ==
  /\ pc[d] = "add"
  /\ IF i[d] > MaxDesc THEN Goto(d, "out", 1) /\ UNCHANGED <<HandleTable, Adapters>>
     ELSE IF HandleTable[i[d]] = NULL
     THEN /\ HandleTable' = [HandleTable EXCEPT ![i[d]] = d]
          /\ Adapters' = Adapters + 1
          /\ Goto(d, "inserted", 1)
     ELSE Goto(d, "add", i[d] + 1) /\ UNCHANGED <<HandleTable, Adapters>>
  /\ UNCHANGED <<MAdapter, NotificationTable, nfy, client>>

\* diva_didd_remove_descriptor
StartRemove(d) ==
  /\ pc[d] = "in"
  /\ Goto(d, IF d = DIMAINT THEN "removing" ELSE "find", 1)
  /\ UNCHANGED <<table, NotificationTable, nfy, client>>

\* One turn of the search, which takes no lock.
FindTurn(d) ==
  /\ pc[d] = "find"
  /\ IF Adapters = 0 \/ i[d] > MaxDesc THEN Goto(d, "lost", 1)
     ELSE IF HandleTable[i[d]] = d THEN Goto(d, "removing", 1)
     ELSE Goto(d, "find", i[d] + 1)
  /\ UNCHANGED <<table, NotificationTable, nfy, client>>

\* After the notification: clear the entry.
ClearEntry(d) ==
  /\ pc[d] = "clear"
  /\ IF d = DIMAINT
     THEN MAdapter' = FALSE /\ UNCHANGED <<HandleTable, Adapters>>
     ELSE /\ HandleTable' =
               [s \in Slots |-> IF HandleTable[s] = d THEN NULL ELSE HandleTable[s]]
          /\ Adapters' = Adapters - 1
          /\ MAdapter' = MAdapter
  /\ Goto(d, "out", 1)
  /\ UNCHANGED <<NotificationTable, nfy, client>>

\* Fault: the last entry of the table is never looked at.
NotifyCopy_Last(d) ==
  /\ pc[d] \in {"inserted", "removing"} /\ nfy[d] = NULL
  /\ IF i[d] >= MaxNfy
     THEN /\ Goto(d, IF pc[d] = "inserted" THEN "in" ELSE "clear", 1)
          /\ nfy' = nfy
     ELSE /\ nfy' = [nfy EXCEPT ![d] = NotificationTable[i[d]]]
          /\ Goto(d, pc[d], i[d] + 1)
  /\ UNCHANGED <<table, NotificationTable, client>>

\* diva_notify_adapter_change: copy one entry of the table under the lock ...
NotifyCopy(d) ==
  /\ pc[d] \in {"inserted", "removing"} /\ nfy[d] = NULL
  /\ IF i[d] > MaxNfy
     THEN /\ Goto(d, IF pc[d] = "inserted" THEN "in" ELSE "clear", 1)
          /\ nfy' = nfy
     ELSE /\ nfy' = [nfy EXCEPT ![d] = NotificationTable[i[d]]]
          /\ Goto(d, pc[d], i[d] + 1)
  /\ UNCHANGED <<table, NotificationTable, client>>

\* ... and call the client without it.
NotifyCall(d) ==
  /\ nfy[d] # NULL
  /\ LET c == nfy[d] IN
     view' = [view EXCEPT ![c] = IF cl[c] = "off" THEN {}
                                 ELSE IF pc[d] = "inserted" THEN @ \cup {d}
                                 ELSE @ \ {d}]
  /\ nfy' = [nfy EXCEPT ![d] = NULL]
  /\ UNCHANGED <<table, NotificationTable, pc, i, cl, j, handle>>

-----------------------------------------------------------------------------
\* A client's places: off, reading, dimaint, registering, on.
Step(c, l) == cl' = [cl EXCEPT ![c] = l] /\ j' = [j EXCEPT ![c] = 1]

ClientStart(c) ==
  /\ cl[c] = "off"
  /\ Step(c, IF RegisterFirst THEN "registering" ELSE "reading")
  /\ UNCHANGED <<table, NotificationTable, driver, handle, view>>

Available == {HandleTable[s] : s \in Slots} \ {NULL}

\* diva_didd_read_adapter_array with room for all: the array under the lock ...
diva_didd_read_adapter_array(c) ==
  /\ cl[c] = "reading"
  /\ view' = [view EXCEPT ![c] = @ \cup Available]
  /\ Step(c, "dimaint")
  /\ UNCHANGED <<table, NotificationTable, driver, handle>>

\* ... and then, without it, DIMAINT, which the client can use only while its
\* request function is the driver's.
ReadMAdapter(c) ==
  /\ cl[c] = "dimaint"
  /\ view' = [view EXCEPT ![c] = @ \cup (IF MAdapter THEN {DIMAINT} ELSE {})]
  /\ Step(c, IF RegisterFirst THEN "on" ELSE "registering")
  /\ UNCHANGED <<table, NotificationTable, driver, handle>>

\* diva_register_adapter_callback, one turn of its loop.  The client does
\* not notice that the table is full: its handle is 0.
RegisterTurn(c) ==
  /\ cl[c] = "registering"
  /\ LET n == j[c] IN
     IF n <= MaxNfy /\ NotificationTable[n] # NULL
     THEN /\ j' = [j EXCEPT ![c] = n + 1]
          /\ UNCHANGED <<NotificationTable, handle, cl>>
     ELSE /\ NotificationTable' =
               [s \in NfySlots |-> IF s = n THEN c ELSE NotificationTable[s]]
          /\ handle' = [handle EXCEPT ![c] = IF n <= MaxNfy THEN n ELSE 0]
          /\ Step(c, IF RegisterFirst THEN "reading" ELSE "on")
  /\ UNCHANGED <<table, driver, view>>

\* diva_remove_adapter_callback
ClientStop(c) ==
  /\ cl[c] = "on"
  /\ NotificationTable' =
       [s \in NfySlots |-> IF s = handle[c] THEN NULL ELSE NotificationTable[s]]
  /\ handle' = [handle EXCEPT ![c] = 0]
  /\ view' = [view EXCEPT ![c] = {}]
  /\ Step(c, "off")
  /\ UNCHANGED <<table, driver>>

Next ==
  \/ \E d \in Desc : \/ StartAdd(d) \/ AddTurn(d)
                     \/ StartRemove(d) \/ FindTurn(d) \/ ClearEntry(d)
                     \/ NotifyCopy(d) \/ NotifyCall(d)
  \/ \E c \in Client : \/ ClientStart(c) \/ diva_didd_read_adapter_array(c)
                       \/ ReadMAdapter(c) \/ RegisterTurn(c) \/ ClientStop(c)

Spec == Init /\ [][Next]_vars

-----------------------------------------------------------------------------
\* Adapters counts the entries of the array, and an adapter is in it once, and
\* while its driver counts on it.
InArrayOnce ==
  /\ Adapters = Cardinality({s \in Slots : HandleTable[s] # NULL})
  /\ \A d \in Desc \ {DIMAINT} :
       Cardinality({s \in Slots : HandleTable[s] = d}) =
         IF pc[d] \in {"inserted", "in", "find", "removing", "clear"} THEN 1 ELSE 0

\* Removing an adapter finds it, although the search takes no lock.
RemoveFinds == \A d \in Desc : pc[d] # "lost"

\* A client that is told of changes knows every adapter whose driver has
\* finished adding it.
NoneMissed ==
  \A c \in Client, d \in Desc :
    cl[c] = "on" /\ handle[c] # 0 /\ pc[d] = "in" => d \in view[c]

-----------------------------------------------------------------------------
(***************************************************************************)
(* The inductive invariant of the proofs (module DiddProofs).              *)
(***************************************************************************)
In == {"inserted", "in", "find", "removing", "clear"}

Types ==
  /\ HandleTable \in [Slots -> (Desc \ {DIMAINT}) \cup {NULL}] /\ Adapters \in Nat
  /\ NotificationTable \in [NfySlots -> Client \cup {NULL}]
  /\ pc \in [Desc -> In \cup {"out", "add", "lost"}]
  /\ i \in [Desc -> Nat \ {0}] /\ nfy \in [Desc -> Client \cup {NULL}]
  /\ cl \in [Client -> {"off", "registering", "reading", "dimaint", "on"}]
  /\ j \in [Client -> Nat \ {0}] /\ handle \in [Client -> NfySlots \cup {0}]
  /\ view \in [Client -> SUBSET (Desc \cup {DIMAINT})]

TypeOK == Types /\ MAdapter \in BOOLEAN

\* The entries of the array and the drivers that count on one agree.
Entries ==
  /\ \A s \in Slots : HandleTable[s] # NULL => pc[HandleTable[s]] \in In
  /\ \A s, t \in Slots : HandleTable[s] = HandleTable[t] /\ HandleTable[s] # NULL => s = t
  /\ \A d \in Desc \ {DIMAINT} : pc[d] \in In => \E s \in Slots : HandleTable[s] = d
  /\ DIMAINT \in Desc /\ pc[DIMAINT] \in In => MAdapter
  /\ Adapters = Cardinality({s \in Slots : HandleTable[s] # NULL})

\* A search has its entry still before it.
Ahead ==
  /\ \A d \in Desc \ {DIMAINT} : pc[d] = "find" =>
       \E s \in Slots : s >= i[d] /\ HandleTable[s] = d
  /\ DIMAINT \in Desc => pc[DIMAINT] \notin {"add", "find"}
  /\ \A d \in Desc : pc[d] # "lost"

\* The handle of a client is its entry of the notification table; a copied
\* entry waits for its call.
Handles ==
  /\ \A c \in Client : handle[c] # 0 =>
       /\ NotificationTable[handle[c]] = c
       /\ cl[c] \in IF RegisterFirst THEN {"reading", "dimaint", "on"} ELSE {"on"}
  /\ \A d \in Desc : nfy[d] # NULL => pc[d] \in {"inserted", "removing"}

\* A registered client has been told of an adapter, or will read it.
Told(c, d) ==
  \/ d \in view[c]
  \/ cl[c] = "reading"
  \/ d = DIMAINT /\ cl[c] = "dimaint"

NoneForgotten ==
  \A c \in Client, d \in Desc :
    handle[c] # 0 /\ \/ pc[d] = "in"
                     \/ pc[d] = "inserted" /\ i[d] > handle[c] /\ nfy[d] # c
      => Told(c, d)

IInv == Types /\ Entries /\ Ahead /\ Handles /\ (RegisterFirst => NoneForgotten)
=============================================================================
