----------------------------- MODULE DiddProofs -----------------------------
(***************************************************************************)
(* Proofs about module Didd, for any drivers, clients and table sizes: the *)
(* array is exact, a removal finds its entry, and a client that registers  *)
(* before it reads misses no adapter.                                      *)
(***************************************************************************)
EXTENDS Didd, FiniteSetTheorems, TLAPS

LEMMA SlotFacts ==
  /\ Slots \subseteq Nat \ {0} /\ NfySlots \subseteq Nat \ {0}
  /\ \A n \in Nat \ {0} : (n \in Slots <=> n <= MaxDesc) /\ (n \in NfySlots <=> n <= MaxNfy)
  /\ IsFiniteSet(Slots)
BY DiddAssumption, FS_Interval DEF Slots, NfySlots

LEMMA HandleFacts ==
  ASSUME Types
  PROVE  \A c \in Client : handle[c] # 0 =>
           handle[c] \in NfySlots /\ handle[c] \in Nat /\ 1 <= handle[c] /\ handle[c] <= MaxNfy
BY DiddAssumption DEF Types, NfySlots

LEMMA InitIInv == Init => IInv
<1>. SUFFICES ASSUME Init PROVE IInv
  OBVIOUS
<1>1. Types
  BY SlotFacts DEF Init, Types
<1>2. {s \in Slots : HandleTable[s] # NULL} = {}
  BY DEF Init
<1>3. Entries
  BY <1>2, FS_EmptySet DEF Init, Entries, In
<1>4. Ahead /\ Handles /\ NoneForgotten
  BY DEF Init, Ahead, Handles, NoneForgotten, In
<1>. QED
  BY <1>1, <1>3, <1>4 DEF IInv

\* The steps of a driver that leave the array alone.
LEMMA DriverStep ==
  ASSUME IInv, NEW d \in Desc,
         StartAdd(d) \/ StartRemove(d) \/ FindTurn(d) \/ NotifyCopy(d) \/ NotifyCall(d)
  PROVE  IInv'
<1>. USE DEF IInv, Goto, table, client, driver
<1>1. CASE StartAdd(d)
  <2>1. Types'
    BY <1>1 DEF StartAdd, Types, In
  <2>2. Entries'
    BY <1>1 DEF StartAdd, Types, Entries, In
  <2>3. Ahead'
    BY <1>1 DEF StartAdd, Types, Ahead, In
  <2>4. Handles'
    BY <1>1 DEF StartAdd, Types, Handles, In
  <2>5. RegisterFirst => NoneForgotten'
    BY <1>1, HandleFacts DEF StartAdd, Types, NoneForgotten, Told, In
  <2>. QED
    BY <2>1, <2>2, <2>3, <2>4, <2>5
<1>2. CASE StartRemove(d)
  <2>1. Types'
    BY <1>2 DEF StartRemove, Types, In
  <2>2. Entries'
    BY <1>2 DEF StartRemove, Types, Entries, In
  <2>3. Ahead'
    BY <1>2, SlotFacts DEF StartRemove, Types, Ahead, Entries, In
  <2>4. Handles'
    BY <1>2 DEF StartRemove, Types, Handles, In
  <2>5. RegisterFirst => NoneForgotten'
    BY <1>2 DEF StartRemove, Types, NoneForgotten, Told, In
  <2>. QED
    BY <2>1, <2>2, <2>3, <2>4, <2>5
<1>3. CASE FindTurn(d)
  <2>0. Adapters # 0 /\ i[d] <= MaxDesc /\ d # DIMAINT
    <3>1. d # DIMAINT
      BY <1>3 DEF FindTurn, Ahead
    <3>2. PICK s \in Slots : s >= i[d] /\ HandleTable[s] = d
      BY <3>1, <1>3 DEF FindTurn, Ahead
    <3>3. s \in {t \in Slots : HandleTable[t] # NULL}
      BY <3>2, DiddAssumption
    <3>4. Adapters # 0
      BY <3>3, SlotFacts, FS_Subset, FS_EmptySet DEF Entries
    <3>5. i[d] <= MaxDesc
      BY <3>2, DiddAssumption DEF Slots, Types
    <3>. QED
      BY <3>1, <3>4, <3>5
  <2>a. /\ i[d] \in Slots /\ i[d] + 1 \in Nat \ {0} /\ UNCHANGED <<table, NotificationTable, nfy, client>>
        /\ pc[d] = "find"
        /\ IF HandleTable[i[d]] = d THEN Goto(d, "removing", 1) ELSE Goto(d, "find", i[d] + 1)
    <3>1. i[d] \in Nat \ {0} /\ i[d] + 1 \in Nat \ {0}
      BY DEF Types
    <3>2. i[d] \in Slots /\ ~(i[d] > MaxDesc)
      BY <3>1, <2>0, DiddAssumption DEF Slots
    <3>. QED
      BY <3>1, <3>2, <2>0, <1>3 DEF FindTurn
  <2>1. Types'
    BY <2>a DEF Types, In
  <2>2. Entries'
    <3>1. \A b \in Desc : pc'[b] \in In <=> pc[b] \in In
      BY <2>a DEF Types, In
    <3>. QED
      BY <3>1, <2>a DEF Types, Entries
  <2>3. Ahead'
    <3>1. CASE HandleTable[i[d]] = d
      BY <3>1, <2>a, <2>0 DEF Types, Ahead, In
    <3>2. CASE HandleTable[i[d]] # d
      <4>1. PICK s \in Slots : s >= i[d] /\ HandleTable[s] = d
        BY <2>a, <2>0 DEF Ahead
      <4>2. s >= i[d] + 1
        BY <4>1, <3>2, <2>a, DiddAssumption DEF Slots
      <4>. QED
        BY <4>1, <4>2, <3>2, <2>a, <2>0 DEF Types, Ahead, In
    <3>. QED
      BY <3>1, <3>2
  <2>4. Handles'
    BY <1>3, <2>0 DEF FindTurn, Types, Handles, In
  <2>5. RegisterFirst => NoneForgotten'
    BY <1>3, <2>0 DEF FindTurn, Types, NoneForgotten, Told, In
  <2>. QED
    BY <2>1, <2>2, <2>3, <2>4, <2>5
<1>4. CASE NotifyCopy(d)
  <2>1. Types'
    <3>1. CASE i[d] > MaxNfy
      BY <3>1, <1>4 DEF NotifyCopy, Types, In
    <3>2. CASE ~(i[d] > MaxNfy)
      <4>1. i[d] \in NfySlots /\ i[d] + 1 \in Nat \ {0}
        BY <3>2, SlotFacts, DiddAssumption DEF Types
      <4>. QED
        BY <4>1, <3>2, <1>4 DEF NotifyCopy, Types, In
    <3>. QED
      BY <3>1, <3>2
  <2>2. Entries'
    BY <1>4 DEF NotifyCopy, Types, Entries, In
  <2>3. Ahead'
    BY <1>4 DEF NotifyCopy, Types, Ahead, In
  <2>4. Handles'
    BY <1>4 DEF NotifyCopy, Types, Handles, In
  <2>5. RegisterFirst => NoneForgotten'
    <3>. SUFFICES ASSUME RegisterFirst, NEW c \in Client, NEW b \in Desc, handle[c] # 0,
                         \/ pc'[b] = "in"
                         \/ pc'[b] = "inserted" /\ i'[b] > handle[c] /\ nfy'[b] # c
                  PROVE  Told(c, b)
      BY <1>4 DEF NotifyCopy, NoneForgotten, Told
    <3>1. handle[c] \in Nat /\ NotificationTable[handle[c]] = c /\ handle[c] <= MaxNfy
      BY HandleFacts DEF Handles
    <3>2. CASE b # d
      BY <3>2, <1>4 DEF NotifyCopy, Types, NoneForgotten
    <3>3. CASE b = d /\ i[d] > MaxNfy
      BY <3>3, <3>1, <1>4, DiddAssumption, HandleFacts DEF NotifyCopy, Types, NoneForgotten
    <3>4. CASE b = d /\ i[d] <= MaxNfy
      <4>1. pc[d] = "inserted" /\ i[d] + 1 > handle[c]
              /\ NotificationTable[i[d]] # c /\ nfy[d] = NULL
        BY <3>4, <1>4, DiddAssumption DEF NotifyCopy, Types
      <4>2. i[d] > handle[c] /\ nfy[d] # c
        BY <4>1, <3>1, DiddAssumption DEF Types
      <4>. QED
        BY <4>1, <4>2, <3>4 DEF NoneForgotten
    <3>. QED
      BY <3>2, <3>3, <3>4, DiddAssumption DEF Types
  <2>. QED
    BY <2>1, <2>2, <2>3, <2>4, <2>5
<1>5. CASE NotifyCall(d)
  <2>1. Types'
    BY <1>5 DEF NotifyCall, Types, In
  <2>2. Entries'
    BY <1>5 DEF NotifyCall, Types, Entries, In
  <2>3. Ahead'
    BY <1>5 DEF NotifyCall, Types, Ahead, In
  <2>4. Handles'
    BY <1>5 DEF NotifyCall, Types, Handles, In
  <2>5. RegisterFirst => NoneForgotten'
    BY <1>5 DEF NotifyCall, Types, NoneForgotten, Told, Handles, In
  <2>. QED
    BY <2>1, <2>2, <2>3, <2>4, <2>5
<1>. QED
  BY <1>1, <1>2, <1>3, <1>4, <1>5

\* Another entry of the array does not disturb the notifications.
LEMMA TableFrame ==
  ASSUME IInv, Types', NEW d \in Desc, UNCHANGED <<NotificationTable, nfy, client>>,
         pc[d] \notin {"inserted", "removing"}, pc'[d] \notin {"in", "find", "lost"},
         pc' = [pc EXCEPT ![d] = pc'[d]], i' = [i EXCEPT ![d] = i'[d]],
         pc'[d] = "inserted" => i'[d] = 1, pc'[d] = "add" => d # DIMAINT,
         \A b \in Desc \ {d}, s \in Slots : HandleTable[s] = b => HandleTable'[s] = b
  PROVE  Ahead' /\ Handles' /\ (RegisterFirst => NoneForgotten')
<1>. USE DEF IInv, client
<1>1. \A b \in Desc \ {d} : pc'[b] = pc[b] /\ i'[b] = i[b]
  BY DEF Types
<1>2. Ahead'
  BY <1>1 DEF Ahead
<1>3. Handles'
  BY <1>1, DiddAssumption DEF Handles, Types
<1>4. RegisterFirst => NoneForgotten'
  BY <1>1, HandleFacts DEF NoneForgotten, Told
<1>. QED
  BY <1>2, <1>3, <1>4

LEMMA AddTurnStep ==
  ASSUME IInv, NEW d \in Desc, AddTurn(d)
  PROVE  IInv'
<1>. USE DEF IInv, Goto, client
<1>0. /\ d # DIMAINT /\ pc[d] = "add" /\ i[d] \in Nat \ {0} /\ i[d] + 1 \in Nat \ {0}
      /\ MAdapter' = MAdapter /\ UNCHANGED <<NotificationTable, nfy, client>>
  BY DEF AddTurn, Ahead, Types
<1>1. CASE i[d] > MaxDesc \/ HandleTable[i[d]] # NULL
  <2>1. /\ UNCHANGED <<HandleTable, Adapters>>
        /\ Goto(d, "out", 1) \/ Goto(d, "add", i[d] + 1)
    BY <1>1 DEF AddTurn
  <2>2. Types'
    BY <2>1, <1>0 DEF Types
  <2>3. Entries'
    <3>1. \A b \in Desc : pc'[b] \in In <=> pc[b] \in In
      BY <2>1, <1>0 DEF Types, In
    <3>. QED
      BY <3>1, <2>1, <1>0 DEF Types, Entries
  <2>4. /\ pc'[d] \in {"out", "add"}
        /\ pc' = [pc EXCEPT ![d] = pc'[d]] /\ i' = [i EXCEPT ![d] = i'[d]]
    BY <2>1 DEF Types
  <2>5. Ahead' /\ Handles' /\ (RegisterFirst => NoneForgotten')
    BY <1>0, <2>1, <2>2, <2>4, TableFrame
  <2>. QED
    BY <2>2, <2>3, <2>5
<1>2. CASE ~(i[d] > MaxDesc) /\ HandleTable[i[d]] = NULL
  <2>. DEFINE n == i[d]
  <2>1. /\ n \in Slots /\ HandleTable[n] = NULL
        /\ HandleTable' = [HandleTable EXCEPT ![n] = d]
        /\ Adapters' = Adapters + 1 /\ Goto(d, "inserted", 1)
    BY <1>2, <1>0, SlotFacts, DiddAssumption DEF AddTurn
  <2>. HIDE DEF n
  <2>2. Types'
    BY <2>1, <1>0 DEF Types, In
  <2>3. /\ HandleTable'[n] = d /\ \A s \in Slots \ {n} : HandleTable'[s] = HandleTable[s]
        /\ \A s \in Slots : HandleTable[s] # d
        /\ pc'[d] = "inserted" /\ \A b \in Desc \ {d} : pc'[b] = pc[b]
    BY <2>1, <1>0, DiddAssumption DEF Types, Entries, In
  <2>4. Adapters' = Cardinality({s \in Slots : HandleTable'[s] # NULL})
    <3>. DEFINE T == {s \in Slots : HandleTable[s] # NULL}
    <3>1. {s \in Slots : HandleTable'[s] # NULL} = T \cup {n}
      BY <2>1, <2>3, DiddAssumption
    <3>2. IsFiniteSet(T) /\ n \notin T
      BY SlotFacts, FS_Subset, <2>1
    <3>3. Cardinality(T \cup {n}) = Cardinality(T) + 1
      BY <3>2, FS_AddElement
    <3>. QED
      BY <3>1, <3>3, <2>1 DEF Entries
  <2>5. Entries'
    <3>1. \A s \in Slots : HandleTable'[s] # NULL => pc'[HandleTable'[s]] \in In
      BY <2>1, <2>3 DEF Entries, Types, In
    <3>2. \A s, t \in Slots : HandleTable'[s] = HandleTable'[t] /\ HandleTable'[s] # NULL => s = t
      BY <2>3 DEF Entries
    <3>3. \A b \in Desc \ {DIMAINT} : pc'[b] \in In => \E s \in Slots : HandleTable'[s] = b
      BY <2>1, <2>3, DiddAssumption DEF Entries
    <3>4. DIMAINT \in Desc /\ pc'[DIMAINT] \in In => MAdapter'
      BY <2>3, <1>0 DEF Entries
    <3>. QED
      BY <3>1, <3>2, <3>3, <3>4, <2>4 DEF Entries
  <2>6. pc' = [pc EXCEPT ![d] = pc'[d]] /\ i' = [i EXCEPT ![d] = i'[d]] /\ i'[d] = 1
    BY <2>1 DEF Types
  <2>7. Ahead' /\ Handles' /\ (RegisterFirst => NoneForgotten')
    <3>1. \A b \in Desc \ {d}, s \in Slots : HandleTable[s] = b => HandleTable'[s] = b
      BY <2>1, <2>3, DiddAssumption
    <3>. QED
      BY <3>1, <1>0, <2>2, <2>3, <2>6, TableFrame
  <2>. QED
    BY <2>2, <2>5, <2>7
<1>. QED
  BY <1>1, <1>2

LEMMA ClearEntryStep ==
  ASSUME IInv, NEW d \in Desc, ClearEntry(d)
  PROVE  IInv'
<1>. USE DEF IInv, Goto, client
<1>0. /\ pc[d] = "clear" /\ Goto(d, "out", 1)
      /\ UNCHANGED <<NotificationTable, nfy, client>>
      /\ pc'[d] = "out" /\ \A b \in Desc \ {d} : pc'[b] = pc[b]
      /\ pc' = [pc EXCEPT ![d] = pc'[d]] /\ i' = [i EXCEPT ![d] = i'[d]]
  BY DEF ClearEntry, Types
<1>1. CASE d = DIMAINT
  <2>1. UNCHANGED <<HandleTable, Adapters>>
    BY <1>1 DEF ClearEntry
  <2>2. Types'
    BY <2>1, <1>0 DEF Types
  <2>3. Entries'
    <3>1. \A s \in Slots : HandleTable[s] # NULL => HandleTable[s] \in Desc \ {d}
      BY <1>1 DEF Types
    <3>2. DIMAINT \in Desc /\ pc'[DIMAINT] \in In => MAdapter'
      BY <1>0, <1>1 DEF In
    <3>. QED
      BY <3>1, <3>2, <2>1, <1>0, <1>1 DEF Entries
  <2>4. Ahead' /\ Handles' /\ (RegisterFirst => NoneForgotten')
    BY <1>0, <2>1, <2>2, TableFrame
  <2>. QED
    BY <2>2, <2>3, <2>4
<1>2. CASE d # DIMAINT
  <2>1. PICK n \in Slots : HandleTable[n] = d
    BY <1>0, <1>2 DEF Entries, In
  <2>2. /\ HandleTable' = [s \in Slots |-> IF HandleTable[s] = d THEN NULL ELSE HandleTable[s]]
        /\ Adapters' = Adapters - 1 /\ MAdapter' = MAdapter
    BY <1>2 DEF ClearEntry
  <2>3. /\ HandleTable'[n] = NULL
        /\ \A s \in Slots \ {n} : HandleTable'[s] = HandleTable[s] /\ HandleTable[s] # d
    BY <2>1, <2>2, DiddAssumption DEF Entries
  <2>4. /\ Cardinality({s \in Slots : HandleTable'[s] # NULL}) = Adapters - 1
        /\ Adapters - 1 \in Nat
    <3>. DEFINE T == {s \in Slots : HandleTable[s] # NULL}
    <3>1. {s \in Slots : HandleTable'[s] # NULL} = T \ {n}
      BY <2>3
    <3>2. IsFiniteSet(T) /\ n \in T
      BY SlotFacts, FS_Subset, <2>1, DiddAssumption
    <3>3. /\ Cardinality(T \ {n}) = Cardinality(T) - 1
          /\ IsFiniteSet(T \ {n})
      BY <3>2, FS_RemoveElement
    <3>4. Cardinality(T \ {n}) \in Nat
      BY <3>3, FS_CardinalityType
    <3>. QED
      BY <3>1, <3>3, <3>4 DEF Entries
  <2>5. Types'
    BY <2>2, <2>4, <1>0 DEF Types
  <2>6. Entries'
    <3>1. \A s \in Slots : HandleTable'[s] # NULL => pc'[HandleTable'[s]] \in In
      BY <2>3, <1>0 DEF Entries, Types
    <3>2. \A s, t \in Slots : HandleTable'[s] = HandleTable'[t] /\ HandleTable'[s] # NULL => s = t
      BY <2>3 DEF Entries
    <3>3. \A b \in Desc \ {DIMAINT} : pc'[b] \in In => \E s \in Slots : HandleTable'[s] = b
      <4>. SUFFICES ASSUME NEW b \in Desc \ {DIMAINT}, pc'[b] \in In
                    PROVE  \E s \in Slots : HandleTable'[s] = b
        OBVIOUS
      <4>1. b # d /\ pc[b] \in In
        BY <1>0 DEF In
      <4>2. PICK s \in Slots : HandleTable[s] = b
        BY <4>1 DEF Entries
      <4>. QED
        BY <4>1, <4>2, <2>1, <2>3
    <3>4. DIMAINT \in Desc /\ pc'[DIMAINT] \in In => MAdapter'
      BY <2>2, <1>0, <1>2 DEF Entries
    <3>. QED
      BY <3>1, <3>2, <3>3, <3>4, <2>2, <2>4 DEF Entries
  <2>7. \A b \in Desc \ {d}, s \in Slots : HandleTable[s] = b => HandleTable'[s] = b
    BY <2>2
  <2>8. Ahead' /\ Handles' /\ (RegisterFirst => NoneForgotten')
    BY <1>0, <2>5, <2>7, TableFrame
  <2>. QED
    BY <2>5, <2>6, <2>8
<1>. QED
  BY <1>1, <1>2

\* The steps of a client change nothing the drivers rely on.
LEMMA ClientStep ==
  ASSUME IInv, NEW c \in Client,
         \/ ClientStart(c) \/ diva_didd_read_adapter_array(c) \/ ReadMAdapter(c)
         \/ RegisterTurn(c) \/ ClientStop(c)
  PROVE  IInv'
<1>. USE DEF IInv, table, driver, Step
<1>0. UNCHANGED <<table, driver>>
  BY DEF ClientStart, diva_didd_read_adapter_array, ReadMAdapter, RegisterTurn, ClientStop
<1>1. Entries' /\ Ahead'
  BY <1>0 DEF Entries, Ahead
<1>2. CASE ClientStart(c)
  <2>1. Types'
    BY <1>2 DEF ClientStart, Types
  <2>2. Handles' /\ (RegisterFirst => NoneForgotten')
    BY <1>2 DEF ClientStart, Types, Handles, NoneForgotten, Told
  <2>. QED
    BY <1>1, <2>1, <2>2
<1>3. CASE diva_didd_read_adapter_array(c)
  <2>1. Available \subseteq Desc
    BY DEF Available, Types
  <2>2. Types'
    BY <1>3, <2>1 DEF diva_didd_read_adapter_array, Types
  <2>3. Handles'
    BY <1>3 DEF diva_didd_read_adapter_array, Types, Handles
  <2>4. RegisterFirst => NoneForgotten'
    <3>1. \A d \in Desc \ {DIMAINT} : pc[d] \in {"in", "inserted"} => d \in Available
      BY DiddAssumption DEF Available, Entries, In
    <3>. QED
      BY <3>1, <1>3 DEF diva_didd_read_adapter_array, Types, NoneForgotten, Told
  <2>. QED
    BY <1>1, <2>2, <2>3, <2>4
<1>4. CASE ReadMAdapter(c)
  <2>. DEFINE more == IF MAdapter THEN {DIMAINT} ELSE {}
  <2>1. /\ more \subseteq {DIMAINT}
        /\ DIMAINT \in Desc /\ pc[DIMAINT] \in In => DIMAINT \in more
    BY DEF Entries
  <2>2. /\ cl[c] = "dimaint" /\ view' = [view EXCEPT ![c] = @ \cup more]
        /\ cl' = [cl EXCEPT ![c] = IF RegisterFirst THEN "on" ELSE "registering"]
        /\ j' = [j EXCEPT ![c] = 1]
        /\ UNCHANGED <<table, NotificationTable, driver, handle>>
    BY <1>4 DEF ReadMAdapter
  <2>. HIDE DEF more
  <2>3. Types'
    BY <2>1, <2>2 DEF Types
  <2>4. Handles'
    BY <2>2 DEF Types, Handles
  <2>5. RegisterFirst => NoneForgotten'
    BY <2>1, <2>2 DEF Types, NoneForgotten, Told, In
  <2>. QED
    BY <1>1, <2>3, <2>4, <2>5
<1>5. CASE RegisterTurn(c)
  <2>. DEFINE n == j[c]
  <2>0. n \in Nat \ {0} /\ n + 1 \in Nat \ {0} /\ cl[c] = "registering" /\ view' = view
        /\ handle[c] = 0
    BY <1>5 DEF RegisterTurn, Types, Handles
  <2>1. CASE n <= MaxNfy /\ NotificationTable[n] # NULL
    <3>1. j' = [j EXCEPT ![c] = n + 1] /\ UNCHANGED <<NotificationTable, handle, cl, view>>
      BY <1>5, <2>1 DEF RegisterTurn
    <3>2. Types'
      BY <3>1, <2>0, <1>0 DEF Types
    <3>3. Handles' /\ (RegisterFirst => NoneForgotten')
      BY <3>1, <1>0 DEF Handles, NoneForgotten, Told
    <3>. QED
      BY <1>1, <3>2, <3>3
  <2>2. CASE ~(n <= MaxNfy /\ NotificationTable[n] # NULL)
    <3>. DEFINE h == IF n <= MaxNfy THEN n ELSE 0
    <3>1. /\ NotificationTable' =
               [s \in NfySlots |-> IF s = n THEN c ELSE NotificationTable[s]]
          /\ handle' = [handle EXCEPT ![c] = h]
          /\ cl' = [cl EXCEPT ![c] = IF RegisterFirst THEN "reading" ELSE "on"]
          /\ j' = [j EXCEPT ![c] = 1]
      BY <1>5, <2>2 DEF RegisterTurn
    <3>2. /\ h \in NfySlots \cup {0}
          /\ h # 0 => h = n
          /\ n \in NfySlots => h = n /\ NotificationTable[n] = NULL
      BY <2>0, <2>2, SlotFacts, DiddAssumption
    <3>. HIDE DEF h, n
    <3>3. Types'
      <4>1. NotificationTable' \in [NfySlots -> Client \cup {NULL}]
        BY <3>1 DEF Types
      <4>2. handle' \in [Client -> NfySlots \cup {0}]
        BY <3>1, <3>2 DEF Types
      <4>3. /\ cl' \in [Client -> {"off", "registering", "reading", "dimaint", "on"}]
            /\ j' \in [Client -> Nat \ {0}]
        BY <3>1 DEF Types
      <4>. QED
        BY <4>1, <4>2, <4>3, <2>0, <1>0 DEF Types
    <3>4. Handles'
      <4>1. \A d \in Desc : nfy'[d] # NULL => pc'[d] \in {"inserted", "removing"}
        BY <1>0 DEF Handles
      <4>2. ASSUME NEW b \in Client, handle'[b] # 0
            PROVE  /\ NotificationTable'[handle'[b]] = b
                   /\ cl'[b] \in IF RegisterFirst THEN {"reading", "dimaint", "on"} ELSE {"on"}
        <5>1. CASE b = c
          <6>1. handle'[c] = h /\ cl'[c] = (IF RegisterFirst THEN "reading" ELSE "on")
            BY <3>1 DEF Types
          <6>2. h \in NfySlots /\ h = n
            BY <6>1, <5>1, <4>2, <3>2
          <6>. QED
            BY <6>1, <6>2, <5>1, <3>1
        <5>2. CASE b # c
          BY <5>2, <4>2, <3>1, <3>2, <2>0, DiddAssumption DEF Types, Handles
        <5>. QED
          BY <5>1, <5>2
      <4>. QED
        BY <4>1, <4>2 DEF Handles
    <3>5. RegisterFirst => NoneForgotten'
      BY <3>1, <2>0, <1>0 DEF Types, NoneForgotten, Told
    <3>. QED
      BY <1>1, <3>3, <3>4, <3>5
  <2>. QED
    BY <2>1, <2>2
<1>6. CASE ClientStop(c)
  <2>1. Types'
    BY <1>6 DEF ClientStop, Types
  <2>2. Handles'
    BY <1>6, DiddAssumption DEF ClientStop, Types, Handles
  <2>3. RegisterFirst => NoneForgotten'
    BY <1>6 DEF ClientStop, Types, NoneForgotten, Told
  <2>. QED
    BY <1>1, <2>1, <2>2, <2>3
<1>. QED
  BY <1>2, <1>3, <1>4, <1>5, <1>6

LEMMA StepIInv == IInv /\ [Next]_vars => IInv'
<1>. SUFFICES ASSUME IInv, [Next]_vars PROVE IInv'
  OBVIOUS
<1>1. ASSUME NEW d \in Desc,
             \/ StartAdd(d) \/ AddTurn(d) \/ StartRemove(d) \/ FindTurn(d)
             \/ ClearEntry(d) \/ NotifyCopy(d) \/ NotifyCall(d)
      PROVE  IInv'
  BY <1>1, DriverStep, AddTurnStep, ClearEntryStep
<1>2. ASSUME NEW c \in Client,
             \/ ClientStart(c) \/ diva_didd_read_adapter_array(c)
             \/ ReadMAdapter(c) \/ RegisterTurn(c) \/ ClientStop(c)
      PROVE  IInv'
  BY <1>2, ClientStep
<1>3. CASE UNCHANGED vars
  BY <1>3 DEF vars, table, driver, client, IInv, Types, Entries, Ahead, Handles,
              NoneForgotten, Told
<1>. QED
  BY <1>1, <1>2, <1>3 DEF Next

LEMMA DiddInvariant == Spec => []IInv
BY InitIInv, StepIInv, PTL DEF Spec

\* Adapters is the number of used entries and an adapter has one entry exactly
\* while its driver counts on it, although diva_didd_add_descriptor and
\* diva_didd_remove_descriptor hold didd_spin for one entry at a time.
THEOREM ArrayExact == Spec => []InArrayOnce
<1>1. ASSUME IInv PROVE InArrayOnce
  <2>1. ASSUME NEW d \in Desc \ {DIMAINT}
        PROVE  Cardinality({s \in Slots : HandleTable[s] = d}) =
                 IF pc[d] \in In THEN 1 ELSE 0
    <3>1. CASE pc[d] \in In
      <4>1. PICK s \in Slots : HandleTable[s] = d
        BY <1>1, <3>1 DEF IInv, Entries
      <4>2. {t \in Slots : HandleTable[t] = d} = {s}
        BY <1>1, <4>1, DiddAssumption DEF IInv, Entries
      <4>. QED
        BY <3>1, <4>2, FS_Singleton
    <3>2. CASE pc[d] \notin In
      <4>1. {t \in Slots : HandleTable[t] = d} = {}
        BY <1>1, <3>2, DiddAssumption DEF IInv, Entries
      <4>. QED
        BY <3>2, <4>1, FS_EmptySet
    <3>. QED
      BY <3>1, <3>2
  <2>. QED
    BY <1>1, <2>1 DEF IInv, Entries, InArrayOnce, In
<1>. QED
  BY <1>1, DiddInvariant, PTL

\* diva_didd_remove_descriptor finds the entry it looks for although its search
\* takes no lock and other drivers add and remove theirs meanwhile.
THEOREM SearchSucceeds == Spec => []RemoveFinds
<1>1. IInv => RemoveFinds
  BY DEF IInv, Ahead, RemoveFinds
<1>. QED
  BY <1>1, DiddInvariant, PTL

\* A client that registers its callback before it reads the array, as the
\* comment on diva_notify_adapter_change asks, knows every adapter in it.
THEOREM RegisterFirstSuffices == ASSUME RegisterFirst PROVE Spec => []NoneMissed
<1>1. IInv => NoneMissed
  BY DEF IInv, NoneForgotten, Told, NoneMissed
<1>. QED
  BY <1>1, DiddInvariant, PTL

\* Types of the directory's state.
THEOREM TypeCorrect == Spec => []TypeOK
<1>1. Init => TypeOK
  BY InitIInv DEF IInv, Init, TypeOK
<1>2. IInv /\ TypeOK /\ IInv' /\ [Next]_vars => TypeOK'
  <2>. SUFFICES ASSUME TypeOK, IInv', [Next]_vars PROVE MAdapter' \in BOOLEAN
    BY DEF IInv, TypeOK
  <2>1. MAdapter' \in {MAdapter, TRUE, FALSE}
    BY DEF Next, vars, StartAdd, AddTurn, StartRemove, FindTurn, ClearEntry, NotifyCopy,
           NotifyCall, ClientStart, diva_didd_read_adapter_array, ReadMAdapter,
           RegisterTurn, ClientStop, table
  <2>. QED
    BY <2>1 DEF TypeOK
<1>. QED
  BY <1>1, <1>2, DiddInvariant, PTL DEF Spec
=============================================================================
