------------------------- MODULE EntityTableProofs -------------------------
(***************************************************************************)
(* The two lists of e_tbl stay intact although they share one link field,  *)
(* for any table of up to 256 entries, any number of clients and any set   *)
(* of card references, until an entity is in entry 0 or in two entries.    *)
(***************************************************************************)
EXTENDS EntityTable, FiniteSetTheorems, SequenceTheorems, WellFoundedInduction, TLAPS

\* A set of numbers that is not empty has a least element.
LEMMA LeastNat ==
  ASSUME NEW T, T \subseteq Nat, T # {}
  PROVE  \E x \in T : \A y \in T : x <= y
<1>1. PICK x \in T : \A y \in T : ~ (<<y, x>> \in OpToRel(<, Nat))
  BY NatLessThanWellFounded, WFMin
<1>2. \A y \in T : <<y, x>> \in OpToRel(<, Nat) <=> y < x
  BY DEF OpToRel
<1>3. \A y \in T : ~ (y < x)
  BY <1>1, <1>2, Zenon
<1>4. \A y \in T : x <= y
  BY <1>3
<1>. QED
  BY <1>4

\* Link is Slot and 0.
LEMMA SlotFacts ==
  /\ Slot \subseteq Link /\ Link \subseteq Nat /\ 0 \notin Slot /\ 0 \in Link
  /\ Link = Slot \cup {0} /\ \A i \in Slot : i # 0
BY EMaxAssumption DEF Slot, Link

\* At first the table is empty.
LEMMA InitSound == Init => Sound
<1>. SUFFICES ASSUME Init PROVE Sound
  OBVIOUS
<1>1. TypeOK
  <2>1. /\ e \in [Link -> Entity \cup {NULL}] /\ next \in [Link -> Link]
        /\ assign_ref \in [Link -> Refs \cup {0}] /\ phase \in [Link -> Phases]
    BY SlotFacts DEF Init, Phases
  <2>2. head \in Link /\ tail \in Link /\ assign \in Link /\ e_count \in 0 .. e_max
    BY SlotFacts, EMaxAssumption DEF Init
  <2>3. hasId \in SUBSET Slot /\ twice \in BOOLEAN
    BY DEF Init
  <2>4. reqq \in Seq(Link) /\ pend \in Seq(Slot)
    BY DEF Init
  <2>. QED
    BY <2>1, <2>2, <2>3, <2>4 DEF TypeOK
<1>2. Counted
  <2>1. {i \in Link : e[i] # NULL} = {}
    BY DEF Init
  <2>. QED
    BY <2>1, FS_EmptySet DEF Init, Counted
<1>3. Listed /\ Linked /\ PendingLinked /\ UsedPhases
  BY SlotFacts DEF Init, Listed, Linked, PendingLinked, UsedPhases, Phases
<1>. QED
  BY <1>1, <1>2, <1>3 DEF Sound

\* An entity enters a free entry: the count stays exact.
LEMMA CountUp ==
  ASSUME TypeOK, Counted, NEW i \in Link, NEW x \in Entity, e[i] = NULL, e_count < e_max,
         e' = [e EXCEPT ![i] = x], e_count' = e_count + 1
  PROVE  Counted' /\ e_count' \in 0 .. e_max
<1>. DEFINE U == {j \in Link : e[j] # NULL}
<1>1. IsFiniteSet(Link) /\ U \subseteq Link
  BY EMaxAssumption, FS_Interval DEF Link
<1>2. IsFiniteSet(U) /\ i \notin U
  BY <1>1, FS_Subset
<1>3. {j \in Link : e'[j] # NULL} = U \cup {i}
  BY EntityAssumption DEF TypeOK
<1>4. Cardinality(U \cup {i}) = Cardinality(U) + 1
  BY <1>2, FS_AddElement
<1>5. e_count = Cardinality(U)
  BY DEF Counted
<1>. HIDE DEF U
<1>6. Counted'
  BY <1>3, <1>4, <1>5 DEF Counted
<1>7. e_count' \in 0 .. e_max
  BY EMaxAssumption DEF TypeOK
<1>. QED
  BY <1>6, <1>7

\* An entry in use becomes free: the count stays exact.
LEMMA CountDown ==
  ASSUME TypeOK, Counted, NEW i \in Link, e[i] # NULL,
         e' = [e EXCEPT ![i] = NULL], e_count' = e_count - 1
  PROVE  Counted' /\ e_count' \in 0 .. e_max
<1>. DEFINE U == {j \in Link : e[j] # NULL}
<1>1. IsFiniteSet(Link) /\ U \subseteq Link
  BY EMaxAssumption, FS_Interval DEF Link
<1>2. IsFiniteSet(U) /\ i \in U
  BY <1>1, FS_Subset
<1>3. {j \in Link : e'[j] # NULL} = U \ {i}
  BY DEF TypeOK
<1>4. Cardinality(U \ {i}) = Cardinality(U) - 1 /\ Cardinality(U) # 0
  BY <1>2, FS_RemoveElement, FS_EmptySet
<1>5. e_count = Cardinality(U)
  BY DEF Counted
<1>. HIDE DEF U
<1>6. Counted'
  BY <1>3, <1>4, <1>5 DEF Counted
<1>7. e_count' \in 0 .. e_max
  BY <1>4, <1>5, EMaxAssumption DEF TypeOK
<1>. QED
  BY <1>6, <1>7

\* A queue of slots is a queue of entries.
LEMMA ReqqType == Seq(Slot) \subseteq Seq(Link)
BY SlotFacts

\* Appending to the request queue keeps both lists, when the slot is in neither.
LEMMA EnqueueStep ==
  ASSUME Sound, NEW i \in Slot, phase[i] \notin {"queued", "assigning"}, Enqueue(i)
  PROVE  /\ next' \in [Link -> Link] /\ head' \in Link /\ tail' \in Link
         /\ phase' \in [Link -> Phases] /\ reqq' \in Seq(Slot)
         /\ Linked'
         /\ \A j \in Slot : phase[j] = "assigning" => next'[j] = next[j] /\ phase'[j] = "assigning"
<1>n. PICK n \in Nat : n = Len(reqq)
  BY DEF Sound, TypeOK, Listed
<1>0. /\ reqq \in Seq(Slot) /\ next \in [Link -> Link] /\ phase \in [Link -> Phases]
      /\ head \in Link /\ tail \in Link
  BY DEF Sound, TypeOK, Listed
<1>1. /\ \A k \in 1 .. n : reqq[k] \in Slot /\ phase[reqq[k]] = "queued" /\ reqq[k] # i
      /\ n # 0 => head = reqq[1] /\ tail = reqq[n] /\ head # 0 /\ tail \in Slot /\ n \in 1 .. n
      /\ n = 0 => head = 0
  BY <1>n, <1>0, SlotFacts DEF Sound, Linked
<1>2. /\ Len(reqq') = n + 1 /\ DOMAIN reqq' = 1 .. n + 1 /\ reqq' \in Seq(Slot)
      /\ reqq'[n + 1] = i /\ \A k \in 1 .. n : reqq'[k] = reqq[k]
  BY <1>n, <1>0 DEF Enqueue
<1>3. /\ next'[i] = 0
      /\ n # 0 => next'[reqq[n]] = i
      /\ \A j \in Slot : j # i /\ (n = 0 \/ j # reqq[n]) => next'[j] = next[j]
      /\ next' \in [Link -> Link]
  BY <1>0, <1>1, SlotFacts DEF Enqueue
<1>4. /\ phase' \in [Link -> Phases] /\ phase'[i] = "queued"
      /\ \A j \in Slot : j # i => phase'[j] = phase[j]
  BY <1>0, SlotFacts DEF Enqueue, Phases
<1>5. /\ tail' = i /\ head' = IF n # 0 THEN reqq[1] ELSE i
      /\ head' \in Link /\ tail' \in Link
  <2>1. tail' = i /\ head' = IF head # 0 THEN head ELSE i
    BY DEF Enqueue
  <2>2. i \in Link /\ head \in Link
    BY <1>0, SlotFacts
  <2>3. CASE n = 0
    <3>1. head' = i
      BY <2>1, <2>3, <1>1
    <3>. QED
      BY <3>1, <2>1, <2>2, <2>3
  <2>4. CASE n # 0
    <3>1. head' = head
      BY <2>1, <2>4, <1>1
    <3>2. head = reqq[1]
      BY <2>4, <1>1
    <3>. QED
      BY <3>1, <3>2, <2>1, <2>2, <2>4
  <2>. QED
    BY <2>3, <2>4
<1>6. Linked'
  <2>1. reqq' # <<>> /\ head' = reqq'[1] /\ tail' = reqq'[n + 1]
    <3>1. CASE n = 0
      <4>1. head' = i /\ tail' = i
        BY <3>1, <1>5
      <4>2. n + 1 = 1 /\ reqq'[1] = i
        BY <3>1, <1>2
      <4>3. Len(reqq') # 0
        BY <3>1, <1>2
      <4>4. reqq' # <<>>
        BY <4>3, LenProperties
      <4>. QED
        BY <4>1, <4>2, <4>4
    <3>2. CASE n # 0
      <4>1. head' = reqq[1] /\ tail' = i
        BY <3>2, <1>5
      <4>2. 1 \in 1 .. n /\ reqq' # <<>>
        BY <3>2, <1>2
      <4>. QED
        BY <4>1, <4>2, <1>2
    <3>. QED
      BY <3>1, <3>2
  <2>2. \A k \in 1 .. n + 1 :
          /\ next'[reqq'[k]] = IF k = n + 1 THEN 0 ELSE reqq'[k + 1]
          /\ phase'[reqq'[k]] = "queued"
    <3>. SUFFICES ASSUME NEW k \in 1 .. n + 1
                  PROVE  /\ next'[reqq'[k]] = IF k = n + 1 THEN 0 ELSE reqq'[k + 1]
                         /\ phase'[reqq'[k]] = "queued"
      OBVIOUS
    <3>1. CASE k = n + 1
      BY <3>1, <1>2, <1>3, <1>4
    <3>2. CASE k = n /\ k # n + 1
      BY <3>2, <1>1, <1>2, <1>3, <1>4
    <3>3. CASE k \in 1 .. n - 1
      <4>1. k \in 1 .. n /\ n \in 1 .. n /\ k + 1 \in 1 .. n /\ k # n
        BY <3>3
      <4>2. reqq[k] # reqq[n] /\ next[reqq[k]] = reqq[k + 1]
        BY <4>1, <1>n, <1>0 DEF Sound, Linked
      <4>3. reqq'[k] = reqq[k] /\ reqq'[k + 1] = reqq[k + 1] /\ reqq[k] \in Slot /\ reqq[k] # i
            /\ phase[reqq[k]] = "queued"
        BY <4>1, <1>1, <1>2
      <4>. QED
        BY <4>1, <4>2, <4>3, <1>3, <1>4
    <3>. QED
      BY <3>1, <3>2, <3>3
  <2>3. \A k, m \in 1 .. n + 1 : k # m => reqq'[k] # reqq'[m]
    <3>1. \A k, m \in 1 .. n : k # m => reqq[k] # reqq[m]
      BY <1>n, <1>0 DEF Sound, Linked
    <3>. QED
      BY <3>1, <1>1, <1>2
  <2>4. \A j \in Slot : phase'[j] = "queued" => \E k \in 1 .. n + 1 : reqq'[k] = j
    <3>. SUFFICES ASSUME NEW j \in Slot, phase'[j] = "queued"
                  PROVE  \E k \in 1 .. n + 1 : reqq'[k] = j
      OBVIOUS
    <3>1. CASE j = i
      BY <3>1, <1>2
    <3>2. CASE j # i
      <4>1. PICK k \in 1 .. n : reqq[k] = j
        BY <3>2, <1>4, <1>n, <1>0 DEF Sound, Linked
      <4>. QED
        BY <4>1, <1>2
    <3>. QED
      BY <3>1, <3>2
  <2>. QED
    BY <2>1, <2>2, <2>3, <2>4, <1>2 DEF Linked
<1>7. \A j \in Slot : phase[j] = "assigning" => next'[j] = next[j] /\ phase'[j] = "assigning"
  BY <1>1, <1>3, <1>4
<1>. QED
  BY <1>2, <1>3, <1>4, <1>5, <1>6, <1>7

\* The list of unanswered ASSIGNs does not change while their slots do not.
LEMMA PendingFrame ==
  ASSUME Sound, pend' = pend, assign' = assign, assign_ref' = assign_ref,
         \A j \in Slot : phase[j] = "assigning" => next'[j] = next[j] /\ phase'[j] = "assigning"
  PROVE  PendingLinked'
<1>1. \A k \in DOMAIN pend : pend[k] \in Slot /\ phase[pend[k]] = "assigning"
  BY DEF Sound, TypeOK, Listed, PendingLinked
<1>2. \A k \in DOMAIN pend : next'[pend[k]] = next[pend[k]] /\ phase'[pend[k]] = "assigning"
  BY <1>1
<1>. QED
  BY <1>2 DEF Sound, PendingLinked

\* The entry a search with a byte ends at.
LEMMA FirstFreeFacts ==
  ASSUME NEW i \in Link, FirstFree(i)
  PROVE  e[i] = NULL /\ (i = 0 => e_max = ByteRange)
<1>1. PICK n \in 1 .. e_max : i = n % ByteRange /\ e[i] = NULL
  BY DEF FirstFree
<1>2. n < ByteRange => n % ByteRange = n
  BY EMaxAssumption, ByteAssumption
<1>. QED
  BY <1>1, <1>2, EMaxAssumption, ByteAssumption

\* A new entity is linked at the end of the queue.
LEMMA RequestAssignStep ==
  ASSUME Sound, NEW x \in Entity, RequestAssign(x), ~Beyond'
  PROVE  Sound'
<1>1. PICK i \in Link : /\ FirstFree(i) /\ e' = [e EXCEPT ![i] = x]
                        /\ e_count' = e_count + 1 /\ Enqueue(i)
  BY DEF RequestAssign
<1>2. hasId' = hasId /\ pend' = pend /\ assign' = assign /\ assign_ref' = assign_ref
      /\ twice' \in BOOLEAN /\ e_count < e_max /\ x # NULL
  BY <1>1, EntityAssumption DEF RequestAssign, Enqueue, Beyond
<1>a. i \in Slot
  <2>1. e'[0] = NULL /\ 0 \in Link
    BY SlotFacts DEF Beyond
  <2>2. i = 0 => e'[0] = x
    BY <2>1, <1>1 DEF Sound, TypeOK
  <2>. QED
    BY <2>1, <2>2, <1>2, SlotFacts
<1>3. e[i] = NULL /\ phase[i] = "free"
  BY <1>1, <1>a, FirstFreeFacts DEF Sound, UsedPhases
<1>4. /\ next' \in [Link -> Link] /\ head' \in Link /\ tail' \in Link
      /\ phase' \in [Link -> Phases] /\ reqq' \in Seq(Slot)
      /\ Linked'
      /\ \A j \in Slot : phase[j] = "assigning" => next'[j] = next[j] /\ phase'[j] = "assigning"
  BY <1>1, <1>3, <1>a, EnqueueStep
<1>5. PendingLinked'
  BY <1>2, <1>4, PendingFrame
<1>b. Counted' /\ e_count' \in 0 .. e_max
  BY <1>1, <1>2, <1>3, CountUp DEF Sound
<1>6. TypeOK' /\ Listed'
  <2>1. e' \in [Link -> Entity \cup {NULL}]
    BY <1>1 DEF Sound, TypeOK
  <2>. QED
    BY <2>1, <1>2, <1>4, <1>b, ReqqType DEF Sound, TypeOK, Listed
<1>7. UsedPhases'
  <2>1. phase' = [phase EXCEPT ![i] = "queued"] /\ x # NULL
    BY <1>1, EntityAssumption DEF Enqueue
  <2>. QED
    BY <2>1, <1>1, <1>2, <1>3, SlotFacts DEF Sound, TypeOK, UsedPhases
<1>. QED
  BY <1>4, <1>5, <1>6, <1>7, <1>b DEF Sound

\* Also the request that breaks the lists keeps their types.
LEMMA RequestAssignTypes ==
  ASSUME TypeOK, NEW x \in Entity, RequestAssign(x)
  PROVE  TypeOK'
<1>1. PICK i \in Link : /\ e' = [e EXCEPT ![i] = x]
                        /\ e_count' = e_count + 1 /\ Enqueue(i)
  BY DEF RequestAssign
<1>2. /\ hasId' = hasId /\ pend' = pend /\ assign' = assign /\ assign_ref' = assign_ref
      /\ twice' \in BOOLEAN /\ e_count < e_max
  BY <1>1 DEF RequestAssign, Enqueue, TypeOK
<1>3. e' \in [Link -> Entity \cup {NULL}] /\ e_count' \in 0 .. e_max
  BY <1>1, <1>2, EMaxAssumption DEF TypeOK
<1>4. next' \in [Link -> Link] /\ head' \in Link /\ tail' \in Link
  BY <1>1, SlotFacts DEF TypeOK, Enqueue
<1>5. phase' \in [Link -> Phases] /\ reqq' \in Seq(Link)
  BY <1>1 DEF TypeOK, Enqueue, Phases
<1>. QED
  BY <1>2, <1>3, <1>4, <1>5 DEF TypeOK

\* request() of an assigned entity and req_queue: the slot keeps its entity.
LEMMA QueueStep ==
  ASSUME Sound, NEW i \in Slot, Request(i) \/ req_queue(i)
  PROVE  Sound'
<1>1. phase[i] \in {"idle", "sending"} /\ Enqueue(i)
      /\ e' = e /\ e_count' = e_count /\ hasId' = hasId /\ pend' = pend /\ twice' = twice
  BY DEF Request, req_queue
<1>2. assign' = assign /\ assign_ref' = assign_ref /\ phase' = [phase EXCEPT ![i] = "queued"]
  BY <1>1 DEF Enqueue
<1>4. /\ next' \in [Link -> Link] /\ head' \in Link /\ tail' \in Link
      /\ phase' \in [Link -> Phases] /\ reqq' \in Seq(Slot)
      /\ Linked'
      /\ \A j \in Slot : phase[j] = "assigning" => next'[j] = next[j] /\ phase'[j] = "assigning"
  BY <1>1, EnqueueStep
<1>5. PendingLinked'
  BY <1>1, <1>2, <1>4, PendingFrame
<1>6. TypeOK' /\ Listed' /\ Counted'
  BY <1>1, <1>2, <1>4, ReqqType DEF Sound, TypeOK, Listed, Counted
<1>7. UsedPhases'
  BY <1>1, <1>2 DEF Sound, TypeOK, Listed, UsedPhases
<1>. QED
  BY <1>4, <1>5, <1>6, <1>7 DEF Sound

\* pr_out takes the head of the queue.
LEMMA NextReqStep ==
  ASSUME Sound, next_req
  PROVE  Sound'
<1>n. PICK n \in Nat : n = Len(reqq)
  BY DEF Sound, TypeOK, Listed
<1>0. /\ reqq \in Seq(Slot) /\ next \in [Link -> Link] /\ phase \in [Link -> Phases]
      /\ head \in Link /\ tail \in Link
  BY DEF Sound, TypeOK, Listed
<1>1. /\ n >= 1 /\ n - 1 \in Nat /\ 1 \in 1 .. n /\ n \in 1 .. n /\ DOMAIN reqq = 1 .. n
      /\ head = reqq[1] /\ tail = reqq[n] /\ head \in Slot
  BY <1>n, <1>0 DEF next_req, Sound, Linked
<1>2. /\ \A k \in 1 .. n : /\ reqq[k] \in Slot /\ phase[reqq[k]] = "queued"
                           /\ next[reqq[k]] = IF k = n THEN 0 ELSE reqq[k + 1]
      /\ \A k, m \in 1 .. n : k # m => reqq[k] # reqq[m]
      /\ \A j \in Slot : phase[j] = "queued" => \E k \in 1 .. n : reqq[k] = j
  <2>1. \A k \in 1 .. n : /\ reqq[k] \in Slot /\ phase[reqq[k]] = "queued"
                          /\ next[reqq[k]] = IF k = n THEN 0 ELSE reqq[k + 1]
    BY <1>n, <1>0, <1>1 DEF Sound, Linked
  <2>2. \A k, m \in 1 .. n : k # m => reqq[k] # reqq[m]
    BY <1>1 DEF Sound, Linked
  <2>3. \A j \in Slot : phase[j] = "queued" => \E k \in 1 .. n : reqq[k] = j
    BY <1>1 DEF Sound, Linked
  <2>. QED
    BY <2>1, <2>2, <2>3
<1>3. /\ next' = next /\ phase' = [phase EXCEPT ![head] = "sending"]
      /\ pend' = pend /\ assign' = assign /\ assign_ref' = assign_ref
      /\ e' = e /\ e_count' = e_count /\ hasId' = hasId /\ twice' = twice
      /\ \A j \in Slot : phase[j] # "sending"
  BY DEF next_req
<1>4. /\ reqq' \in Seq(Slot) /\ Len(reqq') = n - 1 /\ DOMAIN reqq' = 1 .. n - 1
      /\ \A k \in 1 .. n - 1 : reqq'[k] = reqq[k + 1] /\ k + 1 \in 1 .. n
      /\ (reqq' = <<>>) <=> (n = 1)
  <2>1. reqq' = Tail(reqq)
    BY DEF next_req
  <2>2. Len(reqq') = n - 1 /\ reqq' \in Seq(Slot)
    BY <2>1, <1>n, <1>0, <1>1
  <2>3. \A k \in 1 .. n - 1 : reqq'[k] = reqq[k + 1] /\ k + 1 \in 1 .. n
    BY <2>1, <1>n, <1>0, <1>1
  <2>. QED
    BY <2>2, <2>3, <1>1
<1>5. \A j \in Slot : phase'[j] = IF j = head THEN "sending" ELSE phase[j]
  BY <1>0, <1>3
<1>6. PendingLinked'
  <2>1. phase[head] = "queued"
    BY <1>1, <1>2
  <2>. QED
    BY <2>1, <1>3, <1>5, PendingFrame
<1>7. /\ n = 1 => head' = 0 /\ tail' = 0
      /\ n # 1 => head' = reqq[2] /\ tail' = reqq[n] /\ 2 \in 1 .. n
  <2>1. next[head] = IF n = 1 THEN 0 ELSE reqq[2]
    BY <1>1, <1>2
  <2>2. n # 1 => 2 \in 1 .. n /\ reqq[2] # 0
    BY <1>1, <1>2, SlotFacts
  <2>. QED
    BY <2>1, <2>2, <1>1 DEF next_req
<1>8. Linked'
  <2>1. IF reqq' = <<>> THEN head' = 0 /\ tail' = 0
        ELSE head' = reqq'[1] /\ tail' = reqq'[n - 1]
    <3>1. CASE n = 1
      BY <3>1, <1>4, <1>7
    <3>2. CASE n # 1
      <4>1. 1 \in 1 .. n - 1 /\ n - 1 \in 1 .. n - 1 /\ (n - 1) + 1 = n /\ 1 + 1 = 2
        BY <3>2, <1>1
      <4>2. reqq'[1] = reqq[2] /\ reqq'[n - 1] = reqq[n]
        BY <4>1, <1>4
      <4>. QED
        BY <4>2, <3>2, <1>4, <1>7
    <3>. QED
      BY <3>1, <3>2
  <2>2. \A k \in 1 .. n - 1 :
          /\ next'[reqq'[k]] = IF k = n - 1 THEN 0 ELSE reqq'[k + 1]
          /\ phase'[reqq'[k]] = "queued"
    <3>. SUFFICES ASSUME NEW k \in 1 .. n - 1
                  PROVE  /\ next'[reqq'[k]] = IF k = n - 1 THEN 0 ELSE reqq'[k + 1]
                         /\ phase'[reqq'[k]] = "queued"
      OBVIOUS
    <3>1. reqq'[k] = reqq[k + 1] /\ k + 1 \in 1 .. n /\ k + 1 # 1
      BY <1>4
    <3>2. reqq[k + 1] # head /\ reqq[k + 1] \in Slot /\ phase[reqq[k + 1]] = "queued"
          /\ next[reqq[k + 1]] = IF k + 1 = n THEN 0 ELSE reqq[(k + 1) + 1]
      BY <3>1, <1>1, <1>2
    <3>3. k # n - 1 => k + 1 \in 1 .. n - 1 /\ reqq'[k + 1] = reqq[(k + 1) + 1]
      BY <1>4
    <3>. QED
      BY <3>1, <3>2, <3>3, <1>1, <1>3, <1>5
  <2>3. \A k, m \in 1 .. n - 1 : k # m => reqq'[k] # reqq'[m]
    <3>. SUFFICES ASSUME NEW k \in 1 .. n - 1, NEW m \in 1 .. n - 1, k # m
                  PROVE  reqq'[k] # reqq'[m]
      OBVIOUS
    <3>1. /\ k + 1 \in 1 .. n /\ m + 1 \in 1 .. n /\ k + 1 # m + 1
          /\ reqq'[k] = reqq[k + 1] /\ reqq'[m] = reqq[m + 1]
      BY <1>4
    <3>2. reqq[k + 1] # reqq[m + 1]
      BY <3>1, <1>2
    <3>. QED
      BY <3>1, <3>2
  <2>4. \A j \in Slot : phase'[j] = "queued" => \E k \in 1 .. n - 1 : reqq'[k] = j
    <3>. SUFFICES ASSUME NEW j \in Slot, phase'[j] = "queued"
                  PROVE  \E k \in 1 .. n - 1 : reqq'[k] = j
      OBVIOUS
    <3>1. j # head /\ phase[j] = "queued"
      BY <1>5
    <3>2. PICK k \in 1 .. n : reqq[k] = j
      BY <3>1, <1>2
    <3>3. k # 1 /\ k - 1 \in 1 .. n - 1 /\ (k - 1) + 1 = k
      BY <3>1, <3>2, <1>1
    <3>. QED
      BY <3>2, <3>3, <1>4
  <2>. QED
    BY <2>1, <2>2, <2>3, <2>4, <1>4 DEF Linked
<1>9. TypeOK' /\ Listed' /\ Counted'
  <2>1. phase' \in [Link -> Phases]
    BY <1>0, <1>3 DEF Phases
  <2>2. head' \in Link /\ tail' \in Link
    BY <1>2, <1>7, SlotFacts
  <2>. QED
    BY <2>1, <2>2, <1>3, <1>4, ReqqType DEF Sound, TypeOK, Listed, Counted
<1>10. UsedPhases'
  BY <1>1, <1>2, <1>3, <1>5 DEF Sound, UsedPhases
<1>. QED
  BY <1>6, <1>8, <1>9, <1>10 DEF Sound

\* pr_out sent a request: no list changes.
LEMMA SentStep ==
  ASSUME Sound, NEW i \in Slot, Sent(i)
  PROVE  Sound'
<1>1. /\ phase[i] = "sending" /\ phase' = [phase EXCEPT ![i] = "sent"]
      /\ UNCHANGED <<e, e_count, hasId, reqq, pend, twice, next, assign_ref, head, tail, assign>>
  BY DEF Sent, lists
<1>2. \A j \in Slot : phase'[j] = IF j = i THEN "sent" ELSE phase[j]
  BY <1>1, SlotFacts DEF Sound, TypeOK, Listed
<1>3. PendingLinked'
  BY <1>1, <1>2, PendingFrame
<1>4. Linked'
  BY <1>1, <1>2 DEF Sound, TypeOK, Listed, Linked
<1>5. TypeOK' /\ Listed' /\ Counted'
  BY <1>1 DEF Sound, TypeOK, Listed, Counted, Phases
<1>6. UsedPhases'
  BY <1>1, <1>2 DEF Sound, UsedPhases
<1>. QED
  BY <1>3, <1>4, <1>5, <1>6 DEF Sound

\* A sent ASSIGN becomes the head of the assign list.
LEMMA AssignQueueStep ==
  ASSUME Sound, NEW i \in Slot, NEW ref \in Refs, assign_queue(i, ref)
  PROVE  Sound'
<1>n. PICK n \in Nat : n = Len(pend)
  BY DEF Sound, TypeOK, Listed
<1>0. /\ pend \in Seq(Slot) /\ DOMAIN pend = 1 .. n
      /\ next \in [Link -> Link] /\ phase \in [Link -> Phases]
      /\ assign_ref \in [Link -> Refs \cup {0}] /\ assign \in Link
  BY <1>n DEF Sound, TypeOK, Listed
<1>1. /\ phase[i] = "sending" /\ i \notin hasId
      /\ \A k \in 1 .. n : assign_ref[pend[k]] # ref
      /\ assign_ref' = [assign_ref EXCEPT ![i] = ref]
      /\ next' = [next EXCEPT ![i] = assign] /\ assign' = i
      /\ phase' = [phase EXCEPT ![i] = "assigning"] /\ pend' = Append(pend, i)
      /\ UNCHANGED <<e, e_count, hasId, reqq, head, tail, twice>>
  BY <1>0 DEF assign_queue
<1>2. \A k \in 1 .. n : /\ pend[k] \in Slot /\ phase[pend[k]] = "assigning" /\ pend[k] # i
                        /\ k # 1 => next[pend[k]] = pend[k - 1]
  <2>1. ASSUME NEW k \in 1 .. n
        PROVE  /\ phase[pend[k]] = "assigning" /\ pend[k] \in Slot
               /\ k # 1 => next[pend[k]] = pend[k - 1]
    <3>1. k \in DOMAIN pend
      BY <1>n, <1>0, LenProperties, Zenon
    <3>2. pend[k] \in Slot
      BY <1>n, <1>0, ElementOfSeq
    <3>. QED
      BY <3>1, <3>2 DEF Sound, PendingLinked
  <2>2. phase[i] # "assigning"
    BY <1>1
  <2>. QED
    BY <2>1, <2>2
<1>a. n # 0 => assign = pend[n]
  <2>1. n # 0 => pend # <<>>
    <3>1. pend = <<>> => n = 0
      BY <1>n
    <3>. QED
      BY <3>1
  <2>2. pend # <<>> => assign = pend[n]
    BY <1>n, Zenon DEF Sound, PendingLinked
  <2>. QED
    BY <2>1, <2>2, Zenon
<1>3. /\ Len(pend') = n + 1 /\ DOMAIN pend' = 1 .. n + 1 /\ pend' \in Seq(Slot) /\ pend' # <<>>
      /\ pend'[n + 1] = i /\ \A k \in 1 .. n : pend'[k] = pend[k]
  <2>1. pend' \in Seq(Slot) /\ Len(pend') = n + 1
    BY <1>n, <1>0, <1>1
  <2>2. pend'[n + 1] = i /\ \A k \in 1 .. n : pend'[k] = pend[k]
    BY <1>n, <1>0, <1>1
  <2>. QED
    BY <2>1, <2>2
<1>4. \A j \in Slot : /\ phase'[j] = IF j = i THEN "assigning" ELSE phase[j]
                      /\ next'[j] = IF j = i THEN assign ELSE next[j]
                      /\ assign_ref'[j] = IF j = i THEN ref ELSE assign_ref[j]
  BY <1>0, <1>1, SlotFacts
<1>5. Linked'
  <2>1. \A k \in DOMAIN reqq : reqq[k] \in Slot /\ reqq[k] # i
    BY <1>1 DEF Sound, TypeOK, Listed, Linked
  <2>2. \A k \in DOMAIN reqq : next'[reqq[k]] = next[reqq[k]] /\ phase'[reqq[k]] = phase[reqq[k]]
    BY <2>1, <1>4
  <2>3. \A j \in Slot : phase'[j] = "queued" => phase[j] = "queued"
    BY <1>4
  <2>. QED
    BY <2>2, <2>3, <1>1 DEF Sound, Linked
<1>6. PendingLinked'
  <2>1. assign' = pend'[Len(pend')]
    BY <1>1, <1>3
  <2>2. \A k \in 1 .. n + 1 : /\ k # 1 => next'[pend'[k]] = pend'[k - 1]
                              /\ phase'[pend'[k]] = "assigning"
    <3>. SUFFICES ASSUME NEW k \in 1 .. n + 1
                  PROVE  /\ k # 1 => next'[pend'[k]] = pend'[k - 1]
                         /\ phase'[pend'[k]] = "assigning"
      OBVIOUS
    <3>1. CASE k = n + 1
      <4>1. n # 0 => n \in 1 .. n /\ k - 1 = n
        BY <3>1
      <4>. QED
        BY <4>1, <3>1, <1>2, <1>a, <1>3, <1>4
    <3>2. CASE k \in 1 .. n
      <4>1. k # 1 => k - 1 \in 1 .. n
        BY <3>2
      <4>. QED
        BY <4>1, <3>2, <1>2, <1>a, <1>3, <1>4
    <3>. QED
      BY <3>1, <3>2
  <2>3. \A k, m \in 1 .. n + 1 : k # m =>
          pend'[k] # pend'[m] /\ assign_ref'[pend'[k]] # assign_ref'[pend'[m]]
    <3>0. \A k, m \in 1 .. n : k # m =>
            pend[k] # pend[m] /\ assign_ref[pend[k]] # assign_ref[pend[m]]
      BY <1>0 DEF Sound, PendingLinked
    <3>1. \A k \in 1 .. n : pend'[k] # i /\ assign_ref'[pend'[k]] = assign_ref[pend[k]]
                            /\ assign_ref[pend[k]] # ref
      BY <1>1, <1>2, <1>a, <1>3, <1>4
    <3>2. pend'[n + 1] = i /\ assign_ref'[i] = ref
      BY <1>3, <1>4
    <3>. SUFFICES ASSUME NEW k \in 1 .. n + 1, NEW m \in 1 .. n + 1, k # m
                  PROVE  pend'[k] # pend'[m] /\ assign_ref'[pend'[k]] # assign_ref'[pend'[m]]
      OBVIOUS
    <3>3. CASE k \in 1 .. n /\ m \in 1 .. n
      BY <3>0, <3>1, <3>3, <1>3
    <3>4. CASE k = n + 1 /\ m \in 1 .. n
      BY <3>1, <3>2, <3>4
    <3>5. CASE k \in 1 .. n /\ m = n + 1
      BY <3>1, <3>2, <3>5
    <3>. QED
      BY <3>3, <3>4, <3>5
  <2>. QED
    BY <2>1, <2>2, <2>3, <1>3 DEF PendingLinked
<1>7. TypeOK' /\ Listed' /\ Counted'
  <2>1. assign_ref' \in [Link -> Refs \cup {0}]
    BY <1>0, <1>1
  <2>2. next' \in [Link -> Link] /\ assign' \in Link
    BY <1>0, <1>1, SlotFacts
  <2>3. phase' \in [Link -> Phases]
    BY <1>0, <1>1 DEF Phases
  <2>. QED
    BY <2>1, <2>2, <2>3, <1>1, <1>3 DEF Sound, TypeOK, Listed, Counted
<1>8. UsedPhases'
  BY <1>1, <1>4 DEF Sound, UsedPhases
<1>. QED
  BY <1>5, <1>6, <1>7, <1>8 DEF Sound

(***************************************************************************)
(* The walk of get_assign follows the unanswered ASSIGNs, newest first,    *)
(* and stops at the one that carries the reference.                        *)
(***************************************************************************)
LEMMA WalkFindsPending ==
  ASSUME Sound, NEW k \in DOMAIN pend, NEW s \in Link, get_assign(assign_ref[pend[k]], s)
  PROVE  s = pend[k]
<1>. DEFINE ref == assign_ref[pend[k]]
<1>1. PICK L \in Nat : L = Len(pend) /\ DOMAIN pend = 1 .. L /\ k \in 1 .. L /\ L \in 1 .. L
  BY DEF Sound, TypeOK, Listed
<1>2. PICK n \in 0 .. e_max : \E p \in [0 .. n -> Link] :
        /\ p[0] = assign
        /\ \A j \in 0 .. (n - 1) : p[j] # 0 /\ assign_ref[p[j]] # ref /\ p[j + 1] = next[p[j]]
        /\ p[n] = s
        /\ s # 0 => assign_ref[s] = ref
  BY DEF get_assign
<1>3. PICK p \in [0 .. n -> Link] :
        /\ p[0] = assign
        /\ \A j \in 0 .. (n - 1) : p[j] # 0 /\ assign_ref[p[j]] # ref /\ p[j + 1] = next[p[j]]
        /\ p[n] = s
        /\ s # 0 => assign_ref[s] = ref
  BY <1>2
<1>4. /\ \A m \in 1 .. L : pend[m] \in Slot /\ pend[m] # 0
                           /\ (m # 1 => next[pend[m]] = pend[m - 1])
                           /\ (m # k => assign_ref[pend[m]] # ref)
      /\ assign = pend[L]
  <2>1. \A m \in 1 .. L : pend[m] \in Slot /\ pend[m] # 0
    BY <1>1, SlotFacts DEF Sound, TypeOK, Listed
  <2>2. \A m \in 1 .. L : m # 1 => next[pend[m]] = pend[m - 1]
    BY <1>1 DEF Sound, PendingLinked
  <2>3. \A m \in 1 .. L : m # k => assign_ref[pend[m]] # ref
    BY <1>1 DEF Sound, PendingLinked
  <2>4. assign = pend[L]
    BY <1>1 DEF Sound, PendingLinked
  <2>. QED
    BY <2>1, <2>2, <2>3, <2>4
<1>. HIDE DEF ref
<1>5. n \in Nat
  BY EMaxAssumption
<1>6. \A j \in Nat : j <= n /\ j <= L - k => p[j] = pend[L - j]
  <2>. DEFINE Bad == {j \in Nat : j <= n /\ j <= L - k /\ p[j] # pend[L - j]}
  <2>. SUFFICES ASSUME Bad # {} PROVE FALSE
    OBVIOUS
  <2>1. PICK j \in Bad : \A y \in Bad : j <= y
    BY LeastNat
  <2>2. j \in Nat /\ j <= n /\ j <= L - k /\ p[j] # pend[L - j] /\ j # 0
    BY <2>1, <1>1, <1>3, <1>4
  <2>3. /\ j - 1 \in Nat /\ j - 1 <= n /\ j - 1 <= L - k /\ j - 1 \notin Bad
        /\ j - 1 \in 0 .. (n - 1) /\ (j - 1) + 1 = j
    BY <2>1, <2>2, <1>1, <1>5
  <2>4. p[j - 1] = pend[L - (j - 1)]
    BY <2>3
  <2>5. p[j] = next[p[j - 1]]
    BY <2>3, <1>3
  <2>6. L - (j - 1) \in 1 .. L /\ L - (j - 1) # 1 /\ (L - (j - 1)) - 1 = L - j
    BY <2>2, <1>1
  <2>7. next[pend[L - (j - 1)]] = pend[L - j]
    BY <2>6, <1>4
  <2>. QED
    BY <2>2, <2>4, <2>5, <2>7
<1>7. L - k \in Nat /\ L - (L - k) = k
  BY <1>1
<1>8. CASE n < L - k
  <2>1. p[n] = pend[L - n] /\ L - n \in 1 .. L /\ L - n # k
    BY <1>1, <1>5, <1>6, <1>7, <1>8
  <2>. QED
    BY <2>1, <1>3, <1>4
<1>9. CASE n = L - k
  BY <1>3, <1>5, <1>6, <1>7, <1>9
<1>10. CASE n > L - k
  <2>1. p[L - k] = pend[k] /\ L - k \in 0 .. (n - 1)
    BY <1>5, <1>6, <1>7, <1>10
  <2>. QED
    BY <2>1, <1>3 DEF ref
<1>. QED
  BY <1>5, <1>7, <1>8, <1>9, <1>10

\* ... and the walk does end there.
LEMMA PendingIsFound ==
  ASSUME Sound, NEW k \in DOMAIN pend
  PROVE  get_assign(assign_ref[pend[k]], pend[k])
<1>1. PICK L \in Nat : L = Len(pend) /\ DOMAIN pend = 1 .. L /\ k \in 1 .. L /\ L \in 1 .. L
  BY DEF Sound, TypeOK, Listed
<1>2. /\ \A m \in 1 .. L : pend[m] \in Slot /\ pend[m] # 0
                           /\ (m # 1 => next[pend[m]] = pend[m - 1])
                           /\ (m # k => assign_ref[pend[m]] # assign_ref[pend[k]])
      /\ assign = pend[L]
  <2>1. \A m \in 1 .. L : pend[m] \in Slot /\ pend[m] # 0
    BY <1>1, SlotFacts DEF Sound, TypeOK, Listed
  <2>2. \A m \in 1 .. L : m # 1 => next[pend[m]] = pend[m - 1]
    BY <1>1 DEF Sound, PendingLinked
  <2>3. \A m \in 1 .. L : m # k => assign_ref[pend[m]] # assign_ref[pend[k]]
    BY <1>1 DEF Sound, PendingLinked
  <2>4. assign = pend[L]
    BY <1>1 DEF Sound, PendingLinked
  <2>. QED
    BY <2>1, <2>2, <2>3, <2>4
\* no slot is pending twice, so there are at most e_max of them
<1>3. L <= e_max
  <2>. SUFFICES ASSUME L > e_max PROVE FALSE
    BY <1>1, EMaxAssumption
  <2>1. IsFiniteSet(1 .. L) /\ Cardinality(1 .. L) = L
    <3>1. L \in Int /\ 1 \in Int /\ ~(1 > L) /\ L - 1 + 1 = L
      BY <1>1
    <3>2. /\ IsFiniteSet(1 .. L)
          /\ Cardinality(1 .. L) = IF 1 > L THEN 0 ELSE L - 1 + 1
      BY <3>1, FS_Interval, Zenon
    <3>. QED
      BY <3>1, <3>2
  <2>2. IsFiniteSet(Slot) /\ Cardinality(Slot) = e_max
    BY EMaxAssumption, FS_Interval DEF Slot
  <2>3. pend \in [1 .. L -> Slot]
    BY <1>1 DEF Sound, TypeOK, Listed
  <2>4. \E x, y \in 1 .. L : x # y /\ pend[x] = pend[y]
    BY <2>1, <2>2, <2>3, FS_PigeonHole
  <2>. QED
    BY <2>4, <1>1 DEF Sound, PendingLinked
<1>4. L - k \in Nat /\ L - k \in 0 .. e_max /\ L - (L - k) = k
  BY <1>1, <1>3, EMaxAssumption
<1>. DEFINE p == [j \in 0 .. (L - k) |-> pend[L - j]]
<1>5. \A j \in 0 .. (L - k) : L - j \in 1 .. L /\ p[j] = pend[L - j]
  BY <1>1
<1>6. p \in [0 .. (L - k) -> Link]
  BY <1>2, <1>5, SlotFacts
<1>7. p[0] = assign /\ p[L - k] = pend[k]
  BY <1>1, <1>2, <1>4, <1>5
<1>8. \A j \in 0 .. ((L - k) - 1) : /\ p[j] # 0 /\ assign_ref[p[j]] # assign_ref[pend[k]]
                                   /\ p[j + 1] = next[p[j]]
  <2>. SUFFICES ASSUME NEW j \in 0 .. ((L - k) - 1)
                PROVE  /\ p[j] # 0 /\ assign_ref[p[j]] # assign_ref[pend[k]]
                       /\ p[j + 1] = next[p[j]]
    OBVIOUS
  <2>1. /\ j \in 0 .. (L - k) /\ j + 1 \in 0 .. (L - k) /\ L - j \in 1 .. L /\ L - j # 1
        /\ L - j # k /\ (L - j) - 1 = L - (j + 1)
    BY <1>1, <1>4
  <2>2. p[j] = pend[L - j] /\ p[j + 1] = pend[L - (j + 1)]
    BY <2>1, <1>5
  <2>3. pend[L - j] # 0 /\ next[pend[L - j]] = pend[(L - j) - 1]
        /\ assign_ref[pend[L - j]] # assign_ref[pend[k]]
    BY <2>1, <1>2
  <2>. QED
    BY <2>1, <2>2, <2>3
<1>. HIDE DEF p
<1>. QED
  BY <1>4, <1>6, <1>7, <1>8 DEF get_assign

\* A slot in no list becomes free or idle.
LEMMA FreeFrame ==
  ASSUME Sound, NEW i \in Slot, phase[i] \notin {"queued", "free"}, NEW v \in {"free", "idle"},
         phase' = [phase EXCEPT ![i] = v], UNCHANGED <<reqq, next, head, tail>>
  PROVE  Linked' /\ phase' \in [Link -> Phases]
<1>1. \A j \in Slot : phase'[j] = IF j = i THEN v ELSE phase[j]
  BY SlotFacts DEF Sound, TypeOK, Listed
<1>2. phase' \in [Link -> Phases]
  BY DEF Sound, TypeOK, Listed, Phases
<1>. QED
  BY <1>1, <1>2 DEF Sound, TypeOK, Listed, Linked

\* The oldest ASSIGN is answered.
LEMMA AssignRcStep ==
  ASSUME Sound, NEW ok \in BOOLEAN, AssignRc(ok)
  PROVE  Sound'
<1>1. PICK L \in Nat : L = Len(pend) /\ DOMAIN pend = 1 .. L /\ 1 \in 1 .. L /\ L \in 1 .. L
                       /\ L - 1 \in Nat
  BY DEF Sound, TypeOK, Listed, AssignRc
<1>2. pend[1] \in Slot /\ phase[pend[1]] = "assigning" /\ pend \in Seq(Slot)
  BY <1>1 DEF Sound, TypeOK, Listed, PendingLinked
<1>. DEFINE i == pend[1]
<1>3. /\ IF ok THEN /\ phase' = [phase EXCEPT ![i] = "idle"]
                    /\ hasId' = hasId \cup {i} /\ e' = e /\ e_count' = e_count
               ELSE free_entity(i)
      /\ pend' = Tail(pend)
      /\ UNCHANGED <<reqq, twice, next, assign_ref, head, tail, assign>>
  <2>1. PICK s \in Link :
          /\ get_assign(assign_ref[pend[1]], s)
          /\ IF ok THEN /\ phase' = [phase EXCEPT ![s] = "idle"]
                        /\ hasId' = hasId \cup {s} /\ UNCHANGED <<e, e_count>>
                   ELSE free_entity(s)
    BY DEF AssignRc
  <2>2. s = pend[1]
    BY <2>1, <1>1, WalkFindsPending
  <2>. QED
    BY <2>1, <2>2 DEF AssignRc, lists
<1>. HIDE DEF i
<1>4. PICK v \in {"free", "idle"} :
         /\ phase' = [phase EXCEPT ![i] = v] /\ i \in Slot /\ phase[i] = "assigning"
         /\ v = "idle" => e' = e /\ e_count' = e_count /\ hasId' = hasId \cup {i}
         /\ v = "free" => /\ e' = [e EXCEPT ![i] = NULL] /\ e_count' = e_count - 1
                          /\ hasId' = hasId \ {i}
  BY <1>2, <1>3 DEF free_entity, i
<1>5. \A j \in Slot : phase'[j] = IF j = i THEN v ELSE phase[j]
  BY <1>4, SlotFacts DEF Sound, TypeOK, Listed
<1>6. /\ Len(pend') = L - 1 /\ DOMAIN pend' = 1 .. L - 1 /\ pend' \in Seq(Slot)
      /\ \A k \in 1 .. L - 1 : pend'[k] = pend[k + 1] /\ k + 1 \in 1 .. L /\ k + 1 # 1
      /\ (pend' = <<>>) <=> (L = 1)
  <2>1. Len(pend') = L - 1 /\ pend' \in Seq(Slot)
    BY <1>1, <1>2, <1>3
  <2>2. \A k \in 1 .. L - 1 : pend'[k] = pend[k + 1] /\ k + 1 \in 1 .. L /\ k + 1 # 1
    BY <1>1, <1>2, <1>3
  <2>. QED
    BY <2>1, <2>2, <1>1
<1>7. PendingLinked'
  <2>0. /\ assign = pend[L]
        /\ \A k \in 1 .. L : /\ pend[k] \in Slot /\ phase[pend[k]] = "assigning"
                             /\ k # 1 => next[pend[k]] = pend[k - 1]
    <3>1. \A k \in 1 .. L : pend[k] \in Slot /\ phase[pend[k]] = "assigning"
      <4>1. \A k \in 1 .. L : pend[k] \in Slot
        BY <1>1 DEF Sound, TypeOK, Listed
      <4>2. \A k \in 1 .. L : phase[pend[k]] = "assigning"
        BY <1>1 DEF Sound, PendingLinked
      <4>. QED
        BY <4>1, <4>2
    <3>2. assign = pend[L] /\ \A k \in 1 .. L : k # 1 => next[pend[k]] = pend[k - 1]
      BY <1>1 DEF Sound, PendingLinked
    <3>. QED
      BY <3>1, <3>2
  <2>1. \A k, m \in 1 .. L : k # m =>
          pend[k] # pend[m] /\ assign_ref[pend[k]] # assign_ref[pend[m]]
    BY <1>1 DEF Sound, PendingLinked
  <2>2. pend' # <<>> => assign' = pend'[Len(pend')]
    <3>. SUFFICES ASSUME L # 1 PROVE assign' = pend'[L - 1]
      BY <1>6
    <3>1. L - 1 \in 1 .. L - 1 /\ (L - 1) + 1 = L
      BY <1>1
    <3>. QED
      BY <3>1, <2>0, <1>3, <1>6
  <2>3. \A k \in 1 .. L - 1 : /\ k # 1 => next'[pend'[k]] = pend'[k - 1]
                              /\ phase'[pend'[k]] = "assigning"
    <3>. SUFFICES ASSUME NEW k \in 1 .. L - 1
                  PROVE  /\ k # 1 => next'[pend'[k]] = pend'[k - 1]
                         /\ phase'[pend'[k]] = "assigning"
      OBVIOUS
    <3>1. pend'[k] = pend[k + 1] /\ k + 1 \in 1 .. L /\ k + 1 # 1 /\ (k + 1) - 1 = k
      BY <1>6
    <3>2. pend[k + 1] # i
      BY <3>1, <2>1, <1>1 DEF i
    <3>3. k # 1 => pend'[k - 1] = pend[k]
      <4>1. k # 1 => k - 1 \in 1 .. L - 1 /\ (k - 1) + 1 = k
        OBVIOUS
      <4>. QED
        BY <4>1, <1>6
    <3>4. next[pend[k + 1]] = pend[k] /\ phase[pend[k + 1]] = "assigning" /\ pend[k + 1] \in Slot
      BY <3>1, <2>0
    <3>. QED
      BY <3>1, <3>2, <3>3, <3>4, <1>3, <1>5
  <2>4. \A k, m \in 1 .. L - 1 : k # m =>
          pend'[k] # pend'[m] /\ assign_ref'[pend'[k]] # assign_ref'[pend'[m]]
    <3>. SUFFICES ASSUME NEW k \in 1 .. L - 1, NEW m \in 1 .. L - 1, k # m
                  PROVE  pend'[k] # pend'[m] /\ assign_ref'[pend'[k]] # assign_ref'[pend'[m]]
      OBVIOUS
    <3>1. /\ pend'[k] = pend[k + 1] /\ k + 1 \in 1 .. L
          /\ pend'[m] = pend[m + 1] /\ m + 1 \in 1 .. L /\ k + 1 # m + 1
      BY <1>6
    <3>2. pend[k + 1] # pend[m + 1] /\ assign_ref[pend[k + 1]] # assign_ref[pend[m + 1]]
      BY <3>1, <2>1
    <3>. QED
      BY <3>1, <3>2, <1>3
  <2>. QED
    BY <2>2, <2>3, <2>4, <1>6 DEF PendingLinked
<1>8. Linked' /\ phase' \in [Link -> Phases]
  BY <1>3, <1>4, FreeFrame
<1>c. Counted' /\ e_count' \in 0 .. e_max
  <2>1. e[i] # NULL
    BY <1>4 DEF Sound, UsedPhases
  <2>2. CASE v = "idle"
    BY <2>2, <1>4 DEF Sound, TypeOK, Counted
  <2>3. CASE v = "free"
    BY <2>1, <2>3, <1>4, SlotFacts, CountDown DEF Sound
  <2>. QED
    BY <2>2, <2>3
<1>9. TypeOK' /\ Listed'
  <2>1. e' \in [Link -> Entity \cup {NULL}] /\ hasId' \in SUBSET Slot
    BY <1>4 DEF Sound, TypeOK, Listed
  <2>. QED
    BY <2>1, <1>c, <1>3, <1>6, <1>8 DEF Sound, TypeOK, Listed
<1>10. UsedPhases'
  <2>1. \A j \in Slot : e'[j] = NULL <=> phase'[j] = "free"
    BY <1>4, <1>5, SlotFacts DEF Sound, TypeOK, Listed, UsedPhases
  <2>2. \A j \in Slot : phase'[j] = "assigning" => j \notin hasId'
    BY <1>4, <1>5 DEF Sound, UsedPhases
  <2>3. \A j, m \in Slot : phase'[j] = "sending" /\ phase'[m] = "sending" => j = m
    BY <1>4, <1>5 DEF Sound, UsedPhases
  <2>. QED
    BY <2>1, <2>2, <2>3 DEF UsedPhases
<1>. QED
  BY <1>c, <1>7, <1>8, <1>9, <1>10 DEF Sound

\* The last return code of a request.
LEMMA RcStep ==
  ASSUME Sound, NEW i \in Slot, NEW remove \in BOOLEAN, Rc(i, remove)
  PROVE  Sound'
<1>1. PICK v \in {"free", "idle"} :
         /\ phase' = [phase EXCEPT ![i] = v] /\ phase[i] = "sent"
         /\ v = "idle" => e' = e /\ e_count' = e_count /\ hasId' = hasId
         /\ v = "free" => /\ e' = [e EXCEPT ![i] = NULL] /\ e_count' = e_count - 1
                          /\ hasId' = hasId \ {i}
  BY DEF Rc, free_entity
<1>2. UNCHANGED <<reqq, pend, twice, next, assign_ref, head, tail, assign>>
  BY DEF Rc, lists
<1>3. \A j \in Slot : phase'[j] = IF j = i THEN v ELSE phase[j]
  BY <1>1, SlotFacts DEF Sound, TypeOK, Listed
<1>4. Linked' /\ phase' \in [Link -> Phases]
  BY <1>1, <1>2, FreeFrame
<1>5. PendingLinked'
  BY <1>1, <1>2, <1>3, PendingFrame
<1>c. Counted' /\ e_count' \in 0 .. e_max
  <2>1. e[i] # NULL
    BY <1>1 DEF Sound, UsedPhases
  <2>2. CASE v = "idle"
    BY <2>2, <1>1 DEF Sound, TypeOK, Counted
  <2>3. CASE v = "free"
    BY <2>1, <2>3, <1>1, SlotFacts, CountDown DEF Sound
  <2>. QED
    BY <2>2, <2>3
<1>6. TypeOK' /\ Listed'
  <2>1. e' \in [Link -> Entity \cup {NULL}] /\ hasId' \in SUBSET Slot
    BY <1>1 DEF Sound, TypeOK, Listed
  <2>. QED
    BY <2>1, <1>c, <1>2, <1>4 DEF Sound, TypeOK, Listed
<1>7. UsedPhases'
  <2>1. \A j \in Slot : e'[j] = NULL <=> phase'[j] = "free"
    BY <1>1, <1>3, SlotFacts DEF Sound, TypeOK, Listed, UsedPhases
  <2>. QED
    BY <2>1, <1>1, <1>3 DEF Sound, UsedPhases
<1>. QED
  BY <1>c, <1>4, <1>5, <1>6, <1>7 DEF Sound

\* Every step keeps the invariant.
LEMMA StepInvariant ==
  ASSUME IInv, Step, ~Beyond
  PROVE  IInv'
<1>. Sound
  BY DEF IInv
<1>1. CASE \E x \in Entity : RequestAssign(x)
  <2>1. TypeOK'
    BY <1>1, RequestAssignTypes DEF Sound
  <2>2. ~Beyond' => Sound'
    BY <1>1, RequestAssignStep
  <2>. QED
    BY <2>1, <2>2 DEF IInv
<1>2. CASE \E i \in Slot : Request(i) \/ req_queue(i)
  BY <1>2, QueueStep DEF IInv, Sound
<1>3. CASE next_req
  BY <1>3, NextReqStep DEF IInv, Sound
<1>4. CASE \E i \in Slot : Sent(i)
  BY <1>4, SentStep DEF IInv, Sound
<1>5. CASE \E i \in Slot, ref \in Refs : assign_queue(i, ref)
  BY <1>5, AssignQueueStep DEF IInv, Sound
<1>6. CASE \E ok \in BOOLEAN : AssignRc(ok)
  BY <1>6, AssignRcStep DEF IInv, Sound
<1>7. CASE \E i \in Slot, remove \in BOOLEAN : Rc(i, remove)
  BY <1>7, RcStep DEF IInv, Sound
<1>. QED
  BY <1>1, <1>2, <1>3, <1>4, <1>5, <1>6, <1>7 DEF Step

\* The lists are sound until an entity is in entry 0 or in two entries.
LEMMA ListInvariant == Spec => []IInv
<1>1. Init => IInv
  BY InitSound DEF IInv, Sound
<1>2. IInv /\ [Next]_vars => IInv'
  <2>. SUFFICES ASSUME IInv, [Next]_vars PROVE IInv'
    OBVIOUS
  <2>1. CASE ~Beyond /\ Step
    BY <2>1, StepInvariant
  <2>2. CASE UNCHANGED vars
    BY <2>2 DEF vars, lists, IInv, Sound, TypeOK, Counted, Listed, Linked, PendingLinked,
                UsedPhases, Beyond
  <2>. QED
    BY <2>1, <2>2 DEF Next
<1>. QED
  BY <1>1, <1>2, PTL DEF Spec

\* The fields of e_tbl and the list anchors of io.c keep their types, and
\* e_count never exceeds the table, also when an entity asks twice.
THEOREM TypeCorrect == Spec => []TypeOK
<1>1. IInv => TypeOK
  BY DEF IInv
<1>. QED
  BY <1>1, ListInvariant, PTL

\* As long as no entity is in entry 0 or in two entries, the request queue of
\* io.c is never broken: every entity with an unsent request is on it once, in
\* order, and it ends at tail.
THEOREM RequestQueueIntact == Spec => []QueueLinked
<1>1. IInv => QueueLinked
  BY DEF IInv, Sound, QueueLinked
<1>. QED
  BY <1>1, ListInvariant, PTL

\* As long as no entity is in entry 0 or in two entries, the return code of an
\* ASSIGN always finds the entity that sent it.
THEOREM AssignRcFound == Spec => []AssignRcFindsRequester
<1>1. IInv => AssignRcFindsRequester
  BY WalkFindsPending, PendingIsFound DEF IInv, AssignRcFindsRequester
<1>. QED
  BY <1>1, ListInvariant, PTL

\* The byte of the search in request() leads to entry 0 only in a table of
\* 256 entries.
THEOREM EntryZeroUnused == Spec => []EntryZeroFree
<1>1. Init => EntryZeroFree
  BY SlotFacts DEF Init, EntryZeroFree
<1>2. IInv /\ EntryZeroFree /\ [Next]_vars => EntryZeroFree'
  <2>. SUFFICES ASSUME IInv, EntryZeroFree, [Next]_vars, e_max < ByteRange PROVE e'[0] = NULL
    BY DEF EntryZeroFree
  <2>0. e[0] = NULL /\ 0 \in Link /\ 0 \notin Slot /\ e \in [Link -> Entity \cup {NULL}]
    BY SlotFacts DEF EntryZeroFree, IInv, TypeOK
  <2>1. CASE \E x \in Entity : RequestAssign(x)
    <3>1. PICK x \in Entity, i \in Link : FirstFree(i) /\ e' = [e EXCEPT ![i] = x]
      BY <2>1 DEF RequestAssign
    <3>2. i # 0
      BY <3>1, FirstFreeFacts, EMaxAssumption, ByteAssumption
    <3>. QED
      BY <3>1, <3>2, <2>0
  <2>2. CASE e' = e
    BY <2>0, <2>2
  <2>3. CASE \E i \in Link : e' = [e EXCEPT ![i] = NULL]
    BY <2>0, <2>3
  <2>4. ASSUME NEW ok \in BOOLEAN, AssignRc(ok)
        PROVE  e' = e \/ \E i \in Link : e' = [e EXCEPT ![i] = NULL]
    BY <2>4 DEF AssignRc, free_entity
  <2>5. ASSUME NEW i \in Slot, NEW remove \in BOOLEAN, Rc(i, remove)
        PROVE  e' = e \/ \E j \in Link : e' = [e EXCEPT ![j] = NULL]
    BY <2>5, SlotFacts DEF Rc, free_entity
  <2>6. ASSUME Step, ~(\E x \in Entity : RequestAssign(x))
        PROVE  e' = e \/ \E j \in Link : e' = [e EXCEPT ![j] = NULL]
    BY <2>6, <2>4, <2>5 DEF Step, Request, next_req, req_queue, Sent, assign_queue
  <2>7. Step \/ e' = e
    BY DEF Next, vars
  <2>. QED
    BY <2>1, <2>2, <2>3, <2>6, <2>7
<1>. QED
  BY <1>1, <1>2, ListInvariant, PTL DEF Spec

=============================================================================
