--------------------------- MODULE MsgQueueProofs ---------------------------
(***************************************************************************)
(* The message ring keeps its messages intact, for every buffer size and   *)
(* every set of message sizes.                                             *)
(***************************************************************************)
EXTENDS MsgQueue, SequenceTheorems, TLAPS

\* DIVA_MSG_NEED rounds up: room for the header and the payload.
LEMMA NeedRoom ==
  ASSUME NEW s \in Nat
  PROVE  DIVA_MSG_NEED(s) \in Nat /\ DIVA_MSG_NEED(s) >= s + DIVA_MSG_HEAD_SIZE
BY DEF DIVA_MSG_NEED, DIVA_MSG_HEAD_SIZE, DWORD

LEMMA SizesNat == \A s \in Sizes : s \in Nat
BY SizesAssumption

\* A live message has a positive extent within the buffer.
LEMMA Extent ==
  ASSUME IInv, NEW i \in 1 .. Len(q)
  PROVE  /\ q[i] \in Nat /\ End(q[i]) \in Nat /\ mem[q[i]].size \in Nat
         /\ q[i] \in Addr /\ mem[q[i]].size \in Sizes
         /\ q[i] + DIVA_MSG_HEAD_SIZE + mem[q[i]].size <= End(q[i])
         /\ q[i] < End(q[i]) /\ End(q[i]) <= High /\ Base <= q[i]
<1>0. i \in DOMAIN q
  BY DEF IInv, TypeOK
<1>1. q[i] \in Addr
  BY DEF IInv, TypeOK
<1>2. mem[q[i]].size \in Sizes
  BY <1>0 DEF IInv, LiveHeaders
<1>3. mem[q[i]].size \in Nat
  BY <1>2, SizesNat, Zenon
<1>4. q[i] \in Nat /\ Base <= q[i]
  BY <1>1, BaseAssumption, SizeAssumption DEF Addr, High, NULL
<1>5. /\ DIVA_MSG_NEED(mem[q[i]].size) \in Nat
      /\ DIVA_MSG_NEED(mem[q[i]].size) >= mem[q[i]].size + DIVA_MSG_HEAD_SIZE
  BY <1>3, NeedRoom
<1>6. End(q[i]) <= High
  BY <1>0, <1>1, <1>3, <1>4, <1>5 DEF IInv, LiveHeaders, End
<1>7. /\ End(q[i]) \in Nat /\ q[i] < End(q[i])
      /\ q[i] + DIVA_MSG_HEAD_SIZE + mem[q[i]].size <= End(q[i])
  BY <1>3, <1>4, <1>5 DEF End, DIVA_MSG_HEAD_SIZE
<1>. QED
  BY <1>1, <1>2, <1>3, <1>4, <1>6, <1>7

\* No two live messages overlap.
LEMMA OrderedDisjoint == IInv => Disjoint
<1>. SUFFICES ASSUME IInv, NEW i \in DOMAIN q, NEW j \in DOMAIN q, i < j
              PROVE  End(q[i]) <= q[j] \/ End(q[j]) <= q[i]
  BY DEF Disjoint, IInv, TypeOK
<1>0. i \in 1 .. Len(q) /\ j \in 1 .. Len(q)
  BY DEF IInv, TypeOK
<1>1. /\ q[i] \in Nat /\ q[j] \in Nat /\ End(q[i]) \in Nat /\ End(q[j]) \in Nat
      /\ QHead \in Nat /\ QTail \in Nat
  BY <1>0, Extent, BaseAssumption, SizeAssumption DEF IInv, TypeOK, Addr, High, NULL
<1>. QED
  BY <1>1 DEF IInv, Ordered, Upper, Lower

LEMMA InitIInv == Init => IInv
<1>. SUFFICES ASSUME Init PROVE IInv
  OBVIOUS
<1>. USE DEF Init, queueInit
<1>1. TypeOK
  <2>1. QHead \in Addr /\ QTail \in Base .. High /\ QWrap = NULL /\ QCount \in Int
    BY BaseAssumption, SizeAssumption DEF Addr, High, NULL
  <2>2. mem \in [Addr -> Cell]
    BY DEF Cell, Data, DIVA_MSG_INCOMPLETE
  <2>3. q \in Seq(Addr)
    OBVIOUS
  <2>. QED
    BY <2>1, <2>2, <2>3 DEF TypeOK
<1>2. HeadIsOldest /\ LiveHeaders /\ Chained
  BY DEF HeadIsOldest, LiveHeaders, Chained
<1>3. Ordered
  BY BaseAssumption DEF Ordered, NULL
<1>. QED
  BY <1>1, <1>2, <1>3 DEF IInv

\* The registers of the ring are addresses.
LEMMA Registers ==
  ASSUME IInv
  PROVE  /\ Base \in Nat /\ Base > 0 /\ High \in Nat /\ Base < High
         /\ QHead \in Nat /\ Base <= QHead /\ QHead < High
         /\ QTail \in Nat /\ Base <= QTail /\ QTail <= High
         /\ QWrap \in Nat /\ QWrap <= High /\ (QWrap # NULL => Base <= QWrap)
         /\ Len(q) \in Nat /\ DOMAIN q = 1 .. Len(q)
BY BaseAssumption, SizeAssumption DEF IInv, TypeOK, Addr, High, NULL

\* Where queueAllocMsg finds room: in the free part of the ring.
LEMMA AllocRoom ==
  ASSUME IInv, NEW need \in Nat, need > 0, AllocAt(need) # NULL
  PROVE  LET at == AllocAt(need) IN
         /\ at \in Nat /\ Base <= at /\ at + need <= High /\ at \in Addr
         /\ \/ QWrap = NULL /\ at = QTail
            \/ QWrap # NULL /\ at = QTail /\ at + need <= QHead
            \/ QWrap = NULL /\ at = Base /\ at # QTail /\ at + need <= QHead /\ QHead < QTail
<1>. DEFINE at == AllocAt(need)
<1>1. CASE QTail = QHead
  <2>1. QWrap = NULL /\ need <= Size /\ at = QTail
    BY <1>1, SizeAssumption DEF AllocAt
  <2>2. q = <<>>
    <3>. SUFFICES ASSUME q # <<>> PROVE FALSE
      OBVIOUS
    <3>1. 1 \in 1 .. Len(q)
      BY DEF IInv, TypeOK
    <3>2. q[1] = QHead /\ End(q[1]) <= QTail
      BY <3>1, <2>1, Registers DEF IInv, HeadIsOldest, Ordered
    <3>. QED
      BY <3>1, <3>2, <1>1, Extent, Registers
  <2>3. at = Base
    BY <2>1, <2>2 DEF IInv, HeadIsOldest
  <2>. QED
    BY <2>1, <2>3, Registers, SizeAssumption DEF High, Addr
<1>2. CASE QTail > QHead
  <2>1. QWrap = NULL
    BY <1>2, Registers DEF IInv, Ordered
  <2>2. \/ at = QTail /\ QTail + need <= High
        \/ at = Base /\ Base + need <= QHead
    BY <1>2, Registers DEF AllocAt
  <2>. QED
    BY <1>2, <2>1, <2>2, Registers DEF High, Addr
<1>3. CASE QTail < QHead
  <2>1. QWrap # NULL
    BY <1>3, Registers DEF IInv, Ordered
  <2>2. at = QTail /\ QTail + need <= QHead
    BY <1>3, Registers DEF AllocAt
  <2>. QED
    BY <1>3, <2>1, <2>2, Registers DEF High, Addr
<1>. QED
  BY <1>1, <1>2, <1>3, Registers

\* A new message is put into free room: it disturbs no live message.
LEMMA AllocStep ==
  ASSUME IInv, NEW size \in Sizes, queueAllocMsg(size)
  PROVE  IInv'
<1>. DEFINE need == DIVA_MSG_NEED(size)
            at == AllocAt(need)
<1>n. PICK n \in Nat : n = Len(q)
  BY Registers
<1>0. size \in Nat /\ need \in Nat /\ need > 0
  BY NeedRoom, SizesNat DEF DIVA_MSG_HEAD_SIZE
<1>. HIDE DEF need
<1>1. /\ at # NULL /\ QWrap' = (IF at # QTail THEN QTail ELSE QWrap)
      /\ mem' = [mem EXCEPT ![at] = [size |-> size, incomplete |-> TRUE]]
      /\ QTail' = at + need /\ QCount' = QCount + size
      /\ q' = Append(q, at) /\ QHead' = QHead
  BY DEF queueAllocMsg, need
<1>2. /\ at \in Nat /\ Base <= at /\ at + need <= High /\ at \in Addr
      /\ \/ QWrap = NULL /\ at = QTail
         \/ QWrap # NULL /\ at = QTail /\ at + need <= QHead
         \/ QWrap = NULL /\ at = Base /\ at # QTail /\ at + need <= QHead /\ QHead < QTail
  BY <1>0, <1>1, AllocRoom
<1>. HIDE DEF at
<1>3. \A i \in 1 .. n : q[i] \in Addr /\ q[i] # at
  <2>. SUFFICES ASSUME NEW i \in 1 .. n PROVE q[i] # at
    BY <1>n, Extent
  <2>1. q[i] \in Nat /\ End(q[i]) \in Nat /\ q[i] < End(q[i])
    BY <1>n, Extent
  <2>. QED
    BY <1>n, <1>0, <1>2, <2>1, Registers DEF IInv, Ordered, Upper, Lower
<1>4. /\ Len(q') = n + 1 /\ n \in Nat /\ n = Len(q)
      /\ \A i \in 1 .. n : q'[i] = q[i]
      /\ q'[n + 1] = at /\ DOMAIN q' = 1 .. n + 1 /\ q' # <<>>
  <2>1. q \in Seq(Addr) /\ at \in Addr
    BY <1>2 DEF IInv, TypeOK
  <2>2. q' \in Seq(Addr) /\ Len(q') = n + 1
    BY <2>1, <1>n, <1>1
  <2>3. q'[n + 1] = at /\ \A i \in 1 .. n : q'[i] = q[i]
    BY <2>1, <1>n, <1>1
  <2>. QED
    BY <2>2, <2>3, <1>n
<1>5. \A i \in 1 .. n : mem'[q[i]] = mem[q[i]]
  BY <1>1, <1>3 DEF IInv, TypeOK
<1>6. mem'[at].size = size
  BY <1>1, <1>2 DEF IInv, TypeOK
<1>7. \A i \in 1 .. n : End(q[i])' = End(q[i])
  BY <1>4, <1>5 DEF End
<1>8. End(q[n + 1])' = at + need
  BY <1>4, <1>6 DEF End, need
<1>9. TypeOK'
  <2>1. QHead' \in Addr /\ QTail' \in Base .. High /\ QCount' \in Int
    BY <1>0, <1>1, <1>2, Registers DEF IInv, TypeOK
  <2>2. QWrap' \in {NULL} \cup (Base .. High)
    BY <1>1 DEF IInv, TypeOK
  <2>3. mem' \in [Addr -> Cell]
    <3>1. [size |-> size, incomplete |-> TRUE] \in Cell
      BY SizesNat DEF Cell
    <3>. QED
      BY <3>1, <1>1 DEF IInv, TypeOK
  <2>4. q' \in Seq(Addr)
    BY <1>1, <1>2 DEF IInv, TypeOK
  <2>. QED
    BY <2>1, <2>2, <2>3, <2>4 DEF TypeOK, Addr, High
<1>10. HeadIsOldest'
  <2>1. CASE n = 0
    <3>1. q = <<>>
      BY <2>1, <1>n DEF IInv, TypeOK
    <3>. QED
      BY <3>1, <2>1, <1>1, <1>2, <1>4 DEF IInv, HeadIsOldest
  <2>2. CASE n # 0
    BY <2>2, <1>1, <1>4, Registers DEF IInv, HeadIsOldest
  <2>. QED
    BY <2>1, <2>2
<1>11. LiveHeaders'
  <2>. SUFFICES ASSUME NEW i \in 1 .. n + 1
                PROVE  (mem[q[i]].size)' \in Sizes /\ End(q[i])' <= High
    BY <1>4 DEF LiveHeaders, High
  <2>1. CASE i \in 1 .. n
    BY <2>1, <1>n, <1>4, <1>5, <1>7, Extent
  <2>2. CASE i = n + 1
    BY <2>2, <1>2, <1>4, <1>6, <1>8
  <2>. QED
    BY <2>1, <2>2, <1>4
<1>12. Chained'
  <2>. SUFFICES ASSUME NEW i \in 1 .. n + 1
         PROVE  IF i = n + 1 THEN End(q[i])' = QTail'
                ELSE IF QWrap' # NULL /\ End(q[i])' = QWrap' THEN q'[i + 1] = Base
                     ELSE q'[i + 1] = End(q[i])'
    BY <1>4 DEF Chained
  <2>1. CASE i = n + 1
    BY <2>1, <1>1, <1>8
  <2>2. CASE i = n /\ i # n + 1
    <3>1. End(q[i]) = QTail /\ i \in 1 .. n
      BY <2>2, <1>4, Registers DEF IInv, Chained
    <3>2. QWrap # NULL => QTail # QWrap
      BY <1>2, Registers DEF IInv, Ordered
    <3>3. End(q[i])' = QTail /\ q'[i + 1] = at
      BY <2>2, <3>1, <1>4, <1>7
    <3>4. QTail # NULL
      BY Registers DEF NULL
    <3>. QED
      BY <2>2, <3>2, <3>3, <3>4, <1>1, <1>2
  <2>3. CASE i \in 1 .. n - 1
    <3>1. i \in 1 .. n /\ i + 1 \in 1 .. n /\ i # n /\ i # n + 1
      BY <2>3, <1>4
    <3>2. IF QWrap # NULL /\ End(q[i]) = QWrap THEN q[i + 1] = Base ELSE q[i + 1] = End(q[i])
      BY <3>1, <1>n, Registers DEF IInv, Chained
    <3>3. QWrap = NULL => End(q[i]) < QTail
      <4>1. q[i + 1] \in Nat /\ End(q[i + 1]) \in Nat /\ q[i + 1] < End(q[i + 1])
            /\ End(q[i]) \in Nat
        BY <3>1, <1>n, Extent
      <4>2. QWrap = NULL => End(q[i + 1]) <= QTail
        BY <3>1, <1>n, Registers DEF IInv, Ordered
      <4>. QED
        BY <4>1, <4>2, <3>2, Registers
    <3>4. End(q[i]) \in Nat /\ End(q[i])' = End(q[i]) /\ q'[i + 1] = q[i + 1]
      BY <3>1, <1>4, <1>7, Extent
    <3>. QED
      BY <3>1, <3>2, <3>3, <3>4, <1>1, <1>2, Registers
  <2>. QED
    BY <2>1, <2>2, <2>3, <1>4
<1>13. Ordered'
  <2>1. /\ \A i \in 1 .. n : q[i] \in Nat /\ End(q[i]) \in Nat /\ q[i] < End(q[i])
                               /\ Base <= q[i]
    BY <1>n, Extent
  <2>2. CASE QWrap = NULL /\ at = QTail
    <3>1. QWrap' = NULL
      BY <2>2, <1>1
    <3>2. \A i \in 1 .. n : QHead <= q[i] /\ End(q[i]) <= QTail
      BY <2>2, <1>n, Registers DEF IInv, Ordered
    <3>3. \A i, j \in 1 .. n : i < j => End(q[i]) <= q[j]
      BY <2>2, <1>n, Registers DEF IInv, Ordered
    <3>4. QHead <= QTail
      BY <2>2 DEF IInv, Ordered
    <3>5. \A i \in 1 .. n + 1 : QHead' <= q'[i] /\ End(q[i])' <= QTail'
      BY <3>2, <3>4, <2>1, <2>2, <1>0, <1>1, <1>2, <1>4, <1>7, <1>8, Registers
    <3>6. \A i, j \in 1 .. n + 1 : i < j => End(q[i])' <= q'[j]
      <4>. SUFFICES ASSUME NEW i \in 1 .. n + 1, NEW j \in 1 .. n + 1, i < j
                    PROVE  End(q[i])' <= q'[j]
        OBVIOUS
      <4>1. i \in 1 .. n /\ End(q[i])' = End(q[i])
        BY <1>4, <1>7
      <4>2. CASE j \in 1 .. n
        BY <4>1, <4>2, <3>3, <1>4
      <4>3. CASE j = n + 1
        BY <4>1, <4>3, <3>2, <2>2, <1>4
      <4>. QED
        BY <4>2, <4>3, <1>4
    <3>. QED
      BY <3>1, <3>4, <3>5, <3>6, <2>2, <1>0, <1>1, <1>2, <1>4, Registers DEF Ordered
  <2>3. CASE QWrap # NULL /\ at = QTail /\ at + need <= QHead
    <3>0. QWrap' = QWrap /\ QWrap' # NULL
      BY <2>3, <1>1
    <3>1. Base < QTail /\ QTail <= QHead /\ QHead < QWrap
      BY <2>3 DEF IInv, Ordered
    <3>2. \A i \in 1 .. n : (QHead <= q[i] /\ End(q[i]) <= QWrap) \/ End(q[i]) <= QTail
      BY <2>3, <1>n, Registers DEF IInv, Ordered, Upper, Lower
    <3>3. \A i, j \in 1 .. n : i < j =>
            \/ End(q[i]) <= q[j] /\ (End(q[i]) <= QTail => End(q[j]) <= QTail)
            \/ QHead <= q[i] /\ End(q[i]) <= QWrap /\ End(q[j]) <= QTail
      BY <2>3, <1>n, Registers DEF IInv, Ordered, Upper, Lower
    <3>4. \A i \in 1 .. n + 1 :
            (QHead' <= q'[i] /\ End(q[i])' <= QWrap') \/ End(q[i])' <= QTail'
      BY <3>0, <3>1, <3>2, <2>1, <2>3, <1>0, <1>1, <1>2, <1>4, <1>7, <1>8, Registers
    <3>5. \A i, j \in 1 .. n + 1 : i < j =>
            \/ End(q[i])' <= q'[j] /\ (End(q[i])' <= QTail' => End(q[j])' <= QTail')
            \/ QHead' <= q'[i] /\ End(q[i])' <= QWrap' /\ End(q[j])' <= QTail'
      <4>. SUFFICES ASSUME NEW i \in 1 .. n + 1, NEW j \in 1 .. n + 1, i < j
             PROVE \/ End(q[i])' <= q'[j] /\ (End(q[i])' <= QTail' => End(q[j])' <= QTail')
                   \/ QHead' <= q'[i] /\ End(q[i])' <= QWrap' /\ End(q[j])' <= QTail'
        OBVIOUS
      <4>1. i \in 1 .. n /\ q'[i] = q[i] /\ End(q[i])' = End(q[i])
        BY <1>4, <1>7
      <4>2. CASE j \in 1 .. n
        <5>1. q'[j] = q[j] /\ End(q[j])' = End(q[j])
          BY <4>2, <1>4, <1>7
        <5>2. q[j] < End(q[j]) /\ q[j] \in Nat /\ End(q[j]) \in Nat /\ q[i] \in Nat
              /\ End(q[i]) \in Nat /\ q[i] < End(q[i])
          BY <4>1, <4>2, <2>1
        <5>3. \/ End(q[i]) <= q[j] /\ (End(q[i]) <= QTail => End(q[j]) <= QTail)
              \/ QHead <= q[i] /\ End(q[i]) <= QWrap /\ End(q[j]) <= QTail
          BY <4>1, <4>2, <3>3
        <5>4. (QHead <= q[i] /\ End(q[i]) <= QWrap) \/ End(q[i]) <= QTail
          BY <4>1, <3>2
        <5>. QED
          BY <5>1, <5>2, <5>3, <5>4, <4>1, <3>0, <3>1, <2>3, <1>0, <1>1, <1>2, Registers
      <4>3. CASE j = n + 1
        BY <4>1, <4>3, <3>0, <3>1, <3>2, <2>1, <2>3, <1>0, <1>1, <1>2, <1>4, <1>8, Registers
      <4>. QED
        BY <4>2, <4>3, <1>4
    <3>6. Base < QTail' /\ QTail' <= QHead' /\ QHead' < QWrap'
      BY <3>0, <3>1, <2>3, <1>0, <1>1, <1>2, Registers
    <3>. QED
      BY <3>0, <3>4, <3>5, <3>6, <1>4 DEF Ordered, Upper, Lower
  <2>4. CASE QWrap = NULL /\ at = Base /\ at # QTail /\ at + need <= QHead /\ QHead < QTail
    <3>0. QWrap' = QTail /\ QWrap' # NULL
      BY <2>4, <1>1, Registers DEF NULL
    <3>2. \A i \in 1 .. n : QHead <= q[i] /\ End(q[i]) <= QTail
      BY <2>4, <1>n, Registers DEF IInv, Ordered
    <3>3. \A i, j \in 1 .. n : i < j => End(q[i]) <= q[j]
      BY <2>4, <1>n, Registers DEF IInv, Ordered
    <3>4. \A i \in 1 .. n + 1 :
            (QHead' <= q'[i] /\ End(q[i])' <= QWrap') \/ End(q[i])' <= QTail'
      BY <3>0, <3>2, <2>1, <2>4, <1>0, <1>1, <1>2, <1>4, <1>7, <1>8, Registers
    <3>5. \A i \in 1 .. n : ~ (End(q[i])' <= QTail')
      BY <3>2, <2>1, <2>4, <1>0, <1>1, <1>2, <1>4, <1>7, Registers
    <3>6. \A i, j \in 1 .. n + 1 : i < j =>
            \/ End(q[i])' <= q'[j] /\ (End(q[i])' <= QTail' => End(q[j])' <= QTail')
            \/ QHead' <= q'[i] /\ End(q[i])' <= QWrap' /\ End(q[j])' <= QTail'
      <4>. SUFFICES ASSUME NEW i \in 1 .. n + 1, NEW j \in 1 .. n + 1, i < j
             PROVE \/ End(q[i])' <= q'[j] /\ (End(q[i])' <= QTail' => End(q[j])' <= QTail')
                   \/ QHead' <= q'[i] /\ End(q[i])' <= QWrap' /\ End(q[j])' <= QTail'
        OBVIOUS
      <4>1. i \in 1 .. n /\ End(q[i])' = End(q[i]) /\ q'[i] = q[i]
        BY <1>4, <1>7
      <4>2. CASE j \in 1 .. n
        BY <4>1, <4>2, <3>3, <3>5, <1>4
      <4>3. CASE j = n + 1
        BY <4>1, <4>3, <3>0, <3>2, <1>1, <1>8
      <4>. QED
        BY <4>2, <4>3, <1>4
    <3>7. Base < QTail' /\ QTail' <= QHead' /\ QHead' < QWrap'
      BY <3>0, <2>4, <1>0, <1>1, <1>2, Registers
    <3>. QED
      BY <3>0, <3>4, <3>6, <3>7, <1>4 DEF Ordered, Upper, Lower
  <2>. QED
    BY <2>2, <2>3, <2>4, <1>2
<1>. QED
  BY <1>9, <1>10, <1>11, <1>12, <1>13 DEF IInv

\* A writer that fills its own message touches no other header.
LEMMA OtherHeaders ==
  ASSUME IInv, NEW k \in 1 .. Len(q), queueCompleteMsg(q[k]), NEW i \in 1 .. Len(q), i # k
  PROVE  mem'[q[i]] = mem[q[i]] /\ q[i] # q[k]
<1>2. End(q[i]) <= q[k] \/ End(q[k]) <= q[i]
  BY OrderedDisjoint, Registers DEF Disjoint
<1>3. /\ q[i] \in Nat /\ q[k] \in Nat /\ End(q[i]) \in Nat /\ End(q[k]) \in Nat
      /\ q[i] < End(q[i]) /\ q[k] < End(q[k]) /\ mem[q[k]].size \in Nat /\ q[i] \in Addr
      /\ q[k] + DIVA_MSG_HEAD_SIZE + mem[q[k]].size <= End(q[k])
  BY Extent
<1>4. /\ ~ (/\ q[i] >= q[k] + DIVA_MSG_HEAD_SIZE
            /\ q[i] < q[k] + DIVA_MSG_HEAD_SIZE + mem[q[k]].size)
      /\ q[i] # q[k]
  BY <1>2, <1>3 DEF DIVA_MSG_HEAD_SIZE
<1>. QED
  BY <1>3, <1>4 DEF queueCompleteMsg

\* A writer that fills and completes its message changes no extent.
LEMMA CompleteStep ==
  ASSUME IInv, NEW k \in DOMAIN q, queueCompleteMsg(q[k])
  PROVE  IInv'
<1>n. PICK n \in Nat : n = Len(q)
  BY Registers
<1>0. k \in 1 .. n /\ q \in Seq(Addr)
  BY <1>n, Registers DEF IInv, TypeOK
<1>1. /\ QHead' = QHead /\ QTail' = QTail /\ QWrap' = QWrap /\ QCount' = QCount /\ q' = q
  BY DEF queueCompleteMsg
<1>2. mem' \in [Addr -> Cell]
  <2>1. Data \in Cell
    BY DEF Data, Cell, DIVA_MSG_INCOMPLETE
  <2>2. \A a \in Addr : [mem[a] EXCEPT !.incomplete = FALSE] \in Cell
    BY DEF IInv, TypeOK, Cell
  <2>. QED
    BY <2>1, <2>2 DEF IInv, TypeOK, queueCompleteMsg
<1>3. \A i \in 1 .. n : mem'[q[i]].size = mem[q[i]].size
  <2>. SUFFICES ASSUME NEW i \in 1 .. n PROVE mem'[q[i]].size = mem[q[i]].size
    OBVIOUS
  <2>1. q[i] \in Addr /\ mem[q[i]] \in Cell
    BY <1>n, Extent DEF IInv, TypeOK
  <2>2. CASE i = k
    BY <2>1, <2>2 DEF queueCompleteMsg, Cell
  <2>3. CASE i # k
    BY <2>3, <1>n, <1>0, OtherHeaders
  <2>. QED
    BY <2>2, <2>3
<1>4. \A i \in 1 .. n : End(q[i])' = End(q[i])
  BY <1>1, <1>3 DEF End
<1>5. TypeOK'
  BY <1>1, <1>2 DEF IInv, TypeOK, Addr, High
<1>6. HeadIsOldest'
  BY <1>1 DEF IInv, HeadIsOldest
<1>7. LiveHeaders'
  BY <1>n, <1>1, <1>3, <1>4, Registers DEF IInv, LiveHeaders, High
<1>8. Chained'
  BY <1>n, <1>1, <1>4, Registers DEF IInv, Chained
<1>9. Ordered'
  BY <1>n, <1>1, <1>4, Registers DEF IInv, Ordered, Upper, Lower
<1>. QED
  BY <1>5, <1>6, <1>7, <1>8, <1>9 DEF IInv

\* Freeing the oldest message leaves the head at the next one, or resets an
\* empty ring to Base.
LEMMA FreeStep ==
  ASSUME IInv, queueFreeMsg
  PROVE  IInv'
<1>n. PICK n \in Nat : n = Len(q)
  BY Registers
<1>. DEFINE next == QHead + DIVA_MSG_NEED(mem[QHead].size)
<1>0. q # <<>> /\ n >= 1 /\ 1 \in 1 .. n /\ n \in 1 .. n
  <2>1. q # <<>>
    <3>1. ~ (QHead = QTail /\ QWrap = NULL)
      BY DEF queueFreeMsg, queuePeekMsg
    <3>. QED
      BY <3>1 DEF IInv, HeadIsOldest
  <2>. QED
    BY <2>1, <1>n DEF IInv, TypeOK
<1>1. QHead = q[1] /\ next = End(q[1]) /\ End(q[n]) = QTail
  BY <1>0, <1>n, Registers DEF IInv, HeadIsOldest, Chained, End
<1>2. /\ mem' = mem /\ q' = Tail(q)
      /\ \/ QWrap # NULL /\ next >= QWrap /\ QHead' = Base /\ QWrap' = NULL /\ QTail' = QTail
         \/ QWrap # NULL /\ next < QWrap /\ QHead' = next /\ QWrap' = QWrap /\ QTail' = QTail
         \/ QWrap = NULL /\ next >= QTail /\ QHead' = Base /\ QWrap' = NULL /\ QTail' = Base
         \/ QWrap = NULL /\ next < QTail /\ QHead' = next /\ QWrap' = QWrap /\ QTail' = QTail
  BY DEF queueFreeMsg
<1>. HIDE DEF next
<1>3. \A i \in 1 .. n : /\ q[i] \in Nat /\ End(q[i]) \in Nat /\ q[i] < End(q[i])
                        /\ q[i] \in Addr /\ mem[q[i]].size \in Sizes
                        /\ Base <= q[i] /\ End(q[i]) <= High
  BY <1>n, Extent
<1>4. /\ n - 1 \in Nat /\ Len(q') = n - 1 /\ DOMAIN q' = 1 .. n - 1 /\ q' \in Seq(Addr)
      /\ \A i \in 1 .. n - 1 : q'[i] = q[i + 1] /\ i + 1 \in 1 .. n
      /\ (n = 1 => q' = <<>>) /\ (n # 1 => q' # <<>>)
  <2>1. q \in Seq(Addr)
    BY DEF IInv, TypeOK
  <2>2. Len(q') = n - 1 /\ q' \in Seq(Addr) /\ n - 1 \in Nat
    BY <2>1, <1>n, <1>0, <1>2
  <2>3. \A i \in 1 .. n - 1 : q'[i] = q[i + 1] /\ i + 1 \in 1 .. n
    BY <2>1, <1>n, <1>0, <1>2
  <2>. QED
    BY <2>2, <2>3
<1>5. \A i \in 1 .. n - 1 : End(q[i])' = End(q[i + 1])
  BY <1>2, <1>4 DEF End
\* the second message, if there is one
<1>6. n # 1 => /\ 2 \in 1 .. n
               /\ IF QWrap # NULL /\ next = QWrap THEN q[2] = Base ELSE q[2] = next
  BY <1>0, <1>1, <1>n, Registers DEF IInv, Chained
<1>7. QWrap # NULL => n # 1 /\ next <= QWrap
  <2>. SUFFICES ASSUME QWrap # NULL PROVE n # 1 /\ next <= QWrap
    OBVIOUS
  <2>1. QTail <= QHead
    BY DEF IInv, Ordered
  <2>2. (QHead <= q[1] /\ End(q[1]) <= QWrap) \/ End(q[1]) <= QTail
    BY <1>0, <1>n, Registers DEF IInv, Ordered, Upper, Lower
  <2>. QED
    BY <2>1, <2>2, <1>0, <1>1, <1>3, Registers
<1>8. QWrap = NULL => (next >= QTail <=> n = 1)
  <2>. SUFFICES ASSUME QWrap = NULL PROVE next >= QTail <=> n = 1
    OBVIOUS
  <2>1. n # 1 => q[2] = next /\ End(q[2]) <= QTail /\ q[2] < End(q[2]) /\ End(q[2]) \in Nat
    BY <1>0, <1>3, <1>6, <1>n, Registers DEF IInv, Ordered
  <2>. QED
    BY <2>1, <1>0, <1>1, <1>3, Registers
<1>9. n # 1 => QHead' = q[2]
  BY <1>1, <1>2, <1>3, <1>6, <1>7, <1>8, <1>0, Registers
<1>10. n = 1 => QHead' = Base /\ QTail' = Base /\ QWrap' = NULL
  BY <1>0, <1>1, <1>2, <1>3, <1>7, <1>8, Registers
<1>11. n # 1 => QTail' = QTail
  BY <1>2, <1>8
<1>12. TypeOK'
  <2>1. QHead' \in Addr
    BY <1>3, <1>6, <1>9, <1>10, BaseAssumption, SizeAssumption, Registers DEF Addr, High, NULL
  <2>2. QTail' \in Base .. High /\ QWrap' \in {NULL} \cup (Base .. High)
    BY <1>2, Registers DEF IInv, TypeOK
  <2>3. QCount' \in Int
    <3>1. mem[QHead].size \in Nat
      BY <1>0, <1>1, <1>3, SizesNat
    <3>. QED
      BY <3>1 DEF queueFreeMsg, IInv, TypeOK
  <2>. QED
    BY <2>1, <2>2, <2>3, <1>2, <1>4 DEF IInv, TypeOK, Addr, High
<1>13. HeadIsOldest'
  <2>1. CASE n = 1
    BY <2>1, <1>4, <1>10 DEF HeadIsOldest
  <2>2. CASE n # 1
    <3>1. q'[1] = q[2] /\ q' # <<>>
      BY <2>2, <1>4, <1>0
    <3>. QED
      BY <3>1, <2>2, <1>9 DEF HeadIsOldest
  <2>. QED
    BY <2>1, <2>2
<1>14. LiveHeaders'
  <2>. SUFFICES ASSUME NEW i \in 1 .. n - 1
                PROVE  (mem[q[i]].size)' \in Sizes /\ End(q[i])' <= High
    BY <1>4 DEF LiveHeaders, High
  <2>. QED
    BY <1>2, <1>3, <1>4, <1>5
<1>15. Chained'
  <2>. SUFFICES ASSUME NEW i \in 1 .. n - 1
         PROVE  IF i = n - 1 THEN End(q[i])' = QTail'
                ELSE IF QWrap' # NULL /\ End(q[i])' = QWrap' THEN q'[i + 1] = Base
                     ELSE q'[i + 1] = End(q[i])'
    BY <1>4 DEF Chained
  <2>0. n # 1 /\ i + 1 \in 1 .. n /\ End(q[i])' = End(q[i + 1])
    BY <1>4, <1>5
  <2>1. CASE i = n - 1
    BY <2>0, <2>1, <1>1, <1>11
  <2>2. CASE i # n - 1
    <3>1. i + 1 # n /\ i + 1 \in 1 .. n - 1 /\ i + 2 \in 1 .. n /\ q'[i + 1] = q[i + 2]
      <4>1. i + 1 \in 1 .. n - 1 /\ (i + 1) + 1 = i + 2
        BY <2>2, <1>4
      <4>. QED
        BY <4>1, <1>4
    <3>2. IF QWrap # NULL /\ End(q[i + 1]) = QWrap THEN q[i + 2] = Base
          ELSE q[i + 2] = End(q[i + 1])
      <4>1. (i + 1) + 1 = i + 2
        BY <3>1
      <4>. QED
        BY <4>1, <3>1, <2>0, <1>n, Registers DEF IInv, Chained
    \* when the upper part is used up, no message ends at the old wrap
    <3>3. QWrap # NULL /\ QWrap' = NULL => End(q[i + 1]) # QWrap
      <4>. SUFFICES ASSUME QWrap # NULL, QWrap' = NULL PROVE End(q[i + 1]) # QWrap
        OBVIOUS
      <4>1. next = QWrap /\ QTail <= QHead /\ QHead < QWrap
        BY <1>1, <1>2, <1>3, <1>0, <1>7, Registers DEF IInv, Ordered
      <4>2. 1 < i + 1 /\ 1 \in DOMAIN q /\ i + 1 \in DOMAIN q
        BY <2>0, <1>0, <1>n, Registers
      <4>3. \/ End(q[1]) <= q[i + 1]
            \/ End(q[i + 1]) <= QTail
        BY <4>2 DEF IInv, Ordered, Upper, Lower
      <4>. QED
        BY <4>1, <4>3, <2>0, <1>1, <1>3, <1>0, Registers
    <3>4. QWrap' = QWrap \/ QWrap' = NULL
      BY <1>2
    <3>. QED
      BY <2>0, <2>2, <3>1, <3>2, <3>3, <3>4
  <2>. QED
    BY <2>1, <2>2
<1>16. Ordered'
  <2>1. CASE n = 1
    BY <2>1, <1>4, <1>10, Registers DEF Ordered
  <2>2. CASE n # 1 /\ QWrap = NULL
    <3>1. QWrap' = NULL /\ QTail' = QTail /\ QHead' = q[2] /\ 2 \in 1 .. n
      BY <2>2, <1>2, <1>6, <1>9, <1>11
    <3>2. \A i, j \in 1 .. n : i < j => End(q[i]) <= q[j]
      BY <2>2, <1>n, Registers DEF IInv, Ordered
    <3>3. \A i \in 1 .. n : End(q[i]) <= QTail
      BY <2>2, <1>n, Registers DEF IInv, Ordered
    <3>4. \A j \in 2 .. n : q[2] <= q[j]
      <4>. SUFFICES ASSUME NEW j \in 2 .. n, j # 2 PROVE q[2] <= q[j]
        BY <3>1, <1>3
      <4>1. j \in 1 .. n /\ 2 < j
        OBVIOUS
      <4>. QED
        BY <4>1, <3>1, <3>2, <1>3
    <3>5. \A i \in 1 .. n - 1 : QHead' <= q'[i] /\ End(q[i])' <= QTail'
      BY <3>1, <3>3, <3>4, <1>4, <1>5
    <3>6. \A i, j \in 1 .. n - 1 : i < j => End(q[i])' <= q'[j]
      BY <3>2, <1>4, <1>5
    <3>7. QHead' <= QTail'
      BY <3>1, <3>3, <1>3, Registers
    <3>. QED
      BY <3>1, <3>5, <3>6, <3>7, <1>4 DEF Ordered
  <2>3. CASE n # 1 /\ QWrap # NULL
    <3>0. Base < QTail /\ QTail <= QHead /\ QHead < QWrap /\ QTail' = QTail
      BY <2>3, <1>11 DEF IInv, Ordered
    <3>1. \A i \in 1 .. n : (QHead <= q[i] /\ End(q[i]) <= QWrap) \/ End(q[i]) <= QTail
      BY <2>3, <1>n, Registers DEF IInv, Ordered, Upper, Lower
    <3>2. \A i, j \in 1 .. n : i < j =>
            \/ End(q[i]) <= q[j] /\ (End(q[i]) <= QTail => End(q[j]) <= QTail)
            \/ QHead <= q[i] /\ End(q[i]) <= QWrap /\ End(q[j]) <= QTail
      BY <2>3, <1>n, Registers DEF IInv, Ordered, Upper, Lower
    \* every later message begins above the freed one or is in the lower part
    <3>3. \A j \in 1 .. n : 1 < j => next <= q[j] \/ End(q[j]) <= QTail
      BY <3>2, <1>0, <1>1
    <3>4. CASE next < QWrap
      <4>1. QWrap' = QWrap /\ QHead' = next /\ next \in Nat /\ QHead <= next
        BY <2>3, <3>4, <1>0, <1>1, <1>2, <1>3, Registers
      <4>2. \A i \in 1 .. n - 1 :
              (QHead' <= q'[i] /\ End(q[i])' <= QWrap') \/ End(q[i])' <= QTail'
        <5>. SUFFICES ASSUME NEW i \in 1 .. n - 1
              PROVE (QHead' <= q'[i] /\ End(q[i])' <= QWrap') \/ End(q[i])' <= QTail'
          OBVIOUS
        <5>1. i + 1 \in 1 .. n /\ 1 < i + 1 /\ q'[i] = q[i + 1] /\ End(q[i])' = End(q[i + 1])
          BY <1>4, <1>5
        <5>2. next <= q[i + 1] \/ End(q[i + 1]) <= QTail
          BY <5>1, <3>3
        <5>3. (QHead <= q[i + 1] /\ End(q[i + 1]) <= QWrap) \/ End(q[i + 1]) <= QTail
          BY <5>1, <3>1
        <5>. QED
          BY <5>1, <5>2, <5>3, <4>1, <3>0
      <4>3. \A i, j \in 1 .. n - 1 : i < j =>
            \/ End(q[i])' <= q'[j] /\ (End(q[i])' <= QTail' => End(q[j])' <= QTail')
            \/ QHead' <= q'[i] /\ End(q[i])' <= QWrap' /\ End(q[j])' <= QTail'
        <5>. SUFFICES ASSUME NEW i \in 1 .. n - 1, NEW j \in 1 .. n - 1, i < j
              PROVE \/ End(q[i])' <= q'[j] /\ (End(q[i])' <= QTail' => End(q[j])' <= QTail')
                    \/ QHead' <= q'[i] /\ End(q[i])' <= QWrap' /\ End(q[j])' <= QTail'
          OBVIOUS
        <5>1. /\ i + 1 \in 1 .. n /\ 1 < i + 1 /\ q'[i] = q[i + 1] /\ End(q[i])' = End(q[i + 1])
              /\ j + 1 \in 1 .. n /\ i + 1 < j + 1 /\ q'[j] = q[j + 1] /\ End(q[j])' = End(q[j + 1])
          BY <1>4, <1>5
        <5>2. \/ End(q[i + 1]) <= q[j + 1] /\ (End(q[i + 1]) <= QTail => End(q[j + 1]) <= QTail)
              \/ QHead <= q[i + 1] /\ End(q[i + 1]) <= QWrap /\ End(q[j + 1]) <= QTail
          BY <5>1, <3>2
        <5>3. next <= q[i + 1] \/ End(q[i + 1]) <= QTail
          BY <5>1, <3>3
        <5>4. q[i + 1] \in Nat /\ End(q[i + 1]) \in Nat /\ q[i + 1] < End(q[i + 1])
          BY <5>1, <1>3
        <5>. QED
          BY <5>1, <5>2, <5>3, <5>4, <4>1, <3>0, Registers
      <4>4. QHead' < QWrap' /\ QTail' <= QHead' /\ Base < QTail'
        BY <4>1, <3>0, <3>4, Registers
      <4>. QED
        BY <4>1, <4>2, <4>3, <4>4, <2>3, <1>4 DEF Ordered, Upper, Lower
    <3>5. CASE ~ (next < QWrap)
      <4>1. next = QWrap /\ QWrap' = NULL /\ QHead' = Base
        BY <2>3, <3>5, <1>0, <1>1, <1>2, <1>3, <1>7, Registers
      <4>2. \A j \in 1 .. n : 1 < j => End(q[j]) <= QTail
        <5>. SUFFICES ASSUME NEW j \in 1 .. n, 1 < j PROVE End(q[j]) <= QTail
          OBVIOUS
        <5>. QED
          BY <3>1, <3>3, <4>1, <1>3, Registers
      <4>3. \A i \in 1 .. n - 1 : QHead' <= q'[i] /\ End(q[i])' <= QTail'
        <5>. SUFFICES ASSUME NEW i \in 1 .. n - 1
              PROVE QHead' <= q'[i] /\ End(q[i])' <= QTail'
          OBVIOUS
        <5>1. i + 1 \in 1 .. n /\ 1 < i + 1 /\ q'[i] = q[i + 1] /\ End(q[i])' = End(q[i + 1])
          BY <1>4, <1>5
        <5>. QED
          BY <5>1, <4>1, <4>2, <3>0, <1>3
      <4>4. \A i, j \in 1 .. n - 1 : i < j => End(q[i])' <= q'[j]
        <5>. SUFFICES ASSUME NEW i \in 1 .. n - 1, NEW j \in 1 .. n - 1, i < j
              PROVE End(q[i])' <= q'[j]
          OBVIOUS
        <5>1. /\ i + 1 \in 1 .. n /\ 1 < i + 1 /\ q'[i] = q[i + 1] /\ End(q[i])' = End(q[i + 1])
              /\ j + 1 \in 1 .. n /\ i + 1 < j + 1 /\ q'[j] = q[j + 1] /\ End(q[j])' = End(q[j + 1])
          BY <1>4, <1>5
        <5>2. \/ End(q[i + 1]) <= q[j + 1]
              \/ QHead <= q[i + 1]
          BY <5>1, <3>2
        <5>3. End(q[i + 1]) <= QTail /\ q[i + 1] \in Nat /\ End(q[i + 1]) \in Nat
              /\ q[i + 1] < End(q[i + 1])
          BY <5>1, <4>2, <1>3
        <5>. QED
          BY <5>1, <5>2, <5>3, <3>0, Registers
      <4>5. QHead' <= QTail'
        BY <4>1, <3>0, Registers
      <4>. QED
        BY <4>1, <4>3, <4>4, <4>5, <1>4 DEF Ordered
    <3>. QED
      BY <3>4, <3>5
  <2>. QED
    BY <2>1, <2>2, <2>3
<1>. QED
  BY <1>12, <1>13, <1>14, <1>15, <1>16 DEF IInv

\* The ring is well formed in every reachable state.
LEMMA RingInvariant == Spec => []IInv
<1>1. Init => IInv
  BY InitIInv
<1>2. IInv /\ [Next]_vars => IInv'
  <2>. SUFFICES ASSUME IInv, [Next]_vars PROVE IInv'
    OBVIOUS
  <2>1. CASE \E s \in Sizes : queueAllocMsg(s)
    BY <2>1, AllocStep
  <2>2. CASE \E i \in DOMAIN q : queueCompleteMsg(q[i])
    BY <2>2, CompleteStep
  <2>3. CASE queueFreeMsg
    BY <2>3, FreeStep
  <2>4. CASE UNCHANGED vars
    BY <2>4 DEF vars, IInv, TypeOK, HeadIsOldest, LiveHeaders, Chained, Ordered,
                Upper, Lower, End, Addr, High
  <2>. QED
    BY <2>1, <2>2, <2>3, <2>4 DEF Next
<1>. QED
  BY <1>1, <1>2, PTL DEF Spec

\* The registers and the memory of dqueue.c keep their types: Head is always
\* an address within the buffer.
THEOREM TypeCorrect == Spec => []TypeOK
<1>1. IInv => TypeOK
  BY DEF IInv
<1>. QED
  BY <1>1, RingInvariant, PTL

\* No two messages that callers of dqueue.c hold ever overlap, so a writer
\* that fills its message damages no other one.
THEOREM NoOverlap == Spec => []Disjoint
BY RingInvariant, OrderedDisjoint, PTL

\* The reader finds the oldest message at Head, its header intact and the
\* message within the buffer.
THEOREM ReaderSeesOldest == Spec => [](HeadIsOldest /\ LiveHeaders /\ Chained)
<1>1. IInv => HeadIsOldest /\ LiveHeaders /\ Chained
  BY DEF IInv
<1>. QED
  BY <1>1, RingInvariant, PTL

-----------------------------------------------------------------------------
LEMMA TailIs ==
  ASSUME NEW S, NEW v \in Seq(S), v # <<>>
  PROVE  Tail(v) = [i \in 1 .. Len(v) - 1 |-> v[i + 1]]
<1>1. Tail(v) \in Seq(S) /\ Len(Tail(v)) = Len(v) - 1
  OBVIOUS
<1>2. \A t \in Seq(S) : t \in [1 .. Len(t) -> S]
  OBVIOUS
<1>3. \A i \in 1 .. Len(v) - 1 : Tail(v)[i] = v[i + 1]
  OBVIOUS
<1>4. Tail(v) \in [1 .. Len(v) - 1 -> S]
  BY <1>1, <1>2
<1>5. \A f \in [1 .. Len(v) - 1 -> S] : f = [i \in 1 .. Len(v) - 1 |-> f[i]]
  OBVIOUS
<1>6. Tail(v) = [i \in 1 .. Len(v) - 1 |-> Tail(v)[i]]
  BY <1>4, <1>5, Zenon
<1>. QED
  BY <1>3, <1>6, Zenon

LEMMA ViewIsSeq ==
  ASSUME IInv
  PROVE  FifoView \in Seq(Cell) /\ Len(FifoView) = Len(q) /\ DOMAIN FifoView = 1 .. Len(q)
<1>1. \A i \in 1 .. Len(q) : mem[q[i]] \in Cell
  BY Extent DEF IInv, TypeOK
<1>2. FifoView = [i \in 1 .. Len(q) |-> mem[q[i]]] /\ Len(q) \in Nat
  BY Registers DEF FifoView
<1>3. PICK n \in Nat : n = Len(q)
  BY <1>2
<1>4. FifoView \in [1 .. n -> Cell] /\ DOMAIN FifoView = 1 .. n
  BY <1>1, <1>2, <1>3
<1>5. FifoView \in Seq(Cell)
  BY <1>3, <1>4, SeqDef
<1>6. Len(FifoView) = n
  <2>1. PICK k \in Nat : k = Len(FifoView) /\ 1 .. k = 1 .. n
    BY <1>4, <1>5, LenProperties
  <2>. QED
    BY <2>1
<1>. QED
  BY <1>3, <1>4, <1>5, <1>6

\* An allocation appends to the queue the callers see.
LEMMA AllocView ==
  ASSUME IInv, NEW size \in Sizes, queueAllocMsg(size)
  PROVE  FifoView' = Append(FifoView, [size |-> size, incomplete |-> TRUE])
<1>. DEFINE need == DIVA_MSG_NEED(size)
            at == AllocAt(need)
            m == [size |-> size, incomplete |-> TRUE]
<1>0. need \in Nat /\ need > 0
  BY NeedRoom, SizesNat DEF DIVA_MSG_HEAD_SIZE
<1>. HIDE DEF need
<1>1. at # NULL /\ mem' = [mem EXCEPT ![at] = m] /\ q' = Append(q, at)
  BY DEF queueAllocMsg, need
<1>2. /\ at \in Nat /\ Base <= at /\ at + need <= High /\ at \in Addr
      /\ \/ QWrap = NULL /\ at = QTail
         \/ QWrap # NULL /\ at = QTail /\ at + need <= QHead
         \/ QWrap = NULL /\ at = Base /\ at # QTail /\ at + need <= QHead /\ QHead < QTail
  BY <1>0, <1>1, AllocRoom
<1>. HIDE DEF at
<1>3. \A i \in 1 .. Len(q) : q[i] \in Addr /\ q[i] # at
  <2>. SUFFICES ASSUME NEW i \in 1 .. Len(q) PROVE q[i] # at
    BY Extent
  <2>1. q[i] \in Nat /\ End(q[i]) \in Nat /\ q[i] < End(q[i])
    BY Extent
  <2>. QED
    BY <1>0, <1>2, <2>1, Registers DEF IInv, Ordered, Upper, Lower
<1>4. q \in Seq(Addr) /\ mem \in [Addr -> Cell]
  BY DEF IInv, TypeOK
<1>5. DOMAIN q' = 1 .. Len(q) + 1 /\ q'[Len(q) + 1] = at
      /\ \A i \in 1 .. Len(q) : q'[i] = q[i]
  BY <1>1, <1>2, <1>4
<1>6. /\ FifoView' = [i \in 1 .. Len(q) + 1 |-> mem'[q'[i]]]
  BY <1>5 DEF FifoView
<1>7. \A i \in 1 .. Len(q) : mem'[q'[i]] = FifoView[i]
  BY <1>1, <1>3, <1>4, <1>5, Registers DEF FifoView
<1>8. mem'[q'[Len(q) + 1]] = m
  BY <1>1, <1>2, <1>4, <1>5
<1>9. Append(FifoView, m) = [i \in 1 .. Len(q) + 1 |-> IF i = Len(q) + 1 THEN m ELSE FifoView[i]]
  BY ViewIsSeq
<1>10. \A i \in 1 .. Len(q) + 1 :
         mem'[q'[i]] = IF i = Len(q) + 1 THEN m ELSE FifoView[i]
  BY <1>7, <1>8, Registers
<1>. QED
  BY <1>6, <1>9, <1>10

\* Completing a message changes its own mark only.
LEMMA CompleteView ==
  ASSUME IInv, NEW k \in DOMAIN q, queueCompleteMsg(q[k])
  PROVE  /\ k \in DOMAIN FifoView /\ FifoView[k].incomplete
         /\ FifoView' = [FifoView EXCEPT ![k].incomplete = FALSE]
<1>0. k \in 1 .. Len(q) /\ DOMAIN q = 1 .. Len(q)
  BY Registers
<1>1. q[k] \in Addr /\ mem[q[k]].incomplete /\ q' = q
  BY <1>0, Extent DEF queueCompleteMsg
<1>2. mem'[q[k]] = [mem[q[k]] EXCEPT !.incomplete = FALSE]
  BY <1>1 DEF queueCompleteMsg
<1>3. \A i \in 1 .. Len(q) : i # k => mem'[q[i]] = mem[q[i]]
  BY <1>0, OtherHeaders
<1>4. FifoView' = [i \in 1 .. Len(q) |-> mem'[q[i]]]
  BY <1>0, <1>1 DEF FifoView
<1>5. \A i \in 1 .. Len(q) : FifoView[i] = mem[q[i]]
  BY <1>0 DEF FifoView
<1>6. [FifoView EXCEPT ![k].incomplete = FALSE]
        = [i \in 1 .. Len(q) |-> IF i = k THEN [mem[q[k]] EXCEPT !.incomplete = FALSE]
                                 ELSE mem[q[i]]]
  BY <1>0, <1>5, ViewIsSeq
<1>7. \A i \in 1 .. Len(q) : mem'[q[i]] =
        IF i = k THEN [mem[q[k]] EXCEPT !.incomplete = FALSE] ELSE mem[q[i]]
  BY <1>2, <1>3
<1>. QED
  BY <1>0, <1>1, <1>4, <1>5, <1>6, <1>7, ViewIsSeq

\* Freeing removes the oldest message, which was complete.
LEMMA FreeView ==
  ASSUME IInv, queueFreeMsg
  PROVE  FifoView # <<>> /\ ~ FifoView[1].incomplete /\ FifoView' = Tail(FifoView)
<1>1. q # <<>> /\ q[1] = QHead /\ ~ mem[QHead].incomplete
  <2>1. ~ (QHead = QTail /\ QWrap = NULL) /\ ~ mem[QHead].incomplete
    BY DEF queueFreeMsg, queuePeekMsg
  <2>. QED
    BY <2>1 DEF IInv, HeadIsOldest
<1>2. q \in Seq(Addr) /\ 1 \in 1 .. Len(q) /\ DOMAIN q = 1 .. Len(q) /\ Len(q) - 1 \in Nat
  BY <1>1 DEF IInv, TypeOK
<1>3. q' = Tail(q) /\ mem' = mem
  BY DEF queueFreeMsg
<1>4. DOMAIN q' = 1 .. Len(q) - 1 /\ \A i \in 1 .. Len(q) - 1 : q'[i] = q[i + 1]
  BY <1>2, <1>3
<1>5. \A i \in 1 .. Len(q) : FifoView[i] = mem[q[i]]
  BY <1>2 DEF FifoView
<1>6. FifoView' = [i \in 1 .. Len(q) - 1 |-> FifoView[i + 1]]
  <2>1. FifoView' = [i \in 1 .. Len(q) - 1 |-> mem[q'[i]]]
    BY <1>3, <1>4 DEF FifoView
  <2>2. \A i \in 1 .. Len(q) - 1 : mem[q'[i]] = FifoView[i + 1]
    BY <1>2, <1>4, <1>5
  <2>. QED
    BY <2>1, <2>2
<1>7. Tail(FifoView) = [i \in 1 .. Len(q) - 1 |-> FifoView[i + 1]]
  <2>1. FifoView # <<>>
    BY <1>2, ViewIsSeq
  <2>2. Tail(FifoView) = [i \in 1 .. Len(FifoView) - 1 |-> FifoView[i + 1]]
    BY <2>1, ViewIsSeq, TailIs
  <2>. QED
    BY <2>2, ViewIsSeq
<1>. QED
  BY <1>1, <1>2, <1>5, <1>6, <1>7, ViewIsSeq

\* The ring of dqueue.c implements the abstract queue of module MsgFifo.
THEOREM RingIsFifo == Spec => FifoSpec
<1>1. Init => Fifo!Init
  BY DEF Init, queueInit, Fifo!Init, FifoView
<1>2. IInv /\ [Next]_vars => [Fifo!Next]_FifoView
  <2>. SUFFICES ASSUME IInv, [Next]_vars PROVE [Fifo!Next]_FifoView
    OBVIOUS
  <2>1. CASE \E s \in Sizes : queueAllocMsg(s)
    BY <2>1, AllocView DEF Fifo!Next, Fifo!Reserve
  <2>2. CASE \E i \in DOMAIN q : queueCompleteMsg(q[i])
    BY <2>2, CompleteView DEF Fifo!Next, Fifo!Publish
  <2>3. CASE queueFreeMsg
    BY <2>3, FreeView DEF Fifo!Next, Fifo!Consume
  <2>4. CASE UNCHANGED vars
    BY <2>4 DEF vars, FifoView
  <2>. QED
    BY <2>1, <2>2, <2>3, <2>4 DEF Next
<1>. QED
  BY <1>1, <1>2, RingInvariant, PTL DEF Spec, FifoSpec, Fifo!Spec

=============================================================================
