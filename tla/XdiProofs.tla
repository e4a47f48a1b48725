----------------------------- MODULE XdiProofs -----------------------------
(***************************************************************************)
(* The request path keeps its tables, its queue and the count XMOREC in    *)
(* step with the card, for any number of entities, Ids, channels and       *)
(* request buffers.                                                        *)
(***************************************************************************)
EXTENDS Xdi, FiniteSetTheorems, SequenceTheorems, TLAPS

\* What the theorems are about: XMOREC is four bits wide, so no chained
\* request has more than 15 parts; clients do not use UREMOVE (a chained
\* request may lose it, run xdi_uremove); and where the card does not label
\* its return codes the clients wait for the release of a channel.
Premises ==
  /\ MaxFrag <= 15
  /\ "UREMOVE" \notin Kinds
  /\ \A u \in Setups : u.ext \/ u.wait

-----------------------------------------------------------------------------
(***************************************************************************)
(* Num: counting the elements of a sequence.                               *)
(***************************************************************************)
LEMMA NumNat ==
  ASSUME NEW T, NEW seq \in Seq(T), NEW S
  PROVE  Num(seq, S) \in Nat /\ IsFiniteSet({k \in DOMAIN seq : seq[k] \in S})
<1>1. DOMAIN seq = 1 .. Len(seq) /\ IsFiniteSet(1 .. Len(seq))
  BY FS_Interval
<1>2. IsFiniteSet({k \in DOMAIN seq : seq[k] \in S})
  BY <1>1, FS_Subset
<1>. QED
  BY <1>2, FS_CardinalityType DEF Num

LEMMA NumAppend ==
  ASSUME NEW T, NEW seq \in Seq(T), NEW S, NEW a \in T
  PROVE  Num(Append(seq, a), S) = Num(seq, S) + (IF a \in S THEN 1 ELSE 0)
<1>. DEFINE A == {k \in DOMAIN seq : seq[k] \in S}
            B == {k \in DOMAIN Append(seq, a) : Append(seq, a)[k] \in S}
            n == Len(seq) + 1
<1>1. IsFiniteSet(A) /\ Num(seq, S) = Cardinality(A) /\ Num(seq, S) \in Nat
  BY NumNat DEF Num
<1>2. n \notin A /\ Num(Append(seq, a), S) = Cardinality(B)
  BY DEF Num
<1>3. CASE a \in S
  <2>1. B = A \cup {n}
    BY <1>3
  <2>2. Cardinality(B) = Cardinality(A) + 1
    BY <2>1, <1>1, <1>2, FS_AddElement
  <2>. QED
    BY <2>2, <1>1, <1>2, <1>3
<1>4. CASE a \notin S
  <2>1. B = A
    BY <1>4
  <2>2. Cardinality(B) = Cardinality(A)
    BY <2>1, Zenon
  <2>. HIDE DEF A, B
  <2>. QED
    BY <2>2, <1>1, <1>2, <1>4
<1>. QED
  BY <1>3, <1>4

LEMMA NumTail ==
  ASSUME NEW T, NEW seq \in Seq(T), seq # <<>>, NEW S
  PROVE  Num(seq, S) = Num(Tail(seq), S) + (IF Head(seq) \in S THEN 1 ELSE 0)
<1>. DEFINE t == Tail(seq)
            A == {k \in DOMAIN t : t[k] \in S}
            B == {k \in DOMAIN seq : seq[k] \in S}
            C == B \ {1}
            f == [k \in A |-> k + 1]
<1>1. t \in Seq(T) /\ Len(seq) \in Nat /\ Len(seq) # 0
  OBVIOUS
<1>2. DOMAIN t = 1 .. Len(seq) - 1 /\ \A k \in 1 .. Len(seq) - 1 : t[k] = seq[k + 1]
  BY <1>1
<1>3. IsFiniteSet(A) /\ Num(t, S) = Cardinality(A) /\ IsFiniteSet(B) /\ Num(seq, S) = Cardinality(B)
      /\ Num(t, S) \in Nat /\ Num(seq, S) \in Nat
  BY <1>1, NumNat DEF Num
<1>4. f \in Bijection(A, C)
  <2>1. \A k \in A : k + 1 \in C
    BY <1>1, <1>2
  <2>2. \A k \in C : k - 1 \in A /\ f[k - 1] = k
    BY <1>1, <1>2
  <2>3. f \in [A -> C]
    BY <2>1
  <2>4. \A k, n \in A : f[k] = f[n] => k = n
    BY <1>2
  <2>. QED
    BY <2>2, <2>3, <2>4 DEF Bijection, Injection, Surjection, IsInjective
<1>5. Cardinality(C) = Cardinality(A)
  <2>1. ExistsBijection(A, C)
    BY <1>4 DEF ExistsBijection
  <2>. QED
    BY <1>3, <2>1, FS_Bijection
<1>6. CASE Head(seq) \in S
  <2>1. 1 \in B
    BY <1>1, <1>6
  <2>. HIDE DEF A, B
  <2>2. Cardinality(C) = Cardinality(B) - 1
    BY <1>3, <2>1, FS_RemoveElement
  <2>. QED
    BY <2>2, <1>3, <1>5, <1>6
<1>7. CASE Head(seq) \notin S
  <2>1. C = B
    BY <1>1, <1>7
  <2>2. Cardinality(C) = Cardinality(B)
    BY <2>1, Zenon
  <2>. HIDE DEF A, B, C
  <2>. QED
    BY <2>2, <1>3, <1>5, <1>7
<1>. QED
  BY <1>6, <1>7

LEMMA NumAppendIn ==
  ASSUME NEW T, NEW seq \in Seq(T), NEW S, NEW a \in T, a \in S
  PROVE  Num(Append(seq, a), S) = Num(seq, S) + 1 /\ Num(seq, S) \in Nat
<1>1. Num(seq, S) \in Nat
  BY NumNat
<1>2. Num(Append(seq, a), S) = Num(seq, S) + (IF a \in S THEN 1 ELSE 0)
  BY NumAppend
<1>. QED
  BY <1>1, <1>2

LEMMA NumAppendOut ==
  ASSUME NEW T, NEW seq \in Seq(T), NEW S, NEW a \in T, a \notin S
  PROVE  Num(Append(seq, a), S) = Num(seq, S)
<1>1. Num(seq, S) \in Nat
  BY NumNat
<1>2. Num(Append(seq, a), S) = Num(seq, S) + (IF a \in S THEN 1 ELSE 0)
  BY NumAppend
<1>. QED
  BY <1>1, <1>2

LEMMA NumTailIn ==
  ASSUME NEW T, NEW seq \in Seq(T), seq # <<>>, NEW S, Head(seq) \in S
  PROVE  Num(seq, S) = Num(Tail(seq), S) + 1 /\ Num(Tail(seq), S) \in Nat
<1>1. Tail(seq) \in Seq(T)
  OBVIOUS
<1>. QED
  BY <1>1, NumTail, NumNat

LEMMA NumTailOut ==
  ASSUME NEW T, NEW seq \in Seq(T), seq # <<>>, NEW S, Head(seq) \notin S
  PROVE  Num(Tail(seq), S) = Num(seq, S)
<1>1. Tail(seq) \in Seq(T)
  OBVIOUS
<1>2. Num(Tail(seq), S) \in Nat /\ Num(seq, S) = Num(Tail(seq), S) + 0
  BY <1>1, NumTail, NumNat
<1>. QED
  BY <1>2

LEMMA NumZero ==
  ASSUME NEW T, NEW seq \in Seq(T), NEW S
  PROVE  Num(seq, S) = 0 <=> \A k \in DOMAIN seq : seq[k] \notin S
<1>1. IsFiniteSet({k \in DOMAIN seq : seq[k] \in S})
  BY NumNat
<1>2. Num(seq, S) = 0 <=> {k \in DOMAIN seq : seq[k] \in S} = {}
  BY <1>1, FS_EmptySet DEF Num
<1>. QED
  BY <1>2

-----------------------------------------------------------------------------
(***************************************************************************)
(* The byte More in the four phases of a request.                          *)
(***************************************************************************)
LEMMA IdleByte ==
  /\ ~Has(32, XBUSY) /\ Clr(Set(32, XBUSY), XMOREF) = 64 /\ Clr(Set(0, XBUSY), XMOREF) = 64
  /\ XMOREC(32) = 0 /\ Clr(32 - XMOREC(32), XBUSY) = 32 /\ Clr(32, XBUSY) = 32
BY DEF Has, Set, Clr, XMOREC, XBUSY, XMOREF, XMOREP

LEMMA QueuedByte ==
  /\ Has(64, XBUSY) /\ Set((64 + 1) % 256, XMOREP) = 81 /\ XMOREC(64) = 0
  /\ Clr(Set((64 + 1) % 256, XMOREF), XMOREP) = 97
  /\ Clr(Set(64, XMOREF), XMOREP) = 96
BY DEF Has, Set, Clr, XMOREC, XBUSY, XMOREF, XMOREP

LEMMA PartByte ==
  ASSUME NEW n \in 0 .. 15
  PROVE  /\ Has(80 + n, XBUSY) /\ XMOREC(80 + n) = n /\ Has(80 + n, XMOREP)
         /\ n < 15 => /\ Set((80 + n + 1) % 256, XMOREP) = 81 + n
                      /\ Clr(Set((80 + n + 1) % 256, XMOREF), XMOREP) = 97 + n
BY SMTT(60) DEF Has, Set, Clr, XMOREC, XBUSY, XMOREF, XMOREP

LEMMA SentByte ==
  ASSUME NEW n \in 0 .. 15
  PROVE  /\ Has(96 + n, XBUSY) /\ XMOREC(96 + n) = n /\ ~Has(96 + n, XMOREP)
         /\ Has(96 + n, XMOREF) /\ Clr(96, XBUSY) = 32
BY SMTT(60) DEF Has, Set, Clr, XMOREC, XBUSY, XMOREF, XMOREP

-----------------------------------------------------------------------------
(***************************************************************************)
(* The two queues.                                                         *)
(***************************************************************************)
LEMMA TailFacts ==
  ASSUME NEW T, NEW seq \in Seq(T), seq # <<>>
  PROVE  /\ Tail(seq) \in Seq(T) /\ Head(seq) = seq[1] /\ 1 \in DOMAIN seq /\ seq[1] \in T
         /\ \A k \in DOMAIN seq : k \in Nat /\ k >= 1
         /\ \A k \in DOMAIN Tail(seq) :
              k \in Nat /\ k >= 1 /\ k + 1 \in DOMAIN seq /\ Tail(seq)[k] = seq[k + 1]
         /\ \A k \in DOMAIN seq : k # 1 =>
              k - 1 \in DOMAIN Tail(seq) /\ Tail(seq)[k - 1] = seq[k]
OBVIOUS

LEMMA AppendFacts ==
  ASSUME NEW T, NEW seq \in Seq(T), NEW a \in T
  PROVE  LET n == Len(seq) + 1
             new == Append(seq, a) IN
         /\ new \in Seq(T) /\ n \in DOMAIN new /\ new[n] = a /\ n \in Nat
         /\ \A k \in DOMAIN seq : k \in DOMAIN new /\ new[k] = seq[k] /\ k \in Nat /\ k < n
         /\ \A k \in DOMAIN new : k = n \/ k \in DOMAIN seq
OBVIOUS

LEMMA Typed ==
  ASSUME Types
  PROVE  /\ Answers \in Seq(RetCodes) /\ Asked \in Seq(ReqBufs)
         /\ \A k \in DOMAIN Answers : Answers[k] \in RetCodes
         /\ \A k \in DOMAIN Asked : Asked[k] \in ReqBufs
         /\ \A k \in DOMAIN queue : queue[k] \in Slot
<1>1. Answers \in Seq(RetCodes) /\ Asked \in Seq(ReqBufs) /\ queue \in Seq(Slot)
  BY DEF Types, Answers, Asked
<1>. QED
  BY <1>1

\* Nothing but the places of the DPC, the interrupt and the DPC's locals changes.
Kept == <<eId, eNo, More, Req, held, e_tbl, IdTable, flags, FlowControlIdTable,
          FlowControlSkipTable, RcExtensionSupported, queue, failed, cardIds, cardFc,
          setup>>

LEMMA Frame ==
  ASSUME IInv, UNCHANGED Kept, Asked' = Asked, Answers' = Answers,
         pc' = "free" <=> pc = "free", CodeTypes', Plumbing'
  PROVE  IInv'
<1>. USE DEF Kept
<1>1. TableInv'
  BY DEF IInv, TableInv, Live, Owner
<1>2. QueueInv'
  BY DEF IInv, QueueInv
<1>3. PhaseInv'
  BY DEF IInv, PhaseInv, PhaseAt, Phase, Parts, InQueue
<1>4. AssignInv'
  BY DEF IInv, AssignInv, AssignAt, Assigning, InQueue
<1>5. AskedInv'
  BY DEF IInv, AskedInv, AskedAt, Live, Owner
<1>6. AnswersInv'
  BY DEF IInv, AnswersInv, AnswerAt, Live, Owner, IsRelease, EndsRemove
<1>7. RemoveInv'
  BY DEF IInv, RemoveInv, PendingAt, LiveAt, GoneAt, Live, Owner, EndsRemove, Assigns
<1>8. FlowInv'
  BY DEF IInv, FlowInv, OwnFc, OwnRelease, Live, Owner, IsRelease
<1>9. WaitInv'
  BY DEF IInv, WaitInv, FcAt, SparesAt, ReleaseAt, Live, IsFc, IsRelease
<1>10. PlainInv'
  BY DEF IInv, PlainInv
<1>11. LabelInv'
  BY DEF IInv, LabelInv, LabelAt, Released
<1>. QED
  BY <1>1, <1>2, <1>3, <1>4, <1>5, <1>6, <1>7, <1>8, <1>9, <1>10, <1>11 DEF IInv

-----------------------------------------------------------------------------
(***************************************************************************)
(* The DPC between its loops, and the card's post.                         *)
(***************************************************************************)
LEMMA DpcStartStep == IInv /\ DpcStart => IInv'
<1>. SUFFICES ASSUME IInv, DpcStart
              PROVE  IInv'
  OBVIOUS
<1>. USE DEF DpcStart, entity, tables, locals, card
<1>1. UNCHANGED Kept /\ Asked' = Asked /\ Answers' = Answers
  BY DEF Kept, Asked, Answers
<1>2. CodeTypes'
  BY DEF IInv, CodeTypes, Types
<1>3. Plumbing'
  BY <1>1 DEF IInv, Plumbing
<1>. QED
  BY <1>1, <1>2, <1>3, Frame

LEMMA RcLoopEndStep == IInv /\ RcLoopEnd => IInv'
<1>. SUFFICES ASSUME IInv, RcLoopEnd
              PROVE  IInv'
  OBVIOUS
<1>. USE DEF RcLoopEnd, entity, tables, locals, card
<1>1. UNCHANGED Kept /\ Asked' = Asked /\ Answers' = Answers
  BY DEF Kept, Asked, Answers
<1>2. CodeTypes'
  BY DEF IInv, CodeTypes, Types
<1>3. Plumbing'
  BY <1>1 DEF IInv, Plumbing
<1>. QED
  BY <1>1, <1>2, <1>3, Frame

LEMMA clr_irqStep == IInv /\ clr_irq => IInv'
<1>. SUFFICES ASSUME IInv, clr_irq
              PROVE  IInv'
  OBVIOUS
<1>. USE DEF clr_irq, entity, tables, locals, card
<1>1. UNCHANGED Kept /\ Asked' = Asked /\ Answers' = Answers
  BY DEF Kept, Asked, Answers
<1>2. CodeTypes'
  BY DEF IInv, CodeTypes, Types
<1>3. Plumbing'
  BY <1>1 DEF IInv, Plumbing
<1>. QED
  BY <1>1, <1>2, <1>3, Frame

LEMMA pr_readyStep == IInv /\ pr_ready => IInv'
<1>. SUFFICES ASSUME IInv, pr_ready
              PROVE  IInv'
  OBVIOUS
<1>. DEFINE n == Num(Answers, ReadyRcs)
<1>. USE DEF pr_ready, AfterOut, entity, tables
<1>1. UNCHANGED Kept /\ Asked' = Asked /\ Answers' = Answers
  BY DEF Kept, Asked, Answers
<1>2. n \in Nat /\ cardReadyInt + n = ReadyInt
  BY Typed, NumNat DEF IInv, CodeTypes, Plumbing
<1>3. /\ ReadyInt \in {0, 1} /\ cardReadyInt \in {0, 1} /\ NumReq \in Nat /\ Len(ReqMem) \in Nat
      /\ Len(filled) = 0 /\ ReadyCount = 0 /\ Len(ReqMem) <= NumReq
  BY XdiAssumption DEF IInv, CodeTypes, Types, Plumbing
<1>. HIDE DEF n
<1>4. /\ ReadyInt' \in {0, 1} /\ cardReadyInt' \in {0, 1} /\ cardReadyInt' + n = ReadyInt'
      /\ ReadyCount' \in 0 .. NumReq /\ Len(ReqMem) + ReadyCount' <= NumReq
      /\ this' \in Entity \cup {NULL}
      /\ pc' \in {"send1", "send2"} => queue # <<>> /\ ReadyCount' > 0
      /\ pc' \notin {"send1", "send2"} => ReadyCount' = 0
      /\ pc' \in {"idle", "send1", "clr", "send2"}
      /\ pc' \in {"send1", "clr"} => pc = "out1"
  BY <1>2, <1>3 DEF IInv, CodeTypes, Types
<1>5. CodeTypes'
  BY <1>4 DEF IInv, CodeTypes, Types
<1>6. Plumbing'
  <2>1. Num(Answers', ReadyRcs) = n
    BY <1>1 DEF n
  <2>. QED
    BY <2>1, <1>1, <1>3, <1>4 DEF IInv, Plumbing
<1>. QED
  BY <1>1, <1>4, <1>5, <1>6, Frame

\* The last request was no UREMOVE: pr_out only publishes the buffers.
LEMMA PublishStep == IInv /\ Publish => IInv'
<1>. SUFFICES ASSUME IInv, Publish
              PROVE  IInv'
  OBVIOUS
<1>. USE DEF AfterOut, entity, tables, card
<1>1. this \in Entity /\ Req[this].code # "UREMOVE"
  BY DEF Publish, IInv, CodeTypes, Types, Plumbing, PhaseInv, PhaseAt
<1>2. /\ UNCHANGED Kept /\ Answers' = Answers
      /\ ReqMem' = ReqMem \o filled /\ filled' = <<>> /\ ReadyCount' = 0 /\ this' = NULL
      /\ pc' = AfterOut /\ pc \in {"send1", "send2"}
      /\ UNCHANGED <<ReadyInt, soft_isr, irq, RcMem, cardRc, cardReadyInt>>
  BY <1>1 DEF Publish, Kept, Answers
<1>3. /\ ReqMem \in Seq(ReqBufs) /\ filled \in Seq(ReqBufs) /\ ReqMem' \in Seq(ReqBufs)
      /\ filled' \in Seq(ReqBufs) /\ Len(ReqMem') = Len(ReqMem) + Len(filled) /\ Len(filled') = 0
  BY <1>2 DEF IInv, CodeTypes, Types
<1>4. Asked' = Asked
  BY <1>2, <1>3 DEF Asked
<1>5. CodeTypes'
  <2>1. ReadyCount' \in 0 .. NumReq /\ this' \in Entity \cup {NULL} /\ pc' \in {"clr", "idle"}
    BY <1>2, XdiAssumption
  <2>2. Types
    BY DEF IInv, CodeTypes
  <2>3. Types'
    BY <1>2, <1>3, <2>1, <2>2 DEF Types, Kept
  <2>. QED
    BY <2>3, <1>2, Zenon DEF IInv, CodeTypes, Kept
<1>6. Plumbing'
  BY <1>2, <1>3, XdiAssumption DEF IInv, CodeTypes, Types, Plumbing
<1>. QED
  BY <1>2, <1>4, <1>5, <1>6, Frame

LEMMA CardPostStep == IInv /\ CardPost => IInv'
<1>. SUFFICES ASSUME IInv, CardPost
              PROVE  IInv'
  OBVIOUS
<1>. USE DEF CardPost, CardOnly, entity, tables, locals
<1>1. UNCHANGED Kept /\ Asked' = Asked
  BY DEF Kept, Asked
<1>2. RcMem = <<>>
  BY DEF IInv, Plumbing
<1>3. Answers' = Answers
  BY <1>2 DEF IInv, CodeTypes, Types, Answers
<1>4. CodeTypes'
  <2>1. Types'
    BY <1>2 DEF IInv, CodeTypes, Types
  <2>. QED
    BY <2>1 DEF IInv, CodeTypes
<1>5. Plumbing'
  BY <1>3 DEF IInv, Plumbing
<1>. QED
  BY <1>1, <1>3, <1>4, <1>5, Frame

-----------------------------------------------------------------------------
(***************************************************************************)
(* Clients.                                                                *)
(***************************************************************************)
LEMMA SlotFacts == 0 \notin Slot /\ NULL \notin Entity /\ 0 \notin Id /\ Slot \subseteq Nat
BY XdiAssumption DEF Slot

\* What is on its way for an Id belongs to its owner.
LEMMA Owned ==
  ASSUME IInv, NEW i \in Id, Live(i)
  PROVE  /\ IdTable[i] \in Slot /\ IdTable[i] # failed
         /\ Owner(i) \in Entity /\ eId[Owner(i)] = i /\ eNo[Owner(i)] = IdTable[i]
         /\ Owner(i) = e_tbl[IdTable[i]]
<1>1. Types /\ TableInv
  BY DEF IInv, CodeTypes
<1>2. IdTable[i] \in Slot /\ IdTable[i] # failed /\ Owner(i) # NULL /\ eId[Owner(i)] = i
  BY <1>1, SlotFacts DEF Types, TableInv, Live
<1>3. Owner(i) = e_tbl[IdTable[i]] /\ Owner(i) \in Entity
  BY <1>1, <1>2 DEF Owner, Types
<1>. QED
  BY <1>1, <1>2, <1>3, SlotFacts DEF TableInv

\* An entity is alone in having its slot and its Id.
LEMMA Alone ==
  ASSUME IInv, NEW x \in Entity, eId[x] # 0
  PROVE  /\ eNo[x] \in Slot /\ eId[x] \in Id /\ Live(eId[x]) /\ Owner(eId[x]) = x
         /\ IdTable[eId[x]] = eNo[x] /\ e_tbl[eNo[x]] = x /\ eNo[x] # failed
         /\ \A i \in Id : Live(i) /\ i # eId[x] => Owner(i) # x /\ IdTable[i] # eNo[x]
         /\ \A s \in Slot : s # failed /\ e_tbl[s] = x => s = eNo[x]
         /\ \A y \in Entity : y # x => eNo[y] # eNo[x] \/ eId[y] = 0
BY SlotFacts DEF IInv, CodeTypes, Types, TableInv, Live, Owner

\* A channel marked as flow controlled belongs to a known entity.
LEMMA FcOwner ==
  ASSUME IInv, NEW c \in Ch, FlowControlIdTable[c] # 0
  PROVE  LET i == FlowControlIdTable[c] IN
         /\ i \in Id /\ Live(i) /\ Owner(i) = c[1] /\ IdTable[i] \in Slot
         /\ c[1] \in Entity /\ eId[c[1]] = i /\ eNo[c[1]] = IdTable[i]
<1>1. c[1] \in Entity /\ eId[c[1]] = FlowControlIdTable[c]
  BY DEF IInv, FlowInv, Ch
<1>2. eId[c[1]] # 0
  BY <1>1
<1>. QED
  BY <1>1, <1>2, Alone

LEMMA RequestAssignStep ==
  ASSUME IInv, NEW x \in Entity, RequestAssign(x), ~Waits(x)
  PROVE  IInv'
<1>. DEFINE q == [code |-> "ASSIGN", ch |-> NoCh, left |-> 1]
<1>t. Types
  BY DEF IInv, CodeTypes
<1>1. PICK s \in Slot :
        /\ e_tbl[s] = NULL /\ e_tbl' = [e_tbl EXCEPT ![s] = x] /\ eNo' = [eNo EXCEPT ![x] = s]
        /\ Accept(x, s, 0, q)
  BY DEF RequestAssign
<1>2. /\ More' = [More EXCEPT ![x] = 64] /\ Req' = [Req EXCEPT ![x] = q]
      /\ queue' = Append(queue, s)
      /\ eId[x] = 0 /\ \A t \in Slot \ {failed} : e_tbl[t] # x
      /\ UNCHANGED <<eId, held, IdTable, flags, FlowControlIdTable, FlowControlSkipTable,
                     RcExtensionSupported, ReadyInt, pc, ReadyCount, filled, this, failed, irq,
                     ReqMem, RcMem, cardRc, cardIds, cardFc, cardReadyInt, setup>>
      /\ Asked' = Asked /\ Answers' = Answers
  BY <1>1, IdleByte DEF RequestAssign, Accept, locals, card, Asked, Answers, Waits
<1>b. soft_isr' \in BOOLEAN
  BY <1>1 DEF Accept
<1>3. /\ e_tbl'[s] = x /\ \A t \in Slot : t # s => e_tbl'[t] = e_tbl[t]
      /\ eNo'[x] = s /\ More'[x] = 64 /\ Req'[x] = q /\ s # failed /\ s # 0
      /\ \A y \in Entity : y # x => eNo'[y] = eNo[y] /\ More'[y] = More[y] /\ Req'[y] = Req[y]
  BY <1>t, <1>1, <1>2, SlotFacts DEF Types, IInv, TableInv
<1>4. /\ \A k \in DOMAIN queue : k \in DOMAIN queue' /\ queue'[k] = queue[k] /\ queue[k] # s
      /\ \A k \in DOMAIN queue' : k = Len(queue) + 1 \/ k \in DOMAIN queue
      /\ Len(queue) + 1 \in DOMAIN queue' /\ queue'[Len(queue) + 1] = s /\ queue' \in Seq(Slot)
  BY <1>t, <1>1, <1>2, AppendFacts DEF Types, IInv, QueueInv
<1>q. \A t \in Slot : InQueue(t)' <=> InQueue(t) \/ t = s
  BY <1>4 DEF InQueue
<1>5. \A i \in Id : Live(i) => Owner(i)' = Owner(i) /\ Owner(i) # x /\ Owner(i) \in Entity
  <2>. SUFFICES ASSUME NEW i \in Id, Live(i)
                PROVE  Owner(i)' = Owner(i) /\ Owner(i) # x /\ Owner(i) \in Entity
    OBVIOUS
  <2>1. IdTable[i] \in Slot /\ Owner(i) \in Entity /\ eId[Owner(i)] = i /\ Owner(i) = e_tbl[IdTable[i]]
    BY Owned
  <2>2. IdTable[i] # s
    BY <2>1, <1>1, SlotFacts
  <2>3. Owner(i)' = e_tbl'[IdTable[i]]
    BY <1>2 DEF Owner
  <2>4. e_tbl'[IdTable[i]] = e_tbl[IdTable[i]]
    BY <2>1, <2>2, <1>3
  <2>5. Owner(i) # x
    BY <2>1, <1>2, SlotFacts
  <2>. QED
    BY <2>1, <2>3, <2>4, <2>5
<1>6. \A i \in Id : Live(i)' <=> Live(i)
  BY <1>2 DEF Live
<1>7. CodeTypes'
  <2>1. q \in Requests
    BY XdiAssumption DEF Requests, ReqCodes
  <2>2. Types'
    BY <1>t, <1>1, <1>2, <1>4, <2>1, XdiAssumption, SMTT(30) DEF Types
  <2>. QED
    BY <2>2, <1>2, <1>b, Zenon DEF IInv, CodeTypes
<1>8. Plumbing'
  BY <1>2, <1>4 DEF IInv, Plumbing
<1>9. TableInv'
  BY <1>t, <1>1, <1>2, <1>3, SlotFacts DEF IInv, TableInv, Live, Owner, Types
<1>10. QueueInv'
  BY <1>1, <1>2, <1>3, <1>4, SlotFacts DEF IInv, QueueInv
<1>11. PhaseInv'
  <2>. SUFFICES ASSUME NEW y \in Entity
                PROVE  PhaseAt(y)'
    BY DEF PhaseInv
  <2>1. CASE y = x
    BY <2>1, <1>2, <1>3 DEF PhaseAt
  <2>2. CASE y # x
    <3>1. CASE eId[y] = 0
      BY <3>1, <2>2, <1>2, <1>3 DEF IInv, PhaseInv, PhaseAt
    <3>2. CASE eId[y] # 0
      <4>0. eNo'[y] = eNo[y] /\ eNo[y] # s
        BY <3>2, <2>2, <1>1, <1>3, Alone, SlotFacts
      <4>1. InQueue(eNo[y])' <=> InQueue(eNo[y])
        BY <4>0, <1>4 DEF InQueue
      <4>. QED
        BY <4>1, <2>2, <1>2, <1>3 DEF IInv, PhaseInv, PhaseAt, Phase, Parts
    <3>. QED
      BY <3>1, <3>2
  <2>. QED
    BY <2>1, <2>2
<1>12. AssignInv'
  <2>1. \A t \in Slot : t # s => (Assigning(t)' <=> Assigning(t))
    BY <1>2, <1>3 DEF Assigning
  <2>2. \A t \in Slot : Assigning(t) => e_tbl[t] # x /\ e_tbl[t] \in Entity
    BY <1>t, <1>2 DEF Assigning, Types
  <2>3. Assigning(s)' /\ ~Assigning(s) /\ InQueue(s)'
    BY <1>1, <1>2, <1>3, <1>q, SlotFacts DEF Assigning
  <2>. QED
    BY <2>1, <2>2, <2>3, <1>2, <1>3, <1>q DEF IInv, AssignInv, AssignAt
<1>13. AskedInv'
  BY <1>t, <1>2, <1>3, <1>5, <1>6, Typed DEF IInv, AskedInv, AskedAt, ReqBufs
<1>14. AnswersInv'
  <2>. SUFFICES ASSUME NEW k \in DOMAIN Answers
                PROVE  AnswerAt(k)'
    BY <1>2 DEF AnswersInv
  <2>1. AnswerAt(k) /\ Answers[k] \in RetCodes
    BY <1>t, Typed DEF IInv, AnswersInv
  <2>2. CASE Answers[k].id = 0
    BY <2>1, <2>2, <1>2 DEF AnswerAt, IsRelease
  <2>3. CASE Answers[k].id \in Id
    BY <2>1, <2>3, <1>2, <1>3, <1>5, <1>6 DEF AnswerAt, IsRelease, EndsRemove
  <2>. QED
    BY <2>1, <2>2, <2>3 DEF RetCodes
<1>15. RemoveInv'
  <2>1. RemoveInv
    BY DEF IInv
  <2>2. \A t \in Slot : "REMOVE_PENDING" \in flags[t] => t # s /\ e_tbl[t] # x /\ e_tbl[t] \in Entity
    BY <2>1, <1>t, <1>1, <1>2 DEF RemoveInv, PendingAt, Types
  <2>3. \A i \in Id : Live(i)' =>
          /\ Req'[Owner(i)'] = Req[Owner(i)] /\ More'[Owner(i)'] = More[Owner(i)] /\ Live(i)
    BY <1>3, <1>5, <1>6
  <2>4. \A t \in Slot : PendingAt(t)'
    BY <2>1, <2>2, <1>2, <1>3 DEF RemoveInv, PendingAt
  <2>5. \A i \in Id : LiveAt(i)'
    BY <2>1, <2>3, <1>2 DEF RemoveInv, LiveAt, EndsRemove, Assigns
  <2>6. \A i \in cardIds' : GoneAt(i)'
    BY <2>1, <1>2 DEF RemoveInv, GoneAt, Live, Assigns
  <2>. QED
    BY <2>4, <2>5, <2>6 DEF RemoveInv
<1>16. FlowInv'
  <2>1. FlowInv /\ \A f \in cardFc : f[1] \in Id
    BY <1>t DEF IInv, Types
  <2>2. \A k \in DOMAIN Answers : Answers[k].id \in Id \/ Answers[k].id = 0
    BY <1>t, Typed DEF RetCodes
  <2>3. \A k \in DOMAIN Answers : IsRelease(Answers[k]) => Answers[k].id # 0
    BY DEF IInv, FlowInv, OwnRelease, AnswersInv, AnswerAt
  <2>. QED
    BY <2>1, <2>2, <2>3, <1>2, <1>5, <1>6 DEF FlowInv, OwnFc, OwnRelease, IsRelease
<1>17. WaitInv'
  BY <1>2, <1>3, <1>6 DEF IInv, WaitInv, FcAt, SparesAt, ReleaseAt, Live, IsFc, IsRelease
<1>18. PlainInv'
  BY <1>2 DEF IInv, PlainInv
<1>19. LabelInv'
  BY <1>t, <1>2, <1>3 DEF IInv, LabelInv, LabelAt, Released, FlowInv, Types, Ch
<1>. QED
  BY <1>7, <1>8, <1>9, <1>10, <1>11, <1>12, <1>13, <1>14, <1>15, <1>16, <1>17, <1>18, <1>19
  DEF IInv

\* An entity with no part under way.
LEMMA Quiet ==
  ASSUME Types, NEW x \in Entity
  PROVE  /\ Parts(x) \in Nat
         /\ Num(Asked, ReqsOf(eId[x])) \in Nat /\ Num(Answers, AnswersOf(eId[x])) \in Nat
         /\ Num(Asked, ReqsOf(eId[x])) = 0 => \A k \in DOMAIN Asked : Asked[k].id # eId[x]
         /\ Num(Answers, AnswersOf(eId[x])) = 0 =>
              \A k \in DOMAIN Answers : Answers[k].id = eId[x] =>
                Answers[k].rc = "ASSIGN_OK" \/ IsRelease(Answers[k])
         /\ Parts(x) = 0 => /\ Num(Asked, ReqsOf(eId[x])) = 0
                            /\ Num(Answers, AnswersOf(eId[x])) = 0
<1>1. /\ Num(Asked, ReqsOf(eId[x])) \in Nat /\ Num(Answers, AnswersOf(eId[x])) \in Nat
  BY Typed, NumNat
<1>2. Num(Asked, ReqsOf(eId[x])) = 0 => \A k \in DOMAIN Asked : Asked[k].id # eId[x]
  <2>1. Num(Asked, ReqsOf(eId[x])) = 0 => \A k \in DOMAIN Asked : Asked[k] \notin ReqsOf(eId[x])
    BY Typed, NumZero
  <2>. QED
    BY <2>1, Typed DEF ReqsOf
<1>3. Num(Answers, AnswersOf(eId[x])) = 0 =>
        \A k \in DOMAIN Answers : Answers[k].id = eId[x] =>
          Answers[k].rc = "ASSIGN_OK" \/ IsRelease(Answers[k])
  <2>1. Num(Answers, AnswersOf(eId[x])) = 0 =>
          \A k \in DOMAIN Answers : Answers[k] \notin AnswersOf(eId[x])
    BY Typed, NumZero
  <2>. QED
    BY <2>1, Typed DEF AnswersOf, IsRelease
<1>. QED
  BY <1>1, <1>2, <1>3 DEF Parts

\* The phases, with the number of parts named.
LEMMA Phases ==
  ASSUME IInv, NEW x \in Entity, eId[x] # 0
  PROVE  /\ Parts(x) \in Nat /\ Phase(x) /\ Req[x] \in Requests
         /\ More[x] # 32 => Req[x].code # "ASSIGN" /\ Req[x].ch \in {x} \X (1 .. NumCh)
BY Quiet DEF IInv, PhaseInv, PhaseAt, CodeTypes, Types

LEMMA IdlePhase ==
  ASSUME Premises, IInv, NEW x \in Entity, eId[x] # 0, ~Has(More[x], XBUSY)
  PROVE  More[x] = 32 /\ Parts(x) = 0 /\ ~InQueue(eNo[x])
<1>. DEFINE n == Parts(x)
<1>1. n \in Nat /\ Phase(x) /\ MaxFrag \in Nat /\ MaxFrag <= 15 /\ Req[x].left \in Nat
  BY Phases, XdiAssumption DEF Premises, Requests
<1>2. More[x] # 64
  BY QueuedByte
<1>3. ~(More[x] = 80 + n /\ Req[x].left >= 1 /\ n + Req[x].left <= MaxFrag)
  BY <1>1, PartByte
<1>4. ~(More[x] = 96 + n /\ n \in 1 .. MaxFrag)
  BY <1>1, SentByte
<1>. QED
  BY <1>1, <1>2, <1>3, <1>4 DEF Phase

LEMMA RequestStep ==
  ASSUME Premises, IInv, NEW x \in Entity, NEW code \in Kinds, NEW c \in 1 .. NumCh,
         NEW n \in 1 .. MaxFrag, Request(x, code, <<x, c>>, n)
  PROVE  IInv'
<1>. DEFINE q == [code |-> code, ch |-> <<x, c>>, left |-> n]
            s == eNo[x]
            i == eId[x]
<1>t. Types
  BY DEF IInv, CodeTypes
<1>1. /\ i # 0
      /\ code # "DATA" => n = 1
      /\ MayUse(x, code, <<x, c>>) /\ More[x] = 32 /\ Parts(x) = 0 /\ ~InQueue(s)
  BY IdlePhase DEF Request
<1>2. /\ More' = [More EXCEPT ![x] = 64] /\ Req' = [Req EXCEPT ![x] = q]
      /\ queue' = Append(queue, s)
      /\ UNCHANGED <<eId, eNo, held, e_tbl, IdTable, flags, FlowControlIdTable,
                     FlowControlSkipTable, RcExtensionSupported, ReadyInt, pc, ReadyCount,
                     filled, this, failed, irq, ReqMem, RcMem, cardRc, cardIds, cardFc,
                     cardReadyInt, setup>>
      /\ Asked' = Asked /\ Answers' = Answers
  BY <1>1, IdleByte DEF Request, Accept, tables, locals, card, Asked, Answers
<1>b. soft_isr' \in BOOLEAN
  BY DEF Request, Accept
<1>3. /\ More'[x] = 64 /\ Req'[x] = q /\ s # failed /\ s \in Slot /\ e_tbl[s] = x
      /\ \A y \in Entity : y # x => More'[y] = More[y] /\ Req'[y] = Req[y]
  BY <1>t, <1>1, <1>2, Alone DEF Types
<1>4. /\ \A k \in DOMAIN queue : k \in DOMAIN queue' /\ queue'[k] = queue[k] /\ queue[k] # s
      /\ \A k \in DOMAIN queue' : k = Len(queue) + 1 \/ k \in DOMAIN queue
      /\ Len(queue) + 1 \in DOMAIN queue' /\ queue'[Len(queue) + 1] = s /\ queue' \in Seq(Slot)
  BY <1>t, <1>1, <1>2, <1>3, AppendFacts DEF Types, InQueue
<1>q. \A t \in Slot : InQueue(t)' <=> InQueue(t) \/ t = s
  BY <1>4 DEF InQueue
<1>5. \A j \in Id : (Live(j)' <=> Live(j)) /\ Owner(j)' = Owner(j)
  BY <1>2 DEF Live, Owner
<1>6. i \in Id /\ \A j \in Id : Live(j) /\ j # i => Owner(j) # x /\ Owner(j) \in Entity
  BY <1>1, Alone, Owned
<1>7. /\ \A k \in DOMAIN Asked : Asked[k].id # i
      /\ \A k \in DOMAIN Answers :
           Answers[k].id = i => Answers[k].rc = "ASSIGN_OK" \/ IsRelease(Answers[k])
  BY <1>t, <1>1, Quiet
<1>8. Live(i) /\ Owner(i) = x /\ IdTable[i] = s
  BY <1>1, Alone
<1>9. "REMOVE_PENDING" \notin flags[s] /\ i \in cardIds /\ code # "UREMOVE" /\ code # "ASSIGN"
  <2>1. PendingAt(s) /\ LiveAt(i)
    BY <1>3, <1>6 DEF IInv, RemoveInv
  <2>. QED
    BY <2>1, <1>1, <1>3, <1>8, XdiAssumption DEF PendingAt, LiveAt, Premises
<1>10. CodeTypes'
  <2>1. q \in Requests
    BY XdiAssumption, <1>9 DEF Requests, ReqCodes, Ch
  <2>2. Types'
    BY <1>t, <1>1, <1>2, <1>4, <2>1, XdiAssumption, SMTT(30) DEF Types
  <2>. QED
    BY <2>2, <1>2, <1>b, Zenon DEF IInv, CodeTypes
<1>11. Plumbing'
  BY <1>2, <1>4 DEF IInv, Plumbing
<1>12. TableInv'
  BY <1>2, <1>5 DEF IInv, TableInv
<1>13. QueueInv'
  <2>1. QueueInv
    BY DEF IInv
  <2>2. \A k, j \in DOMAIN queue' : k # j => queue'[k] # queue'[j]
    BY <2>1, <1>4 DEF QueueInv
  <2>3. \A k \in DOMAIN queue' : e_tbl'[queue'[k]] # NULL /\ queue'[k] # failed'
    BY <2>1, <1>2, <1>3, <1>4, SlotFacts DEF QueueInv
  <2>. QED
    BY <2>2, <2>3 DEF QueueInv
<1>14. PhaseInv'
  <2>. SUFFICES ASSUME NEW y \in Entity
                PROVE  PhaseAt(y)'
    BY DEF PhaseInv
  <2>1. Parts(y)' = Parts(y)
    BY <1>2 DEF Parts
  <2>2. CASE y = x
    <3>1. InQueue(eNo[y])'
      BY <2>2, <1>2, <1>3, <1>4 DEF InQueue
    <3>2. Phase(y)'
      BY <2>1, <2>2, <3>1, <1>1, <1>2, <1>3 DEF Phase
    <3>. QED
      BY <3>2, <2>2, <1>3, <1>9 DEF PhaseAt
  <2>3. CASE y # x
    <3>1. CASE eId[y] = 0
      BY <3>1, <2>3, <1>2, <1>3 DEF IInv, PhaseInv, PhaseAt
    <3>2. CASE eId[y] # 0
      <4>1. InQueue(eNo[y])' <=> InQueue(eNo[y])
        <5>1. eNo[y] # s
          BY <3>2, <2>3, <1>1, Alone
        <5>. QED
          BY <5>1, <1>2, <1>4 DEF InQueue
      <4>. QED
        BY <4>1, <2>1, <2>3, <1>2, <1>3 DEF IInv, PhaseInv, PhaseAt, Phase
    <3>. QED
      BY <3>1, <3>2
  <2>. QED
    BY <2>2, <2>3
<1>15. AssignInv'
  <2>1. \A t \in Slot : Assigning(t)' <=> Assigning(t)
    BY <1>2 DEF Assigning
  <2>2. \A t \in Slot : Assigning(t) => e_tbl[t] # x /\ e_tbl[t] \in Entity /\ t # s
    BY <1>t, <1>1, <1>3 DEF Assigning, Types
  <2>3. ~Assigning(s)
    BY <1>1, <1>3 DEF Assigning
  <2>. QED
    BY <2>1, <2>2, <2>3, <1>2, <1>3, <1>q DEF IInv, AssignInv, AssignAt
<1>16. AskedInv'
  <2>. SUFFICES ASSUME NEW k \in DOMAIN Asked
                PROVE  AskedAt(k)'
    BY <1>2 DEF AskedInv
  <2>1. AskedAt(k) /\ Asked[k] \in ReqBufs
    BY <1>t, Typed DEF IInv, AskedInv
  <2>. QED
    BY <2>1, <1>2, <1>3, <1>5, <1>6, <1>7 DEF AskedAt, ReqBufs
<1>17. AnswersInv'
  <2>. SUFFICES ASSUME NEW k \in DOMAIN Answers
                PROVE  AnswerAt(k)'
    BY <1>2 DEF AnswersInv
  <2>1. AnswerAt(k) /\ Answers[k] \in RetCodes
    BY <1>t, Typed DEF IInv, AnswersInv
  <2>2. CASE Answers[k].id = 0
    BY <2>1, <2>2, <1>2 DEF AnswerAt, IsRelease
  <2>3. CASE Answers[k].id \in Id /\ Answers[k].id # i
    BY <2>1, <2>3, <1>2, <1>3, <1>5, <1>6 DEF AnswerAt, IsRelease, EndsRemove
  <2>4. CASE Answers[k].id = i
    BY <2>1, <2>4, <1>1, <1>2, <1>7, <1>8 DEF AnswerAt, IsRelease
  <2>. QED
    BY <2>1, <2>2, <2>3, <2>4 DEF RetCodes
<1>18. RemoveInv'
  <2>1. RemoveInv
    BY DEF IInv
  <2>2. \A t \in Slot : "REMOVE_PENDING" \in flags[t] => e_tbl[t] # x /\ e_tbl[t] \in Entity
    BY <2>1, <1>t, <1>9 DEF RemoveInv, PendingAt, Types
  <2>4. \A t \in Slot : PendingAt(t)'
    BY <2>1, <2>2, <1>2, <1>3 DEF RemoveInv, PendingAt
  <2>5. \A j \in Id : LiveAt(j)'
    <3>. SUFFICES ASSUME NEW j \in Id
                  PROVE  LiveAt(j)'
      OBVIOUS
    <3>1. CASE j = i
      BY <3>1, <1>2, <1>3, <1>8, <1>9, <1>5 DEF LiveAt
    <3>2. CASE j # i
      BY <3>2, <2>1, <1>2, <1>3, <1>5, <1>6 DEF RemoveInv, LiveAt, EndsRemove, Assigns
    <3>. QED
      BY <3>1, <3>2
  <2>6. \A j \in cardIds' : GoneAt(j)'
    BY <2>1, <1>2 DEF RemoveInv, GoneAt, Live, Assigns
  <2>. QED
    BY <2>4, <2>5, <2>6 DEF RemoveInv
<1>19. FlowInv'
  BY <1>2 DEF IInv, FlowInv, OwnFc, OwnRelease, IsRelease, Live, Owner
<1>20. WaitInv'
  <2>1. setup.wait => /\ <<x, c>> \notin held
                      /\ code = "REMOVE" => \A d \in 1 .. NumCh : <<x, d>> \notin held
    BY <1>1 DEF MayUse
  <2>. SUFFICES ASSUME setup.wait
                PROVE  WaitInv'
    BY <1>2 DEF WaitInv
  <2>2. WaitInv
    BY DEF IInv
  <2>4. \A k \in DOMAIN Answers' : ReleaseAt(k)'
    BY <2>2, <1>2 DEF WaitInv, ReleaseAt, Live, IsFc, IsRelease
  <2>6. \A f \in cardFc' : FcAt(f)'
    BY <2>2, <1>2 DEF WaitInv, FcAt, Live, IsFc
  <2>5. \A y \in Entity : SparesAt(y)'
    <3>. SUFFICES ASSUME NEW y \in Entity
                  PROVE  SparesAt(y)'
      OBVIOUS
    <3>1. CASE y = x
      BY <3>1, <2>1, <1>2, <1>3 DEF SparesAt
    <3>2. CASE y # x
      BY <3>2, <2>2, <1>2, <1>3 DEF WaitInv, SparesAt
    <3>. QED
      BY <3>1, <3>2
  <2>. QED
    BY <2>4, <2>5, <2>6 DEF WaitInv
<1>21. PlainInv'
  BY <1>2 DEF IInv, PlainInv
<1>22. LabelInv'
  <2>1. code = "DATA" => <<x, c>> \notin held
    BY <1>1 DEF MayUse
  <2>2. \A d \in Ch : d[1] \in Entity
    BY DEF Ch
  <2>. SUFFICES ASSUME setup.ext
                PROVE  LabelInv'
    BY <1>2 DEF LabelInv
  <2>3. LabelInv
    BY DEF IInv
  <2>4. \A d \in Ch : LabelAt(d)'
    <3>. SUFFICES ASSUME NEW d \in Ch
                  PROVE  LabelAt(d)'
      OBVIOUS
    <3>1. LabelAt(d)
      BY <2>3 DEF LabelInv
    <3>2. CASE d[1] = x
      <4>1. <<x, c>> = d /\ code = "DATA" => d \notin held
        BY <2>1
      <4>2. More'[x] # 32 /\ Req'[x].ch = d => Req'[x].code # "DATA" \/ d \notin held
        BY <4>1, <1>3
      <4>. QED
        BY <3>1, <3>2, <4>2, <1>2 DEF LabelAt, Released
    <3>3. CASE d[1] # x
      BY <3>1, <3>3, <2>2, <1>2, <1>3 DEF LabelAt, Released
    <3>. QED
      BY <3>2, <3>3
  <2>. QED
    BY <2>3, <2>4, <1>2 DEF LabelInv, Released
<1>. QED
  BY <1>10, <1>11, <1>12, <1>13, <1>14, <1>15, <1>16, <1>17, <1>18, <1>19, <1>20, <1>21, <1>22
  DEF IInv

-----------------------------------------------------------------------------
(***************************************************************************)
(* pr_out's loop.                                                          *)
(***************************************************************************)

\* The entity at the head of the queue.
LEMMA HeadOfQueue ==
  ASSUME IInv, Sending, NEW s, NEW x, s = Head(queue), x = e_tbl[s]
  PROVE  /\ s \in Slot /\ s # failed /\ x \in Entity /\ eNo[x] = s /\ InQueue(s)
         /\ Tail(queue) \in Seq(Slot)
         /\ \A k \in DOMAIN Tail(queue) :
              Tail(queue)[k] # s /\ k \in Nat /\ k + 1 \in DOMAIN queue /\ Tail(queue)[k] = queue[k + 1]
         /\ \A k \in DOMAIN queue : queue[k] # s => \E n \in DOMAIN Tail(queue) : Tail(queue)[n] = queue[k]
         /\ \A k, n \in DOMAIN Tail(queue) : k # n => Tail(queue)[k] # Tail(queue)[n]
<1>1. queue \in Seq(Slot) /\ queue # <<>> /\ e_tbl \in [Slot -> Entity \cup {NULL}] /\ QueueInv /\ TableInv
  BY DEF IInv, CodeTypes, Types, Sending
<1>2. /\ Tail(queue) \in Seq(Slot) /\ s = queue[1] /\ 1 \in DOMAIN queue /\ s \in Slot
      /\ \A k \in DOMAIN Tail(queue) :
           k \in Nat /\ k >= 1 /\ k + 1 \in DOMAIN queue /\ Tail(queue)[k] = queue[k + 1]
      /\ \A k \in DOMAIN queue : k # 1 =>
           k - 1 \in DOMAIN Tail(queue) /\ Tail(queue)[k - 1] = queue[k]
  BY <1>1, TailFacts
<1>3. s # failed /\ x # NULL /\ InQueue(s)
  BY <1>1, <1>2 DEF QueueInv, InQueue
<1>4. \A k \in DOMAIN Tail(queue) : Tail(queue)[k] # s
  BY <1>1, <1>2 DEF QueueInv
<1>5. \A k, n \in DOMAIN Tail(queue) : k # n => Tail(queue)[k] # Tail(queue)[n]
  BY <1>1, <1>2 DEF QueueInv
<1>6. eNo[x] = s /\ x \in Entity
  BY <1>1, <1>2, <1>3 DEF TableInv
<1>. QED
  BY <1>2, <1>3, <1>4, <1>5, <1>6

LEMMA FillShape ==
  ASSUME IInv, Sending, NEW s \in Slot, NEW x \in Entity, NEW code \in ReqCodes \cup {"MDATA"},
         Req[x].ch \in Ch \cup {NoCh}, Fill(code, x, s), Req[x].left >= 1,
         NEW q, q = [code |-> code, id |-> eId[x], ch |-> Req[x].ch, ref |-> s]
  PROVE  /\ q \in ReqBufs /\ Asked' = Append(Asked, q) /\ Answers' = Answers
         /\ filled' \in Seq(ReqBufs) /\ Req' \in [Entity -> Requests]
         /\ Req'[x].code = Req[x].code /\ Req'[x].ch = Req[x].ch /\ Req'[x].left = Req[x].left - 1
         /\ \A y \in Entity : y # x => Req'[y] = Req[y]
         /\ ReadyCount' \in 0 .. NumReq /\ this' = x /\ x # NULL
         /\ Len(ReqMem') + Len(filled') + ReadyCount' <= NumReq
         /\ pc \in {"send1", "send2"}
<1>t. Types
  BY DEF IInv, CodeTypes
<1>1. /\ UNCHANGED <<eId, eNo, held, e_tbl, IdTable, FlowControlIdTable, RcExtensionSupported,
                     ReadyInt, soft_isr, pc, failed, irq, ReqMem, RcMem, cardRc, cardIds,
                     cardFc, cardReadyInt, setup>>
      /\ filled' = Append(filled, q) /\ ReadyCount' = ReadyCount - 1 /\ this' = x
      /\ Req' = [Req EXCEPT ![x].left = @ - 1]
  BY DEF Fill, card
<1>2. q \in ReqBufs
  BY <1>t DEF Types, ReqBufs
<1>3. /\ ReqMem \in Seq(ReqBufs) /\ filled \in Seq(ReqBufs) /\ Req \in [Entity -> Requests]
      /\ ReadyCount \in 0 .. NumReq /\ ReadyCount > 0 /\ pc \in {"send1", "send2"}
  BY <1>t DEF Types, Sending
<1>4. filled' \in Seq(ReqBufs) /\ Len(filled') = Len(filled) + 1
  BY <1>1, <1>2, <1>3
<1>5. Asked' = Append(Asked, q) /\ Answers' = Answers
  BY <1>1, <1>2, <1>3 DEF Asked, Answers
<1>6. /\ Req'[x].code = Req[x].code /\ Req'[x].ch = Req[x].ch /\ Req'[x].left = Req[x].left - 1
      /\ \A y \in Entity : y # x => Req'[y] = Req[y]
      /\ Req' \in [Entity -> Requests]
  <2>1. /\ Req[x] \in Requests /\ Req[x].left \in 0 .. MaxFrag /\ MaxFrag \in Nat
        /\ Req[x].left - 1 \in 0 .. MaxFrag
    BY <1>3, XdiAssumption DEF Requests
  <2>2. Req'[x] = [Req[x] EXCEPT !.left = @ - 1] /\ \A y \in Entity : y # x => Req'[y] = Req[y]
    BY <1>1, <1>3
  <2>3. /\ Req'[x] \in Requests /\ Req'[x].code = Req[x].code /\ Req'[x].ch = Req[x].ch
        /\ Req'[x].left = Req[x].left - 1
    BY <2>1, <2>2 DEF Requests
  <2>. QED
    BY <1>1, <1>3, <2>2, <2>3
<1>7. ReadyCount' \in 0 .. NumReq /\ x # NULL
  BY <1>1, <1>3, XdiAssumption
<1>8. Len(ReqMem') + Len(filled') + ReadyCount' <= NumReq
  <2>1. Len(ReqMem) + Len(filled) + ReadyCount <= NumReq /\ Len(ReqMem) \in Nat /\ Len(filled) \in Nat
    BY <1>3 DEF IInv, Plumbing
  <2>. QED
    BY <2>1, <1>1, <1>3, <1>4, XdiAssumption
<1>. QED
  BY <1>1, <1>2, <1>3, <1>4, <1>5, <1>6, <1>7, <1>8

\* A part, or the last part, of a request of an entity with an Id.
LEMMA SendKnownStep ==
  ASSUME Premises, IInv, SendPart \/ SendEnd, NEW s, s = Head(queue), NEW x, x = e_tbl[s],
         NEW i, i = eId[x], NEW n, n = Parts(x),
         NEW code, code = IF Req[x].left > 1 /\ x \in NL THEN "MDATA" ELSE Req[x].code,
         NEW q, q = [code |-> code, id |-> i, ch |-> Req[x].ch, ref |-> s],
         NEW m, m = IF Req[x].left > 1 /\ x \in NL THEN 81 + n ELSE 97 + n
  PROVE  IInv'
<1>. DEFINE part == Req[x].left > 1 /\ x \in NL
<1>t. Types
  BY DEF IInv, CodeTypes
<1>0. /\ Sending /\ i # 0 /\ Fill(code, x, s)
      /\ part => SendPart
      /\ ~part => SendEnd
  BY DEF SendPart, SendEnd
<1>1. /\ s \in Slot /\ s # failed /\ x \in Entity /\ eNo[x] = s /\ InQueue(s)
      /\ Tail(queue) \in Seq(Slot)
      /\ \A k \in DOMAIN Tail(queue) :
           Tail(queue)[k] # s /\ k \in Nat /\ k + 1 \in DOMAIN queue /\ Tail(queue)[k] = queue[k + 1]
      /\ \A k \in DOMAIN queue :
           queue[k] # s => \E l \in DOMAIN Tail(queue) : Tail(queue)[l] = queue[k]
      /\ \A k, l \in DOMAIN Tail(queue) : k # l => Tail(queue)[k] # Tail(queue)[l]
  BY <1>0, HeadOfQueue
<1>a. /\ code = IF part THEN "MDATA" ELSE Req[x].code
      /\ m = IF part THEN 81 + n ELSE 97 + n
  OBVIOUS
<1>. HIDE DEF part
<1>2. /\ i \in Id /\ Live(i) /\ Owner(i) = x /\ IdTable[i] = s /\ e_tbl[s] = x
      /\ \A j \in Id : Live(j) /\ j # i => Owner(j) # x /\ Owner(j) \in Entity
      /\ \A y \in Entity : y # x /\ eId[y] # 0 => eId[y] # i /\ eNo[y] # s
  BY <1>0, <1>1, Alone, Owned
<1>3. /\ n \in Nat /\ Req[x] \in Requests /\ Req[x].left \in Nat /\ Req[x].left >= 1
      /\ n + Req[x].left <= MaxFrag /\ MaxFrag \in Nat /\ MaxFrag <= 15
      /\ \/ More[x] = 64 /\ n = 0
         \/ More[x] = 80 + n /\ Req[x].code = "DATA"
      /\ Req[x].code # "DATA" => Req[x].left = 1 /\ n = 0
      /\ Req[x].code \notin {"ASSIGN", "UREMOVE"} /\ Req[x].ch \in {x} \X (1 .. NumCh)
  <2>1. /\ Parts(x) \in Nat /\ Phase(x) /\ Req[x] \in Requests
        /\ More[x] # 32 => Req[x].code # "ASSIGN" /\ Req[x].ch \in {x} \X (1 .. NumCh)
    BY <1>0, <1>1, Phases
  <2>2. /\ Req[x].left \in 0 .. MaxFrag /\ MaxFrag \in Nat /\ MaxFrag <= 15
        /\ Req[x].code # "UREMOVE"
    BY <2>1, <1>1, XdiAssumption DEF Requests, Premises, IInv, PhaseInv, PhaseAt
  <2>3. \/ /\ More[x] = 64 /\ n = 0 /\ Req[x].left >= 1
           /\ Req[x].code # "DATA" => Req[x].left = 1
        \/ /\ More[x] = 80 + n /\ Req[x].left >= 1 /\ n + Req[x].left <= MaxFrag
           /\ Req[x].code = "DATA"
    BY <2>1, <1>1 DEF Phase
  <2>4. n \in Nat /\ Req[x].left \in Nat /\ More[x] # 32
    BY <2>1, <2>2, <2>3
  <2>5. n + Req[x].left <= MaxFrag
    BY <2>2, <2>3, <2>4
  <2>6. Req[x].code # "DATA" => Req[x].left = 1 /\ n = 0
    BY <2>3
  <2>7. \/ More[x] = 64 /\ n = 0
        \/ More[x] = 80 + n /\ Req[x].code = "DATA"
    BY <2>3, <2>4
  <2>8. Req[x].code \notin {"ASSIGN", "UREMOVE"} /\ Req[x].ch \in {x} \X (1 .. NumCh)
    BY <2>1, <2>2, <2>4
  <2>9. Req[x].left >= 1
    BY <2>3
  <2>. QED
    BY <2>1, <2>2, <2>4, <2>5, <2>6, <2>7, <2>8, <2>9

<1>4. /\ q \in ReqBufs /\ Asked' = Append(Asked, q) /\ Answers' = Answers
      /\ filled' \in Seq(ReqBufs) /\ Req' \in [Entity -> Requests]
      /\ Req'[x].code = Req[x].code /\ Req'[x].ch = Req[x].ch /\ Req'[x].left = Req[x].left - 1
      /\ \A y \in Entity : y # x => Req'[y] = Req[y]
      /\ ReadyCount' \in 0 .. NumReq /\ this' = x /\ x # NULL
      /\ Len(ReqMem') + Len(filled') + ReadyCount' <= NumReq
      /\ pc \in {"send1", "send2"}
      /\ UNCHANGED <<eId, eNo, held, e_tbl, IdTable, FlowControlIdTable, RcExtensionSupported,
                     ReadyInt, soft_isr, pc, failed, irq, ReqMem, RcMem, cardRc, cardIds,
                     cardFc, cardReadyInt, setup>>
  <2>1. code \in ReqCodes \cup {"MDATA"} /\ Req[x].ch \in Ch \cup {NoCh}
    BY <1>3, <1>a DEF Requests
  <2>. QED
    <3>1. q = [code |-> code, id |-> eId[x], ch |-> Req[x].ch, ref |-> s]
      OBVIOUS
    <3>2. Sending /\ s \in Slot /\ x \in Entity /\ Fill(code, x, s) /\ Req[x].left >= 1 /\ IInv
      BY <1>0, <1>1, <1>3
    <3>3. /\ q \in ReqBufs /\ Asked' = Append(Asked, q) /\ Answers' = Answers
          /\ filled' \in Seq(ReqBufs) /\ Req' \in [Entity -> Requests]
          /\ Req'[x].code = Req[x].code /\ Req'[x].ch = Req[x].ch /\ Req'[x].left = Req[x].left - 1
          /\ \A y \in Entity : y # x => Req'[y] = Req[y]
          /\ ReadyCount' \in 0 .. NumReq /\ this' = x /\ x # NULL
      BY <3>1, <3>2, <2>1, FillShape
    <3>4. /\ Len(ReqMem') + Len(filled') + ReadyCount' <= NumReq
          /\ pc \in {"send1", "send2"}
      BY <3>1, <3>2, <2>1, FillShape
    <3>5. UNCHANGED <<eId, eNo, held, e_tbl, IdTable, FlowControlIdTable, RcExtensionSupported,
                     ReadyInt, soft_isr, pc, failed, irq, ReqMem, RcMem, cardRc, cardIds,
                     cardFc, cardReadyInt, setup>>
      BY <3>2 DEF Fill, card
    <3>. QED
      BY <3>3, <3>4, <3>5
<1>5. /\ More' = [More EXCEPT ![x] = m] /\ m \in 81 .. 255
      /\ m = IF part THEN 81 + n ELSE 97 + n
      /\ ~part => m >= 96
      /\ More[x] < 96 /\ More[x] # 32 /\ More[x] \in Nat /\ ~(More[x] >= 96)
  <2>1. part => Set((More[x] + 1) % 256, XMOREP) = 81 + n
    BY <1>3, QueuedByte, PartByte DEF part
  <2>2. Clr(Set((More[x] + 1) % 256, XMOREF), XMOREP) = 97 + n
    BY <1>3, QueuedByte, PartByte
  <2>3. More' = [More EXCEPT ![x] = m]
    <3>1. CASE part
      BY <3>1, <2>1, <1>0, <1>a DEF SendPart
    <3>2. CASE ~part
      BY <3>2, <2>2, <1>0, <1>a DEF SendEnd
    <3>. QED
      BY <3>1, <3>2
  <2>. QED
    BY <2>3, <1>3, <1>a
<1>6. /\ More'[x] = m /\ \A y \in Entity : y # x => More'[y] = More[y]
      /\ More' \in [Entity -> 0 .. 255]
  <2>1. x \in Entity /\ More \in [Entity -> 0 .. 255]
    BY <1>t, <1>1 DEF Types
  <2>2. More' = [More EXCEPT ![x] = m] /\ m \in 0 .. 255
    BY <1>5
  <2>. QED
    BY <2>1, <2>2
<1>e. m >= 80 /\ (part => ~(m >= 96))
  <2>1. part => n < 15
    BY <1>3 DEF part
  <2>2. n \in Nat
    BY <1>3
  <2>. QED
    BY <2>1, <2>2, <1>a
<1>7. /\ q.code = code /\ q.id = i /\ q.ch = Req[x].ch
      /\ part => code = "MDATA" /\ Req[x].code = "DATA"
      /\ ~part => code = Req[x].code
      /\ code \notin {"ASSIGN", "UREMOVE"} /\ (code = "MDATA" => part)
      /\ n + 1 \in 1 .. MaxFrag
      /\ part => n + Req[x].left <= MaxFrag /\ Req[x].left > 1
  BY <1>3, <1>a DEF part, Requests, ReqCodes
<1>8. \A t \in Slot : t # s => flags'[t] = flags[t]
  <2>1. flags \in [Slot -> SUBSET {"REMOVE_PENDING", "NO_RC_CANCELLING"}]
    BY <1>t DEF Types
  <2>2. part => flags' = flags
    BY <1>0 DEF SendPart
  <2>3. ~part => flags' = flags \/ flags' = [flags EXCEPT ![s] = @ \cup {"REMOVE_PENDING"}]
    BY <1>0 DEF SendEnd
  <2>. QED
    BY <2>1, <2>2, <2>3
<1>9. /\ flags' \in [Slot -> SUBSET {"REMOVE_PENDING", "NO_RC_CANCELLING"}]
      /\ "NO_RC_CANCELLING" \in flags'[s] <=> "NO_RC_CANCELLING" \in flags[s]
      /\ "REMOVE_PENDING" \in flags'[s] <=> ~part /\ Req[x].code = "REMOVE"
      /\ "REMOVE_PENDING" \notin flags[s]
  <2>1. "REMOVE_PENDING" \notin flags[s]
    <3>1. PendingAt(s)
      BY <1>1 DEF IInv, RemoveInv
    <3>. QED
      BY <3>1, <1>2, <1>5 DEF PendingAt
  <2>2. flags \in [Slot -> SUBSET {"REMOVE_PENDING", "NO_RC_CANCELLING"}]
    BY <1>t DEF Types
  <2>3. CASE part
    BY <2>1, <2>2, <2>3, <1>0, <1>1 DEF SendPart
  <2>4. CASE ~part
    <3>1. flags' = IF Req[x].code = "REMOVE"
                   THEN [flags EXCEPT ![s] = @ \cup {"REMOVE_PENDING"}] ELSE flags
      BY <2>4, <1>0 DEF SendEnd
    <3>. QED
      BY <2>1, <2>2, <2>4, <3>1, <1>1
  <2>. QED
    BY <2>3, <2>4
<1>10. /\ queue' \in Seq(Slot)
       /\ \A k, l \in DOMAIN queue' : k # l => queue'[k] # queue'[l]
       /\ \A k \in DOMAIN queue' :
            queue'[k] \in Slot /\ \E l \in DOMAIN queue : queue'[k] = queue[l]
       /\ \A k \in DOMAIN queue : queue[k] # s => \E l \in DOMAIN queue' : queue'[l] = queue[k]
       /\ part => \E l \in DOMAIN queue' : queue'[l] = s
       /\ ~part => \A l \in DOMAIN queue' : queue'[l] # s
  <2>1. CASE part
    <3>1. queue' = Append(Tail(queue), s)
      BY <2>1, <1>0, <1>1 DEF SendPart
    <3>2. PICK w \in DOMAIN queue : queue[w] = s
      BY <1>1 DEF InQueue
    <3>3. /\ queue' \in Seq(Slot)
          /\ Len(Tail(queue)) + 1 \in DOMAIN queue' /\ queue'[Len(Tail(queue)) + 1] = s
          /\ \A k \in DOMAIN Tail(queue) : k \in DOMAIN queue' /\ queue'[k] = Tail(queue)[k]
          /\ \A k \in DOMAIN queue' : k = Len(Tail(queue)) + 1 \/ k \in DOMAIN Tail(queue)
      BY <3>1, <1>1, AppendFacts
    <3>4. \A k, l \in DOMAIN queue' : k # l => queue'[k] # queue'[l]
      BY <3>3, <1>1, SMTT(30)
    <3>5. \A k \in DOMAIN queue' :
            queue'[k] \in Slot /\ \E l \in DOMAIN queue : queue'[k] = queue[l]
      BY <3>2, <3>3, <1>1
    <3>. QED
      BY <2>1, <3>3, <3>4, <3>5, <1>1
  <2>2. CASE ~part
    <3>1. queue' = Tail(queue)
      BY <2>2, <1>0 DEF SendEnd
    <3>. QED
      BY <2>2, <3>1, <1>1
  <2>. QED
    BY <2>1, <2>2
<1>11. /\ \A t \in Slot : t # s => (InQueue(t)' <=> InQueue(t))
       /\ InQueue(s)' <=> part
  BY <1>10 DEF InQueue
<1>12. \A j \in Id : (Live(j)' <=> Live(j)) /\ Owner(j)' = Owner(j)
  BY <1>4 DEF Live, Owner
<1>13. i \in cardIds
  <2>1. LiveAt(i)
    BY <1>2 DEF IInv, RemoveInv
  <2>. QED
    BY <2>1, <1>2, <1>5 DEF LiveAt
\* Nothing under way is the end of x's request.
<1>14. /\ \A k \in DOMAIN Asked : Asked[k].id = i => Asked[k].code = "MDATA"
       /\ \A k \in DOMAIN Answers : Answers[k].id = i =>
            /\ Answers[k].rc \notin {"OK_FC", "ASSIGN_OK"} /\ Answers[k].type # "REMOVE_COMPLETE"
  <2>1. \A k \in DOMAIN Asked : AskedAt(k)
    BY DEF IInv, AskedInv
  <2>2. \A k \in DOMAIN Answers : AnswerAt(k)
    BY DEF IInv, AnswersInv
  <2>3. i # 0
    BY <1>0
  <2>4. ~(More[x] >= 96)
    BY <1>3, <1>5
  <2>. QED
    BY <2>1, <2>2, <2>3, <2>4, <1>2 DEF AskedAt, AnswerAt
<1>15. CodeTypes'
  <2>1. Types'
    BY <1>t, <1>4, <1>6, <1>9, <1>10, <1>1 DEF Types
  <2>2. FlowControlSkipTable' \in [Ch -> BOOLEAN]
    <3>1. CASE part
      BY <3>1, <1>0 DEF SendPart, IInv, CodeTypes
    <3>2. CASE ~part
      BY <3>2, <1>0 DEF SendEnd, IInv, CodeTypes
    <3>. QED
      BY <3>1, <3>2
  <2>. QED
    BY <2>1, <2>2, <1>4, Zenon DEF IInv, CodeTypes
<1>16. Plumbing'
  BY <1>4 DEF IInv, Plumbing
<1>17. TableInv'
  BY <1>4, <1>12 DEF IInv, TableInv
<1>18. QueueInv'
  BY <1>4, <1>10 DEF IInv, QueueInv
<1>19. PhaseInv'
  <2>. SUFFICES ASSUME NEW y \in Entity
                PROVE  PhaseAt(y)'
    BY DEF PhaseInv
  <2>0. PhaseAt(y)
    BY DEF IInv, PhaseInv
  <2>1. CASE y = x
    <3>1. Num(Asked', ReqsOf(i)) = Num(Asked, ReqsOf(i)) + 1
      <4>1. q \in ReqsOf(i)
        BY <1>4, <1>7 DEF ReqsOf
      <4>. QED
        BY <4>1, <1>t, <1>4, Typed, NumAppend
    <3>2. Parts(x)' = n + 1
      <4>1. Num(Asked, ReqsOf(i)) \in Nat /\ Num(Answers, AnswersOf(i)) \in Nat
        BY <1>t, Typed, NumNat
      <4>2. Parts(x)' = Num(Asked', ReqsOf(i)) + Num(Answers, AnswersOf(i))
        BY <1>4 DEF Parts
      <4>3. n = Num(Asked, ReqsOf(i)) + Num(Answers, AnswersOf(i))
        BY DEF Parts
      <4>. QED
        BY <3>1, <4>1, <4>2, <4>3
    <3>3. InQueue(eNo[x])' <=> part
      <4>1. eNo'[x] = s
        BY <1>1, <1>4
      <4>. QED
        BY <4>1, <1>11 DEF InQueue
    <3>4. /\ part => Req'[x].left >= 1 /\ n + 1 + Req'[x].left <= MaxFrag /\ More'[x] = 80 + (n + 1)
                     /\ Req'[x].code = "DATA"
          /\ ~part => More'[x] = 96 + (n + 1) /\ n + 1 \in 1 .. MaxFrag
                     /\ (Req'[x].code # "DATA" => n + 1 = 1)
      <4>0. /\ Req'[x].left = Req[x].left - 1 /\ Req'[x].code = Req[x].code
            /\ More'[x] = IF part THEN 81 + n ELSE 97 + n
        BY <1>4, <1>5, <1>6
      <4>1. CASE part
        BY <4>0, <4>1, <1>3, <1>7
      <4>2. CASE ~part
        BY <4>0, <4>2, <1>3, <1>7
      <4>. QED
        BY <4>1, <4>2
    <3>5. Phase(x)'
      <4>1. CASE part
        BY <4>1, <3>2, <3>3, <3>4 DEF Phase
      <4>2. CASE ~part
        BY <4>2, <3>2, <3>3, <3>4 DEF Phase
      <4>. QED
        BY <4>1, <4>2
    <3>. QED
      BY <2>1, <3>5, <1>3, <1>4 DEF PhaseAt
  <2>2. CASE y # x /\ eId[y] = 0
    BY <2>0, <2>2, <1>4 DEF PhaseAt
  <2>3. CASE y # x /\ eId[y] # 0
    <3>1. Num(Asked', ReqsOf(eId[y])) = Num(Asked, ReqsOf(eId[y]))
      <4>1. q \notin ReqsOf(eId[y])
        BY <2>3, <1>2, <1>7 DEF ReqsOf
      <4>. QED
        BY <4>1, <1>t, <1>4, Typed, NumAppendOut
    <3>2. Parts(y)' = Parts(y)
      BY <3>1, <1>4 DEF Parts
    <3>3. InQueue(eNo[y])' <=> InQueue(eNo[y])
      <4>1. eNo'[y] = eNo[y] /\ eNo[y] \in Slot /\ eNo[y] # s
        BY <2>3, <1>2, <1>4, Alone
      <4>. QED
        BY <4>1, <1>10 DEF InQueue
    <3>. QED
      BY <2>0, <2>3, <3>2, <3>3, <1>4, <1>6, SMTT(30) DEF PhaseAt, Phase
  <2>. QED
    BY <2>1, <2>2, <2>3
<1>20. AssignInv'
  <2>. SUFFICES ASSUME NEW t \in Slot
                PROVE  AssignAt(t)'
    BY DEF AssignInv
  <2>1. AssignAt(t)
    BY DEF IInv, AssignInv
  <2>2. Num(Asked', AssignReqs(t)) = Num(Asked, AssignReqs(t))
    <3>1. q \notin AssignReqs(t)
      BY <1>7 DEF AssignReqs
    <3>. QED
      BY <3>1, <1>t, <1>4, Typed, NumAppendOut
  <2>3. Assigning(t)' <=> Assigning(t)
    BY <1>4 DEF Assigning
  <2>4. Assigning(t) => t # s /\ e_tbl[t] # x /\ e_tbl[t] \in Entity
    BY <1>t, <1>0, <1>2 DEF Assigning, Types
  <2>. QED
    BY <2>1, <2>2, <2>3, <2>4, <1>4, <1>6, <1>11 DEF AssignAt
<1>21. AskedInv'
  <2>1. /\ Len(Asked) + 1 \in DOMAIN Asked' /\ Asked'[Len(Asked) + 1] = q
        /\ \A k \in DOMAIN Asked :
             k \in DOMAIN Asked' /\ Asked'[k] = Asked[k] /\ k \in Nat /\ k < Len(Asked) + 1
        /\ \A k \in DOMAIN Asked' : k = Len(Asked) + 1 \/ k \in DOMAIN Asked
        /\ Len(Asked) + 1 \in Nat
    <3>1. Asked \in Seq(ReqBufs) /\ q \in ReqBufs /\ Asked' = Append(Asked, q)
      BY <1>t, <1>4, Typed
    <3>. QED
      BY <3>1, AppendFacts
  <2>. SUFFICES ASSUME NEW k \in DOMAIN Asked'
                PROVE  AskedAt(k)'
    BY DEF AskedInv
  <2>2. CASE k = Len(Asked) + 1
    <3>1. \A l \in DOMAIN Asked' : ~(l > k)
      BY <2>1, <2>2
    <3>2. Asked'[k] = q
      BY <2>1, <2>2
    <3>3. code # "MDATA" => More'[x] >= 96 /\ code = Req'[x].code
      BY <1>4, <1>5, <1>6, <1>7
    <3>4. /\ Live(i)' /\ Owner(i)' = x /\ i \in cardIds' /\ i # 0
          /\ code = "MDATA" => Req'[x].code = "DATA"
          /\ q.ch = Req'[x].ch
      BY <1>0, <1>2, <1>4, <1>7, <1>12, <1>13
    <3>. QED
      BY <3>1, <3>2, <3>3, <3>4, <1>7 DEF AskedAt
  <2>3. CASE k \in DOMAIN Asked
    <3>1. AskedAt(k) /\ Asked[k] \in ReqBufs
      BY <1>t, <2>3, Typed DEF IInv, AskedInv
    <3>2. CASE Asked[k].id = 0
      BY <3>1, <3>2, <2>1, <2>3 DEF AskedAt
    <3>3. CASE Asked[k].id = i
      <4>1. Asked[k].code = "MDATA"
        BY <3>3, <2>3, <1>14
      <4>2. /\ Asked'[k] = Asked[k] /\ Live(i)' /\ Owner(i)' = x /\ cardIds' = cardIds
            /\ Req'[x].code = Req[x].code /\ Req'[x].ch = Req[x].ch
        BY <2>1, <2>3, <1>2, <1>4, <1>12
      <4>. QED
        BY <3>1, <3>3, <4>1, <4>2, <1>2 DEF AskedAt
    <3>4. CASE Asked[k].id \in Id /\ Asked[k].id # i
      <4>1. \A l \in DOMAIN Asked' : l > k /\ Asked[k].code # "MDATA" => Asked'[l].id # Asked[k].id
        BY <3>1, <3>4, <2>1, <1>7, SlotFacts DEF AskedAt
      <4>2. LET j == Asked[k].id IN
            /\ Asked'[k] = Asked[k] /\ cardIds' = cardIds /\ setup' = setup
            /\ Live(j)' <=> Live(j)
            /\ Live(j) => /\ Owner(j)' = Owner(j) /\ Req'[Owner(j)] = Req[Owner(j)]
                          /\ More'[Owner(j)] = More[Owner(j)]
        BY <2>1, <2>3, <3>4, <1>2, <1>4, <1>6, <1>12
      <4>. QED
        BY <3>1, <4>1, <4>2 DEF AskedAt
    <3>. QED
      BY <3>1, <3>2, <3>3, <3>4 DEF ReqBufs
  <2>. QED
    BY <2>1, <2>2, <2>3
<1>22. AnswersInv'
  <2>. SUFFICES ASSUME NEW k \in DOMAIN Answers
                PROVE  AnswerAt(k)'
    BY <1>4 DEF AnswersInv
  <2>1. AnswerAt(k) /\ Answers[k] \in RetCodes
    BY <1>t, Typed DEF IInv, AnswersInv
  <2>2. CASE Answers[k].id = 0
    BY <2>1, <2>2, <1>4 DEF AnswerAt, IsRelease
  <2>a. \A l \in DOMAIN Asked' : (l \in DOMAIN Asked /\ Asked'[l] = Asked[l]) \/ Asked'[l].id = i
    BY <1>t, <1>4, <1>7, Typed, AppendFacts
  <2>3. CASE Answers[k].id \in Id /\ Answers[k].id # i
    <3>1. (\A l \in DOMAIN Asked : Asked[l].id # Answers[k].id) =>
             \A l \in DOMAIN Asked' : Asked'[l].id # Answers[k].id
      BY <2>a, <2>3
    <3>2. PICK j \in Id : j = Answers[k].id /\ j # i
      BY <2>3
    <3>3. /\ Answers' = Answers /\ cardIds' = cardIds /\ cardFc' = cardFc /\ setup' = setup
          /\ Live(j)' <=> Live(j)
          /\ Owner(j)' = Owner(j)
      BY <1>4, <1>12
    <3>4. Live(j) => Req'[Owner(j)] = Req[Owner(j)] /\ More'[Owner(j)] = More[Owner(j)]
      BY <3>2, <1>2, <1>4, <1>6
    <3>5. \A l : EndsRemove(l, j)' <=> EndsRemove(l, j)
      BY <3>3 DEF EndsRemove
    <3>. QED
      BY <2>1, <3>1, <3>2, <3>3, <3>4, <3>5 DEF AnswerAt, IsRelease
  <2>4. CASE Answers[k].id = i
    <3>1. More'[x] >= 80
      BY <1>6, <1>e
    <3>2. Live(i) /\ Live(i)' /\ Owner(i)' = x /\ Owner(i) = x
      BY <1>2, <1>12
    <3>3. Answers' = Answers /\ setup' = setup /\ Req'[x].code = Req[x].code /\ Req'[x].ch = Req[x].ch
      BY <1>4
    <3>4. Answers[k].rc \notin {"OK_FC", "ASSIGN_OK"} /\ Answers[k].type # "REMOVE_COMPLETE"
      BY <2>4, <1>14
    <3>. QED
      BY <2>1, <2>4, <3>1, <3>2, <3>3, <3>4 DEF AnswerAt
  <2>. QED
    BY <2>1, <2>2, <2>3, <2>4 DEF RetCodes
<1>23. RemoveInv'
  <2>0. RemoveInv
    BY DEF IInv
  <2>1. \A t \in Slot : PendingAt(t)'
    <3>. SUFFICES ASSUME NEW t \in Slot
                  PROVE  PendingAt(t)'
      OBVIOUS
    <3>0. PendingAt(t)
      BY <2>0 DEF RemoveInv
    <3>1. CASE t = s
      <4>1. e_tbl'[s] = x /\ x # NULL /\ eId'[x] # 0 /\ eNo'[x] = s /\ Req'[x].code = Req[x].code
        BY <1>0, <1>1, <1>2, <1>4
      <4>2. "REMOVE_PENDING" \in flags'[s] => Req[x].code = "REMOVE" /\ More'[x] >= 96
        BY <1>5, <1>6, <1>9
      <4>. QED
        BY <3>1, <4>1, <4>2 DEF PendingAt
    <3>2. CASE t # s
      <4>1. "REMOVE_PENDING" \in flags[t] => e_tbl[t] # x /\ e_tbl[t] \in Entity
        BY <3>0, <3>2, <1>t, <1>1, <1>2 DEF PendingAt, Types
      <4>. QED
        BY <3>0, <3>2, <4>1, <1>4, <1>6, <1>8 DEF PendingAt
    <3>. QED
      BY <3>1, <3>2
  <2>2. \A j \in Id : LiveAt(j)'
    <3>. SUFFICES ASSUME NEW j \in Id, Live(j)
                  PROVE  LiveAt(j)'
      BY <1>12 DEF LiveAt
    <3>0. LiveAt(j)
      BY <2>0 DEF RemoveInv
    <3>a. \E l \in DOMAIN Asked' : Asked'[l].id = i
      <4>1. Len(Asked) + 1 \in DOMAIN Asked' /\ Asked'[Len(Asked) + 1] = q
        BY <1>t, <1>4, Typed, AppendFacts
      <4>. QED
        BY <4>1, <1>7
    <3>b. \A l \in DOMAIN Asked : \E k \in DOMAIN Asked' : Asked'[k] = Asked[l]
      <4>1. Asked \in Seq(ReqBufs) /\ q \in ReqBufs /\ Asked' = Append(Asked, q)
        BY <1>t, <1>4, Typed
      <4>. QED
        BY <4>1, AppendFacts
    <3>1. CASE j = i
      <4>1. More'[x] >= 96 => ~part
        BY <1>6, <1>e
      <4>2. IdTable'[i] = s /\ Owner(i)' = x /\ cardIds' = cardIds /\ Req'[x].code = Req[x].code
        BY <1>2, <1>4, <1>12
      <4>3. "REMOVE_PENDING" \in flags'[s] <=> ~part /\ Req[x].code = "REMOVE"
        BY <1>9
      <4>. QED
        BY <3>1, <3>a, <4>1, <4>2, <4>3, <1>13 DEF LiveAt
    <3>2. CASE j # i
      <4>1. IdTable[j] \in Slot /\ IdTable[j] # s
        BY <3>2, <1>2, Owned
      <4>2. LiveAt(j)'
        <5>1. /\ Owner(j)' = Owner(j) /\ Req'[Owner(j)] = Req[Owner(j)]
              /\ More'[Owner(j)] = More[Owner(j)] /\ flags'[IdTable[j]] = flags[IdTable[j]]
              /\ IdTable' = IdTable /\ cardIds' = cardIds /\ Answers' = Answers /\ setup' = setup
          BY <3>2, <4>1, <1>2, <1>4, <1>6, <1>8, <1>12
        <5>. QED
          BY <3>0, <3>b, <5>1 DEF LiveAt, EndsRemove, Assigns
      <4>. QED
        BY <4>2
    <3>. QED
      BY <3>1, <3>2
  <2>3. \A j \in cardIds' : GoneAt(j)'
    <3>. SUFFICES ASSUME NEW j \in cardIds'
                  PROVE  GoneAt(j)'
      OBVIOUS
    <3>a. IdTable' = IdTable /\ cardIds' = cardIds /\ Answers' = Answers /\ setup' = setup
      BY <1>4
    <3>b. \A l \in DOMAIN Asked : \E k \in DOMAIN Asked' : Asked'[k] = Asked[l]
      <4>1. Asked \in Seq(ReqBufs) /\ q \in ReqBufs /\ Asked' = Append(Asked, q)
        BY <1>t, <1>4, Typed
      <4>. QED
        BY <4>1, AppendFacts
    <3>c. GoneAt(j)
      BY <2>0, <3>a DEF RemoveInv
    <3>. QED
      BY <3>a, <3>b, <3>c DEF GoneAt, Live, Assigns
  <2>. QED
    BY <2>1, <2>2, <2>3 DEF RemoveInv
<1>24. FlowInv'
  <2>1. \A t \in Slot : "NO_RC_CANCELLING" \in flags'[t] => "NO_RC_CANCELLING" \in flags[t]
    BY <1>8, <1>9
  <2>. QED
    BY <2>1, <1>4 DEF IInv, FlowInv, OwnFc, OwnRelease, IsRelease, Live, Owner
<1>25. WaitInv'
  <2>. SUFFICES ASSUME setup.wait
                PROVE  WaitInv'
    BY <1>4 DEF WaitInv
  <2>1. WaitInv
    BY DEF IInv
  <2>2. \A k \in DOMAIN Answers' : ReleaseAt(k)'
    BY <2>1, <1>4 DEF WaitInv, ReleaseAt, Live, IsFc, IsRelease
  <2>3. \A f \in cardFc' : FcAt(f)'
    BY <2>1, <1>4 DEF WaitInv, FcAt, Live, IsFc
  <2>4. \A y \in Entity : SparesAt(y)'
    <3>. SUFFICES ASSUME NEW y \in Entity
                  PROVE  SparesAt(y)'
      OBVIOUS
    <3>0. SparesAt(y)
      BY <2>1 DEF WaitInv
    <3>1. CASE y = x
      BY <3>0, <3>1, <1>4, <1>5 DEF SparesAt
    <3>2. CASE y # x
      BY <3>0, <3>2, <1>4, <1>6 DEF SparesAt
    <3>. QED
      BY <3>1, <3>2
  <2>. QED
    BY <2>2, <2>3, <2>4 DEF WaitInv
<1>26. PlainInv'
  <2>. SUFFICES ASSUME ~setup.ext
                PROVE  PlainInv'
    BY <1>4 DEF PlainInv
  <2>1. PlainInv
    BY DEF IInv
  <2>2. CASE part
    BY <2>1, <2>2, <1>0, <1>4 DEF SendPart, PlainInv
  <2>3. CASE ~part
    <3>1. setup.wait
      BY <1>t DEF Premises, Types
    <3>2. SparesAt(x)
      BY <3>1, <1>1 DEF IInv, WaitInv
    <3>3. Req[x].ch \notin held /\ Req[x].ch \in Ch
      BY <3>2, <1>0, <1>1, <1>3, <1>5 DEF SparesAt, Ch
    <3>4. \A c \in Ch : c # Req[x].ch => FlowControlSkipTable'[c] = FlowControlSkipTable[c]
      BY <2>3, <1>0 DEF SendEnd, IInv, CodeTypes
    <3>. QED
      BY <2>1, <3>3, <3>4, <1>4 DEF PlainInv
  <2>. QED
    BY <2>2, <2>3
<1>27. LabelInv'
  <2>. SUFFICES ASSUME setup.ext
                PROVE  LabelInv'
    BY <1>4 DEF LabelInv
  <2>1. LabelInv
    BY DEF IInv
  <2>2. \A c \in Ch : LabelAt(c)'
    <3>. SUFFICES ASSUME NEW c \in Ch
                  PROVE  LabelAt(c)'
      OBVIOUS
    <3>0. LabelAt(c) /\ c[1] \in Entity
      BY <2>1 DEF LabelInv, Ch
    <3>1. \A t \in Slot : "NO_RC_CANCELLING" \in flags'[t] <=> "NO_RC_CANCELLING" \in flags[t]
      BY <1>8, <1>9
    <3>2. \A t \in Slot : "REMOVE_PENDING" \in flags[t] => "REMOVE_PENDING" \in flags'[t]
      BY <1>8, <1>9
    <3>4. FlowControlIdTable[c] # 0 => IdTable[FlowControlIdTable[c]] \in Slot
      BY FcOwner
    <3>3. c[1] = x => More[x] # 32
      BY <1>5
    <3>. QED
      BY <3>0, <3>1, <3>2, <3>3, <3>4, <1>4, <1>6 DEF LabelAt, Released
  <2>. QED
    BY <2>1, <2>2, <1>4 DEF LabelInv, Released
<1>. QED
  BY <1>15, <1>16, <1>17, <1>18, <1>19, <1>20, <1>21, <1>22, <1>23, <1>24, <1>25, <1>26, <1>27
  DEF IInv

\* An ASSIGN.
LEMMA SendAssignStep ==
  ASSUME IInv, SendAssign, NEW s, s = Head(queue), NEW x, x = e_tbl[s],
         NEW q, q = [code |-> "ASSIGN", id |-> 0, ch |-> Req[x].ch, ref |-> s]
  PROVE  IInv'
<1>t. Types
  BY DEF IInv, CodeTypes
<1>0. Sending /\ eId[x] = 0 /\ Fill("ASSIGN", x, s)
  BY DEF SendAssign
<1>1. /\ s \in Slot /\ s # failed /\ x \in Entity /\ eNo[x] = s /\ InQueue(s)
      /\ Tail(queue) \in Seq(Slot)
      /\ \A k \in DOMAIN Tail(queue) :
           Tail(queue)[k] # s /\ k \in Nat /\ k + 1 \in DOMAIN queue /\ Tail(queue)[k] = queue[k + 1]
      /\ \A k \in DOMAIN queue :
           queue[k] # s => \E l \in DOMAIN Tail(queue) : Tail(queue)[l] = queue[k]
      /\ \A k, l \in DOMAIN Tail(queue) : k # l => Tail(queue)[k] # Tail(queue)[l]
  BY <1>0, HeadOfQueue
<1>2. Assigning(s) /\ More[x] = 64 /\ Req[x].left = 1 /\ Req[x].ch \in Ch \cup {NoCh}
  <2>1. Assigning(s)
    BY <1>0, <1>1, SlotFacts DEF Assigning
  <2>2. AssignAt(s)
    BY <1>1 DEF IInv, AssignInv
  <2>3. Req[x] \in Requests
    BY <1>t, <1>1 DEF Types
  <2>. QED
    BY <2>1, <2>2, <2>3, <1>1 DEF AssignAt, Requests
<1>3. /\ q \in ReqBufs /\ Asked' = Append(Asked, q) /\ Answers' = Answers
      /\ filled' \in Seq(ReqBufs) /\ Req' \in [Entity -> Requests]
      /\ Req'[x].code = Req[x].code /\ Req'[x].ch = Req[x].ch
      /\ \A y \in Entity : y # x => Req'[y] = Req[y]
      /\ ReadyCount' \in 0 .. NumReq /\ this' = x /\ x # NULL
      /\ Len(ReqMem') + Len(filled') + ReadyCount' <= NumReq /\ pc \in {"send1", "send2"}
  <2>1. "ASSIGN" \in ReqCodes \cup {"MDATA"} /\ Req[x].left >= 1
    BY <1>2 DEF ReqCodes
  <2>2. q = [code |-> "ASSIGN", id |-> eId[x], ch |-> Req[x].ch, ref |-> s]
    BY <1>0
  <2>. QED
    BY <2>1, <2>2, <1>0, <1>1, <1>2, FillShape
<1>4. UNCHANGED <<eId, eNo, held, e_tbl, IdTable, flags, FlowControlIdTable,
                  FlowControlSkipTable, RcExtensionSupported, ReadyInt, soft_isr, pc, failed, irq,
                  ReqMem, RcMem, cardRc, cardIds, cardFc, cardReadyInt, setup>>
  BY DEF SendAssign, Fill, card
<1>5. /\ More'[x] = 96 /\ \A y \in Entity : y # x => More'[y] = More[y]
      /\ More' \in [Entity -> 0 .. 255]
  <2>1. More' = [More EXCEPT ![x] = 96]
    BY <1>2, QueuedByte DEF SendAssign
  <2>. QED
    BY <2>1, <1>t, <1>1 DEF Types
<1>6. queue' = Tail(queue)
  BY DEF SendAssign
<1>7. \A t \in Slot : InQueue(t)' <=> InQueue(t) /\ t # s
  BY <1>1, <1>6 DEF InQueue
<1>8. \A j \in Id : (Live(j)' <=> Live(j)) /\ Owner(j)' = Owner(j)
  BY <1>4 DEF Live, Owner
<1>9. \A j \in Id : Live(j) => Owner(j) # x /\ Owner(j) \in Entity
  BY <1>0, Owned, SlotFacts
<1>10. /\ Len(Asked) + 1 \in DOMAIN Asked' /\ Asked'[Len(Asked) + 1] = q
       /\ \A k \in DOMAIN Asked :
            k \in DOMAIN Asked' /\ Asked'[k] = Asked[k] /\ k \in Nat /\ k < Len(Asked) + 1
       /\ \A k \in DOMAIN Asked' : k = Len(Asked) + 1 \/ k \in DOMAIN Asked
       /\ Len(Asked) + 1 \in Nat /\ q.id = 0 /\ q.code = "ASSIGN" /\ q.ref = s
  BY <1>t, <1>3, Typed, AppendFacts
<1>11. CodeTypes'
  <2>1. Types'
    BY <1>t, <1>1, <1>3, <1>4, <1>5, <1>6 DEF Types
  <2>. QED
    BY <2>1, <1>4, Zenon DEF IInv, CodeTypes
<1>12. Plumbing'
  BY <1>3, <1>4 DEF IInv, Plumbing
<1>13. TableInv'
  BY <1>4, <1>8 DEF IInv, TableInv
<1>14. QueueInv'
  BY <1>1, <1>4, <1>6 DEF IInv, QueueInv
<1>15. PhaseInv'
  <2>. SUFFICES ASSUME NEW y \in Entity
                PROVE  PhaseAt(y)'
    BY DEF PhaseInv
  <2>0. PhaseAt(y)
    BY DEF IInv, PhaseInv
  <2>1. CASE eId[y] = 0
    <3>1. Req'[y].code = Req[y].code
      BY <1>3
    <3>. QED
      BY <2>0, <2>1, <3>1, <1>4 DEF PhaseAt
  <2>2. CASE eId[y] # 0
    <3>1. Num(Asked', ReqsOf(eId[y])) = Num(Asked, ReqsOf(eId[y]))
      <4>1. q \notin ReqsOf(eId[y])
        BY <2>2, <1>10 DEF ReqsOf
      <4>. QED
        BY <4>1, <1>t, <1>3, Typed, NumAppendOut
    <3>2. Parts(y)' = Parts(y)
      BY <3>1, <1>3, <1>4 DEF Parts
    <3>3. y # x /\ eNo[y] # s
      BY <2>2, <1>0, <1>1, Alone
    <3>4. InQueue(eNo[y])' <=> InQueue(eNo[y])
      <4>1. eNo'[y] = eNo[y]
        BY <1>4
      <4>. QED
        BY <3>3, <4>1, <1>1, <1>6 DEF InQueue
    <3>. QED
      BY <2>0, <2>2, <3>2, <3>3, <3>4, <1>3, <1>4, <1>5, SMTT(30) DEF PhaseAt, Phase
  <2>. QED
    BY <2>1, <2>2
<1>16. AssignInv'
  <2>. SUFFICES ASSUME NEW t \in Slot
                PROVE  AssignAt(t)'
    BY DEF AssignInv
  <2>1. AssignAt(t)
    BY DEF IInv, AssignInv
  <2>2. Assigning(t)' <=> Assigning(t)
    BY <1>4 DEF Assigning
  <2>3. CASE t = s
    <3>1. q \in AssignReqs(s)
      BY <1>3, <1>10 DEF AssignReqs
    <3>2. Num(Asked', AssignReqs(s)) = Num(Asked, AssignReqs(s)) + 1 /\ Num(Asked, AssignReqs(s)) \in Nat
      BY <3>1, <1>t, <1>3, Typed, NumAppendIn
    <3>3. Num(Answers, AssignRcs(s)) \in Nat
      BY <1>t, Typed, NumNat
    <3>4. Num(Asked, AssignReqs(s)) + Num(Answers, AssignRcs(s)) = 0
      BY <2>1, <2>3, <1>1 DEF AssignAt
    <3>5. Num(Asked', AssignReqs(s)) + Num(Answers', AssignRcs(s)) = 1
      BY <3>2, <3>3, <3>4, <1>3
    <3>. QED
      BY <2>2, <2>3, <3>5, <1>2, <1>4, <1>5, <1>7 DEF AssignAt
  <2>4. CASE t # s
    <3>1. q \notin AssignReqs(t)
      BY <2>4, <1>10 DEF AssignReqs
    <3>2. Num(Asked', AssignReqs(t)) = Num(Asked, AssignReqs(t))
      BY <3>1, <1>t, <1>3, Typed, NumAppendOut
    <3>3. Assigning(t) => e_tbl[t] # x /\ e_tbl[t] \in Entity
      BY <2>4, <1>t, <1>1 DEF Assigning, Types, IInv, TableInv
    <3>. QED
      BY <2>1, <2>2, <2>4, <3>2, <3>3, <1>3, <1>4, <1>5, <1>7 DEF AssignAt
  <2>. QED
    BY <2>3, <2>4
<1>17. AskedInv'
  <2>. SUFFICES ASSUME NEW k \in DOMAIN Asked'
                PROVE  AskedAt(k)'
    BY DEF AskedInv
  <2>1. CASE k = Len(Asked) + 1
    BY <2>1, <1>10 DEF AskedAt
  <2>2. CASE k \in DOMAIN Asked
    <3>1. AskedAt(k) /\ Asked[k] \in ReqBufs /\ Asked'[k] = Asked[k]
      BY <1>t, <1>10, <2>2, Typed DEF IInv, AskedInv
    <3>2. CASE Asked[k].id = 0
      BY <3>1, <3>2 DEF AskedAt
    <3>3. CASE Asked[k].id \in Id
      <4>1. \A l \in DOMAIN Asked' : l > k /\ Asked[k].code # "MDATA" => Asked'[l].id # Asked[k].id
        <5>1. Asked[k].id # 0
          BY <3>3, SlotFacts
        <5>2. \A l \in DOMAIN Asked : l > k /\ Asked[k].code # "MDATA" => Asked[l].id # Asked[k].id
          BY <3>1, <5>1 DEF AskedAt
        <5>. QED
          BY <5>1, <5>2, <1>10
      <4>2. \A j \in Id :
              /\ Live(j)' <=> Live(j)
              /\ Live(j) => /\ Owner(j)' = Owner(j) /\ Req'[Owner(j)] = Req[Owner(j)]
                            /\ More'[Owner(j)] = More[Owner(j)]
        BY <1>3, <1>5, <1>8, <1>9
      <4>3. cardIds' = cardIds /\ setup' = setup
        BY <1>4
      <4>. QED
        BY <3>1, <3>3, <4>1, <4>2, <4>3 DEF AskedAt
    <3>. QED
      BY <3>1, <3>2, <3>3 DEF ReqBufs
  <2>. QED
    BY <1>10, <2>1, <2>2
<1>18. AnswersInv'
  <2>. SUFFICES ASSUME NEW k \in DOMAIN Answers
                PROVE  AnswerAt(k)'
    BY <1>3 DEF AnswersInv
  <2>1. AnswerAt(k) /\ Answers[k] \in RetCodes
    BY <1>t, Typed DEF IInv, AnswersInv
  <2>2. CASE Answers[k].id = 0
    BY <2>1, <2>2, <1>3 DEF AnswerAt, IsRelease
  <2>3. CASE Answers[k].id \in Id
    <3>1. (\A l \in DOMAIN Asked : Asked[l].id # Answers[k].id) =>
             \A l \in DOMAIN Asked' : Asked'[l].id # Answers[k].id
      BY <2>3, <1>10, SlotFacts
    <3>2. LET j == Answers[k].id IN
            /\ cardIds' = cardIds /\ setup' = setup /\ cardFc' = cardFc
            /\ Live(j)' <=> Live(j)
            /\ Live(j) => /\ Owner(j)' = Owner(j) /\ Req'[Owner(j)] = Req[Owner(j)]
                          /\ More'[Owner(j)] = More[Owner(j)]
      BY <2>3, <1>3, <1>4, <1>5, <1>8, <1>9
    <3>. QED
      BY <2>1, <2>3, <3>1, <3>2, <1>3 DEF AnswerAt, IsRelease, EndsRemove
  <2>. QED
    BY <2>1, <2>2, <2>3 DEF RetCodes
<1>19. RemoveInv'
  <2>0. RemoveInv
    BY DEF IInv
  <2>1. \A t \in Slot : PendingAt(t)'
    <3>. SUFFICES ASSUME NEW t \in Slot
                  PROVE  PendingAt(t)'
      OBVIOUS
    <3>0. PendingAt(t)
      BY <2>0 DEF RemoveInv
    <3>1. "REMOVE_PENDING" \in flags[t] => e_tbl[t] # x /\ e_tbl[t] \in Entity
      BY <3>0, <1>t, <1>0 DEF PendingAt, Types
    <3>. QED
      BY <3>0, <3>1, <1>3, <1>4, <1>5 DEF PendingAt
  <2>b. \A l \in DOMAIN Asked : \E k \in DOMAIN Asked' : Asked'[k] = Asked[l]
    BY <1>10
  <2>2. \A j \in Id : LiveAt(j)'
    <3>. SUFFICES ASSUME NEW j \in Id, Live(j)
                  PROVE  LiveAt(j)'
      BY <1>8 DEF LiveAt
    <3>0. LiveAt(j)
      BY <2>0 DEF RemoveInv
    <3>1. /\ Owner(j)' = Owner(j) /\ Req'[Owner(j)] = Req[Owner(j)]
          /\ More'[Owner(j)] = More[Owner(j)] /\ flags' = flags
          /\ IdTable' = IdTable /\ cardIds' = cardIds /\ Answers' = Answers /\ setup' = setup
      BY <1>3, <1>4, <1>5, <1>8, <1>9
    <3>. QED
      BY <3>0, <3>1, <2>b DEF LiveAt, EndsRemove, Assigns
  <2>3. \A j \in cardIds' : GoneAt(j)'
    BY <2>0, <2>b, <1>3, <1>4, SMTT(30) DEF RemoveInv, GoneAt, Live, Assigns
  <2>. QED
    BY <2>1, <2>2, <2>3 DEF RemoveInv
<1>20. FlowInv'
  BY <1>3, <1>4 DEF IInv, FlowInv, OwnFc, OwnRelease, IsRelease, Live, Owner
<1>21. WaitInv'
  <2>. SUFFICES ASSUME setup.wait
                PROVE  WaitInv'
    BY <1>4 DEF WaitInv
  <2>1. WaitInv
    BY DEF IInv
  <2>2. \A k \in DOMAIN Answers' : ReleaseAt(k)'
    BY <2>1, <1>3, <1>4 DEF WaitInv, ReleaseAt, Live, IsFc, IsRelease
  <2>3. \A f \in cardFc' : FcAt(f)'
    BY <2>1, <1>3, <1>4 DEF WaitInv, FcAt, Live, IsFc
  <2>4. \A y \in Entity : SparesAt(y)'
    BY <2>1, <1>0, <1>3, <1>4, <1>5 DEF WaitInv, SparesAt
  <2>. QED
    BY <2>2, <2>3, <2>4 DEF WaitInv
<1>22. PlainInv'
  BY <1>4 DEF IInv, PlainInv
<1>23. LabelInv'
  <2>. SUFFICES ASSUME setup.ext
                PROVE  LabelInv'
    BY <1>4 DEF LabelInv
  <2>1. LabelInv
    BY DEF IInv
  <2>2. \A c \in Ch : LabelAt(c)'
    <3>. SUFFICES ASSUME NEW c \in Ch
                  PROVE  LabelAt(c)'
      OBVIOUS
    <3>0. LabelAt(c) /\ c[1] \in Entity
      BY <2>1 DEF LabelInv, Ch
    <3>1. FlowControlIdTable[c] # 0 => c[1] # x
      BY <1>0, FcOwner
    <3>. QED
      BY <3>0, <3>1, <1>3, <1>4, <1>5 DEF LabelAt, Released
  <2>. QED
    BY <2>1, <2>2, <1>3, <1>4 DEF LabelInv, Released
<1>. QED
  BY <1>11, <1>12, <1>13, <1>14, <1>15, <1>16, <1>17, <1>18, <1>19, <1>20, <1>21, <1>22, <1>23
  DEF IInv

-----------------------------------------------------------------------------
(***************************************************************************)
(* isdn_rc: the head of Answers is taken.                                  *)
(***************************************************************************)
LEMMA TakeRcShape ==
  ASSUME IInv, TakeRc, NEW a, a = r
  PROVE  /\ a \in RetCodes /\ 1 \in DOMAIN Answers /\ Answers[1] = a /\ Head(Answers) = a
         /\ Answers # <<>> /\ Answers' = Tail(Answers) /\ Asked' = Asked
         /\ \A k \in DOMAIN Answers' :
              k \in Nat /\ k >= 1 /\ k + 1 \in DOMAIN Answers /\ Answers'[k] = Answers[k + 1]
         /\ \A k \in DOMAIN Answers : /\ k \in Nat /\ k >= 1
                                      /\ k # 1 => /\ k - 1 \in DOMAIN Answers'
                                                  /\ Answers'[k - 1] = Answers[k]
         /\ RcMem' \in Seq(RetCodes) /\ pc = "rc" /\ failed = 0
         /\ UNCHANGED <<eNo, Req, queue, soft_isr, ReadyCount, filled, this, irq, ReqMem,
                        cardRc, cardIds, cardFc, cardReadyInt, setup>>
<1>1. RcMem \in Seq(RetCodes) /\ cardRc \in Seq(RetCodes) /\ RcMem # <<>> /\ RcMem' = Tail(RcMem)
  BY DEF IInv, CodeTypes, Types, TakeRc
<1>2. /\ UNCHANGED <<eNo, Req, queue, soft_isr, ReadyCount, filled, this, irq, ReqMem, cardRc,
                     cardIds, cardFc, cardReadyInt, setup>>
      /\ Asked' = Asked
  BY DEF TakeRc, card, Asked
<1>3. pc = "rc" /\ failed = 0
  BY DEF TakeRc, IInv, TableInv
<1>4. /\ Answers \in Seq(RetCodes) /\ Answers # <<>> /\ Answers' = Tail(Answers)
      /\ Head(Answers) = Head(RcMem) /\ RcMem' \in Seq(RetCodes)
  BY <1>1, <1>2 DEF Answers
<1>5. /\ a \in RetCodes /\ 1 \in DOMAIN Answers /\ Answers[1] = a /\ Head(Answers) = a
      /\ \A k \in DOMAIN Answers' :
           k \in Nat /\ k >= 1 /\ k + 1 \in DOMAIN Answers /\ Answers'[k] = Answers[k + 1]
      /\ \A k \in DOMAIN Answers : /\ k \in Nat /\ k >= 1
                                   /\ k # 1 => /\ k - 1 \in DOMAIN Answers'
                                               /\ Answers'[k - 1] = Answers[k]
  BY <1>4, TailFacts DEF r
<1>. QED
  BY <1>2, <1>3, <1>4, <1>5

\* What is said of an Id is still true after the return code of another was
\* taken, when the entity of the Id is left alone.
Spared(j) ==
  /\ Live(j)' <=> Live(j)
  /\ Live(j) => /\ IdTable'[j] = IdTable[j] /\ Owner(j)' = Owner(j)
                /\ More'[Owner(j)] = More[Owner(j)]
                /\ flags'[IdTable[j]] = flags[IdTable[j]]

LEMMA PopOther ==
  ASSUME IInv, TakeRc, NEW a, a = r, NEW j \in Id, j # a.id, Spared(j)
  PROVE  /\ \A k \in DOMAIN Asked' : Asked'[k].id = j => AskedAt(k)'
         /\ \A k \in DOMAIN Answers' : Answers'[k].id = j => AnswerAt(k)'
         /\ LiveAt(j)' /\ (j \in cardIds => GoneAt(j)')
         /\ Num(Answers', AnswersOf(j)) = Num(Answers, AnswersOf(j))
<1>t. Types
  BY DEF IInv, CodeTypes
<1>1. /\ a \in RetCodes /\ 1 \in DOMAIN Answers /\ Answers[1] = a /\ Head(Answers) = a
      /\ Answers # <<>> /\ Answers' = Tail(Answers)
      /\ \A k \in DOMAIN Answers' :
           k \in Nat /\ k >= 1 /\ k + 1 \in DOMAIN Answers /\ Answers'[k] = Answers[k + 1]
      /\ \A k \in DOMAIN Answers : /\ k \in Nat /\ k >= 1
                                   /\ k # 1 => /\ k - 1 \in DOMAIN Answers'
                                               /\ Answers'[k - 1] = Answers[k]
  BY TakeRcShape
<1>2. Asked' = Asked /\ Req' = Req /\ setup' = setup /\ cardIds' = cardIds /\ cardFc' = cardFc
  BY TakeRcShape
<1>3. ASSUME NEW k \in DOMAIN Asked', Asked'[k].id = j
      PROVE  AskedAt(k)'
  <2>1. AskedAt(k)
    BY <1>2, <1>3 DEF IInv, AskedInv
  <2>. QED
    BY <2>1, <1>2, <1>3 DEF AskedAt, Spared
<1>4. ASSUME NEW k \in DOMAIN Answers', Answers'[k].id = j
      PROVE  AnswerAt(k)'
  <2>1. /\ AnswerAt(k + 1) /\ Answers'[k] = Answers[k + 1] /\ k + 1 \in DOMAIN Answers /\ k \in Nat
        /\ j # 0
    BY <1>1, <1>4, SlotFacts DEF IInv, AnswersInv
  <2>2. \A n \in DOMAIN Answers' : n > k => n + 1 > k + 1
    BY <1>1, <2>1
  <2>3. (\E n \in DOMAIN Answers : n < k + 1 /\ EndsRemove(n, j)) =>
          \E n \in DOMAIN Answers' : n < k /\ EndsRemove(n, j)'
    <3>. SUFFICES ASSUME NEW n \in DOMAIN Answers, n < k + 1, EndsRemove(n, j)
                  PROVE  n - 1 \in DOMAIN Answers' /\ n - 1 < k /\ EndsRemove(n - 1, j)'
      BY Zenon
    <3>1. n # 1
      BY <1>1 DEF EndsRemove
    <3>. QED
      BY <3>1, <1>1, <1>2, <2>1 DEF EndsRemove
  <2>4. CASE Answers[k + 1].rc = "ASSIGN_OK"
    <3>1. Answers'[k].rc = "ASSIGN_OK" /\ Answers'[k].type = "none" /\ Answers'[k].ref \in Slot
      BY <2>1, <2>4 DEF AnswerAt
    <3>2. j \in cardIds' /\ \A f \in cardFc' : f[1] # j
      BY <2>1, <2>4, <1>2, <1>4 DEF AnswerAt
    <3>3. \A n \in DOMAIN Answers' : n > k => Answers'[n].id # j
      BY <2>1, <2>2, <2>4, <1>1, <1>4 DEF AnswerAt
    <3>4. \A n \in DOMAIN Asked' : Asked'[n].id # j
      BY <2>1, <2>4, <1>2, <1>4 DEF AnswerAt
    <3>5. Live(j)' => /\ Req'[Owner(j)'].code = "REMOVE" /\ More'[Owner(j)'] >= 96
                      /\ \E n \in DOMAIN Answers' : n < k /\ EndsRemove(n, j)'
      BY <2>1, <2>3, <2>4, <1>2, <1>4 DEF AnswerAt, Spared
    <3>. QED
      BY <3>1, <3>2, <3>3, <3>4, <3>5, <2>1, <1>4 DEF AnswerAt
  <2>5. CASE Answers[k + 1].rc # "ASSIGN_OK"
    <3>1. Answers[k + 1].rc = "OK_FC" =>
            \A n \in DOMAIN Answers' : n > k /\ Answers'[n].id = j => IsRelease(Answers'[n])
      BY <2>1, <2>2, <1>1, <1>4 DEF AnswerAt, IsRelease
    <3>. QED
      BY <2>1, <2>5, <3>1, <1>2, <1>4 DEF AnswerAt, Spared, IsRelease
  <2>. QED
    BY <2>4, <2>5
<1>5. \A n \in DOMAIN Answers : Answers[n].id = j =>
        \E k \in DOMAIN Answers' : Answers'[k] = Answers[n]
  <2>. SUFFICES ASSUME NEW n \in DOMAIN Answers, Answers[n].id = j
                PROVE  n - 1 \in DOMAIN Answers' /\ Answers'[n - 1] = Answers[n]
    BY Zenon
  <2>1. n # 1
    BY <1>1
  <2>. QED
    BY <2>1, <1>1
<1>6. LiveAt(j)'
  <2>1. LiveAt(j)
    BY DEF IInv, RemoveInv
  <2>. QED
    BY <2>1, <1>2, <1>5 DEF LiveAt, Spared, EndsRemove, Assigns
<1>7. j \in cardIds => GoneAt(j)'
  <2>1. j \in cardIds => GoneAt(j)
    BY DEF IInv, RemoveInv
  <2>. QED
    BY <2>1, <1>2, <1>5 DEF GoneAt, Spared, Assigns
<1>8. Num(Answers', AnswersOf(j)) = Num(Answers, AnswersOf(j))
  <2>1. a \notin AnswersOf(j)
    BY DEF AnswersOf
  <2>. QED
    BY <2>1, <1>t, <1>1, Typed, NumTailOut
<1>. QED
  BY <1>3, <1>4, <1>6, <1>7, <1>8

LEMMA PopOtherFlow ==
  ASSUME IInv, TakeRc, NEW a, a = r, NEW j \in Id, j # a.id, Spared(j), NEW x,
         Live(j) => Owner(j) # x,
         \A c \in Ch : c[1] # x => /\ FlowControlIdTable'[c] = FlowControlIdTable[c]
                                   /\ c \in held' <=> c \in held
  PROVE  /\ \A f \in cardFc' : f[1] = j => OwnFc(f)' /\ (setup.wait => FcAt(f)')
         /\ \A k \in DOMAIN Answers' :
              Answers'[k].id = j => OwnRelease(k)' /\ (setup.wait => ReleaseAt(k)')
         /\ \A c \in Ch : FlowControlIdTable[c] = j /\ setup.ext => LabelAt(c)'
<1>t. Types
  BY DEF IInv, CodeTypes
<1>1. /\ 1 \in DOMAIN Answers /\ Answers[1] = a
      /\ \A k \in DOMAIN Answers' :
           k \in Nat /\ k >= 1 /\ k + 1 \in DOMAIN Answers /\ Answers'[k] = Answers[k + 1]
      /\ \A k \in DOMAIN Answers : /\ k \in Nat /\ k >= 1
                                   /\ k # 1 => /\ k - 1 \in DOMAIN Answers'
                                               /\ Answers'[k - 1] = Answers[k]
  BY TakeRcShape
<1>2. Asked' = Asked /\ Req' = Req /\ setup' = setup /\ cardIds' = cardIds /\ cardFc' = cardFc
  BY TakeRcShape
<1>3. /\ Live(j)' <=> Live(j)
      /\ Live(j) => /\ IdTable'[j] = IdTable[j] /\ Owner(j)' = Owner(j)
                    /\ More'[Owner(j)] = More[Owner(j)]
                    /\ flags'[IdTable[j]] = flags[IdTable[j]]
  BY DEF Spared
<1>4. \A n \in DOMAIN Answers : Answers[n].id = j =>
        /\ n - 1 \in DOMAIN Answers' /\ Answers'[n - 1] = Answers[n] /\ n \in Nat
        /\ \A k \in DOMAIN Answers' : n < k + 1 => n - 1 < k
  BY <1>1
<1>5. ASSUME NEW f \in cardFc', f[1] = j
      PROVE  OwnFc(f)' /\ (setup.wait => FcAt(f)')
  <2>1. OwnFc(f) /\ f[2] \in Ch
    BY <1>t, <1>2, <1>5 DEF IInv, FlowInv, Types
  <2>2. OwnFc(f)'
    BY <2>1, <1>2, <1>3, <1>5 DEF OwnFc
  <2>3. ASSUME setup.wait
        PROVE  FcAt(f)'
    <3>1. Live(j) /\ (f[2] \in held \/ \E n \in DOMAIN Answers : IsFc(n, f[1], f[2]))
      BY <2>3, <1>2, <1>5 DEF IInv, WaitInv, FcAt
    <3>2. f[2] \in held => f[2] \in held'
      BY <2>1, <3>1, <1>5 DEF OwnFc
    <3>3. (\E n \in DOMAIN Answers : IsFc(n, f[1], f[2])) =>
             \E n \in DOMAIN Answers' : IsFc(n, f[1], f[2])'
      BY <1>4, <1>5 DEF IsFc
    <3>. QED
      BY <3>1, <3>2, <3>3, <1>3, <1>5 DEF FcAt
  <2>. QED
    BY <2>2, <2>3
<1>6. ASSUME NEW k \in DOMAIN Answers', Answers'[k].id = j
      PROVE  OwnRelease(k)' /\ (setup.wait => ReleaseAt(k)')
  <2>1. OwnRelease(k + 1) /\ k + 1 \in DOMAIN Answers /\ Answers'[k] = Answers[k + 1] /\ k \in Nat
    BY <1>1 DEF IInv, FlowInv
  <2>2. OwnRelease(k)'
    BY <2>1, <1>2, <1>3, <1>6 DEF OwnRelease, IsRelease
  <2>3. ASSUME setup.wait, IsRelease(Answers[k + 1])
        PROVE  ReleaseAt(k)'
    <3>0. PICK c : c = Answers[k + 1].ch
      OBVIOUS
    <3>1. ReleaseAt(k + 1)
      BY <2>1, <2>3 DEF IInv, WaitInv
    <3>2. Live(j) /\ c \in Ch /\ c[1] = Owner(j) /\ <<j, c>> \notin cardFc
      BY <3>0, <3>1, <2>1, <2>3, <1>6 DEF ReleaseAt, OwnRelease
    <3>3. c \in held => c \in held'
      BY <3>2
    <3>4. (\E n \in DOMAIN Answers : n < k + 1 /\ IsFc(n, j, c)) =>
             \E n \in DOMAIN Answers' : n < k /\ IsFc(n, j, c)'
      <4>. SUFFICES ASSUME NEW n \in DOMAIN Answers, n < k + 1, IsFc(n, j, c)
                    PROVE  n - 1 \in DOMAIN Answers' /\ n - 1 < k /\ IsFc(n - 1, j, c)'
        BY Zenon
      <4>. QED
        BY <1>4, <1>6, <2>1 DEF IsFc
    <3>5. c \in held' \/ \E n \in DOMAIN Answers' : n < k /\ IsFc(n, j, c)'
      BY <3>0, <3>1, <3>3, <3>4, <2>1, <2>3, <1>6 DEF ReleaseAt
    <3>6. \A n \in DOMAIN Answers' : n # k /\ IsRelease(Answers'[n]) =>
            Answers'[n].id # j \/ Answers'[n].ch # c
      <4>. SUFFICES ASSUME NEW n \in DOMAIN Answers', n # k, IsRelease(Answers'[n])
                    PROVE  Answers'[n].id # j \/ Answers'[n].ch # c
        OBVIOUS
      <4>1. n + 1 \in DOMAIN Answers /\ n + 1 # k + 1 /\ Answers'[n] = Answers[n + 1]
        BY <1>1, <2>1
      <4>. QED
        BY <4>1, <3>0, <3>1, <2>1, <2>3, <1>6 DEF ReleaseAt, IsRelease
    <3>7. Answers'[k].ch = c /\ Live(j)' /\ <<j, c>> \notin cardFc'
      BY <3>0, <3>2, <2>1, <1>2, <1>3
    <3>. QED
      BY <3>5, <3>6, <3>7, <1>6 DEF ReleaseAt
  <2>4. ASSUME ~IsRelease(Answers[k + 1])
        PROVE  ReleaseAt(k)'
    BY <2>1, <2>4 DEF ReleaseAt, IsRelease
  <2>. QED
    BY <2>2, <2>3, <2>4
<1>7. ASSUME NEW c \in Ch, FlowControlIdTable[c] = j, setup.ext
      PROVE  LabelAt(c)'
  <2>1. /\ j # 0 /\ Live(j) /\ Owner(j) = c[1] /\ c[1] # x /\ FlowControlIdTable'[c] = j
        /\ More'[c[1]] = More[c[1]] /\ flags'[IdTable'[j]] = flags[IdTable[j]]
        /\ c \in held' <=> c \in held
    BY <1>3, <1>7, SlotFacts, FcOwner
  <2>2. LabelAt(c)
    BY <1>7 DEF IInv, LabelInv
  <2>3. SUFFICES ASSUME "NO_RC_CANCELLING" \notin flags[IdTable[j]]
                 PROVE  LabelAt(c)'
    BY <2>1 DEF LabelAt
  <2>4. \A n \in DOMAIN Answers : Released(n, j) =>
          n - 1 \in DOMAIN Answers' /\ Released(n - 1, j)'
    BY <1>4 DEF Released
  <2>5. ASSUME NEW k \in DOMAIN Answers', Answers'[k].id = j, Answers'[k].ch = c,
               Answers'[k].rc = "OK", Answers'[k].type = "none"
        PROVE  \E n \in DOMAIN Answers' : n < k /\ Released(n, j)'
    <3>1. k + 1 \in DOMAIN Answers /\ Answers'[k] = Answers[k + 1] /\ k \in Nat
      BY <1>1
    <3>2. PICK n \in DOMAIN Answers : n < k + 1 /\ Released(n, j)
      BY <3>1, <2>1, <2>2, <2>3, <2>5, <1>7 DEF LabelAt
    <3>3. n - 1 < k
      BY <3>1, <3>2, <1>4 DEF Released
    <3>. QED
      BY <2>4, <3>2, <3>3
  <2>6. (\E n \in DOMAIN Answers : Released(n, j)) => \E n \in DOMAIN Answers' : Released(n, j)'
    BY <2>4
  <2>7. /\ c \in held /\ (More[c[1]] # 32 /\ Req[c[1]].ch = c => Req[c[1]].code # "DATA")
        /\ \/ "REMOVE_PENDING" \in flags[IdTable[j]] \/ <<j, c>> \in cardFc
           \/ \E n \in DOMAIN Answers : Released(n, j)
    BY <2>1, <2>2, <2>3, <1>7 DEF LabelAt
  <2>. QED
    BY <2>1, <2>5, <2>6, <2>7, <1>2 DEF LabelAt
<1>. QED
  BY <1>5, <1>6, <1>7

\* The release after an OK_FC stays behind it.
LEMMA PopLabel ==
  ASSUME IInv, TakeRc, setup.ext
  PROVE  \A k \in DOMAIN Answers' : Answers'[k].rc = "OK_FC" =>
           \/ <<Answers'[k].id, Answers'[k].ch>> \in cardFc'
           \/ \E n \in DOMAIN Answers' : n > k /\ Released(n, Answers[k].id)'
<1>1. /\ \A k \in DOMAIN Answers' :
           k \in Nat /\ k >= 1 /\ k + 1 \in DOMAIN Answers /\ Answers'[k] = Answers[k + 1]
      /\ \A k \in DOMAIN Answers : /\ k \in Nat /\ k >= 1
                                   /\ k # 1 => /\ k - 1 \in DOMAIN Answers'
                                               /\ Answers'[k - 1] = Answers[k]
      /\ cardFc' = cardFc
  BY TakeRcShape
<1>. SUFFICES ASSUME NEW k \in DOMAIN Answers', Answers'[k].rc = "OK_FC",
                     <<Answers'[k].id, Answers'[k].ch>> \notin cardFc'
              PROVE  \E n \in DOMAIN Answers' : n > k /\ Released(n, Answers[k].id)'
  OBVIOUS
<1>2. k + 1 \in DOMAIN Answers /\ Answers'[k] = Answers[k + 1] /\ k \in Nat /\ k >= 1
  BY <1>1
<1>3. PICK n \in DOMAIN Answers : n > k + 1 /\ Released(n, Answers[k + 1].id)
  BY <1>1, <1>2 DEF IInv, LabelInv
<1>4. n - 1 \in DOMAIN Answers' /\ n - 1 > k /\ Answers'[n - 1] = Answers[n]
  BY <1>1, <1>2, <1>3
<1>. QED
  BY <1>2, <1>3, <1>4 DEF Released

LEMMA PopPlumbing ==
  ASSUME IInv, TakeRc, NEW a, a = r, a.rc # "READY_INT", pc' \in {"rc", "free"},
         ReadyInt' = ReadyInt
  PROVE  Plumbing'
<1>1. /\ a \in RetCodes /\ Head(Answers) = a /\ Answers # <<>> /\ Answers' = Tail(Answers)
      /\ UNCHANGED <<ReadyCount, filled, ReqMem, cardReadyInt>> /\ pc = "rc"
  BY TakeRcShape
<1>2. irq' = irq /\ irq
  BY DEF TakeRc, IInv, Plumbing
<1>3. Num(Answers', ReadyRcs) = Num(Answers, ReadyRcs)
  <2>1. a \notin ReadyRcs
    BY DEF ReadyRcs
  <2>. QED
    BY <2>1, <1>1, Typed, NumTailOut DEF IInv, CodeTypes
<1>4. /\ pc' \in {"rc", "free", "out1", "send1", "clr"} => irq'
      /\ RcMem' # <<>> => irq'
  BY <1>2, Zenon
<1>5. cardReadyInt' + Num(Answers', ReadyRcs) = ReadyInt'
  BY <1>1, <1>3 DEF IInv, Plumbing
<1>. QED
  BY <1>1, <1>4, <1>5 DEF IInv, Plumbing

LEMMA PopAssign ==
  ASSUME IInv, TakeRc, NEW a, a = r, a.rc \notin {"ASSIGN_OK", "ASSIGN_BAD"},
         \A t \in Slot : /\ Assigning(t)' <=> Assigning(t)
                         /\ Assigning(t) => e_tbl'[t] = e_tbl[t] /\ More'[e_tbl[t]] = More[e_tbl[t]]
  PROVE  AssignInv'
<1>1. /\ a \in RetCodes /\ Head(Answers) = a /\ Answers # <<>> /\ Answers' = Tail(Answers)
      /\ Asked' = Asked /\ queue' = queue /\ Req' = Req
  BY TakeRcShape
<1>. SUFFICES ASSUME NEW t \in Slot
              PROVE  AssignAt(t)'
  BY DEF AssignInv
<1>2. Num(Answers', AssignRcs(t)) = Num(Answers, AssignRcs(t))
  <2>1. a \notin AssignRcs(t)
    BY DEF AssignRcs
  <2>. QED
    BY <2>1, <1>1, Typed, NumTailOut DEF IInv, CodeTypes
<1>3. AssignAt(t)
  BY DEF IInv, AssignInv
<1>4. InQueue(t)' <=> InQueue(t)
  BY <1>1 DEF InQueue
<1>. QED
  BY <1>1, <1>2, <1>3, <1>4 DEF AssignAt

\* The step leaves all alone but the entity x and the Id of the return code,
Aside(a, x) ==
  /\ a.id \in Id /\ Live(a.id) => Owner(a.id) = x
  /\ \A j \in Id : j # a.id => Spared(j) /\ (Live(j) => Owner(j) # x)
  /\ \A c \in Ch : c[1] # x => /\ FlowControlIdTable'[c] = FlowControlIdTable[c]
                               /\ c \in held' <=> c \in held
  /\ \A y \in Entity : y # x => eId'[y] = eId[y] /\ More'[y] = More[y]

\* of which the invariant has to be shown.
ItsOwn(a, x) ==
  /\ x \in Entity => PhaseAt(x)' /\ (setup.wait => SparesAt(x)')
  /\ a.id \in Id => /\ LiveAt(a.id)' /\ (a.id \in cardIds => GoneAt(a.id)')
                    /\ \A k \in DOMAIN Asked' : Asked'[k].id = a.id => AskedAt(k)'
                    /\ \A k \in DOMAIN Answers' : Answers'[k].id = a.id =>
                         AnswerAt(k)' /\ OwnRelease(k)' /\ (setup.wait => ReleaseAt(k)')
                    /\ \A f \in cardFc : f[1] = a.id => OwnFc(f)' /\ (setup.wait => FcAt(f)')
  /\ \A c \in Ch : c[1] = x => /\ FlowControlIdTable'[c] # 0 => eId'[x] = FlowControlIdTable'[c]
                               /\ setup.ext => LabelAt(c)'

\* Either way.
Overall ==
  /\ CodeTypes' /\ Plumbing' /\ TableInv' /\ QueueInv' /\ AssignInv' /\ PlainInv'
  /\ \A s \in Slot : PendingAt(s)' /\ ("NO_RC_CANCELLING" \in flags'[s] => setup.ext)
  /\ RcExtensionSupported' => setup.ext

LEMMA PopStep ==
  ASSUME IInv, TakeRc, NEW a, a = r, NEW x, Aside(a, x), ItsOwn(a, x), Overall
  PROVE  IInv'
<1>t. Types
  BY DEF IInv, CodeTypes
<1>1. /\ a \in RetCodes /\ Asked' = Asked /\ setup' = setup /\ cardIds' = cardIds
      /\ cardFc' = cardFc /\ Req' = Req /\ queue' = queue /\ eNo' = eNo /\ Answers' = Tail(Answers)
      /\ \A k \in DOMAIN Answers' :
           k \in Nat /\ k >= 1 /\ k + 1 \in DOMAIN Answers /\ Answers'[k] = Answers[k + 1]
  BY TakeRcShape
<1>2. \A j \in Id : j # a.id =>
        /\ \A k \in DOMAIN Asked' : Asked'[k].id = j => AskedAt(k)'
        /\ \A k \in DOMAIN Answers' : Answers'[k].id = j => AnswerAt(k)'
        /\ LiveAt(j)' /\ (j \in cardIds => GoneAt(j)')
        /\ Num(Answers', AnswersOf(j)) = Num(Answers, AnswersOf(j))
  BY PopOther DEF Aside
<1>3. \A j \in Id : j # a.id =>
        /\ \A f \in cardFc' : f[1] = j => OwnFc(f)' /\ (setup.wait => FcAt(f)')
        /\ \A k \in DOMAIN Answers' :
             Answers'[k].id = j => OwnRelease(k)' /\ (setup.wait => ReleaseAt(k)')
        /\ \A c \in Ch : FlowControlIdTable[c] = j /\ setup.ext => LabelAt(c)'
  BY PopOtherFlow DEF Aside
<1>4. /\ \A k \in DOMAIN Asked' : Asked'[k].id \in Id \cup {0}
      /\ \A k \in DOMAIN Answers' : Answers'[k].id \in Id \cup {0}
      /\ \A f \in cardFc' : f[1] \in Id
      /\ cardIds \subseteq Id
  <2>1. \A k \in DOMAIN Asked' : Asked'[k].id \in Id \cup {0}
    BY <1>t, <1>1, Typed DEF ReqBufs
  <2>2. \A k \in DOMAIN Answers' : Answers'[k].id \in Id \cup {0}
    <3>1. \A k \in DOMAIN Answers : Answers[k].id \in Id \cup {0}
      BY <1>t, Typed DEF RetCodes
    <3>. QED
      BY <3>1, <1>1
  <2>3. cardFc' \in SUBSET (Id \X Ch) /\ cardIds \subseteq Id
    BY <1>t, <1>1 DEF Types
  <2>. QED
    BY <2>1, <2>2, <2>3
<1>5. AskedInv'
  <2>. SUFFICES ASSUME NEW k \in DOMAIN Asked', Asked'[k].id = 0
                PROVE  AskedAt(k)'
    BY <1>2, <1>4 DEF ItsOwn, AskedInv
  <2>1. AskedAt(k)
    BY <1>1 DEF IInv, AskedInv
  <2>. QED
    BY <2>1, <1>1 DEF AskedAt
<1>6. AnswersInv'
  <2>. SUFFICES ASSUME NEW k \in DOMAIN Answers', Answers'[k].id = 0
                PROVE  AnswerAt(k)'
    BY <1>2, <1>4 DEF ItsOwn, AnswersInv
  <2>1. AnswerAt(k + 1)
    BY <1>1 DEF IInv, AnswersInv
  <2>. QED
    BY <2>1, <1>1 DEF AnswerAt
<1>7. RemoveInv'
  BY <1>1, <1>2, <1>4 DEF ItsOwn, Overall, RemoveInv
<1>8. PhaseInv'
  <2>. SUFFICES ASSUME NEW y \in Entity, y # x
                PROVE  PhaseAt(y)'
    BY DEF ItsOwn, PhaseInv
  <2>1. PhaseAt(y) /\ eId'[y] = eId[y] /\ More'[y] = More[y]
    BY DEF IInv, PhaseInv, Aside
  <2>2. CASE eId[y] = 0
    BY <2>1, <2>2, <1>1 DEF PhaseAt
  <2>3. CASE eId[y] # 0
    <3>1. eId[y] \in Id /\ eId[y] # a.id
      BY <2>3, Alone DEF Aside
    <3>2. Parts(y)' = Parts(y)
      BY <3>1, <2>1, <1>1, <1>2 DEF Parts
    <3>3. InQueue(eNo[y])' <=> InQueue(eNo[y])
      BY <1>1 DEF InQueue
    <3>. QED
      BY <2>1, <2>3, <3>2, <3>3, <1>1 DEF PhaseAt, Phase
  <2>. QED
    BY <2>2, <2>3
<1>9. \A c \in Ch : c[1] # x =>
        FlowControlIdTable[c] = 0 \/ FlowControlIdTable[c] # a.id
  BY FcOwner DEF Aside
<1>10. FlowInv'
  <2>1. \A f \in cardFc' : OwnFc(f)'
    BY <1>1, <1>3, <1>4 DEF ItsOwn
  <2>2. \A k \in DOMAIN Answers' : OwnRelease(k)'
    <3>. SUFFICES ASSUME NEW k \in DOMAIN Answers', Answers'[k].id = 0
                  PROVE  OwnRelease(k)'
      BY <1>3, <1>4 DEF ItsOwn
    <3>1. AnswerAt(k + 1) /\ OwnRelease(k + 1)
      BY <1>1 DEF IInv, AnswersInv, FlowInv
    <3>. QED
      BY <3>1, <1>1 DEF AnswerAt, OwnRelease, IsRelease
  <2>3. \A c \in Ch : FlowControlIdTable'[c] # 0 => eId'[c[1]] = FlowControlIdTable'[c]
    <3>. SUFFICES ASSUME NEW c \in Ch, c[1] # x, FlowControlIdTable'[c] # 0
                  PROVE  eId'[c[1]] = FlowControlIdTable'[c]
      BY DEF ItsOwn
    <3>1. c[1] \in Entity
      BY DEF Ch
    <3>. QED
      BY <3>1 DEF Aside, IInv, FlowInv
  <2>. QED
    BY <2>1, <2>2, <2>3, <1>1 DEF FlowInv, Overall
<1>11. WaitInv'
  <2>. SUFFICES ASSUME setup.wait
                PROVE  WaitInv'
    BY <1>1 DEF WaitInv
  <2>1. \A f \in cardFc' : FcAt(f)'
    BY <1>1, <1>3, <1>4 DEF ItsOwn
  <2>2. \A k \in DOMAIN Answers' : ReleaseAt(k)'
    <3>. SUFFICES ASSUME NEW k \in DOMAIN Answers', Answers'[k].id = 0
                  PROVE  ReleaseAt(k)'
      BY <1>3, <1>4 DEF ItsOwn
    <3>1. AnswerAt(k + 1) /\ OwnRelease(k + 1)
      BY <1>1 DEF IInv, AnswersInv, FlowInv
    <3>. QED
      BY <3>1, <1>1 DEF AnswerAt, OwnRelease, ReleaseAt, IsRelease
  <2>3. \A y \in Entity : SparesAt(y)'
    <3>. SUFFICES ASSUME NEW y \in Entity, y # x
                  PROVE  SparesAt(y)'
      BY DEF ItsOwn
    <3>1. SparesAt(y) /\ eId'[y] = eId[y] /\ More'[y] = More[y]
      BY DEF IInv, WaitInv, Aside
    <3>2. \A c \in Ch : c[1] = y => (c \in held' <=> c \in held)
      BY DEF Aside
    <3>3. eId[y] # 0 /\ More[y] # 32 => Req[y].ch \in Ch /\ Req[y].ch[1] = y
      BY Phases DEF Ch
    <3>4. \A c \in 1 .. NumCh : <<y, c>> \in Ch /\ <<y, c>>[1] = y
      BY DEF Ch
    <3>. QED
      BY <3>1, <3>2, <3>3, <3>4, <1>1 DEF SparesAt
  <2>. QED
    BY <2>1, <2>2, <2>3 DEF WaitInv
<1>12. LabelInv'
  <2>. SUFFICES ASSUME setup.ext
                PROVE  LabelInv'
    BY <1>1 DEF LabelInv
  <2>1. \A c \in Ch : LabelAt(c)'
    <3>. SUFFICES ASSUME NEW c \in Ch, c[1] # x
                  PROVE  LabelAt(c)'
      BY DEF ItsOwn
    <3>1. FlowControlIdTable'[c] = FlowControlIdTable[c]
      BY DEF Aside
    <3>2. CASE FlowControlIdTable[c] = 0
      BY <3>1, <3>2 DEF LabelAt
    <3>3. CASE FlowControlIdTable[c] # 0
      <4>1. FlowControlIdTable[c] \in Id
        BY <3>3, FcOwner
      <4>. QED
        BY <4>1, <3>3, <1>3, <1>9
    <3>. QED
      BY <3>2, <3>3
  <2>. QED
    BY <2>1, PopLabel DEF LabelInv
<1>. QED
  BY <1>5, <1>6, <1>7, <1>8, <1>10, <1>11, <1>12 DEF Overall, IInv

\* A return code that changes nothing but the queue it was taken from.
LEMMA PopOnly ==
  ASSUME IInv, TakeRc, NEW a, a = r, a.rc \notin {"ASSIGN_OK", "ASSIGN_BAD"},
         UNCHANGED <<eId, More, held, tables, pc, failed>>, ReadyInt' \in {0, 1}, Plumbing'
  PROVE  /\ Overall
         /\ \A j \in Id : Spared(j) /\ (Live(j) => Owner(j) \in Entity /\ eId[Owner(j)] = j)
         /\ UNCHANGED <<eId, eNo, More, held, e_tbl, IdTable, flags, FlowControlIdTable, Req,
                        queue, failed, setup, cardIds, cardFc>>
<1>t. Types
  BY DEF IInv, CodeTypes
<1>1. UNCHANGED <<eId, More, held, e_tbl, IdTable, flags, FlowControlIdTable, pc, failed>>
  BY DEF tables
<1>2. UNCHANGED <<eNo, Req, queue, ReadyCount, filled, this, ReqMem, cardRc, cardIds, cardFc,
                  cardReadyInt, setup>> /\ RcMem' \in Seq(RetCodes)
  BY TakeRcShape
<1>3. CodeTypes'
  <2>0. ReadyInt' \in {0, 1}
    OBVIOUS
  <2>1. Types'
    BY <2>0, <1>t, <1>1, <1>2, SMTT(30) DEF Types
  <2>2. UNCHANGED <<FlowControlSkipTable, RcExtensionSupported, soft_isr, irq>>
    BY DEF tables, TakeRc
  <2>. QED
    BY <2>1, <2>2, Zenon DEF IInv, CodeTypes
<1>4. TableInv'
  BY <1>1, <1>2 DEF IInv, TableInv, Live, Owner
<1>5. QueueInv'
  BY <1>1, <1>2 DEF IInv, QueueInv
<1>6. AssignInv'
  <2>1. \A t \in Slot : /\ Assigning(t)' <=> Assigning(t)
                        /\ Assigning(t) => e_tbl'[t] = e_tbl[t] /\ More'[e_tbl[t]] = More[e_tbl[t]]
    BY <1>1 DEF Assigning
  <2>. QED
    BY <2>1, PopAssign
<1>7. PlainInv'
  BY <1>1, <1>2 DEF IInv, PlainInv, tables
<1>8. \A s \in Slot : PendingAt(s)' /\ ("NO_RC_CANCELLING" \in flags'[s] => setup.ext)
  BY <1>1, <1>2 DEF IInv, RemoveInv, PendingAt, FlowInv
<1>9. RcExtensionSupported' => setup.ext
  BY DEF IInv, FlowInv, tables
<1>10. Overall
  BY <1>3, <1>4, <1>5, <1>6, <1>7, <1>8, <1>9 DEF Overall
<1>11. \A j \in Id : Spared(j)
  BY <1>1 DEF Spared, Live, Owner
<1>. QED
  BY <1>1, <1>2, <1>10, <1>11, Owned

LEMMA RcReadyIntStep == IInv /\ RcReadyInt => IInv'
<1>. SUFFICES ASSUME IInv, RcReadyInt
              PROVE  IInv'
  OBVIOUS
<1>1. PICK a : a = r
  OBVIOUS
<1>2. TakeRc /\ a.rc = "READY_INT" /\ UNCHANGED <<eId, More, held, tables, pc, failed>>
  BY <1>1 DEF RcReadyInt
<1>3. /\ a \in RetCodes /\ 1 \in DOMAIN Answers /\ Answers[1] = a /\ Head(Answers) = a
      /\ Answers # <<>> /\ Answers' = Tail(Answers) /\ pc = "rc"
      /\ UNCHANGED <<ReadyCount, filled, ReqMem, cardReadyInt>>
  BY <1>1, <1>2, TakeRcShape
<1>4. a.id = 0
  BY <1>2, <1>3 DEF IInv, AnswersInv, AnswerAt
<1>5. Num(Answers, ReadyRcs) = Num(Answers', ReadyRcs) + 1 /\ Num(Answers', ReadyRcs) \in Nat
  <2>1. a \in ReadyRcs
    BY <1>2, <1>3 DEF ReadyRcs
  <2>. QED
    BY <2>1, <1>3, Typed, NumTailIn DEF IInv, CodeTypes
<1>6. ReadyInt' \in {0, 1} /\ cardReadyInt + Num(Answers', ReadyRcs) = ReadyInt'
  <2>1. cardReadyInt \in {0, 1} /\ ReadyInt \in {0, 1}
    BY DEF IInv, CodeTypes, Types
  <2>2. cardReadyInt + Num(Answers, ReadyRcs) = ReadyInt
    BY DEF IInv, Plumbing
  <2>. QED
    BY <2>1, <2>2, <1>5 DEF RcReadyInt
<1>7. Plumbing'
  <2>1. irq' = irq /\ irq
    BY <1>2 DEF TakeRc, IInv, Plumbing
  <2>2. /\ pc' \in {"rc", "free", "out1", "send1", "clr"} => irq'
        /\ RcMem' # <<>> => irq'
    BY <2>1, Zenon
  <2>. QED
    BY <1>2, <1>3, <1>6, <2>2 DEF IInv, Plumbing
<1>8. /\ Overall
      /\ \A j \in Id : Spared(j) /\ (Live(j) => Owner(j) \in Entity /\ eId[Owner(j)] = j)
      /\ UNCHANGED <<eId, More, held, FlowControlIdTable>>
  BY <1>1, <1>2, <1>6, <1>7, PopOnly
<1>9. Aside(a, NULL)
  BY <1>4, <1>8, SlotFacts DEF Aside
<1>10. ItsOwn(a, NULL)
  <2>1. \A c \in Ch : c[1] \in Entity
    BY DEF Ch
  <2>. QED
    BY <2>1, <1>4, SlotFacts DEF ItsOwn
<1>. QED
  BY <1>1, <1>2, <1>8, <1>9, <1>10, PopStep

\* The Id of a return code that is not known: the code is that of a REMOVE which
\* a release has ended early, or a release after it.
LEMMA RcUnknownStep == IInv /\ RcUnknown => IInv'
<1>. SUFFICES ASSUME IInv, RcUnknown
              PROVE  IInv'
  OBVIOUS
<1>1. PICK a : a = r
  OBVIOUS
<1>2. /\ TakeRc /\ a.rc \in {"OK", "OK_FC"} /\ UNCHANGED <<eId, More, held, tables, pc, failed>>
      /\ ReadyInt' = ReadyInt
  BY <1>1 DEF RcUnknown
<1>3. /\ a \in RetCodes /\ 1 \in DOMAIN Answers /\ Answers[1] = a /\ pc = "rc" /\ Asked' = Asked
      /\ \A k \in DOMAIN Answers' :
           k \in Nat /\ k >= 1 /\ k + 1 \in DOMAIN Answers /\ Answers'[k] = Answers[k + 1]
      /\ \A k \in DOMAIN Answers : /\ k \in Nat /\ k >= 1
                                   /\ k # 1 => /\ k - 1 \in DOMAIN Answers'
                                               /\ Answers'[k - 1] = Answers[k]
  BY <1>1, <1>2, TakeRcShape
<1>4. PICK i \in Id : i = a.id
  BY <1>2, <1>3 DEF IInv, AnswersInv, AnswerAt, RetCodes
<1>5. ~Live(i)
  BY <1>1, <1>4 DEF RcUnknown, rcSlot, Live
<1>6. Plumbing' /\ ReadyInt' \in {0, 1}
  <2>1. pc' = "rc" /\ a.rc # "READY_INT"
    BY <1>2, <1>3
  <2>2. ReadyInt' \in {0, 1}
    BY <1>2 DEF IInv, CodeTypes, Types
  <2>. QED
    BY <2>1, <2>2, <1>1, <1>2, PopPlumbing
<1>7. /\ Overall
      /\ \A j \in Id : Spared(j) /\ (Live(j) => Owner(j) \in Entity /\ eId[Owner(j)] = j)
      /\ UNCHANGED <<eId, eNo, More, held, e_tbl, IdTable, flags, FlowControlIdTable, Req,
                     queue, failed, setup, cardIds, cardFc>>
  <2>1. a.rc \notin {"ASSIGN_OK", "ASSIGN_BAD"}
    BY <1>2
  <2>. QED
    BY <2>1, <1>1, <1>2, <1>6, PopOnly
<1>8. Aside(a, NULL)
  BY <1>4, <1>5, <1>7, SlotFacts DEF Aside
<1>9. ~Live(i)'
  BY <1>5, <1>7 DEF Live
<1>10. LiveAt(i)'
  BY <1>9 DEF LiveAt
<1>11. i \in cardIds => GoneAt(i)'
  <2>1. i \in cardIds => GoneAt(i)
    BY DEF IInv, RemoveInv
  <2>2. \A n \in DOMAIN Answers : Assigns(n, i) => n - 1 \in DOMAIN Answers' /\ Assigns(n - 1, i)'
    BY <1>2, <1>3 DEF Assigns
  <2>. QED
    BY <2>1, <2>2, <1>3, <1>5, <1>7 DEF GoneAt
<1>12. ASSUME NEW k \in DOMAIN Asked', Asked'[k].id = i
       PROVE  AskedAt(k)'
  <2>1. AskedAt(k)
    BY <1>3 DEF IInv, AskedInv
  <2>. QED
    BY <2>1, <1>3, <1>5, <1>7, <1>9, <1>12 DEF AskedAt
<1>13. ASSUME NEW k \in DOMAIN Answers', Answers'[k].id = i
       PROVE  AnswerAt(k)' /\ OwnRelease(k)' /\ (setup.wait => ReleaseAt(k)')
  <2>1. /\ AnswerAt(k + 1) /\ OwnRelease(k + 1) /\ (setup.wait => ReleaseAt(k + 1))
        /\ k + 1 \in DOMAIN Answers /\ Answers'[k] = Answers[k + 1] /\ k \in Nat
    BY <1>3 DEF IInv, AnswersInv, FlowInv, WaitInv
  <2>2. Answers[k + 1].rc # "OK_FC" /\ ~(Answers[k + 1].rc = "OK" /\ Answers[k + 1].type = "none")
    BY <2>1, <1>5, <1>13 DEF AnswerAt
  <2>3. Answers[k + 1].rc = "ASSIGN_OK" => \A n \in DOMAIN Answers' : n > k => Answers'[n].id # i
    <3>1. \A n \in DOMAIN Answers' : n > k => n + 1 > k + 1
      BY <1>3, <2>1
    <3>. QED
      BY <3>1, <2>1, <1>3, <1>13 DEF AnswerAt
  <2>4. AnswerAt(k)'
    BY <2>1, <2>2, <2>3, <1>3, <1>7, <1>9, <1>13 DEF AnswerAt
  <2>5. OwnRelease(k)'
    BY <2>1, <1>7, <1>9, <1>13 DEF OwnRelease, IsRelease
  <2>6. setup.wait => ~IsRelease(Answers'[k])
    BY <2>1, <1>5, <1>13 DEF ReleaseAt
  <2>. QED
    BY <2>4, <2>5, <2>6 DEF ReleaseAt
<1>14. \A f \in cardFc : f[1] = i => OwnFc(f)' /\ (setup.wait => FcAt(f)')
  BY <1>5, <1>7, <1>9 DEF IInv, FlowInv, OwnFc, WaitInv, FcAt
<1>15. ItsOwn(a, NULL)
  <2>1. \A c \in Ch : c[1] \in Entity
    BY DEF Ch
  <2>. QED
    BY <2>1, <1>4, <1>10, <1>11, <1>12, <1>13, <1>14, SlotFacts DEF ItsOwn
<1>. QED
  BY <1>1, <1>2, <1>7, <1>8, <1>15, PopStep

\* A return code whose Id is known: what is true of it and of its entity.
KnownAt(a, i, s, x) ==
  /\ i = a.id /\ Live(i) /\ s = IdTable[i] /\ s = rcSlot /\ x = Owner(i) /\ x = e_tbl[s]
  /\ eId[x] = i /\ eNo[x] = s /\ i # 0 /\ a.rc \in {"OK", "OK_FC"}
  /\ "REMOVE_PENDING" \in flags[s] <=> Req[x].code = "REMOVE" /\ More[x] >= 96
  /\ "REMOVE_PENDING" \notin flags[s] =>
       /\ i \in cardIds
       /\ \A k \in DOMAIN Answers : Answers[k].id = i =>
            Answers[k].rc \in {"OK", "OK_FC"} /\ Answers[k].type # "REMOVE_COMPLETE"
  /\ \A j \in Id : j # i /\ Live(j) => Owner(j) # x /\ IdTable[j] # s
  /\ \A c \in Ch : FlowControlIdTable[c] # 0 => (FlowControlIdTable[c] = i <=> c[1] = x)

LEMMA KnownRc ==
  ASSUME IInv, TakeRc, NEW a, a = r, a.rc # "READY_INT", rcSlot # 0
  PROVE  \E i \in Id, s \in Slot, x \in Entity : KnownAt(a, i, s, x)
<1>1. /\ a \in RetCodes /\ 1 \in DOMAIN Answers /\ Answers[1] = a
      /\ \A k \in DOMAIN Answers : k \in Nat /\ k >= 1
  BY TakeRcShape
<1>2. AnswerAt(1)
  BY <1>1 DEF IInv, AnswersInv
<1>3. a.id \in Id /\ rcSlot = IdTable[a.id] /\ Live(a.id)
  BY SlotFacts DEF rcSlot, Live
<1>4. PICK i \in Id : i = a.id
  BY <1>3
<1>5. /\ IdTable[i] \in Slot /\ IdTable[i] # failed /\ Owner(i) \in Entity /\ eId[Owner(i)] = i
      /\ Owner(i) = e_tbl[IdTable[i]] /\ eNo[Owner(i)] = IdTable[i] /\ i # 0
  BY <1>3, <1>4, Owned, Alone, SlotFacts
<1>6. PICK s \in Slot, x \in Entity : s = IdTable[i] /\ x = Owner(i)
  BY <1>5
<1>7. a.rc \in {"OK", "OK_FC"}
  <2>1. a.rc # "ASSIGN_BAD"
    BY <1>1, <1>2, <1>4, <1>5 DEF AnswerAt
  <2>2. a.rc # "ASSIGN_OK"
    BY <1>1, <1>2, <1>3 DEF AnswerAt
  <2>. QED
    BY <2>1, <2>2, <1>1 DEF RetCodes
<1>8. "REMOVE_PENDING" \in flags[s] <=> Req[x].code = "REMOVE" /\ More[x] >= 96
  <2>1. PendingAt(s) /\ LiveAt(i)
    BY DEF IInv, RemoveInv
  <2>. QED
    BY <2>1, <1>3, <1>4, <1>5, <1>6 DEF PendingAt, LiveAt
<1>9. "REMOVE_PENDING" \notin flags[s] => i \in cardIds
  <2>1. LiveAt(i)
    BY DEF IInv, RemoveInv
  <2>. QED
    BY <2>1, <1>3, <1>4, <1>6, <1>8 DEF LiveAt
<1>10. ASSUME "REMOVE_PENDING" \notin flags[s], NEW k \in DOMAIN Answers, Answers[k].id = i
       PROVE  Answers[k].rc \in {"OK", "OK_FC"} /\ Answers[k].type # "REMOVE_COMPLETE"
  <2>1. AnswerAt(k) /\ Answers[k] \in RetCodes
    BY Typed DEF IInv, AnswersInv, CodeTypes
  <2>2. Live(Answers[k].id) /\ Owner(Answers[k].id) = x
    BY <1>3, <1>4, <1>6, <1>10
  <2>. QED
    BY <2>1, <2>2, <1>5, <1>8, <1>10 DEF AnswerAt, RetCodes
<1>11. \A j \in Id : j # i /\ Live(j) => Owner(j) # x /\ IdTable[j] # s
  BY <1>5, <1>6, Alone
<1>12. \A c \in Ch : FlowControlIdTable[c] # 0 => (FlowControlIdTable[c] = i <=> c[1] = x)
  BY <1>5, <1>6, FcOwner
<1>. QED
  BY <1>3, <1>4, <1>5, <1>6, <1>7, <1>8, <1>9, <1>10, <1>11, <1>12 DEF KnownAt

\* A release taken while the REMOVE is under way is ignored once the host knows
\* that the card labels them.
LEMMA RcIgnoredStep == IInv /\ RcIgnored => IInv'
<1>. SUFFICES ASSUME IInv, RcIgnored
              PROVE  IInv'
  OBVIOUS
<1>t. Types
  BY DEF IInv, CodeTypes
<1>1. PICK a : a = r
  OBVIOUS
<1>2. /\ TakeRc /\ a.rc # "READY_INT" /\ rcSlot # 0
      /\ UNCHANGED <<eId, More, held, tables, pc, failed>> /\ ReadyInt' = ReadyInt
  BY <1>1 DEF RcIgnored
<1>3. /\ a \in RetCodes /\ 1 \in DOMAIN Answers /\ Answers[1] = a /\ pc = "rc" /\ Asked' = Asked
      /\ Head(Answers) = a /\ Answers # <<>> /\ Answers' = Tail(Answers)
      /\ \A k \in DOMAIN Answers' :
           k \in Nat /\ k >= 1 /\ k + 1 \in DOMAIN Answers /\ Answers'[k] = Answers[k + 1]
      /\ \A k \in DOMAIN Answers : /\ k \in Nat /\ k >= 1
                                   /\ k # 1 => /\ k - 1 \in DOMAIN Answers'
                                               /\ Answers'[k - 1] = Answers[k]
  BY <1>1, <1>2, TakeRcShape
<1>4. PICK i \in Id, s \in Slot, x \in Entity :
        /\ i = a.id /\ Live(i) /\ s = IdTable[i] /\ s = rcSlot /\ x = Owner(i) /\ x = e_tbl[s]
        /\ eId[x] = i /\ eNo[x] = s /\ i # 0 /\ a.rc \in {"OK", "OK_FC"}
        /\ "REMOVE_PENDING" \in flags[s] <=> Req[x].code = "REMOVE" /\ More[x] >= 96
        /\ \A j \in Id : j # i /\ Live(j) => Owner(j) # x /\ IdTable[j] # s
        /\ \A c \in Ch : FlowControlIdTable[c] # 0 => (FlowControlIdTable[c] = i <=> c[1] = x)
  BY <1>1, <1>2, KnownRc DEF KnownAt
<1>5. /\ "REMOVE_PENDING" \in flags[s] /\ a.rc = "OK" /\ setup.ext /\ a.type = "OK_FC"
      /\ Req[x].code = "REMOVE" /\ More[x] >= 96
  <2>1. /\ "REMOVE_PENDING" \in flags[s] /\ a.rc = "OK" /\ RcExtensionSupported
        /\ a.type # "REMOVE_COMPLETE"
    BY <1>1, <1>4 DEF RcIgnored, IgnoredRc, RemoveRc
  <2>2. setup.ext
    BY <2>1 DEF IInv, FlowInv
  <2>3. AnswerAt(1) /\ OwnRelease(1)
    BY <1>3 DEF IInv, AnswersInv, FlowInv
  <2>. QED
    BY <2>1, <2>2, <2>3, <1>3, <1>4 DEF AnswerAt, OwnRelease, IsRelease, RetCodes
<1>6. Plumbing' /\ ReadyInt' \in {0, 1}
  <2>1. pc' = "rc"
    BY <1>2, <1>3
  <2>2. ReadyInt' \in {0, 1}
    BY <1>t, <1>2 DEF Types
  <2>. QED
    BY <2>1, <2>2, <1>1, <1>2, PopPlumbing
<1>o. Overall /\ \A j \in Id : Spared(j)
  <2>1. a.rc \notin {"ASSIGN_OK", "ASSIGN_BAD"}
    BY <1>4
  <2>. QED
    BY <2>1, <1>1, <1>2, <1>6, PopOnly
<1>7. UNCHANGED <<eId, eNo, More, held, e_tbl, IdTable, flags, FlowControlIdTable, Req,
                     queue, failed, setup, cardIds, cardFc>>
  <2>1. a.rc \notin {"ASSIGN_OK", "ASSIGN_BAD"}
    BY <1>4
  <2>. QED
    BY <2>1, <1>1, <1>2, <1>6, PopOnly
<1>8. Aside(a, x)
  BY <1>4, <1>7, <1>o DEF Aside
<1>9. Live(i)' /\ Owner(i)' = x /\ IdTable'[i] = s
  BY <1>4, <1>7 DEF Live, Owner
<1>l. \A j \in Id : (Live(j)' <=> Live(j)) /\ Owner(j)' = Owner(j)
  BY <1>7 DEF Live, Owner
<1>10. PhaseAt(x)' /\ (setup.wait => SparesAt(x)')
  <2>1. a \notin AnswersOf(i)
    BY <1>5 DEF AnswersOf
  <2>2. Num(Answers', AnswersOf(i)) = Num(Answers, AnswersOf(i))
    BY <2>1, <1>t, <1>3, Typed, NumTailOut
  <2>3. Parts(x)' = Parts(x)
    BY <2>2, <1>3, <1>4, <1>7 DEF Parts
  <2>4. PhaseAt(x) /\ (setup.wait => SparesAt(x))
    BY DEF IInv, PhaseInv, WaitInv
  <2>5. InQueue(eNo[x])' <=> InQueue(eNo[x])
    BY <1>7 DEF InQueue
  <2>6. setup.wait => SparesAt(x)'
    BY <2>4, <1>7 DEF SparesAt
  <2>7. PhaseAt(x)'
    BY <2>3, <2>4, <2>5, <1>7 DEF PhaseAt, Phase
  <2>. QED
    BY <2>6, <2>7
<1>11. LiveAt(i)' /\ (i \in cardIds => GoneAt(i)')
  <2>1. LiveAt(i)
    BY DEF IInv, RemoveInv
  <2>2. \A n \in DOMAIN Answers : Assigns(n, i) => n - 1 \in DOMAIN Answers' /\ Assigns(n - 1, i)'
    BY <1>3, <1>5 DEF Assigns
  <2>3. \A n \in DOMAIN Answers : EndsRemove(n, i) =>
          n - 1 \in DOMAIN Answers' /\ EndsRemove(n - 1, i)'
    BY <1>3, <1>5, <1>7 DEF EndsRemove
  <2>4. (\E n \in DOMAIN Answers : Assigns(n, i)) => \E n \in DOMAIN Answers' : Assigns(n, i)'
    BY <2>2
  <2>5. (\E n \in DOMAIN Answers : EndsRemove(n, i)) => \E n \in DOMAIN Answers' : EndsRemove(n, i)'
    BY <2>3
  <2>6. LiveAt(i)'
    BY <2>1, <2>4, <2>5, <1>3, <1>4, <1>7, <1>9 DEF LiveAt
  <2>. QED
    BY <2>6, <1>9 DEF GoneAt
<1>12. ASSUME NEW k \in DOMAIN Asked', Asked'[k].id = i
       PROVE  AskedAt(k)'
  <2>1. AskedAt(k)
    BY <1>3 DEF IInv, AskedInv
  <2>. QED
    BY <2>1, <1>3, <1>l, <1>7, <1>12 DEF AskedAt
<1>13. ASSUME NEW k \in DOMAIN Answers', Answers'[k].id = i
       PROVE  AnswerAt(k)' /\ OwnRelease(k)' /\ (setup.wait => ReleaseAt(k)')
  <2>1. /\ AnswerAt(k + 1) /\ OwnRelease(k + 1) /\ (setup.wait => ReleaseAt(k + 1) /\ ReleaseAt(1))
        /\ k + 1 \in DOMAIN Answers /\ Answers'[k] = Answers[k + 1] /\ k \in Nat
    BY <1>3 DEF IInv, AnswersInv, FlowInv, WaitInv
  <2>2. \A n \in DOMAIN Answers' : n > k => n + 1 > k + 1
    BY <1>3, <2>1
  <2>3. Answers[k + 1].rc # "OK_FC" /\ ~(Answers[k + 1].rc = "OK" /\ Answers[k + 1].type = "none")
    <3>1. Answers[k + 1].id = i /\ Owner(i) = x /\ Req[x].code = "REMOVE" /\ setup.ext
      BY <2>1, <1>4, <1>5, <1>13
    <3>. QED
      BY <2>1, <3>1 DEF AnswerAt
  <2>4. Answers[k + 1].rc = "ASSIGN_OK" => \A n \in DOMAIN Answers' : n > k => Answers'[n].id # i
    BY <2>1, <2>2, <1>3, <1>13 DEF AnswerAt
  <2>5. Answers[k + 1].rc = "ASSIGN_OK" => \E n \in DOMAIN Answers' : n < k /\ EndsRemove(n, i)'
    <3>. SUFFICES ASSUME Answers[k + 1].rc = "ASSIGN_OK"
                  PROVE  \E n \in DOMAIN Answers' : n < k /\ EndsRemove(n, i)'
      OBVIOUS
    <3>1. PICK n \in DOMAIN Answers : n < k + 1 /\ EndsRemove(n, i)
      BY <2>1, <1>4, <1>13 DEF AnswerAt
    <3>2. n # 1 /\ n \in Nat
      BY <3>1, <1>3, <1>5 DEF EndsRemove
    <3>3. n - 1 \in DOMAIN Answers' /\ n - 1 < k /\ EndsRemove(n - 1, i)'
      BY <3>1, <3>2, <2>1, <1>3, <1>7 DEF EndsRemove
    <3>. QED
      BY <3>3
  <2>6. AnswerAt(k)'
    <3>1. /\ Req' = Req /\ More' = More /\ setup' = setup /\ cardIds' = cardIds
          /\ cardFc' = cardFc /\ Asked' = Asked
      BY <1>3, <1>7
    <3>2. CASE Answers[k + 1].rc = "ASSIGN_OK"
      BY <3>1, <3>2, <2>1, <2>4, <2>5, <1>l, <1>13 DEF AnswerAt
    <3>3. CASE Answers[k + 1].rc # "ASSIGN_OK"
      BY <3>1, <3>3, <2>1, <2>3, <1>l, <1>13 DEF AnswerAt
    <3>. QED
      BY <3>2, <3>3
  <2>7. OwnRelease(k)'
    BY <2>1, <1>7, <1>l, <1>13 DEF OwnRelease, IsRelease
  <2>8. ~setup.wait
    <3>. SUFFICES ASSUME setup.wait
                  PROVE  FALSE
      OBVIOUS
    <3>1. a.ch \in held
      <4>1. ReleaseAt(1) /\ IsRelease(a)
        BY <2>1, <1>5 DEF IsRelease
      <4>2. \A n \in DOMAIN Answers : ~(n < 1)
        <5>1. \A n \in DOMAIN Answers : n \in Nat /\ n >= 1
          BY <1>3, Zenon
        <5>. QED
          BY <5>1
      <4>3. ASSUME NEW n \in DOMAIN Answers, n < 1, IsFc(n, a.id, a.ch)
            PROVE  FALSE
        BY <4>2, <4>3
      <4>4. Answers[1] = a
        BY <1>3
      <4>. QED
        BY <4>1, <4>3, <4>4 DEF ReleaseAt
    <3>2. a.ch \in Ch /\ a.ch[1] = x
      <4>1. OwnRelease(1) /\ IsRelease(a)
        BY <1>3, <1>5 DEF IInv, FlowInv, IsRelease
      <4>. QED
        BY <4>1, <1>3, <1>4 DEF OwnRelease
    <3>3. SparesAt(x)
      BY DEF IInv, WaitInv
    <3>. QED
      BY <3>1, <3>2, <3>3, <1>4, <1>5 DEF SparesAt, Ch
  <2>. QED
    BY <2>6, <2>7, <2>8
<1>14. \A f \in cardFc : f[1] = i => OwnFc(f)' /\ (setup.wait => FcAt(f)')
  <2>. SUFFICES ASSUME NEW f \in cardFc, f[1] = i
                PROVE  OwnFc(f)' /\ (setup.wait => FcAt(f)')
    OBVIOUS
  <2>1. OwnFc(f)'
    <3>1. OwnFc(f)
      BY DEF IInv, FlowInv
    <3>2. cardIds' = cardIds /\ Live(i) /\ Owner(i) = x /\ Owner(i)' = x
      BY <1>4, <1>7, <1>9
    <3>. QED
      BY <3>1, <3>2 DEF OwnFc
  <2>2. \A n \in DOMAIN Answers : IsFc(n, f[1], f[2]) =>
          n - 1 \in DOMAIN Answers' /\ IsFc(n - 1, f[1], f[2])'
    BY <1>3, <1>5 DEF IsFc
  <2>. QED
    BY <2>1, <2>2, <1>7, <1>9 DEF IInv, WaitInv, FcAt
<1>15. \A c \in Ch : c[1] = x => LabelAt(c)'
  <2>. SUFFICES ASSUME NEW c \in Ch, c[1] = x, FlowControlIdTable[c] # 0
                PROVE  LabelAt(c)'
    BY <1>7 DEF LabelAt
  <2>1. LabelAt(c) /\ FlowControlIdTable[c] = i
    BY <1>4, <1>5 DEF IInv, LabelInv
  <2>2. \A k \in DOMAIN Answers' : Answers'[k].id = i =>
          ~(Answers'[k].rc = "OK" /\ Answers'[k].type = "none")
    <3>. SUFFICES ASSUME NEW k \in DOMAIN Answers', Answers'[k].id = i
                  PROVE  ~(Answers'[k].rc = "OK" /\ Answers'[k].type = "none")
      OBVIOUS
    <3>1. AnswerAt(k + 1) /\ Answers'[k] = Answers[k + 1]
      BY <1>3 DEF IInv, AnswersInv
    <3>2. Answers[k + 1].id = i /\ Owner(i) = x /\ Req[x].code = "REMOVE" /\ setup.ext
      BY <3>1, <1>4, <1>5
    <3>. QED
      BY <3>1, <3>2 DEF AnswerAt
  <2>. QED
    BY <2>1, <2>2, <1>4, <1>5, <1>7 DEF LabelAt
<1>16. ItsOwn(a, x)
  BY <1>4, <1>7, <1>10, <1>11, <1>12, <1>13, <1>14, <1>15 DEF ItsOwn
<1>. QED
  BY <1>1, <1>2, <1>o, <1>8, <1>16, PopStep

\* A return code that does not end a REMOVE: the entity keeps its Id.  What
\* changes is its More, m, its flags, F, and the state of the channel ch.
Booleans == FlowControlSkipTable' \in [Ch -> BOOLEAN] /\ RcExtensionSupported' \in BOOLEAN
KeptRc(i, s, x, m, F, ch) ==
  /\ UNCHANGED <<e_tbl, IdTable, eId, pc, failed, ReadyInt>>
  /\ Booleans /\ (RcExtensionSupported' => setup.ext)
  /\ m \in 0 .. 255 /\ m <= More[x] /\ More' = [More EXCEPT ![x] = m]
  /\ F \subseteq {"NO_RC_CANCELLING"} /\ (F # {} => setup.ext)
  /\ flags' = [flags EXCEPT ![s] = F]
  /\ ch[1] = x /\ held' \subseteq Ch
  /\ FlowControlIdTable' \in [Ch -> Id \cup {0}] /\ FlowControlIdTable'[ch] \in {0, i}
  /\ \A c \in Ch : c # ch => /\ FlowControlIdTable'[c] = FlowControlIdTable[c]
                             /\ c \in held' <=> c \in held

\* More counts the rest of the request, and a held channel is held until its
\* release.
KeptOk(a, i, x, m, ch) ==
  /\ \/ \E k \in DOMAIN Asked : Asked[k].id = i
     \/ \E k \in DOMAIN Answers' : Answers'[k].id = i /\ ~IsRelease(Answers'[k])
     => (More[x] >= 80 => m >= 80) /\ (More[x] >= 96 => m >= 96)
  /\ setup.wait => /\ ch \in held => ch \in held' \/ IsRelease(a)
                   /\ a.rc = "OK_FC" => ch \in held'
  /\ PlainInv' /\ PhaseAt(x)' /\ (setup.wait => SparesAt(x)')
  /\ setup.ext => \A c \in Ch : c[1] = x => LabelAt(c)'

LEMMA KeptStep ==
  ASSUME IInv, TakeRc, NEW a, a = r, NEW i \in Id, NEW s \in Slot, NEW x \in Entity,
         KnownAt(a, i, s, x), "REMOVE_PENDING" \notin flags[s],
         NEW m, NEW F, NEW ch \in Ch, ch = a.ch,
         KeptRc(i, s, x, m, F, ch), KeptOk(a, i, x, m, ch)
  PROVE  IInv'
<1>t. Types
  BY DEF IInv, CodeTypes
<1>1. /\ a \in RetCodes /\ 1 \in DOMAIN Answers /\ Answers[1] = a /\ pc = "rc" /\ Asked' = Asked
      /\ \A k \in DOMAIN Answers' :
           k \in Nat /\ k >= 1 /\ k + 1 \in DOMAIN Answers /\ Answers'[k] = Answers[k + 1]
      /\ \A k \in DOMAIN Answers : /\ k \in Nat /\ k >= 1
                                   /\ k # 1 => /\ k - 1 \in DOMAIN Answers'
                                               /\ Answers'[k - 1] = Answers[k]
  BY TakeRcShape
<1>2. UNCHANGED <<eNo, Req, queue, ReadyCount, filled, this, ReqMem, cardRc, cardIds, cardFc,
                  cardReadyInt, setup>> /\ RcMem' \in Seq(RetCodes) /\ failed = 0
  BY TakeRcShape
<1>3. /\ i = a.id /\ Live(i) /\ s = IdTable[i] /\ x = Owner(i) /\ x = e_tbl[s]
      /\ eId[x] = i /\ eNo[x] = s /\ i # 0 /\ a.rc \in {"OK", "OK_FC"}
      /\ ~(Req[x].code = "REMOVE" /\ More[x] >= 96) /\ i \in cardIds
  BY DEF KnownAt
<1>4. \A k \in DOMAIN Answers : Answers[k].id = i =>
        Answers[k].rc \in {"OK", "OK_FC"} /\ Answers[k].type # "REMOVE_COMPLETE"
  BY DEF KnownAt
<1>u. UNCHANGED <<e_tbl, IdTable, eId, pc, failed, ReadyInt>>
  BY DEF KeptRc
<1>5. /\ \A j \in Id : (Live(j)' <=> Live(j)) /\ Owner(j)' = Owner(j)
      /\ \A j \in Id : j # i /\ Live(j) => Owner(j) # x /\ IdTable[j] # s
  BY <1>u DEF KnownAt, Live, Owner
<1>6. /\ More'[x] = m /\ \A y \in Entity : y # x => More'[y] = More[y]
      /\ flags'[s] = F /\ \A t \in Slot : t # s => flags'[t] = flags[t]
      /\ More' \in [Entity -> 0 .. 255]
      /\ flags' \in [Slot -> SUBSET {"REMOVE_PENDING", "NO_RC_CANCELLING"}]
      /\ m \in 0 .. 255 /\ m <= More[x] /\ "REMOVE_PENDING" \notin F
      /\ "NO_RC_CANCELLING" \in F => setup.ext
  BY <1>t DEF Types, KeptRc
<1>f. /\ FlowControlIdTable' \in [Ch -> Id \cup {0}] /\ held' \in SUBSET Ch
      /\ \A c \in Ch : c[1] # x => /\ FlowControlIdTable'[c] = FlowControlIdTable[c]
                                   /\ c \in held' <=> c \in held
  BY DEF KeptRc
<1>h. \A c \in Ch : setup.wait /\ (c # ch \/ ~IsRelease(a)) /\ c \in held => c \in held'
  BY DEF KeptRc, KeptOk
<1>g. setup.wait /\ a.rc = "OK_FC" => ch \in held'
  BY DEF KeptOk
<1>m. (\E k \in DOMAIN Asked : Asked[k].id = i)
      \/ (\E k \in DOMAIN Answers' : Answers'[k].id = i /\ ~IsRelease(Answers'[k]))
      => (More[x] >= 80 => m >= 80) /\ (More[x] >= 96 => m >= 96)
  BY DEF KeptOk
<1>7. ~(Req[x].code = "REMOVE" /\ m >= 96) /\ More[x] \in Nat
  <2>1. More[x] \in 0 .. 255
    BY <1>t DEF Types
  <2>2. m >= 96 => More[x] >= 96
    BY <2>1, <1>6
  <2>3. ~(Req[x].code = "REMOVE" /\ More[x] >= 96)
    BY <1>3
  <2>4. More[x] \in Nat
    BY <2>1
  <2>. QED
    BY <2>2, <2>3, <2>4, Zenon
<1>8. Overall
  <2>1. CodeTypes'
    <3>1. Types'
      <4>1. /\ FlowControlIdTable' \in [Ch -> Id \cup {0}] /\ held' \in SUBSET Ch
            /\ More' \in [Entity -> 0 .. 255]
            /\ flags' \in [Slot -> SUBSET {"REMOVE_PENDING", "NO_RC_CANCELLING"}]
        BY <1>6, <1>f
      <4>. QED
        BY <4>1, <1>t, <1>2, <1>u, Zenon DEF Types
    <3>2. /\ UNCHANGED <<soft_isr, irq>> /\ FlowControlSkipTable' \in [Ch -> BOOLEAN]
          /\ RcExtensionSupported' \in BOOLEAN
      BY DEF TakeRc, KeptRc, Booleans
    <3>. QED
      BY <3>1, <3>2, Zenon DEF IInv, CodeTypes
  <2>2. Plumbing'
    BY <1>1, <1>3, <1>u, PopPlumbing
  <2>3. TableInv'
    BY <1>2, <1>u, <1>5 DEF IInv, TableInv, Live, Owner
  <2>4. QueueInv'
    BY <1>2, <1>u DEF IInv, QueueInv
  <2>5. AssignInv'
    <3>1. \A t \in Slot :
            /\ Assigning(t)' <=> Assigning(t)
            /\ Assigning(t) => e_tbl'[t] = e_tbl[t] /\ More'[e_tbl[t]] = More[e_tbl[t]]
      BY <1>t, <1>u, <1>3, <1>6 DEF Assigning, Types
    <3>. QED
      BY <3>1, <1>3, PopAssign
  <2>6. \A t \in Slot : PendingAt(t)' /\ ("NO_RC_CANCELLING" \in flags'[t] => setup.ext)
    <3>. SUFFICES ASSUME NEW t \in Slot
                  PROVE  PendingAt(t)' /\ ("NO_RC_CANCELLING" \in flags'[t] => setup.ext)
      OBVIOUS
    <3>1. CASE t = s
      BY <3>1, <1>6 DEF PendingAt
    <3>2. CASE t # s
      <4>1. PendingAt(t) /\ ("NO_RC_CANCELLING" \in flags[t] => setup.ext)
        BY DEF IInv, RemoveInv, FlowInv
      <4>2. "REMOVE_PENDING" \in flags[t] => e_tbl[t] # x /\ e_tbl[t] \in Entity
        BY <4>1, <3>2, <1>t, <1>3 DEF PendingAt, Types
      <4>. QED
        BY <4>1, <4>2, <3>2, <1>2, <1>u, <1>6 DEF PendingAt
    <3>. QED
      BY <3>1, <3>2
  <2>. QED
    BY <2>1, <2>2, <2>3, <2>4, <2>5, <2>6 DEF Overall, KeptOk, KeptRc
<1>9. Aside(a, x)
  <2>1. \A j \in Id : j # i => Spared(j) /\ (Live(j) => Owner(j) # x)
    <3>. SUFFICES ASSUME NEW j \in Id, j # i
                  PROVE  Spared(j) /\ (Live(j) => Owner(j) # x)
      OBVIOUS
    <3>1. Live(j) => Owner(j) \in Entity /\ IdTable[j] \in Slot
      BY Owned
    <3>. QED
      BY <3>1, <1>u, <1>5, <1>6 DEF Spared
  <2>. QED
    BY <2>1, <1>3, <1>u, <1>6, <1>f DEF Aside
<1>10. LiveAt(i)' /\ (i \in cardIds => GoneAt(i)')
  <2>1. LiveAt(i)'
    BY <1>2, <1>3, <1>u, <1>5, <1>6, <1>7 DEF LiveAt
  <2>. QED
    BY <2>1, <1>3, <1>5 DEF GoneAt
<1>11. ASSUME NEW k \in DOMAIN Asked', Asked'[k].id = i
       PROVE  AskedAt(k)'
  <2>1. AskedAt(k) /\ (More[x] >= 96 => More'[x] >= 96)
    BY <1>1, <1>6, <1>m, <1>11 DEF IInv, AskedInv
  <2>2. Live(i)' /\ Owner(i)' = Owner(i) /\ Asked' = Asked /\ Req' = Req /\ cardIds' = cardIds
    BY <1>1, <1>2, <1>3, <1>5
  <2>. QED
    BY <2>1, <2>2, <1>3, <1>11 DEF AskedAt
<1>12. ASSUME NEW k \in DOMAIN Answers', Answers'[k].id = i
       PROVE  AnswerAt(k)' /\ OwnRelease(k)' /\ (setup.wait => ReleaseAt(k)')
  <2>1. /\ AnswerAt(k + 1) /\ OwnRelease(k + 1) /\ (setup.wait => ReleaseAt(k + 1))
        /\ k + 1 \in DOMAIN Answers /\ Answers'[k] = Answers[k + 1] /\ k \in Nat
        /\ k >= 1 /\ Answers[k + 1].id = i
    BY <1>1, <1>12 DEF IInv, AnswersInv, FlowInv, WaitInv
  <2>2. Answers[k + 1].rc \in {"OK", "OK_FC"} /\ Answers[k + 1].type # "REMOVE_COMPLETE"
    BY <2>1, <1>4
  <2>3. Answers[k + 1].rc = "OK_FC" =>
          \A n \in DOMAIN Answers' : n > k /\ Answers'[n].id = i => IsRelease(Answers'[n])
    <3>1. \A n \in DOMAIN Answers' : n > k => n + 1 > k + 1
      BY <1>1, <2>1
    <3>. QED
      BY <3>1, <2>1, <1>1 DEF AnswerAt, IsRelease
  <2>4. AnswerAt(k)'
    <3>1. /\ Req' = Req /\ setup' = setup /\ Asked' = Asked
          /\ ~IsRelease(Answers'[k]) => /\ More[x] >= 80 => More'[x] >= 80
                                        /\ More[x] >= 96 => More'[x] >= 96
      BY <1>1, <1>2, <1>6, <1>m, <1>12
    <3>l. Live(i) /\ Owner(i) = x /\ Live(i)' /\ Owner(i)' = x /\ i # 0
      BY <1>3, <1>5
    <3>2. CASE Answers[k + 1].rc = "OK_FC"
      BY <3>1, <3>l, <3>2, <2>1, <2>3, <1>12 DEF AnswerAt, IsRelease
    <3>3. CASE Answers[k + 1].rc = "OK"
      BY <3>1, <3>l, <3>3, <2>1, <2>2, <1>12 DEF AnswerAt, IsRelease
    <3>. QED
      BY <2>2, <3>2, <3>3
  <2>5. OwnRelease(k)'
    BY <2>1, <1>2, <1>5, <1>12 DEF OwnRelease, IsRelease
  <2>6. ASSUME setup.wait, IsRelease(Answers[k + 1])
        PROVE  ReleaseAt(k)'
    <3>0. PICK c : c = Answers[k + 1].ch
      OBVIOUS
    <3>1. ReleaseAt(k + 1) /\ c \in Ch
      BY <3>0, <2>1, <2>6 DEF OwnRelease
    <3>2. c \in held => c \in held'
      <4>1. IsRelease(a) => c # ch
        <5>1. \A n \in DOMAIN Answers : n # k + 1 /\ IsRelease(Answers[n]) =>
                Answers[n].id # i \/ Answers[n].ch # c
          BY <3>0, <3>1, <2>1, <2>6 DEF ReleaseAt
        <5>2. 1 # k + 1 /\ Answers[1].id = i /\ Answers[1].ch = ch
          BY <2>1, <1>1, <1>3
        <5>. QED
          BY <5>1, <5>2, <1>1
      <4>. QED
        BY <4>1, <3>1, <2>6, <1>h
    <3>3. ASSUME NEW n \in DOMAIN Answers, n < k + 1, IsFc(n, i, c)
          PROVE  c \in held' \/ \E l \in DOMAIN Answers' : l < k /\ IsFc(l, i, c)'
      <4>1. CASE n = 1
        BY <4>1, <3>3, <2>6, <1>1, <1>g DEF IsFc
      <4>2. CASE n # 1
        <5>1. n - 1 \in DOMAIN Answers' /\ n - 1 < k /\ IsFc(n - 1, i, c)'
          BY <4>2, <3>3, <2>1, <1>1 DEF IsFc
        <5>. QED
          BY <5>1
      <4>. QED
        BY <4>1, <4>2
    <3>4. c \in held' \/ \E n \in DOMAIN Answers' : n < k /\ IsFc(n, i, c)'
      BY <3>0, <3>1, <3>2, <3>3, <2>1, <2>6 DEF ReleaseAt
    <3>5. \A n \in DOMAIN Answers' : n # k /\ IsRelease(Answers'[n]) =>
            Answers'[n].id # i \/ Answers'[n].ch # c
      <4>. SUFFICES ASSUME NEW n \in DOMAIN Answers', n # k, IsRelease(Answers'[n])
                    PROVE  Answers'[n].id # i \/ Answers'[n].ch # c
        OBVIOUS
      <4>1. n + 1 \in DOMAIN Answers /\ n + 1 # k + 1 /\ Answers'[n] = Answers[n + 1]
        BY <1>1, <2>1
      <4>. QED
        BY <4>1, <3>0, <3>1, <2>1, <2>6 DEF ReleaseAt, IsRelease
    <3>6. Answers'[k].ch = c /\ Live(i)' /\ <<i, c>> \notin cardFc'
      BY <3>0, <3>1, <2>1, <2>6, <1>2, <1>3, <1>5 DEF ReleaseAt
    <3>. QED
      BY <3>4, <3>5, <3>6, <1>12 DEF ReleaseAt
  <2>7. ASSUME ~IsRelease(Answers[k + 1])
        PROVE  ReleaseAt(k)'
    BY <2>1, <2>7 DEF ReleaseAt, IsRelease
  <2>. QED
    BY <2>4, <2>5, <2>6, <2>7
<1>13. ASSUME NEW f \in cardFc, f[1] = i
       PROVE  OwnFc(f)' /\ (setup.wait => FcAt(f)')
  <2>1. OwnFc(f)'
    BY <1>2, <1>5, <1>13 DEF IInv, FlowInv, OwnFc
  <2>2. ASSUME setup.wait
        PROVE  FcAt(f)'
    <3>0. PICK c \in Ch : c = f[2] /\ f = <<i, c>>
      BY <1>t, <1>13 DEF Types
    <3>1. FcAt(f)
      BY <2>2 DEF IInv, WaitInv
    <3>2. c \in held => c \in held'
      <4>1. IsRelease(a) => c # ch
        <5>1. ReleaseAt(1)
          BY <2>2, <1>1 DEF IInv, WaitInv
        <5>. QED
          BY <5>1, <3>0, <1>1, <1>3, <1>13 DEF ReleaseAt
      <4>. QED
        BY <4>1, <3>0, <2>2, <1>h
    <3>3. ASSUME NEW n \in DOMAIN Answers, IsFc(n, i, c)
          PROVE  c \in held' \/ \E l \in DOMAIN Answers' : IsFc(l, i, c)'
      <4>1. CASE n = 1
        BY <4>1, <3>3, <2>2, <1>1, <1>g DEF IsFc
      <4>2. CASE n # 1
        <5>1. n - 1 \in DOMAIN Answers' /\ IsFc(n - 1, i, c)'
          BY <4>2, <3>3, <1>1 DEF IsFc
        <5>. QED
          BY <5>1
      <4>. QED
        BY <4>1, <4>2
    <3>. QED
      BY <3>0, <3>1, <3>2, <3>3, <1>3, <1>5, <1>13 DEF FcAt
  <2>. QED
    BY <2>1, <2>2
<1>14. \A c \in Ch : c[1] = x => (FlowControlIdTable'[c] # 0 => eId'[x] = FlowControlIdTable'[c])
  <2>. SUFFICES ASSUME NEW c \in Ch, c[1] = x, FlowControlIdTable'[c] # 0
                PROVE  i = FlowControlIdTable'[c]
    BY <1>3, <1>u
  <2>. QED
    BY DEF KnownAt, KeptRc
<1>15. ItsOwn(a, x)
  BY <1>3, <1>10, <1>11, <1>12, <1>13, <1>14 DEF ItsOwn, KeptOk
<1>. QED
  BY <1>8, <1>9, <1>15, PopStep

\* What isdn_rc does for a return code that does not end a REMOVE.
LEMMA KeptShape ==
  ASSUME IInv, RcKnown, NEW a, a = r, NEW i \in Id, NEW s \in Slot, NEW x \in Entity,
         KnownAt(a, i, s, x), "REMOVE_PENDING" \notin flags[s]
  PROVE  LET m == More[x]
             dec == IF XMOREC(m) > 0 THEN m - 1 ELSE m
             cancel_rc == "NO_RC_CANCELLING" \notin flags[s]
             release == cancel_rc /\ a.ch \in Ch /\ FlowControlIdTable[a.ch] = i
             done == /\ ~cancel_rc \/ Has(dec, XMOREF)
                     /\ XMOREC(dec) = 0 /\ ~Has(dec, XMOREP) IN
         /\ UNCHANGED <<e_tbl, IdTable, eId, pc, failed, ReadyInt>>
         /\ RcExtensionSupported' => setup.ext
         /\ a.rc = "OK_FC" =>
              /\ More' = [More EXCEPT ![x] = Clr(m - XMOREC(m), XBUSY)]
              /\ held' = held \cup {a.ch}
              /\ FlowControlIdTable' = [FlowControlIdTable EXCEPT ![a.ch] = i]
              /\ FlowControlSkipTable' = [FlowControlSkipTable EXCEPT ![a.ch] = FALSE]
              /\ flags' = [flags EXCEPT ![s] = flags[s]]
         /\ a.rc = "OK" /\ a.type = "OK_FC" =>
              /\ More' = [More EXCEPT ![x] = m]
              /\ held' = held \ {a.ch}
              /\ flags' = [flags EXCEPT ![s] = flags[s] \cup {"NO_RC_CANCELLING"}]
              /\ FlowControlIdTable' = FlowControlIdTable
              /\ FlowControlSkipTable' = FlowControlSkipTable
         /\ a.rc = "OK" /\ a.type # "OK_FC" /\ release /\ ~FlowControlSkipTable[a.ch] =>
              /\ More' = [More EXCEPT ![x] =
                            IF a.ch = Req[x].ch THEN Clr(m - XMOREC(m), XBUSY) ELSE m]
              /\ held' = held \ {a.ch}
              /\ FlowControlIdTable' = [FlowControlIdTable EXCEPT ![a.ch] = 0]
              /\ flags' = [flags EXCEPT ![s] = flags[s]]
              /\ FlowControlSkipTable' = FlowControlSkipTable
         /\ a.rc = "OK" /\ a.type # "OK_FC" /\ ~release =>
              /\ More' = [More EXCEPT ![x] = IF done THEN Clr(dec, XBUSY) ELSE dec]
              /\ held' = IF done THEN held \ {a.ch} ELSE held
              /\ FlowControlIdTable' = FlowControlIdTable
              /\ flags' = [flags EXCEPT ![s] = flags[s]]
              /\ FlowControlSkipTable' = FlowControlSkipTable
<1>. DEFINE cancel_rc == "NO_RC_CANCELLING" \notin flags[s]
            release == cancel_rc /\ a.ch \in Ch /\ FlowControlIdTable[a.ch] = i
<1>1. rcSlot = s /\ e_tbl[s] = x /\ r.id = i /\ r = a /\ ~RemoveRc /\ a.rc \in {"OK", "OK_FC"}
  BY DEF KnownAt, RemoveRc
<1>2. UNCHANGED <<e_tbl, IdTable, eId, pc, failed, ReadyInt>>
  BY <1>1 DEF RcKnown
<1>3. RcExtensionSupported' => setup.ext
  BY <1>1 DEF RcKnown, IInv, FlowInv
<1>4. CASE a.rc = "OK_FC"
  BY <1>1, <1>2, <1>3, <1>4 DEF RcKnown
<1>5. CASE a.rc = "OK" /\ a.type = "OK_FC"
  BY <1>1, <1>2, <1>3, <1>5 DEF RcKnown
<1>6. CASE a.rc = "OK" /\ a.type # "OK_FC" /\ release
  BY <1>1, <1>2, <1>3, <1>6 DEF RcKnown
<1>7. CASE a.rc = "OK" /\ a.type # "OK_FC" /\ ~release
  BY <1>1, <1>2, <1>3, <1>7 DEF RcKnown
<1>. QED
  BY <1>1, <1>4, <1>5, <1>6, <1>7

LEMMA KeptBooleans ==
  ASSUME IInv, RcKnown, FlowControlSkipTable' \in [Ch -> BOOLEAN]
  PROVE  Booleans
<1>1. RcExtensionSupported' \in BOOLEAN
  BY DEF RcKnown
<1>. QED
  BY <1>1 DEF Booleans

\* OK_FC: the request is done, its channel is flow controlled.
LEMMA RcFcStep ==
  ASSUME Premises, IInv, RcKnown, NEW a, a = r, NEW i \in Id, NEW s \in Slot, NEW x \in Entity,
         KnownAt(a, i, s, x), "REMOVE_PENDING" \notin flags[s], a.rc = "OK_FC"
  PROVE  IInv'
<1>t. Types
  BY DEF IInv, CodeTypes
<1>0. TakeRc
  BY DEF RcKnown
<1>1. /\ a \in RetCodes /\ 1 \in DOMAIN Answers /\ Answers[1] = a /\ Asked' = Asked
      /\ Head(Answers) = a /\ Answers # <<>> /\ Answers' = Tail(Answers)
      /\ \A k \in DOMAIN Answers' :
           k \in Nat /\ k >= 1 /\ k + 1 \in DOMAIN Answers /\ Answers'[k] = Answers[k + 1]
      /\ \A k \in DOMAIN Answers : /\ k \in Nat /\ k >= 1
                                   /\ k # 1 => /\ k - 1 \in DOMAIN Answers'
                                               /\ Answers'[k - 1] = Answers[k]
  BY <1>0, TakeRcShape
<1>2. /\ eNo' = eNo /\ Req' = Req /\ queue' = queue /\ cardFc' = cardFc /\ setup' = setup
  BY <1>0, TakeRcShape
<1>3. /\ i = a.id /\ Live(i) /\ s = IdTable[i] /\ x = Owner(i) /\ x = e_tbl[s]
      /\ eId[x] = i /\ eNo[x] = s /\ i # 0
  BY DEF KnownAt
<1>4. /\ a.type = "none" /\ a.ch = Req[x].ch /\ More[x] >= 96
      /\ \A n \in DOMAIN Answers' : Answers'[n].id = i => IsRelease(Answers'[n])
      /\ \A n \in DOMAIN Asked : Asked[n].id # i
  <2>1. AnswerAt(1)
    BY <1>1 DEF IInv, AnswersInv
  <2>2. \A n \in DOMAIN Answers' : n + 1 > 1
    BY <1>1
  <2>3. \A n \in DOMAIN Answers : n > 1 /\ Answers[n].id = i => IsRelease(Answers[n])
    BY <2>1, <1>1, <1>3 DEF AnswerAt
  <2>4. \A n \in DOMAIN Answers' : Answers'[n].id = i => IsRelease(Answers'[n])
    BY <2>2, <2>3, <1>1 DEF IsRelease
  <2>. QED
    BY <2>1, <2>4, <1>1, <1>3 DEF AnswerAt
<1>5. /\ Num(Asked, ReqsOf(i)) = 0
      /\ Num(Answers', AnswersOf(i)) = 0 /\ Num(Answers, AnswersOf(i)) = 1
  <2>1. Num(Asked, ReqsOf(i)) = 0
    BY <1>t, <1>4, Typed, NumZero DEF ReqsOf
  <2>2. a \in AnswersOf(i)
    BY <1>1, <1>3, <1>4 DEF AnswersOf
  <2>3. Num(Answers, AnswersOf(i)) = Num(Answers', AnswersOf(i)) + 1
    BY <2>2, <1>t, <1>1, Typed, NumTailIn
  <2>4. Answers' \in Seq(RetCodes)
    BY <1>t, <1>1, Typed
  <2>5. Num(Answers', AnswersOf(i)) = 0
    <3>1. \A k \in DOMAIN Answers' : Answers'[k] \notin AnswersOf(i)
      BY <1>4 DEF AnswersOf, IsRelease
    <3>. QED
      BY <2>4, <3>1, NumZero
  <2>. QED
    BY <2>1, <2>3, <2>5
<1>6. More[x] = 97 /\ ~InQueue(eNo[x]) /\ Parts(x) = 1 /\ Req[x].ch \in {x} \X (1 .. NumCh)
  <2>1. Phase(x) /\ Parts(x) = 1 /\ (More[x] # 32 => Req[x].ch \in {x} \X (1 .. NumCh))
    BY <1>3, <1>5, Phases DEF Parts
  <2>2. More[x] = 97 /\ ~InQueue(eNo[x])
    BY <2>1, <1>4 DEF Phase
  <2>. QED
    BY <2>1, <2>2
<1>7. PICK ch \in Ch : ch = a.ch /\ ch[1] = x
  BY <1>4, <1>6 DEF Ch
<1>8. Clr(97 - XMOREC(97), XBUSY) = 32
  <2>1. 1 \in 0 .. 15 /\ 96 + 1 = 97
    OBVIOUS
  <2>2. XMOREC(97) = 1 /\ Clr(96, XBUSY) = 32
    BY <2>1, SentByte
  <2>. QED
    BY <2>2
<1>9. /\ UNCHANGED <<e_tbl, IdTable, eId, pc, failed, ReadyInt>>
      /\ RcExtensionSupported' => setup.ext
      /\ More' = [More EXCEPT ![x] = 32] /\ held' = held \cup {ch}
      /\ FlowControlIdTable' = [FlowControlIdTable EXCEPT ![ch] = i]
      /\ flags' = [flags EXCEPT ![s] = flags[s]]
  <2>1. UNCHANGED <<e_tbl, IdTable, eId, pc, failed, ReadyInt>>
    BY KeptShape
  <2>2. RcExtensionSupported' => setup.ext
    BY KeptShape
  <2>3. More' = [More EXCEPT ![x] = Clr(More[x] - XMOREC(More[x]), XBUSY)] /\ held' = held \cup {a.ch}
    BY KeptShape
  <2>4. /\ FlowControlIdTable' = [FlowControlIdTable EXCEPT ![a.ch] = i]
        /\ flags' = [flags EXCEPT ![s] = flags[s]]
    BY KeptShape
  <2>5. Clr(More[x] - XMOREC(More[x]), XBUSY) = 32
    <3>1. More[x] = 97
      BY <1>6
    <3>. QED
      BY <3>1, <1>8, Zenon
  <2>. QED
    BY <2>1, <2>2, <2>3, <2>4, <2>5, <1>7
<1>b. FlowControlSkipTable' = [FlowControlSkipTable EXCEPT ![ch] = FALSE]
  BY <1>7, KeptShape
<1>10. /\ More'[x] = 32 /\ FlowControlIdTable'[ch] = i
       /\ \A c \in Ch : c # ch => FlowControlIdTable'[c] = FlowControlIdTable[c]
       /\ flags'[s] = flags[s]
  BY <1>t, <1>9 DEF Types
<1>11. KeptRc(i, s, x, 32, flags[s], ch)
  <2>1. Booleans
    <3>1. FlowControlSkipTable' \in [Ch -> BOOLEAN]
      BY <1>b, Zenon DEF IInv, CodeTypes
    <3>. QED
      BY <3>1, KeptBooleans
  <2>2. flags[s] \subseteq {"NO_RC_CANCELLING"} /\ (flags[s] # {} => setup.ext)
    <3>1. flags[s] \subseteq {"REMOVE_PENDING", "NO_RC_CANCELLING"}
      BY <1>t DEF Types
    <3>2. "NO_RC_CANCELLING" \in flags[s] => setup.ext
      BY DEF IInv, FlowInv
    <3>. QED
      BY <3>1, <3>2
  <2>3. held' \subseteq Ch /\ FlowControlIdTable' \in [Ch -> Id \cup {0}]
    BY <1>t, <1>9 DEF Types
  <2>. QED
    BY <2>1, <2>2, <2>3, <1>6, <1>7, <1>9, <1>10 DEF KeptRc
<1>12. PlainInv'
  <2>1. \A c \in Ch : c = ch => ~FlowControlSkipTable'[c]
    BY <1>b DEF IInv, CodeTypes
  <2>2. \A c \in Ch : c # ch => FlowControlSkipTable'[c] = FlowControlSkipTable[c]
    BY <1>b DEF IInv, CodeTypes
  <2>. QED
    BY <2>1, <2>2, <1>2, <1>3, <1>9, <1>10 DEF IInv, PlainInv
<1>13. PhaseAt(x)' /\ SparesAt(x)'
  <2>1. Parts(x)' = 0 /\ ~InQueue(eNo[x])'
    BY <1>1, <1>2, <1>3, <1>5, <1>6, <1>9 DEF Parts, InQueue
  <2>2. Req[x].code # "UREMOVE"
    BY DEF IInv, PhaseInv, PhaseAt
  <2>. QED
    BY <2>1, <2>2, <1>2, <1>10 DEF PhaseAt, Phase, SparesAt
<1>14. ASSUME setup.ext, NEW c \in Ch, c[1] = x
       PROVE  LabelAt(c)'
  <2>. SUFFICES ASSUME FlowControlIdTable'[c] # 0, "NO_RC_CANCELLING" \notin flags[s]
                PROVE  LabelAt(c)'
    <3>1. FlowControlIdTable'[c] # 0 => FlowControlIdTable'[c] = i
      BY <1>14, <1>10 DEF KnownAt
    <3>. QED
      BY <3>1, <1>3, <1>9, <1>10 DEF LabelAt
  <2>1. FlowControlIdTable'[c] = i /\ (c # ch => FlowControlIdTable[c] = i)
    BY <1>14, <1>10 DEF KnownAt
  <2>2. \A k \in DOMAIN Answers' : Answers'[k].id = i =>
          ~(Answers'[k].rc = "OK" /\ Answers'[k].type = "none")
    BY <1>4 DEF IsRelease
  <2>3. \A n \in DOMAIN Answers : Released(n, i) => n - 1 \in DOMAIN Answers' /\ Released(n - 1, i)'
    BY <1>1, <1>4 DEF Released
  <2>4. \/ "REMOVE_PENDING" \in flags[s] \/ <<i, c>> \in cardFc
        \/ \E n \in DOMAIN Answers : Released(n, i)
    <3>1. CASE c = ch
      BY <3>1, <1>1, <1>3, <1>7, <1>14 DEF IInv, LabelInv
    <3>2. CASE c # ch
      <4>1. LabelAt(c)
        BY <1>14 DEF IInv, LabelInv
      <4>. QED
        BY <4>1, <3>2, <2>1, <1>3 DEF LabelAt
    <3>. QED
      BY <3>1, <3>2
  <2>5. c \in held'
    <3>1. CASE c = ch
      BY <3>1, <1>9
    <3>2. CASE c # ch
      <4>1. LabelAt(c)
        BY <1>14 DEF IInv, LabelInv
      <4>. QED
        BY <4>1, <3>2, <2>1, <1>3, <1>9 DEF LabelAt
    <3>. QED
      BY <3>1, <3>2
  <2>6. \/ <<i, c>> \in cardFc' \/ \E n \in DOMAIN Answers' : Released(n, i)'
    BY <2>3, <2>4, <1>2
  <2>. QED
    BY <2>1, <2>2, <2>5, <2>6, <1>10, <1>14 DEF LabelAt
<1>15. KeptOk(a, i, x, 32, ch)
  BY <1>4, <1>9, <1>12, <1>13, <1>14 DEF KeptOk
<1>. QED
  BY <1>0, <1>7, <1>11, <1>15, KeptStep

\* The release of a channel, with or without a label.
LEMMA RcReleaseStep ==
  ASSUME Premises, IInv, RcKnown, NEW a, a = r, NEW i \in Id, NEW s \in Slot, NEW x \in Entity,
         KnownAt(a, i, s, x), "REMOVE_PENDING" \notin flags[s], IsRelease(a)
  PROVE  IInv'
<1>t. Types
  BY DEF IInv, CodeTypes
<1>0. TakeRc
  BY DEF RcKnown
<1>1. /\ a \in RetCodes /\ 1 \in DOMAIN Answers /\ Answers[1] = a /\ Asked' = Asked
      /\ Head(Answers) = a /\ Answers # <<>> /\ Answers' = Tail(Answers)
      /\ \A k \in DOMAIN Answers : k \in Nat /\ k >= 1
  BY <1>0, TakeRcShape
<1>2. /\ eNo' = eNo /\ Req' = Req /\ queue' = queue /\ cardFc' = cardFc /\ setup' = setup
  BY <1>0, TakeRcShape
<1>3. /\ i = a.id /\ Live(i) /\ s = IdTable[i] /\ x = Owner(i) /\ x = e_tbl[s]
      /\ eId[x] = i /\ eNo[x] = s /\ i # 0
      /\ \A c \in Ch : FlowControlIdTable[c] # 0 => (FlowControlIdTable[c] = i <=> c[1] = x)
  BY DEF KnownAt
<1>4. PICK ch \in Ch : ch = a.ch /\ ch[1] = x /\ a.rc = "OK" /\ (setup.ext <=> a.type = "OK_FC")
  <2>1. OwnRelease(1)
    BY <1>1 DEF IInv, FlowInv
  <2>. QED
    BY <2>1, <1>1, <1>3 DEF OwnRelease
<1>5. /\ UNCHANGED <<e_tbl, IdTable, eId, pc, failed, ReadyInt>>
      /\ RcExtensionSupported' => setup.ext
  <2>1. UNCHANGED <<e_tbl, IdTable, eId, pc, failed, ReadyInt>>
    BY KeptShape
  <2>2. RcExtensionSupported' => setup.ext
    BY KeptShape
  <2>. QED
    BY <2>1, <2>2
<1>6. CASE setup.ext
  <2>. DEFINE F == flags[s] \cup {"NO_RC_CANCELLING"}
  <2>1. More' = [More EXCEPT ![x] = More[x]] /\ held' = held \ {ch}
    BY <1>4, <1>6, KeptShape
  <2>2. flags' = [flags EXCEPT ![s] = F] /\ FlowControlIdTable' = FlowControlIdTable
    BY <1>4, <1>6, KeptShape
  <2>b. FlowControlSkipTable' = FlowControlSkipTable
    BY <1>4, <1>6, KeptShape
  <2>3. KeptRc(i, s, x, More[x], F, ch)
    <3>1. Booleans
      BY <2>b, KeptBooleans DEF IInv, CodeTypes
    <3>2. F \subseteq {"NO_RC_CANCELLING"}
      BY <1>t DEF Types
    <3>3. More[x] \in 0 .. 255 /\ held' \subseteq Ch /\ FlowControlIdTable' \in [Ch -> Id \cup {0}]
      BY <1>t, <2>1, <2>2 DEF Types
    <3>4. More[x] <= More[x]
      BY <3>3
    <3>5. /\ FlowControlIdTable'[ch] \in {0, i}
          /\ \A c \in Ch : c # ch => /\ FlowControlIdTable'[c] = FlowControlIdTable[c]
                                     /\ c \in held' <=> c \in held
      BY <2>1, <2>2, <1>3, <1>4
    <3>. HIDE DEF F
    <3>. QED
      BY <3>1, <3>2, <3>3, <3>4, <3>5, <2>1, <2>2, <1>4, <1>5, <1>6 DEF KeptRc
  <2>4. PlainInv'
    BY <1>2, <1>6 DEF PlainInv
  <2>5. \A c \in Ch : c[1] = x => LabelAt(c)'
    <3>1. IdTable'[i] = s /\ "NO_RC_CANCELLING" \in flags'[s]
      BY <1>t, <1>3, <1>5, <2>2 DEF Types
    <3>. QED
      BY <3>1, <2>2, <1>3 DEF LabelAt
  <2>6. More'[x] = More[x] /\ held' \subseteq held
    BY <1>t, <2>1 DEF Types
  <2>7. PhaseAt(x)' /\ (setup.wait => SparesAt(x)')
    <3>1. a \notin AnswersOf(i)
      BY DEF AnswersOf, IsRelease
    <3>2. Num(Answers', AnswersOf(i)) = Num(Answers, AnswersOf(i))
      BY <3>1, <1>t, <1>1, Typed, NumTailOut
    <3>3. Parts(x)' = Parts(x) /\ (InQueue(eNo[x])' <=> InQueue(eNo[x]))
      BY <3>2, <1>1, <1>2, <1>3, <1>5 DEF Parts, InQueue
    <3>4. PhaseAt(x)'
      BY <3>3, <2>6, <1>2, <1>5 DEF IInv, PhaseInv, PhaseAt, Phase
    <3>5. setup.wait => SparesAt(x)'
      BY <2>6, <1>2, <1>5 DEF IInv, WaitInv, SparesAt
    <3>. QED
      BY <3>4, <3>5
  <2>8. KeptOk(a, i, x, More[x], ch)
    BY <1>4, <2>4, <2>5, <2>7 DEF KeptOk
  <2>. QED
    BY <1>0, <1>4, <2>3, <2>8, KeptStep
<1>7. CASE ~setup.ext
  <2>1. setup.wait
    BY <1>t, <1>7 DEF Types, Premises
  <2>2. ch \in held
    <3>1. ReleaseAt(1)
      BY <2>1, <1>1 DEF IInv, WaitInv
    <3>. QED
      BY <3>1, <1>1, <1>4 DEF ReleaseAt
  <2>3. FlowControlIdTable[ch] = i
    BY <2>2, <1>3, <1>4, <1>7 DEF IInv, PlainInv
  <2>b. ~FlowControlSkipTable[ch]
    BY <2>2, <1>7 DEF IInv, PlainInv
  <2>4. "NO_RC_CANCELLING" \notin flags[s]
    BY <1>7 DEF IInv, FlowInv
  <2>5. SparesAt(x)
    BY <2>1 DEF IInv, WaitInv
  <2>6. /\ More' = [More EXCEPT ![x] = IF ch = Req[x].ch THEN Clr(More[x] - XMOREC(More[x]), XBUSY)
                                                         ELSE More[x]]
        /\ held' = held \ {ch}
    BY <2>3, <2>b, <2>4, <1>4, <1>7, KeptShape
  <2>7. /\ FlowControlIdTable' = [FlowControlIdTable EXCEPT ![ch] = 0]
        /\ flags' = [flags EXCEPT ![s] = flags[s]]
    BY <2>3, <2>b, <2>4, <1>4, <1>7, KeptShape
  <2>c. FlowControlSkipTable' = FlowControlSkipTable
    BY <2>3, <2>b, <2>4, <1>4, <1>7, KeptShape
  <2>8. More' = [More EXCEPT ![x] = More[x]]
    <3>1. ch = Req[x].ch => More[x] = 32
      BY <2>2, <2>5, <1>3 DEF SparesAt
    <3>2. More[x] = 32 => Clr(More[x] - XMOREC(More[x]), XBUSY) = More[x]
      BY IdleByte, Zenon
    <3>. QED
      BY <3>1, <3>2, <2>6
  <2>9. More'[x] = More[x]
    BY <1>t, <2>8 DEF Types
  <2>10. KeptRc(i, s, x, More[x], flags[s], ch)
    <3>1. Booleans
      BY <2>c, KeptBooleans DEF IInv, CodeTypes
    <3>2. flags[s] = {}
      <4>1. flags[s] \subseteq {"REMOVE_PENDING", "NO_RC_CANCELLING"}
        BY <1>t DEF Types
      <4>. QED
        BY <4>1, <2>4
    <3>3. More[x] \in 0 .. 255 /\ held' \subseteq Ch /\ FlowControlIdTable' \in [Ch -> Id \cup {0}]
      BY <1>t, <2>6, <2>7 DEF Types
    <3>4. More[x] <= More[x]
      BY <3>3
    <3>5. /\ FlowControlIdTable'[ch] \in {0, i}
          /\ \A c \in Ch : c # ch => /\ FlowControlIdTable'[c] = FlowControlIdTable[c]
                                     /\ c \in held' <=> c \in held
      BY <1>t, <2>6, <2>7 DEF Types
    <3>. QED
      BY <3>1, <3>2, <3>3, <3>4, <3>5, <2>7, <2>8, <1>4, <1>5 DEF KeptRc
  <2>11. PlainInv'
    <3>1. \A c \in Ch : /\ c \in held' <=> FlowControlIdTable'[c] # 0
                        /\ c \in held' => c \in held
      BY <1>t, <1>7, <2>6, <2>7 DEF IInv, PlainInv, Types
    <3>. QED
      BY <3>1, <2>c, <1>7 DEF IInv, PlainInv
  <2>12. PhaseAt(x)' /\ (setup.wait => SparesAt(x)')
    <3>1. a \notin AnswersOf(i)
      BY DEF AnswersOf, IsRelease
    <3>2. Num(Answers', AnswersOf(i)) = Num(Answers, AnswersOf(i))
      BY <3>1, <1>t, <1>1, Typed, NumTailOut
    <3>3. Parts(x)' = Parts(x) /\ (InQueue(eNo[x])' <=> InQueue(eNo[x]))
      BY <3>2, <1>1, <1>2, <1>3, <1>5 DEF Parts, InQueue
    <3>4. PhaseAt(x)'
      BY <3>3, <2>9, <1>2, <1>5 DEF IInv, PhaseInv, PhaseAt, Phase
    <3>5. SparesAt(x)'
      BY <2>5, <2>6, <2>9, <1>2, <1>5 DEF SparesAt
    <3>. QED
      BY <3>4, <3>5
  <2>13. KeptOk(a, i, x, More[x], ch)
    BY <1>4, <1>7, <2>11, <2>12 DEF KeptOk
  <2>. QED
    BY <1>0, <1>4, <2>10, <2>13, KeptStep
<1>. QED
  BY <1>6, <1>7

\* A plain return code: one part less to come, and the request is done with
\* the last.
LEMMA RcPlainStep ==
  ASSUME Premises, IInv, RcKnown, NEW a, a = r, NEW i \in Id, NEW s \in Slot, NEW x \in Entity,
         KnownAt(a, i, s, x), "REMOVE_PENDING" \notin flags[s], a.rc = "OK", a.type = "none"
  PROVE  IInv'
<1>t. Types
  BY DEF IInv, CodeTypes
<1>0. TakeRc
  BY DEF RcKnown
<1>1. /\ a \in RetCodes /\ 1 \in DOMAIN Answers /\ Answers[1] = a /\ Asked' = Asked
      /\ Head(Answers) = a /\ Answers # <<>> /\ Answers' = Tail(Answers)
      /\ \A k \in DOMAIN Answers' :
           k \in Nat /\ k >= 1 /\ k + 1 \in DOMAIN Answers /\ Answers'[k] = Answers[k + 1]
      /\ \A k \in DOMAIN Answers : /\ k \in Nat /\ k >= 1
                                   /\ k # 1 => /\ k - 1 \in DOMAIN Answers'
                                               /\ Answers'[k - 1] = Answers[k]
  BY <1>0, TakeRcShape
<1>2. /\ eNo' = eNo /\ Req' = Req /\ queue' = queue /\ cardFc' = cardFc /\ setup' = setup
  BY <1>0, TakeRcShape
<1>3. /\ i = a.id /\ Live(i) /\ s = IdTable[i] /\ x = Owner(i) /\ x = e_tbl[s]
      /\ eId[x] = i /\ eNo[x] = s /\ i # 0
      /\ \A c \in Ch : FlowControlIdTable[c] # 0 => (FlowControlIdTable[c] = i <=> c[1] = x)
      /\ \A k \in DOMAIN Answers : Answers[k].id = i => Answers[k].rc \in {"OK", "OK_FC"}
  BY DEF KnownAt
<1>4. a.ch = Req[x].ch /\ More[x] >= 80
  <2>1. AnswerAt(1)
    BY <1>1 DEF IInv, AnswersInv
  <2>. QED
    BY <2>1, <1>1, <1>3 DEF AnswerAt
<1>5. PICK ch \in Ch : ch = a.ch /\ ch[1] = x
  BY <1>3, <1>4, Phases DEF Ch
<1>6. PICK p \in Nat : /\ p = Num(Asked, ReqsOf(i)) + Num(Answers', AnswersOf(i))
                       /\ Parts(x) = p + 1
  <2>1. a \in AnswersOf(i)
    BY <1>1, <1>3 DEF AnswersOf
  <2>2. Num(Answers, AnswersOf(i)) = Num(Answers', AnswersOf(i)) + 1
    BY <2>1, <1>t, <1>1, Typed, NumTailIn
  <2>3. Answers' \in Seq(RetCodes)
    BY <1>t, <1>1, Typed
  <2>4. Num(Asked, ReqsOf(i)) \in Nat /\ Num(Answers', AnswersOf(i)) \in Nat
    BY <2>3, <1>t, Typed, NumNat
  <2>. QED
    BY <2>2, <2>4, <1>3 DEF Parts
<1>7. \/ /\ More[x] = 81 + p /\ p + 1 \in 0 .. 14 /\ InQueue(eNo[x]) /\ Req[x].code = "DATA"
         /\ Req[x].left >= 1 /\ p + Req[x].left <= MaxFrag
      \/ /\ More[x] = 97 + p /\ p + 1 \in 1 .. 15 /\ p + 1 <= MaxFrag /\ ~InQueue(eNo[x])
         /\ (Req[x].code # "DATA" => p = 0)
  <2>1. Phase(x) /\ Req[x] \in Requests /\ MaxFrag \in Nat /\ MaxFrag <= 15
    BY <1>3, Phases, XdiAssumption DEF Premises
  <2>2. Req[x].left \in Nat
    BY <2>1 DEF Requests
  <2>. QED
    BY <2>1, <2>2, <1>4, <1>6 DEF Phase
<1>8. ~("NO_RC_CANCELLING" \notin flags[s] /\ FlowControlIdTable[ch] = i)
  <2>1. CASE setup.ext
    <3>1. LabelAt(ch)
      BY <2>1 DEF IInv, LabelInv
    <3>2. ASSUME NEW n \in DOMAIN Answers
          PROVE  ~(n < 1)
      <4>1. n \in Nat /\ n >= 1
        BY <1>1
      <4>. QED
        BY <4>1
    <3>. QED
      BY <3>1, <3>2, <1>1, <1>3, <1>5 DEF LabelAt
  <2>2. CASE ~setup.ext
    <3>1. setup.wait
      BY <1>t, <2>2 DEF Types, Premises
    <3>2. More[x] # 32
      BY <1>6, <1>7
    <3>3. ch \notin held
      BY <3>1, <3>2, <1>3, <1>4, <1>5 DEF IInv, WaitInv, SparesAt
    <3>. QED
      BY <3>3, <2>2, <1>3 DEF IInv, PlainInv
  <2>. QED
    BY <2>1, <2>2
<1>9. PICK m : /\ More' = [More EXCEPT ![x] = m]
               /\ \/ More[x] = 81 + p /\ m = 80 + p /\ held' = held
                  \/ More[x] = 97 + p /\ p > 0 /\ m = 96 + p /\ held' = held
                  \/ More[x] = 97 /\ p = 0 /\ m = 32 /\ held' = held \ {ch}
  <2>. DEFINE dec == IF XMOREC(More[x]) > 0 THEN More[x] - 1 ELSE More[x]
              done == /\ "NO_RC_CANCELLING" \in flags[s] \/ Has(dec, XMOREF)
                      /\ XMOREC(dec) = 0 /\ ~Has(dec, XMOREP)
  <2>1. More' = [More EXCEPT ![x] = IF done THEN Clr(dec, XBUSY) ELSE dec]
    BY <1>5, <1>8, KeptShape
  <2>2. held' = IF done THEN held \ {ch} ELSE held
    BY <1>5, <1>8, KeptShape
  <2>3. CASE More[x] = 81 + p /\ p + 1 \in 0 .. 14
    <3>1. p \in 0 .. 15 /\ p + 1 \in 0 .. 15 /\ 80 + (p + 1) = 81 + p
      BY <2>3, <1>6
    <3>2. XMOREC(81 + p) = p + 1
      BY <3>1, PartByte
    <3>3. dec = 80 + p
      BY <3>1, <3>2, <2>3
    <3>4. Has(80 + p, XMOREP)
      BY <3>1, PartByte
    <3>5. ~done
      BY <3>3, <3>4
    <3>. QED
      BY <3>3, <3>5, <2>1, <2>2, <2>3
  <2>4. CASE More[x] = 97 + p /\ p + 1 \in 1 .. 15
    <3>1. p \in 0 .. 15 /\ p + 1 \in 0 .. 15 /\ 96 + (p + 1) = 97 + p
      BY <2>4, <1>6
    <3>2. XMOREC(97 + p) = p + 1
      BY <3>1, SentByte
    <3>3. dec = 96 + p
      BY <3>1, <3>2, <2>4
    <3>4. /\ XMOREC(96 + p) = p /\ Has(96 + p, XMOREF) /\ ~Has(96 + p, XMOREP)
          /\ Clr(96, XBUSY) = 32
      BY <3>1, SentByte
    <3>5. CASE p = 0
      <4>1. dec = 96 /\ done
        BY <3>3, <3>4, <3>5
      <4>2. Clr(dec, XBUSY) = 32
        BY <4>1, <3>4, Zenon
      <4>. HIDE DEF dec, done
      <4>3. More' = [More EXCEPT ![x] = 32] /\ held' = held \ {ch}
        BY <4>1, <4>2, <2>1, <2>2, Zenon
      <4>4. More[x] = 97
        BY <3>5, <2>4
      <4>. QED
        BY <4>3, <4>4, <3>5, Zenon
    <3>6. CASE p # 0
      <4>1. ~done
        BY <3>3, <3>4, <3>6
      <4>. HIDE DEF dec, done
      <4>2. More' = [More EXCEPT ![x] = 96 + p] /\ held' = held
        BY <4>1, <3>3, <2>1, <2>2, Zenon
      <4>3. p > 0
        BY <3>1, <3>6
      <4>. QED
        BY <4>2, <4>3, <2>4, Zenon
    <3>. QED
      BY <3>5, <3>6
  <2>. QED
    BY <2>3, <2>4, <1>7
<1>10. /\ UNCHANGED <<e_tbl, IdTable, eId, pc, failed, ReadyInt>>
       /\ RcExtensionSupported' => setup.ext
       /\ FlowControlIdTable' = FlowControlIdTable
       /\ flags' = [flags EXCEPT ![s] = flags[s]]
  <2>1. UNCHANGED <<e_tbl, IdTable, eId, pc, failed, ReadyInt>>
    BY KeptShape
  <2>2. RcExtensionSupported' => setup.ext
    BY KeptShape
  <2>3. FlowControlIdTable' = FlowControlIdTable
    BY <1>5, <1>8, KeptShape
  <2>4. flags' = [flags EXCEPT ![s] = flags[s]]
    BY <1>5, <1>8, KeptShape
  <2>. QED
    BY <2>1, <2>2, <2>3, <2>4
<1>b. FlowControlSkipTable' = FlowControlSkipTable
  BY <1>5, <1>8, KeptShape
<1>11. /\ More'[x] = m /\ flags'[s] = flags[s] /\ m \in 0 .. 255 /\ m <= More[x]
       /\ held' \subseteq held /\ (\A c \in held : c # ch => c \in held')
       /\ (m # 32 => held' = held) /\ More[x] # 32
  <2>1. p \in 0 .. 14
    BY <1>6, <1>7
  <2>2. m \in 0 .. 255 /\ m <= More[x] /\ More[x] # 32
    BY <2>1, <1>9
  <2>3. More'[x] = m /\ flags'[s] = flags[s]
    BY <1>t, <1>9, <1>10 DEF Types
  <2>4. /\ held' \subseteq held /\ (\A c \in held : c # ch => c \in held')
        /\ (m # 32 => held' = held)
    BY <1>9
  <2>. QED
    BY <2>2, <2>3, <2>4
<1>12. setup.wait => ch \notin held /\ held' = held
  <2>1. setup.wait => ch \notin held
    BY <1>3, <1>4, <1>5, <1>11 DEF IInv, WaitInv, SparesAt
  <2>. QED
    BY <2>1, <1>9
<1>13. KeptRc(i, s, x, m, flags[s], ch)
  <2>1. Booleans
    BY <1>b, KeptBooleans DEF IInv, CodeTypes
  <2>2. flags[s] \subseteq {"NO_RC_CANCELLING"} /\ (flags[s] # {} => setup.ext)
    <3>1. flags[s] \subseteq {"REMOVE_PENDING", "NO_RC_CANCELLING"}
      BY <1>t DEF Types
    <3>2. "NO_RC_CANCELLING" \in flags[s] => setup.ext
      BY DEF IInv, FlowInv
    <3>. QED
      BY <3>1, <3>2
  <2>3. /\ held' \subseteq Ch /\ FlowControlIdTable' \in [Ch -> Id \cup {0}]
        /\ FlowControlIdTable'[ch] \in {0, i}
    BY <1>t, <1>3, <1>5, <1>10, <1>11 DEF Types
  <2>. QED
    BY <2>1, <2>2, <2>3, <1>5, <1>9, <1>10, <1>11 DEF KeptRc
<1>14. PlainInv'
  <2>1. ~setup.ext => held' = held
    BY <1>t, <1>12 DEF Types, Premises
  <2>. QED
    BY <2>1, <1>2, <1>10, <1>b DEF IInv, PlainInv
<1>15. PhaseAt(x)' /\ (setup.wait => SparesAt(x)')
  <2>1. Parts(x)' = p /\ (InQueue(eNo[x])' <=> InQueue(eNo[x]))
    BY <1>1, <1>2, <1>3, <1>6, <1>10 DEF Parts, InQueue
  <2>2. Req[x].code \notin {"UREMOVE", "ASSIGN"} /\ Req[x].ch \in {x} \X (1 .. NumCh)
    BY <1>3, <1>11 DEF IInv, PhaseInv, PhaseAt
  <2>3. MaxFrag \in Nat
    BY XdiAssumption
  <2>4. Phase(x)'
    BY <2>1, <2>3, <1>2, <1>6, <1>7, <1>9, <1>11 DEF Phase
  <2>5. PhaseAt(x)'
    BY <2>2, <2>4, <1>2 DEF PhaseAt
  <2>6. setup.wait => SparesAt(x)'
    BY <1>2, <1>3, <1>10, <1>11, <1>12 DEF IInv, WaitInv, SparesAt
  <2>. QED
    BY <2>5, <2>6
<1>16. ASSUME setup.ext, NEW c \in Ch, c[1] = x
       PROVE  LabelAt(c)'
  <2>. SUFFICES ASSUME FlowControlIdTable[c] # 0, "NO_RC_CANCELLING" \notin flags[s]
                PROVE  LabelAt(c)'
    BY <1>3, <1>10, <1>11, <1>16 DEF LabelAt
  <2>1. FlowControlIdTable[c] = i /\ c # ch /\ LabelAt(c)
    BY <1>3, <1>8, <1>16 DEF IInv, LabelInv
  <2>2. \A n \in DOMAIN Answers : Released(n, i) =>
          n - 1 \in DOMAIN Answers' /\ Released(n - 1, i)' /\ n \in Nat
    BY <1>1 DEF Released
  <2>3. ASSUME NEW k \in DOMAIN Answers', Answers'[k].id = i, Answers'[k].ch = c,
               Answers'[k].rc = "OK", Answers'[k].type = "none"
        PROVE  \E n \in DOMAIN Answers' : n < k /\ Released(n, i)'
    <3>1. k + 1 \in DOMAIN Answers /\ Answers'[k] = Answers[k + 1] /\ k \in Nat
      BY <1>1
    <3>2. PICK n \in DOMAIN Answers : n < k + 1 /\ Released(n, i)
      BY <3>1, <2>1, <2>3, <1>3 DEF LabelAt
    <3>3. n - 1 < k
      BY <3>1, <3>2, <2>2
    <3>. QED
      BY <2>2, <3>2, <3>3
  <2>4. /\ c \in held' /\ (More'[x] # 32 /\ Req'[x].ch = c => Req'[x].code # "DATA")
        /\ \/ "REMOVE_PENDING" \in flags'[s] \/ <<i, c>> \in cardFc'
           \/ \E n \in DOMAIN Answers' : Released(n, i)'
    BY <2>1, <2>2, <1>2, <1>3, <1>11, <1>16 DEF LabelAt
  <2>. QED
    BY <2>1, <2>3, <2>4, <1>3, <1>10, <1>16 DEF LabelAt
<1>17. ASSUME \/ \E k \in DOMAIN Asked : Asked[k].id = i
              \/ \E k \in DOMAIN Answers' : Answers'[k].id = i /\ ~IsRelease(Answers'[k])
       PROVE  (More[x] >= 80 => m >= 80) /\ (More[x] >= 96 => m >= 96)
  <2>0. Answers' \in Seq(RetCodes)
    BY <1>t, <1>1, Typed
  <2>1. Num(Asked, ReqsOf(i)) \in Nat /\ Num(Answers', AnswersOf(i)) \in Nat
    BY <2>0, <1>t, Typed, NumNat
  <2>m. p # 0 => (More[x] >= 80 => m >= 80) /\ (More[x] >= 96 => m >= 96)
    BY <1>6, <1>7, <1>9
  <2>2. CASE \E k \in DOMAIN Asked : Asked[k].id = i
    <3>1. Num(Asked, ReqsOf(i)) # 0
      BY <2>2, <1>t, Typed, NumZero DEF ReqsOf
    <3>. QED
      BY <3>1, <2>1, <2>m, <1>6
  <2>3. CASE \E k \in DOMAIN Answers' : Answers'[k].id = i /\ ~IsRelease(Answers'[k])
    <3>1. PICK k \in DOMAIN Answers' : Answers'[k].id = i /\ ~IsRelease(Answers'[k])
      BY <2>3
    <3>2. Answers'[k].rc \in {"OK", "OK_FC"} /\ Answers'[k] \in RetCodes
      BY <3>1, <1>1, <1>3, <2>0
    <3>3. Answers'[k] \in AnswersOf(i)
      BY <3>1, <3>2 DEF AnswersOf, IsRelease
    <3>4. Num(Answers', AnswersOf(i)) # 0
      BY <3>3, <2>0, NumZero
    <3>. QED
      BY <3>4, <2>1, <2>m, <1>6
  <2>. QED
    BY <2>2, <2>3, <1>17
<1>18. KeptOk(a, i, x, m, ch)
  BY <1>12, <1>14, <1>15, <1>16, <1>17 DEF KeptOk
<1>. QED
  BY <1>0, <1>5, <1>13, <1>18, KeptStep

\* The return code that ends a REMOVE: the entity x, its slot s and its Id i are
\* forgotten, and its channels with them.
Freed(i, s, x) ==
  /\ UNCHANGED <<pc, failed, ReadyInt>>
  /\ e_tbl' = [e_tbl EXCEPT ![s] = NULL] /\ IdTable' = [IdTable EXCEPT ![i] = 0]
  /\ eId' = [eId EXCEPT ![x] = 0] /\ FlowControlIdTable' = DropFlowControl(i)
  /\ held' = {c \in held : c[1] # x}
  /\ \E m \in {32, 97} : More' = [More EXCEPT ![x] = m]
  /\ \E F \in SUBSET {"NO_RC_CANCELLING"} :
       flags' = [flags EXCEPT ![s] = F] /\ (F # {} => setup.ext)

\* All that is under way for the entity is its REMOVE.
LEMMA LastPart ==
  ASSUME IInv, NEW i \in Id, NEW x \in Entity, eId[x] = i, i # 0, Req[x].code = "REMOVE",
         More[x] >= 96
  PROVE  More[x] = 97 /\ ~InQueue(eNo[x]) /\ Parts(x) = 1
<1>1. Phase(x) /\ Parts(x) \in Nat
  BY Phases
<1>. QED
  BY <1>1 DEF Phase

LEMMA RemoveShape ==
  ASSUME Premises, IInv, RcKnown, NEW a, a = r, NEW i \in Id, NEW s \in Slot, NEW x \in Entity,
         KnownAt(a, i, s, x), "REMOVE_PENDING" \in flags[s], a.rc = "OK"
  PROVE  Freed(i, s, x)
<1>1. rcSlot = s /\ e_tbl[s] = x /\ r.id = i /\ r = a /\ RemoveRc /\ i # 0 /\ i = a.id /\ Live(i)
  BY DEF KnownAt, RemoveRc
<1>2. More[x] = 97
  BY LastPart DEF KnownAt
<1>3. XMOREC(97) = 1 /\ XMOREC(96) = 0 /\ Has(96, XMOREF) /\ ~Has(96, XMOREP) /\ Clr(96, XBUSY) = 32
  <2>1. 1 \in 0 .. 15 /\ 96 + 1 = 97 /\ 0 \in 0 .. 15 /\ 96 + 0 = 96
    OBVIOUS
  <2>. QED
    BY <2>1, SentByte
<1>4. XMOREC(More[x]) = 1
  BY <1>2, <1>3, Zenon
<1>5. 0 # i /\ \A c \in Ch : DropFlowControl(i)[c] # i
  BY <1>1 DEF DropFlowControl
<1>6. /\ UNCHANGED <<pc, failed, ReadyInt>>
      /\ e_tbl' = [e_tbl EXCEPT ![s] = NULL] /\ IdTable' = [IdTable EXCEPT ![i] = 0]
      /\ eId' = [eId EXCEPT ![x] = 0]
  BY <1>1 DEF RcKnown
<1>7. CASE a.type = "OK_FC"
  <2>1. More' = [More EXCEPT ![x] = IF XMOREC(More[x]) > 1 THEN More[x] - XMOREC(More[x]) + 1
                                                           ELSE More[x]]
    BY <1>1, <1>7 DEF RcKnown
  <2>2. /\ held' = held \ {c \in held : c[1] = x} /\ FlowControlIdTable' = DropFlowControl(i)
        /\ flags' = [flags EXCEPT ![s] = {} \cup {"NO_RC_CANCELLING"}]
    BY <1>1, <1>7 DEF RcKnown
  <2>3. More' = [More EXCEPT ![x] = 97]
    <3>1. (IF XMOREC(More[x]) > 1 THEN More[x] - XMOREC(More[x]) + 1 ELSE More[x]) = 97
      BY <1>2, <1>4
    <3>. QED
      BY <3>1, <2>1, Zenon
  <2>4. setup.ext
    <3>0. TakeRc
      BY DEF RcKnown
    <3>1. Answers[1] = a /\ 1 \in DOMAIN Answers
      BY <3>0, TakeRcShape
    <3>2. OwnRelease(1)
      BY <3>1 DEF IInv, FlowInv
    <3>. QED
      BY <3>1, <3>2, <1>7 DEF OwnRelease, IsRelease
  <2>5. held' = {c \in held : c[1] # x} /\ flags' = [flags EXCEPT ![s] = {"NO_RC_CANCELLING"}]
    BY <2>2
  <2>. QED
    BY <2>2, <2>3, <2>4, <2>5, <1>6 DEF Freed
<1>8. CASE a.type # "OK_FC"
  <2>. DEFINE m == IF XMOREC(More[x]) > 1 THEN More[x] - XMOREC(More[x]) + 1 ELSE More[x]
              dec == IF XMOREC(m) > 0 THEN m - 1 ELSE m
              done == Has(dec, XMOREF) /\ XMOREC(dec) = 0 /\ ~Has(dec, XMOREP)
  <2>1. ~(r.ch \in Ch /\ DropFlowControl(r.id)[r.ch] = r.id)
    BY <1>1, <1>5
  <2>2. /\ More' = [More EXCEPT ![x] = IF done THEN Clr(dec, XBUSY) ELSE dec]
        /\ held' = IF done THEN held \ {c \in held : c[1] = x} ELSE held
    BY <2>1, <1>1, <1>8 DEF RcKnown
  <2>3. /\ FlowControlIdTable' = DropFlowControl(i) /\ flags' = [flags EXCEPT ![s] = {}]
    BY <2>1, <1>1, <1>8 DEF RcKnown
  <2>4. m = 97
    BY <1>2, <1>4
  <2>5. dec = 96
    <3>. HIDE DEF m
    <3>1. XMOREC(m) = 1
      BY <2>4, <1>3, Zenon
    <3>. QED
      BY <2>4, <3>1
  <2>6. done /\ Clr(dec, XBUSY) = 32
    <3>. HIDE DEF dec
    <3>. QED
      BY <2>5, <1>3, Zenon
  <2>. HIDE DEF m, dec, done
  <2>7. More' = [More EXCEPT ![x] = 32] /\ held' = held \ {c \in held : c[1] = x}
    BY <2>2, <2>6, Zenon
  <2>8. held' = {c \in held : c[1] # x}
    BY <2>7
  <2>. QED
    BY <2>3, <2>7, <2>8, <1>6 DEF Freed
<1>. QED
  BY <1>7, <1>8

LEMMA RcRemoveStep ==
  ASSUME Premises, IInv, RcKnown, NEW a, a = r, NEW i \in Id, NEW s \in Slot, NEW x \in Entity,
         KnownAt(a, i, s, x), "REMOVE_PENDING" \in flags[s], a.rc = "OK"
  PROVE  IInv'
<1>t. Types
  BY DEF IInv, CodeTypes
<1>0. TakeRc
  BY DEF RcKnown
<1>1. /\ a \in RetCodes /\ 1 \in DOMAIN Answers /\ Answers[1] = a /\ Asked' = Asked
      /\ Head(Answers) = a /\ Answers # <<>> /\ Answers' = Tail(Answers) /\ pc = "rc"
      /\ \A k \in DOMAIN Answers' :
           k \in Nat /\ k >= 1 /\ k + 1 \in DOMAIN Answers /\ Answers'[k] = Answers[k + 1]
      /\ \A k \in DOMAIN Answers : /\ k \in Nat /\ k >= 1
                                   /\ k # 1 => /\ k - 1 \in DOMAIN Answers'
                                               /\ Answers'[k - 1] = Answers[k]
  BY <1>0, TakeRcShape
<1>2. UNCHANGED <<eNo, Req, queue, ReadyCount, filled, this, ReqMem, cardRc, cardIds, cardFc,
                  cardReadyInt, setup>> /\ RcMem' \in Seq(RetCodes) /\ failed = 0
  BY <1>0, TakeRcShape
<1>3. /\ i = a.id /\ Live(i) /\ s = IdTable[i] /\ x = Owner(i) /\ x = e_tbl[s]
      /\ eId[x] = i /\ eNo[x] = s /\ i # 0 /\ Req[x].code = "REMOVE" /\ More[x] >= 96
      /\ \A j \in Id : j # i /\ Live(j) => Owner(j) # x /\ IdTable[j] # s
      /\ \A c \in Ch : FlowControlIdTable[c] # 0 => (FlowControlIdTable[c] = i <=> c[1] = x)
  BY DEF KnownAt
<1>4. ~InQueue(s) /\ Parts(x) = 1
  BY <1>3, LastPart
<1>f. Freed(i, s, x)
  BY RemoveShape
<1>5. /\ UNCHANGED <<pc, failed, ReadyInt>>
      /\ e_tbl' = [e_tbl EXCEPT ![s] = NULL] /\ IdTable' = [IdTable EXCEPT ![i] = 0]
      /\ eId' = [eId EXCEPT ![x] = 0] /\ FlowControlIdTable' = DropFlowControl(i)
      /\ held' = {c \in held : c[1] # x}
  BY <1>f DEF Freed
<1>6. PICK m \in {32, 97} : More' = [More EXCEPT ![x] = m]
  BY <1>f DEF Freed
<1>7. PICK F \in SUBSET {"NO_RC_CANCELLING"} :
        flags' = [flags EXCEPT ![s] = F] /\ (F # {} => setup.ext)
  BY <1>f, Zenon DEF Freed
<1>8. /\ e_tbl'[s] = NULL /\ \A t \in Slot : t # s => e_tbl'[t] = e_tbl[t]
      /\ ~Live(i)' /\ \A j \in Id : j # i => IdTable'[j] = IdTable[j]
      /\ eId'[x] = 0 /\ \A y \in Entity : y # x => eId'[y] = eId[y] /\ More'[y] = More[y]
      /\ flags'[s] = F /\ \A t \in Slot : t # s => flags'[t] = flags[t]
      /\ \A c \in Ch : FlowControlIdTable'[c] = IF c[1] = x THEN 0 ELSE FlowControlIdTable[c]
      /\ \A c \in Ch : c \in held' <=> c \in held /\ c[1] # x
  <2>1. e_tbl'[s] = NULL /\ \A t \in Slot : t # s => e_tbl'[t] = e_tbl[t]
    BY <1>t, <1>5 DEF Types
  <2>2. ~Live(i)' /\ \A j \in Id : j # i => IdTable'[j] = IdTable[j]
    BY <1>t, <1>5 DEF Types, Live
  <2>3. eId'[x] = 0 /\ \A y \in Entity : y # x => eId'[y] = eId[y] /\ More'[y] = More[y]
    BY <1>t, <1>5, <1>6 DEF Types
  <2>4. flags'[s] = F /\ \A t \in Slot : t # s => flags'[t] = flags[t]
    BY <1>t, <1>7 DEF Types
  <2>5. \A c \in Ch : FlowControlIdTable'[c] = IF c[1] = x THEN 0 ELSE FlowControlIdTable[c]
    BY <1>t, <1>3, <1>5 DEF DropFlowControl
  <2>6. \A c \in Ch : c \in held' <=> c \in held /\ c[1] # x
    BY <1>5
  <2>. QED
    BY <2>1, <2>2, <2>3, <2>4, <2>5, <2>6
<1>9. \A t \in Slot : t # s => e_tbl[t] # x
  BY <1>2, <1>3, SlotFacts, Alone
<1>10. Aside(a, x)
  <2>1. ASSUME NEW j \in Id, j # i
        PROVE  Spared(j) /\ (Live(j) => Owner(j) # x)
    <3>1. (Live(j)' <=> Live(j)) /\ IdTable'[j] = IdTable[j]
      BY <2>1, <1>8 DEF Live
    <3>2. Live(j) => IdTable[j] \in Slot /\ IdTable[j] # s /\ Owner(j) \in Entity /\ Owner(j) # x
      BY <2>1, <1>3, Owned
    <3>3. Live(j) => Owner(j)' = Owner(j)
      BY <3>1, <3>2, <1>8 DEF Owner
    <3>. QED
      BY <3>1, <3>2, <3>3, <1>8 DEF Spared
  <2>. QED
    BY <2>1, <1>3, <1>8 DEF Aside
<1>fc. \A n \in DOMAIN Answers : Answers[n].id = i => Answers[n].rc # "OK_FC"
  <2>. SUFFICES ASSUME NEW n \in DOMAIN Answers, Answers[n].id = i
                PROVE  Answers[n].rc # "OK_FC"
    OBVIOUS
  <2>1. AnswerAt(n)
    BY DEF IInv, AnswersInv
  <2>2. Owner(i) = x /\ Req[x].code = "REMOVE"
    BY <1>3
  <2>. QED
    BY <2>1, <2>2 DEF AnswerAt
<1>w. setup.wait => \A c \in Ch : c[1] = x => c \notin held
  <2>1. setup.wait => \A c \in 1 .. NumCh : <<x, c>> \notin held
    BY <1>3 DEF IInv, WaitInv, SparesAt
  <2>. QED
    BY <2>1 DEF Ch
<1>rl. ASSUME setup.wait, NEW k \in DOMAIN Answers, Answers[k].id = i
       PROVE  ~IsRelease(Answers[k])
  <2>1. ReleaseAt(k) /\ OwnRelease(k)
    BY <1>rl DEF IInv, WaitInv, FlowInv
  <2>. SUFFICES ASSUME IsRelease(Answers[k])
                PROVE  FALSE
    OBVIOUS
  <2>2. PICK c : c = Answers[k].ch
    OBVIOUS
  <2>3. c \in Ch /\ c[1] = x
    <3>1. Live(Answers[k].id) /\ Owner(Answers[k].id) = x
      BY <1>3, <1>rl
    <3>. QED
      BY <3>1, <2>1, <2>2 DEF OwnRelease
  <2>4. c \in held \/ \E n \in DOMAIN Answers : IsFc(n, i, c)
    BY <2>1, <2>2, <1>rl DEF ReleaseAt
  <2>5. ~\E n \in DOMAIN Answers : IsFc(n, i, c)
    BY <1>fc DEF IsFc
  <2>. QED
    BY <2>3, <2>4, <2>5, <1>w, <1>rl
<1>cf. ASSUME setup.wait, NEW f \in cardFc
       PROVE  f[1] # i
  <2>1. FcAt(f) /\ OwnFc(f) /\ f[2] \in Ch
    BY <1>t, <1>cf DEF IInv, WaitInv, FlowInv, Types
  <2>. SUFFICES ASSUME f[1] = i
                PROVE  FALSE
    OBVIOUS
  <2>2. f[2] \in Ch /\ f[2][1] = x
    BY <2>1, <1>3 DEF OwnFc
  <2>3. f[2] \in held \/ \E n \in DOMAIN Answers : IsFc(n, i, f[2])
    BY <2>1 DEF FcAt
  <2>4. ~\E n \in DOMAIN Answers : IsFc(n, i, f[2])
    BY <1>fc DEF IsFc
  <2>. QED
    BY <2>2, <2>3, <2>4, <1>w, <1>cf
<1>n. /\ Num(Asked, ReqsOf(i)) \in Nat /\ Num(Answers', AnswersOf(i)) \in Nat
      /\ Num(Asked, ReqsOf(i)) + Num(Answers, AnswersOf(i)) = 1
      /\ ~IsRelease(a) => Num(Answers, AnswersOf(i)) = Num(Answers', AnswersOf(i)) + 1
      /\ Answers' \in Seq(RetCodes)
  <2>1. Answers' \in Seq(RetCodes)
    BY <1>t, <1>1, Typed
  <2>2. Num(Asked, ReqsOf(i)) \in Nat /\ Num(Answers', AnswersOf(i)) \in Nat
    BY <2>1, <1>t, Typed, NumNat
  <2>3. ~IsRelease(a) => a \in AnswersOf(i)
    BY <1>1, <1>3 DEF AnswersOf, IsRelease
  <2>4. ~IsRelease(a) => Num(Answers, AnswersOf(i)) = Num(Answers', AnswersOf(i)) + 1
    BY <2>3, <1>t, <1>1, Typed, NumTailIn
  <2>. QED
    BY <2>1, <2>2, <2>4, <1>3, <1>4 DEF Parts
<1>as. \A k \in DOMAIN Asked : Asked[k].id = i => IsRelease(a)
  <2>1. (\E k \in DOMAIN Asked : Asked[k].id = i) => Num(Asked, ReqsOf(i)) # 0
    BY <1>t, Typed, NumZero DEF ReqsOf
  <2>. QED
    BY <2>1, <1>n
<1>an. \A k \in DOMAIN Answers' : Answers'[k].id = i /\ Answers'[k].rc = "OK" => Answers'[k].type # "none"
  <2>. SUFFICES ASSUME NEW k \in DOMAIN Answers', Answers'[k].id = i, Answers'[k].rc = "OK",
                       Answers'[k].type = "none"
                PROVE  FALSE
    OBVIOUS
  <2>1. AnswerAt(k + 1) /\ Answers'[k] = Answers[k + 1]
    BY <1>1 DEF IInv, AnswersInv
  <2>2. ~setup.ext
    <3>1. Answers[k + 1].id = i /\ Answers[k + 1].rc = "OK" /\ Answers[k + 1].type = "none"
      BY <2>1
    <3>2. Req[Owner(Answers[k + 1].id)].code = "REMOVE" => ~setup.ext
      BY <2>1, <3>1 DEF AnswerAt
    <3>. QED
      BY <3>1, <3>2, <1>3
  <2>3. ~IsRelease(a)
    BY <2>2, <1>t, <1>1, <1>3, <1>rl DEF Types, Premises
  <2>4. Answers'[k] \in AnswersOf(i)
    BY <1>n DEF AnswersOf
  <2>5. Num(Answers', AnswersOf(i)) # 0
    BY <2>4, <1>n, NumZero
  <2>. QED
    BY <2>3, <2>5, <1>n
<1>11. /\ PhaseAt(x)' /\ SparesAt(x)'
       /\ \A c \in Ch : c[1] = x => FlowControlIdTable'[c] = 0 /\ LabelAt(c)'
  BY <1>2, <1>3, <1>8 DEF PhaseAt, SparesAt, LabelAt
<1>12. LiveAt(i)' /\ (i \in cardIds => GoneAt(i)')
  <2>1. LiveAt(i)'
    BY <1>8 DEF LiveAt
  <2>2. ASSUME i \in cardIds
        PROVE  GoneAt(i)'
    <3>1. \/ \E n \in DOMAIN Asked : Asked[n].id = i
          \/ \E n \in DOMAIN Answers : Assigns(n, i)
      BY <2>2, <1>3 DEF IInv, RemoveInv, LiveAt
    <3>2. CASE \E n \in DOMAIN Asked : Asked[n].id = i
      <4>1. ~setup.wait
        BY <3>2, <1>1, <1>3, <1>as, <1>rl
      <4>. QED
        BY <3>2, <4>1, <1>1, <1>2 DEF GoneAt
    <3>3. CASE \E n \in DOMAIN Answers : Assigns(n, i)
      <4>1. PICK n \in DOMAIN Answers : Assigns(n, i)
        BY <3>3
      <4>2. n # 1
        BY <4>1, <1>1 DEF Assigns
      <4>3. n - 1 \in DOMAIN Answers' /\ Assigns(n - 1, i)'
        BY <4>1, <4>2, <1>1 DEF Assigns
      <4>. QED
        BY <4>3 DEF GoneAt
    <3>. QED
      BY <3>1, <3>2, <3>3
  <2>. QED
    BY <2>1, <2>2
<1>13. ASSUME NEW k \in DOMAIN Asked', Asked'[k].id = i
       PROVE  AskedAt(k)'
  <2>1. AskedAt(k) /\ k \in DOMAIN Asked /\ Asked[k].id = i
    BY <1>1, <1>13 DEF IInv, AskedInv
  <2>2. ~setup.wait
    BY <2>1, <1>1, <1>3, <1>as, <1>rl
  <2>3. Asked[k].code = "REMOVE"
    BY <2>1, <1>3 DEF AskedAt
  <2>. QED
    BY <2>1, <2>2, <2>3, <1>1, <1>2, <1>3, <1>8 DEF AskedAt
<1>14. ASSUME NEW k \in DOMAIN Answers', Answers'[k].id = i
       PROVE  AnswerAt(k)' /\ OwnRelease(k)' /\ (setup.wait => ReleaseAt(k)')
  <2>1. /\ AnswerAt(k + 1) /\ OwnRelease(k + 1) /\ Answers'[k] = Answers[k + 1] /\ k \in Nat
        /\ k + 1 \in DOMAIN Answers
    BY <1>1 DEF IInv, AnswersInv, FlowInv
  <2>2. \A n \in DOMAIN Answers' : n > k =>
          n + 1 \in DOMAIN Answers /\ n + 1 > k + 1 /\ Answers'[n] = Answers[n + 1]
    BY <2>1, <1>1
  <2>3. Answers'[k].rc = "ASSIGN_OK" =>
          \A n \in DOMAIN Answers' : n > k => Answers'[n].id # i
    BY <2>1, <2>2, <1>14 DEF AnswerAt
  <2>4. Answers'[k].rc # "OK_FC" /\ ~(Answers'[k].rc = "OK" /\ Answers'[k].type = "none")
    BY <2>1, <1>14, <1>fc, <1>an
  <2>5. Answers'[k].type = "REMOVE_COMPLETE" => setup.ext
    BY <2>1 DEF AnswerAt
  <2>6. Answers'[k].rc = "ASSIGN_OK" => /\ i \in cardIds /\ \A f \in cardFc : f[1] # i
                                        /\ \A n \in DOMAIN Asked : Asked[n].id # i
    BY <2>1, <1>14 DEF AnswerAt
  <2>7. /\ Answers'[k].rc \in {"ASSIGN_BAD", "READY_INT"} <=> Answers'[k].id = 0
        /\ Answers'[k].rc # "OK" => Answers'[k].type = "none"
        /\ Answers'[k].rc \in {"ASSIGN_OK", "ASSIGN_BAD"} => Answers'[k].ref \in Slot
    BY <2>1 DEF AnswerAt
  <2>8. AnswerAt(k)'
    BY <2>3, <2>4, <2>5, <2>6, <2>7, <1>1, <1>2, <1>8, <1>14 DEF AnswerAt
  <2>9. OwnRelease(k)'
    BY <2>1, <1>2, <1>8, <1>14 DEF OwnRelease, IsRelease
  <2>10. setup.wait => ReleaseAt(k)'
    <3>1. setup.wait => ~IsRelease(Answers'[k])
      BY <2>1, <1>14, <1>rl
    <3>. QED
      BY <3>1 DEF ReleaseAt, IsRelease
  <2>. QED
    BY <2>8, <2>9, <2>10
<1>15. ASSUME NEW f \in cardFc, f[1] = i
       PROVE  OwnFc(f)' /\ (setup.wait => FcAt(f)')
  <2>1. OwnFc(f)
    BY DEF IInv, FlowInv
  <2>. QED
    BY <2>1, <1>2, <1>8, <1>15, <1>cf DEF OwnFc
<1>16. ItsOwn(a, x)
  BY <1>3, <1>11, <1>12, <1>13, <1>14, <1>15 DEF ItsOwn
<1>17. CodeTypes'
  <2>1. e_tbl' \in [Slot -> Entity \cup {NULL}] /\ IdTable' \in [Id -> Slot \cup {0}]
    BY <1>t, <1>5 DEF Types
  <2>2. eId' \in [Entity -> Id \cup {0}] /\ More' \in [Entity -> 0 .. 255]
    BY <1>t, <1>5, <1>6 DEF Types
  <2>3. /\ flags' \in [Slot -> SUBSET {"REMOVE_PENDING", "NO_RC_CANCELLING"}]
        /\ FlowControlIdTable' \in [Ch -> Id \cup {0}] /\ held' \in SUBSET Ch
    BY <1>t, <1>5, <1>7 DEF Types, DropFlowControl
  <2>4. UNCHANGED <<pc, failed, ReadyInt>>
    BY <1>5
  <2>5. Types'
    <3>1. /\ eNo' \in [Entity -> Slot \cup {0}] /\ Req' \in [Entity -> Requests]
          /\ queue' \in Seq(Slot) /\ setup' \in Setups
      BY <1>t, <1>2, Zenon DEF Types
    <3>2. /\ ReadyInt' \in {0, 1} /\ failed' \in Slot \cup {0}
          /\ pc' \in {"idle", "rc", "free", "out1", "send1", "clr", "out2", "send2"}
          /\ ReadyCount' \in 0 .. NumReq /\ filled' \in Seq(ReqBufs)
      BY <1>t, <1>2, <2>4, Zenon DEF Types
    <3>3. /\ this' \in Entity \cup {NULL} /\ ReqMem' \in Seq(ReqBufs) /\ RcMem' \in Seq(RetCodes)
          /\ cardRc' \in Seq(RetCodes) /\ cardIds' \in SUBSET Id
          /\ cardFc' \in SUBSET (Id \X Ch) /\ cardReadyInt' \in {0, 1}
      BY <1>t, <1>2, Zenon DEF Types
    <3>. QED
      BY <2>1, <2>2, <2>3, <3>1, <3>2, <3>3, Zenon DEF Types
  <2>6. FlowControlSkipTable' = FlowControlSkipTable
    BY DEF RcKnown
  <2>8. RcExtensionSupported' \in BOOLEAN
    BY DEF RcKnown
  <2>7. soft_isr' = soft_isr /\ irq' = irq
    BY <1>0 DEF TakeRc
  <2>. QED
    BY <2>5, <2>6, <2>7, <2>8, Zenon DEF IInv, CodeTypes
<1>18. Plumbing'
  BY <1>0, <1>1, <1>5, PopPlumbing
<1>19. TableInv'
  <2>1. \A t \in Slot : e_tbl'[t] # NULL => eNo'[e_tbl'[t]] = t
    BY <1>2, <1>8, SlotFacts DEF IInv, TableInv
  <2>2. \A y \in Entity : eId'[y] # 0 =>
          eNo'[y] \in Slot \ {failed'} /\ e_tbl'[eNo'[y]] = y /\ IdTable'[eId'[y]] = eNo'[y]
    <3>. SUFFICES ASSUME NEW y \in Entity, eId'[y] # 0
                  PROVE  eNo'[y] \in Slot \ {failed'} /\ e_tbl'[eNo'[y]] = y
                         /\ IdTable'[eId'[y]] = eNo'[y]
      OBVIOUS
    <3>1. y # x /\ eId'[y] = eId[y]
      BY <1>8
    <3>2. /\ eNo[y] \in Slot \ {failed} /\ e_tbl[eNo[y]] = y /\ IdTable[eId[y]] = eNo[y]
          /\ eId[y] \in Id /\ Owner(eId[y]) = y
      BY <3>1, Alone
    <3>3. eNo[y] # s /\ eId[y] # i
      BY <3>1, <3>2, <1>3
    <3>. QED
      BY <3>1, <3>2, <3>3, <1>2, <1>5, <1>8
  <2>3. \A j \in Id : Live(j)' =>
          IdTable'[j] # failed' /\ Owner(j)' # NULL /\ eId'[Owner(j)'] = j
    <3>. SUFFICES ASSUME NEW j \in Id, Live(j)'
                  PROVE  IdTable'[j] # failed' /\ Owner(j)' # NULL /\ eId'[Owner(j)'] = j
      OBVIOUS
    <3>1. j # i
      BY <1>8
    <3>2. Live(j) /\ IdTable'[j] = IdTable[j] /\ Owner(j)' = Owner(j) /\ Owner(j) # x
      BY <3>1, <1>3, <1>10 DEF Aside, Spared
    <3>3. IdTable[j] # failed /\ Owner(j) \in Entity /\ eId[Owner(j)] = j
      BY <3>2, Owned
    <3>. QED
      BY <3>2, <3>3, <1>5, <1>8, SlotFacts
  <2>. QED
    BY <2>1, <2>2, <2>3, <1>1, <1>2, <1>5 DEF TableInv
<1>20. QueueInv'
  <2>1. \A k \in DOMAIN queue : queue[k] # s /\ queue[k] \in Slot
    BY <1>t, <1>4, Typed DEF InQueue
  <2>. QED
    BY <2>1, <1>2, <1>5, <1>8 DEF IInv, QueueInv
<1>21. AssignInv'
  <2>1. ASSUME NEW t \in Slot
        PROVE  /\ Assigning(t)' <=> Assigning(t)
               /\ Assigning(t) => e_tbl'[t] = e_tbl[t] /\ More'[e_tbl[t]] = More[e_tbl[t]]
    <3>1. e_tbl[t] \in Entity \cup {NULL}
      BY <1>t DEF Types
    <3>. QED
      BY <3>1, <1>2, <1>3, <1>5, <1>8, <1>9 DEF Assigning
  <2>. QED
    BY <2>1, <1>0, PopAssign
<1>22. PlainInv'
  <2>1. FlowControlSkipTable' = FlowControlSkipTable
    BY DEF RcKnown
  <2>. QED
    BY <2>1, <1>2, <1>8 DEF IInv, PlainInv
<1>23. ASSUME NEW t \in Slot
       PROVE  PendingAt(t)' /\ ("NO_RC_CANCELLING" \in flags'[t] => setup.ext)
  <2>1. CASE t = s
    <3>1. "REMOVE_PENDING" \notin F /\ (F # {} => setup.ext) /\ flags'[t] = F
      BY <2>1, <1>7, <1>8
    <3>. QED
      BY <3>1 DEF PendingAt
  <2>2. CASE t # s
    <3>1. e_tbl'[t] = e_tbl[t] /\ flags'[t] = flags[t] /\ e_tbl[t] # x
          /\ e_tbl[t] \in Entity \cup {NULL}
      BY <2>2, <1>t, <1>8, <1>9 DEF Types
    <3>2. PendingAt(t) /\ ("NO_RC_CANCELLING" \in flags[t] => setup.ext)
      BY DEF IInv, RemoveInv, FlowInv
    <3>. QED
      BY <3>1, <3>2, <1>2, <1>8 DEF PendingAt
  <2>. QED
    BY <2>1, <2>2
<1>24. RcExtensionSupported' => setup.ext
  <2>1. AnswerAt(1)
    BY <1>1 DEF IInv, AnswersInv
  <2>2. a.type = "REMOVE_COMPLETE" => setup.ext
    BY <2>1, <1>1 DEF AnswerAt
  <2>3. RcExtensionSupported => setup.ext
    BY DEF IInv, FlowInv
  <2>4. RcExtensionSupported' => RcExtensionSupported \/ a.type = "REMOVE_COMPLETE"
    BY DEF RcKnown
  <2>. QED
    BY <2>2, <2>3, <2>4
<1>25. Overall
  BY <1>17, <1>18, <1>19, <1>20, <1>21, <1>22, <1>23, <1>24 DEF Overall
<1>. QED
  BY <1>0, <1>10, <1>16, <1>25, PopStep

LEMMA RcKnownStep == Premises /\ IInv /\ RcKnown => IInv'
<1>. SUFFICES ASSUME Premises, IInv, RcKnown
              PROVE  IInv'
  OBVIOUS
<1>0. TakeRc /\ r.rc # "READY_INT" /\ rcSlot # 0
  BY DEF RcKnown
<1>1. PICK a : a = r
  OBVIOUS
<1>2. PICK i \in Id, s \in Slot, x \in Entity : KnownAt(a, i, s, x)
  BY <1>0, <1>1, KnownRc
<1>3. a \in RetCodes /\ 1 \in DOMAIN Answers /\ Answers[1] = a
  BY <1>0, <1>1, TakeRcShape
<1>4. /\ a.rc \in {"OK", "OK_FC"} /\ i = a.id /\ x = Owner(i)
      /\ "REMOVE_PENDING" \in flags[s] => Req[x].code = "REMOVE"
      /\ "REMOVE_PENDING" \notin flags[s] => a.type # "REMOVE_COMPLETE"
  BY <1>2, <1>3 DEF KnownAt
<1>5. CASE "REMOVE_PENDING" \in flags[s] /\ a.rc = "OK"
  BY <1>1, <1>2, <1>5, RcRemoveStep
<1>6. "REMOVE_PENDING" \in flags[s] => a.rc = "OK"
  <2>1. AnswerAt(1)
    BY <1>3 DEF IInv, AnswersInv
  <2>. QED
    BY <2>1, <1>3, <1>4 DEF AnswerAt
<1>7. CASE "REMOVE_PENDING" \notin flags[s] /\ a.rc = "OK_FC"
  BY <1>1, <1>2, <1>7, RcFcStep
<1>8. CASE "REMOVE_PENDING" \notin flags[s] /\ a.rc = "OK" /\ IsRelease(a)
  BY <1>1, <1>2, <1>8, RcReleaseStep
<1>9. CASE "REMOVE_PENDING" \notin flags[s] /\ a.rc = "OK" /\ a.type = "none"
  BY <1>1, <1>2, <1>9, RcPlainStep
<1>10. "REMOVE_PENDING" \notin flags[s] => IsRelease(a) \/ a.type = "none"
  BY <1>3, <1>4 DEF RetCodes, IsRelease
<1>. QED
  BY <1>4, <1>5, <1>6, <1>7, <1>8, <1>9, <1>10

-----------------------------------------------------------------------------
(***************************************************************************)
(* The return code of an ASSIGN, and the slot of a failed one.             *)
(***************************************************************************)
LEMMA RcAssignStep == IInv /\ RcAssign => IInv'
<1>. SUFFICES ASSUME IInv, RcAssign
              PROVE  IInv'
  OBVIOUS
<1>t. Types
  BY DEF IInv, CodeTypes
<1>0. TakeRc /\ r.rc \in {"ASSIGN_OK", "ASSIGN_BAD"} /\ rcSlot = 0
  BY DEF RcAssign
<1>1. PICK a : a = r
  OBVIOUS
<1>2. /\ a \in RetCodes /\ 1 \in DOMAIN Answers /\ Answers[1] = a /\ Asked' = Asked
      /\ Head(Answers) = a /\ Answers # <<>> /\ Answers' = Tail(Answers) /\ pc = "rc"
      /\ \A k \in DOMAIN Answers' :
           k \in Nat /\ k >= 1 /\ k + 1 \in DOMAIN Answers /\ Answers'[k] = Answers[k + 1]
  BY <1>0, <1>1, TakeRcShape
<1>3. UNCHANGED <<eNo, Req, queue, ReadyCount, filled, this, ReqMem, cardRc, cardIds, cardFc,
                  cardReadyInt, setup>> /\ RcMem' \in Seq(RetCodes) /\ failed = 0
  BY <1>0, <1>1, TakeRcShape
<1>4. AnswerAt(1)
  BY <1>2 DEF IInv, AnswersInv
<1>5. PICK s \in Slot : s = a.ref
  BY <1>0, <1>1, <1>2, <1>4 DEF AnswerAt
<1>6. /\ Assigning(s) /\ ~InQueue(s) /\ Num(Asked, AssignReqs(s)) = 0
      /\ Num(Answers', AssignRcs(s)) = 0
  <2>1. a \in AssignRcs(s)
    BY <1>0, <1>1, <1>2, <1>5 DEF AssignRcs
  <2>2. Num(Answers, AssignRcs(s)) = Num(Answers', AssignRcs(s)) + 1
    BY <2>1, <1>t, <1>2, Typed, NumTailIn
  <2>3. Answers' \in Seq(RetCodes)
    BY <1>t, <1>2, Typed
  <2>4. Num(Asked, AssignReqs(s)) \in Nat /\ Num(Answers', AssignRcs(s)) \in Nat
    BY <2>3, <1>t, Typed, NumNat
  <2>5. AssignAt(s)
    BY DEF IInv, AssignInv
  <2>6. Num(Asked, AssignReqs(s)) + Num(Answers, AssignRcs(s)) = 0
        \/ (/\ Num(Asked, AssignReqs(s)) + Num(Answers, AssignRcs(s)) = 1
            /\ Assigning(s) /\ ~InQueue(s))
    BY <2>5 DEF AssignAt
  <2>. QED
    BY <2>2, <2>4, <2>6
<1>7. PICK x \in Entity : x = e_tbl[s] /\ eId[x] = 0 /\ eNo[x] = s /\ More[x] = 96
  <2>1. e_tbl[s] \in Entity /\ eId[e_tbl[s]] = 0 /\ eNo[e_tbl[s]] = s
    BY <1>t, <1>6 DEF Assigning, Types, IInv, TableInv
  <2>2. More[e_tbl[s]] = 96
    BY <1>6 DEF IInv, AssignInv, AssignAt
  <2>. QED
    BY <2>1, <2>2
<1>8. a.id \in Id => IdTable[a.id] = 0 /\ ~Live(a.id)
  BY <1>0, <1>1 DEF rcSlot, Live
<1>9. /\ eId' = [eId EXCEPT ![x] = a.id] /\ More' = [More EXCEPT ![x] = 32]
      /\ UNCHANGED <<e_tbl, flags, FlowControlIdTable, ReadyInt, held>>
  <2>1. Clr(96, XBUSY) = 32
    <3>1. 0 \in 0 .. 15
      OBVIOUS
    <3>. QED
      BY <3>1, SentByte
  <2>2. /\ eId' = [eId EXCEPT ![x] = a.id] /\ More' = [More EXCEPT ![x] = Clr(More[x], XBUSY)]
        /\ UNCHANGED <<e_tbl, flags, FlowControlIdTable, ReadyInt, held>>
    BY <1>1, <1>5, <1>7 DEF RcAssign
  <2>3. Clr(More[x], XBUSY) = 32
    BY <2>1, <1>7, Zenon
  <2>. QED
    BY <2>2, <2>3
<1>10. \/ /\ a.rc = "ASSIGN_OK" /\ a.id \in Id /\ a.id # 0 /\ pc' = pc /\ failed' = failed
          /\ IdTable' = [IdTable EXCEPT ![a.id] = s]
       \/ a.rc = "ASSIGN_BAD" /\ a.id = 0 /\ pc' = "free" /\ failed' = s /\ IdTable' = IdTable
  <2>1. a.rc = "ASSIGN_BAD" <=> a.id = 0
    BY <1>0, <1>1, <1>2, <1>4 DEF AnswerAt
  <2>2. a.id \in Id \cup {0}
    BY <1>2 DEF RetCodes
  <2>. QED
    BY <2>1, <2>2, <1>0, <1>1, <1>5 DEF RcAssign
<1>11. /\ eId'[x] = a.id /\ More'[x] = 32
       /\ \A y \in Entity : y # x => eId'[y] = eId[y] /\ More'[y] = More[y]
       /\ \A j \in Id : j # a.id => IdTable'[j] = IdTable[j]
       /\ a.rc = "ASSIGN_OK" => IdTable'[a.id] = s
  BY <1>t, <1>9, <1>10 DEF Types
<1>12. ASSUME NEW j \in Id, Live(j)
       PROVE  /\ j # a.id /\ Owner(j) # x /\ IdTable[j] # s /\ IdTable[j] \in Slot
              /\ Owner(j) \in Entity /\ eId[Owner(j)] = j
  BY <1>7, <1>8, <1>12, Owned, SlotFacts
<1>13. ASSUME NEW j \in Id, j # a.id
       PROVE  /\ Live(j)' <=> Live(j)
              /\ IdTable'[j] = IdTable[j] /\ Owner(j)' = Owner(j)
  BY <1>9, <1>11, <1>13 DEF Live, Owner
<1>14. Aside(a, x)
  <2>1. \A j \in Id : j # a.id => Spared(j) /\ (Live(j) => Owner(j) # x)
    BY <1>9, <1>11, <1>12, <1>13 DEF Spared
  <2>. QED
    BY <2>1, <1>8, <1>9, <1>11 DEF Aside
<1>15. \A c \in Ch : c[1] = x => FlowControlIdTable'[c] = 0
  BY <1>7, <1>9 DEF IInv, FlowInv
<1>16. ItsOwn(a, x)
  <2>1. Req[x].code # "UREMOVE"
    BY DEF IInv, PhaseInv, PhaseAt
  <2>2. \A c \in Ch : c[1] = x => LabelAt(c)'
    BY <1>15 DEF LabelAt
  <2>3. CASE a.rc = "ASSIGN_BAD"
    <3>1. a.id = 0 /\ 0 \notin Id
      BY <2>3, <1>10, SlotFacts
    <3>2. PhaseAt(x)' /\ SparesAt(x)'
      BY <3>1, <2>1, <1>3, <1>11 DEF PhaseAt, SparesAt
    <3>. QED
      BY <3>1, <3>2, <2>2, <1>15 DEF ItsOwn
  <2>4. CASE a.rc = "ASSIGN_OK"
    <3>0. PICK i \in Id : i = a.id
      BY <2>4, <1>10
    <3>1. /\ i \in cardIds /\ \A f \in cardFc : f[1] # i
          /\ \A n \in DOMAIN Answers : n > 1 => Answers[n].id # i
          /\ \A n \in DOMAIN Asked : Asked[n].id # i
      BY <3>0, <2>4, <1>2, <1>4 DEF AnswerAt
    <3>2. \A k \in DOMAIN Answers' : Answers'[k].id # i
      <4>. SUFFICES ASSUME NEW k \in DOMAIN Answers'
                    PROVE  Answers'[k].id # i
        OBVIOUS
      <4>1. k + 1 > 1 /\ k + 1 \in DOMAIN Answers /\ Answers'[k] = Answers[k + 1]
        BY <1>2
      <4>. QED
        BY <4>1, <3>1
    <3>3. Parts(x)' = 0
      <4>1. Num(Asked, ReqsOf(i)) = 0
        BY <3>1, <1>t, Typed, NumZero DEF ReqsOf
      <4>2. Answers' \in Seq(RetCodes)
        BY <1>t, <1>2, Typed
      <4>3. Num(Answers', AnswersOf(i)) = 0
        BY <3>2, <4>2, NumZero DEF AnswersOf
      <4>. QED
        BY <4>1, <4>3, <3>0, <1>2, <1>11 DEF Parts
    <3>4. PhaseAt(x)' /\ SparesAt(x)'
      <4>1. ~InQueue(eNo[x])'
        BY <1>3, <1>6, <1>7 DEF InQueue
      <4>. QED
        BY <4>1, <3>3, <2>1, <1>3, <1>11 DEF PhaseAt, Phase, SparesAt
    <3>5. Live(i)' /\ IdTable'[i] = s /\ Owner(i)' = x
      BY <3>0, <2>4, <1>7, <1>9, <1>11, SlotFacts DEF Live, Owner
    <3>6. "REMOVE_PENDING" \notin flags'[s]
      BY <1>7, <1>9 DEF IInv, RemoveInv, PendingAt
    <3>7. LiveAt(i)' /\ GoneAt(i)'
      BY <3>1, <3>5, <3>6, <1>3, <1>11 DEF LiveAt, GoneAt
    <3>. QED
      BY <3>0, <3>1, <3>2, <3>4, <3>5, <3>7, <2>2, <1>2, <1>15 DEF ItsOwn
  <2>. QED
    BY <2>3, <2>4, <1>0, <1>1
<1>17. CodeTypes'
  <2>1. a.id \in Id \cup {0}
    BY <1>2 DEF RetCodes
  <2>5. eId' \in [Entity -> Id \cup {0}] /\ More' \in [Entity -> 0 .. 255]
    <3>1. eId \in [Entity -> Id \cup {0}] /\ eId' = [eId EXCEPT ![x] = a.id]
      BY <1>t, <1>9 DEF Types
    <3>2. eId' \in [Entity -> Id \cup {0}]
      BY <2>1, <3>1
    <3>3. More \in [Entity -> 0 .. 255] /\ More' = [More EXCEPT ![x] = 32]
      BY <1>t, <1>9 DEF Types
    <3>4. More' \in [Entity -> 0 .. 255]
      BY <3>3
    <3>. QED
      BY <3>2, <3>4
  <2>2. /\ IdTable' \in [Id -> Slot \cup {0}] /\ failed' \in Slot \cup {0}
        /\ pc' \in {"idle", "rc", "free", "out1", "send1", "clr", "out2", "send2"}
    BY <1>t, <1>2, <1>10 DEF Types
  <2>3. Types'
    BY <2>2, <2>5, <1>t, <1>3, <1>9, SMTT(30) DEF Types
  <2>4. UNCHANGED <<FlowControlSkipTable, RcExtensionSupported, soft_isr, irq>>
    BY DEF RcAssign, TakeRc
  <2>. QED
    BY <2>3, <2>4, Zenon DEF IInv, CodeTypes
<1>18. Plumbing'
  BY <1>0, <1>1, <1>2, <1>9, <1>10, PopPlumbing
<1>19. TableInv'
  <2>1. failed' \in {0, s} /\ (failed' # 0 <=> pc' = "free")
    BY <1>2, <1>3, <1>10, SlotFacts
  <2>2. failed' # 0 => e_tbl'[failed'] # NULL
    BY <2>1, <1>7, <1>9, SlotFacts
  <2>3. \A t \in Slot : e_tbl'[t] # NULL => eNo'[e_tbl'[t]] = t
    BY <1>3, <1>9, SlotFacts DEF IInv, TableInv
  <2>4. ASSUME NEW y \in Entity, eId'[y] # 0
        PROVE  eNo'[y] \in Slot \ {failed'} /\ e_tbl'[eNo'[y]] = y /\ IdTable'[eId'[y]] = eNo'[y]
    <3>1. CASE y = x
      <4>1. a.rc = "ASSIGN_OK" /\ failed' = 0
        BY <3>1, <2>4, <1>3, <1>10, <1>11
      <4>. QED
        BY <4>1, <3>1, <1>3, <1>7, <1>9, <1>11, SlotFacts
    <3>2. CASE y # x
      <4>1. eId[y] # 0 /\ eId'[y] = eId[y]
        BY <3>2, <2>4, <1>11
      <4>2. /\ eNo[y] \in Slot /\ e_tbl[eNo[y]] = y /\ IdTable[eId[y]] = eNo[y] /\ eId[y] \in Id
            /\ Live(eId[y])
        BY <4>1, Alone
      <4>3. eNo[y] # s /\ eId[y] # a.id
        BY <4>2, <3>2, <1>7, <1>8
      <4>. QED
        BY <4>1, <4>2, <4>3, <2>1, <1>3, <1>9, <1>11, SlotFacts
    <3>. QED
      BY <3>1, <3>2
  <2>5. ASSUME NEW j \in Id, Live(j)'
        PROVE  IdTable'[j] # failed' /\ Owner(j)' # NULL /\ eId'[Owner(j)'] = j
    <3>1. CASE j = a.id
      <4>1. a.rc = "ASSIGN_OK" /\ failed' = 0
        BY <3>1, <1>3, <1>10, SlotFacts
      <4>2. IdTable'[j] = s /\ Owner(j)' = x
        BY <4>1, <3>1, <1>7, <1>9, <1>11 DEF Owner
      <4>. QED
        BY <4>1, <4>2, <3>1, <1>11, SlotFacts
    <3>2. CASE j # a.id
      <4>1. Live(j) /\ IdTable'[j] = IdTable[j] /\ Owner(j)' = Owner(j)
        BY <3>2, <2>5, <1>13
      <4>. QED
        BY <4>1, <2>1, <1>11, <1>12, SlotFacts
    <3>. QED
      BY <3>1, <3>2
  <2>. QED
    BY <2>1, <2>2, <2>3, <2>4, <2>5 DEF TableInv
<1>20. QueueInv'
  <2>1. \A k \in DOMAIN queue : queue[k] # s /\ queue[k] \in Slot
    BY <1>t, <1>6, Typed DEF InQueue
  <2>2. failed' \in {0, s}
    BY <1>3, <1>10
  <2>. QED
    BY <2>1, <2>2, <1>3, <1>9, SlotFacts DEF IInv, QueueInv
<1>21. AssignInv'
  <2>. SUFFICES ASSUME NEW t \in Slot
                PROVE  AssignAt(t)'
    BY DEF AssignInv
  <2>1. CASE t = s
    <3>1. ~Assigning(s)'
      BY <1>7, <1>9, <1>10, <1>11 DEF Assigning
    <3>. QED
      BY <3>1, <2>1, <1>2, <1>6 DEF AssignAt
  <2>2. CASE t # s
    <3>1. a \notin AssignRcs(t)
      BY <2>2, <1>5 DEF AssignRcs
    <3>2. Num(Answers', AssignRcs(t)) = Num(Answers, AssignRcs(t))
      BY <3>1, <1>t, <1>2, Typed, NumTailOut
    <3>3. e_tbl[t] \in Entity \cup {NULL} /\ e_tbl[t] # x
      BY <2>2, <1>t, <1>3, <1>7, SlotFacts DEF Types, IInv, TableInv
    <3>4. (Assigning(t)' <=> Assigning(t)) /\ (InQueue(t)' <=> InQueue(t))
      BY <3>3, <2>2, <1>3, <1>9, <1>10, <1>11, SlotFacts DEF Assigning, InQueue
    <3>5. Assigning(t) => More'[e_tbl'[t]] = More[e_tbl[t]] /\ Req'[e_tbl'[t]] = Req[e_tbl[t]]
      BY <3>3, <1>3, <1>9, <1>11 DEF Assigning
    <3>6. AssignAt(t)
      BY DEF IInv, AssignInv
    <3>. QED
      BY <3>2, <3>4, <3>5, <3>6, <1>2 DEF AssignAt
  <2>. QED
    BY <2>1, <2>2
<1>22. PlainInv'
  <2>1. FlowControlSkipTable' = FlowControlSkipTable
    BY DEF RcAssign
  <2>. QED
    BY <2>1, <1>3, <1>9 DEF IInv, PlainInv
<1>23. ASSUME NEW t \in Slot
       PROVE  PendingAt(t)' /\ ("NO_RC_CANCELLING" \in flags'[t] => setup.ext)
  <2>1. PendingAt(t) /\ ("NO_RC_CANCELLING" \in flags[t] => setup.ext)
    BY DEF IInv, RemoveInv, FlowInv
  <2>2. e_tbl[t] \in Entity \cup {NULL}
    BY <1>t DEF Types
  <2>. QED
    BY <2>1, <2>2, <1>3, <1>7, <1>9, <1>11 DEF PendingAt
<1>24. RcExtensionSupported' => setup.ext
  BY DEF RcAssign, IInv, FlowInv
<1>25. Overall
  BY <1>17, <1>18, <1>19, <1>20, <1>21, <1>22, <1>23, <1>24 DEF Overall
<1>. QED
  BY <1>0, <1>1, <1>14, <1>16, <1>25, PopStep

\* The slot of a failed ASSIGN is in no table: nothing depends on it.
LEMMA RcFreeStep == IInv /\ RcFree => IInv'
<1>. SUFFICES ASSUME IInv, RcFree
              PROVE  IInv'
  OBVIOUS
<1>t. Types
  BY DEF IInv, CodeTypes
<1>1. /\ pc = "free" /\ pc' = "rc" /\ failed' = 0 /\ e_tbl' = [e_tbl EXCEPT ![failed] = NULL]
      /\ UNCHANGED <<eId, eNo, More, Req, held, IdTable, flags, FlowControlIdTable, queue, ReadyInt,
                     ReadyCount, filled, this, ReqMem, RcMem, cardRc, cardIds, cardFc,
                     cardReadyInt, setup>>
  BY DEF RcFree, entity, card
<1>b. UNCHANGED <<FlowControlSkipTable, RcExtensionSupported, soft_isr, irq>>
  BY DEF RcFree
<1>2. PICK s \in Slot : s = failed /\ e_tbl[s] # NULL
  BY <1>t, <1>1 DEF IInv, TableInv, Types
<1>3. e_tbl'[s] = NULL /\ \A t \in Slot : t # s => e_tbl'[t] = e_tbl[t]
  BY <1>t, <1>1, <1>2 DEF Types
<1>4. Asked' = Asked /\ Answers' = Answers
  BY <1>1 DEF Asked, Answers
<1>5. \A j : Live(j)' <=> Live(j)
  BY <1>1 DEF Live
<1>6. \A j \in Id : Live(j) => Owner(j)' = Owner(j) /\ IdTable[j] # s
  BY <1>1, <1>2, <1>3, Owned DEF Owner
<1>7. /\ \A k \in DOMAIN Asked : Asked[k].id # 0 => Asked[k].id \in Id
      /\ \A k \in DOMAIN Answers : Answers[k].id # 0 => Answers[k].id \in Id
      /\ \A k \in DOMAIN Answers : Answers[k].id = 0 =>
           Answers[k].rc \in {"ASSIGN_BAD", "READY_INT"} /\ Answers[k].type = "none"
      /\ \A f \in cardFc : f[1] \in Id
  BY <1>t, Typed DEF ReqBufs, RetCodes, Types, IInv, AnswersInv, AnswerAt
<1>8. CodeTypes'
  <2>1. e_tbl' \in [Slot -> Entity \cup {NULL}]
    BY <1>t, <1>1 DEF Types
  <2>2. Types'
    BY <2>1, <1>t, <1>1, SMTT(30) DEF Types
  <2>. QED
    BY <2>2, <1>b, Zenon DEF IInv, CodeTypes
<1>9. Plumbing'
  <2>1. irq
    BY <1>1 DEF IInv, Plumbing
  <2>2. irq'
    BY <2>1, <1>b
  <2>. QED
    BY <2>2, <1>1, <1>4 DEF IInv, Plumbing
<1>10. TableInv'
  <2>1. \A t \in Slot : e_tbl'[t] # NULL => eNo'[e_tbl'[t]] = t
    BY <1>1, <1>2, <1>3 DEF IInv, TableInv
  <2>2. \A y \in Entity : eId'[y] # 0 =>
          eNo'[y] \in Slot \ {failed'} /\ e_tbl'[eNo'[y]] = y /\ IdTable'[eId'[y]] = eNo'[y]
    BY <1>1, <1>2, <1>3, SlotFacts DEF IInv, TableInv
  <2>3. \A j \in Id : Live(j)' =>
          IdTable'[j] # failed' /\ Owner(j)' # NULL /\ eId'[Owner(j)'] = j
    BY <1>1, <1>5, <1>6, Owned, SlotFacts
  <2>. QED
    BY <2>1, <2>2, <2>3, <1>1 DEF TableInv
<1>11. QueueInv'
  <2>1. \A k \in DOMAIN queue : queue[k] # s /\ queue[k] \in Slot
    BY <1>t, <1>2, Typed DEF IInv, QueueInv
  <2>. QED
    BY <2>1, <1>1, <1>3, SlotFacts DEF IInv, QueueInv
<1>12. PhaseInv'
  BY <1>1, <1>4 DEF IInv, PhaseInv, PhaseAt, Phase, Parts, InQueue
<1>13. AssignInv'
  <2>. SUFFICES ASSUME NEW t \in Slot
                PROVE  AssignAt(t)'
    BY DEF AssignInv
  <2>1. AssignAt(t) /\ (InQueue(t)' <=> InQueue(t))
    BY <1>1 DEF IInv, AssignInv, InQueue
  <2>2. Assigning(t)' <=> Assigning(t)
    BY <1>1, <1>2, <1>3, SlotFacts DEF Assigning
  <2>3. Assigning(t) => e_tbl'[t] = e_tbl[t]
    BY <1>2, <1>3 DEF Assigning
  <2>. QED
    BY <2>1, <2>2, <2>3, <1>1, <1>4 DEF AssignAt
<1>14. AskedInv'
  <2>. SUFFICES ASSUME NEW k \in DOMAIN Asked
                PROVE  AskedAt(k)'
    BY <1>4 DEF AskedInv
  <2>1. AskedAt(k)
    BY DEF IInv, AskedInv
  <2>. QED
    BY <2>1, <1>1, <1>4, <1>5, <1>6, <1>7 DEF AskedAt
<1>15. AnswersInv'
  <2>. SUFFICES ASSUME NEW k \in DOMAIN Answers
                PROVE  AnswerAt(k)'
    BY <1>4 DEF AnswersInv
  <2>1. AnswerAt(k) /\ \A n : EndsRemove(n, Answers[k].id)' <=> EndsRemove(n, Answers[k].id)
    BY <1>1, <1>4 DEF IInv, AnswersInv, EndsRemove
  <2>2. CASE Answers[k].id = 0
    BY <2>1, <2>2, <1>4, <1>7 DEF AnswerAt
  <2>3. CASE Answers[k].id # 0
    <3>1. PICK i \in Id : i = Answers[k].id
      BY <2>3, <1>7
    <3>2. Live(i) => Owner(i)' = Owner(i)
      BY <1>6
    <3>. QED
      BY <2>1, <3>1, <3>2, <1>1, <1>4, <1>5 DEF AnswerAt, IsRelease
  <2>. QED
    BY <2>2, <2>3
<1>16. RemoveInv'
  <2>1. ASSUME NEW t \in Slot
        PROVE  PendingAt(t)'
    <3>1. PendingAt(t)
      BY DEF IInv, RemoveInv
    <3>2. CASE t = s
      <4>1. "REMOVE_PENDING" \notin flags[s]
        BY <3>1, <3>2, <1>t, <1>2, SlotFacts DEF PendingAt, IInv, TableInv, Types
      <4>. QED
        BY <4>1, <3>2, <1>1 DEF PendingAt
    <3>3. CASE t # s
      BY <3>1, <3>3, <1>1, <1>3 DEF PendingAt
    <3>. QED
      BY <3>2, <3>3
  <2>2. \A i \in Id : LiveAt(i)'
    BY <1>1, <1>4, <1>5, <1>6 DEF IInv, RemoveInv, LiveAt, EndsRemove, Assigns
  <2>3. \A i \in cardIds' : GoneAt(i)'
    BY <1>1, <1>4, <1>5 DEF IInv, RemoveInv, GoneAt, Assigns
  <2>. QED
    BY <2>1, <2>2, <2>3 DEF RemoveInv
<1>17. FlowInv'
  <2>1. \A f \in cardFc' : OwnFc(f)'
    BY <1>1, <1>5, <1>6, <1>7 DEF IInv, FlowInv, OwnFc
  <2>2. \A k \in DOMAIN Answers' : OwnRelease(k)'
    <3>. SUFFICES ASSUME NEW k \in DOMAIN Answers, IsRelease(Answers[k])
                  PROVE  OwnRelease(k)'
      BY <1>4 DEF OwnRelease
    <3>1. OwnRelease(k) /\ Answers[k].id \in Id
      BY <1>7 DEF IInv, FlowInv, IsRelease
    <3>. QED
      BY <3>1, <1>1, <1>4, <1>5, <1>6 DEF OwnRelease
  <2>. QED
    BY <2>1, <2>2, <1>1, <1>b DEF IInv, FlowInv
<1>18. WaitInv'
  BY <1>1, <1>4, <1>5 DEF IInv, WaitInv, FcAt, SparesAt, ReleaseAt, IsFc, IsRelease
<1>19. PlainInv'
  BY <1>1, <1>b DEF IInv, PlainInv
<1>20. LabelInv'
  BY <1>1, <1>4 DEF IInv, LabelInv, LabelAt, Released
<1>. QED
  BY <1>8, <1>9, <1>10, <1>11, <1>12, <1>13, <1>14, <1>15, <1>16, <1>17, <1>18, <1>19, <1>20
  DEF IInv

-----------------------------------------------------------------------------
(***************************************************************************)
(* The card adds a return code, a, and may have taken the first d requests *)
(* for it.  The host's state and all other Ids are left alone.             *)
(***************************************************************************)
Moved(a, d) ==
  /\ a \in RetCodes /\ cardRc' = Append(cardRc, a)
  /\ UNCHANGED <<eId, eNo, More, Req, held, e_tbl, IdTable, flags, FlowControlIdTable, queue,
                 failed, setup, pc, ReadyInt, ReadyCount, filled, this, RcMem>>
  /\ d \in {0, 1}
  /\ \A k \in DOMAIN Asked' : k \in Nat /\ k + d \in DOMAIN Asked /\ Asked'[k] = Asked[k + d]
Untouched(a) ==
  /\ \A j \in Id : j # a.id =>
       /\ j \in cardIds' <=> j \in cardIds
       /\ (\E n \in DOMAIN Asked : Asked[n].id = j) => \E n \in DOMAIN Asked' : Asked'[n].id = j
  /\ \A f \in Id \X Ch : f[1] # a.id => (f \in cardFc' <=> f \in cardFc)

\* What has to be shown of the new return code and of its Id.
AddedOk(a, i) ==
  /\ LiveAt(i)' /\ (i \in cardIds' => GoneAt(i)')
  /\ \A k \in DOMAIN Asked' : Asked'[k].id = i => i \in cardIds'
  /\ \A k \in DOMAIN Answers : Answers[k].id = i =>
       Answers[k].rc # "ASSIGN_OK" /\ (Answers[k].rc = "OK_FC" => IsRelease(a))
  /\ \A f \in cardFc' : f[1] = i => OwnFc(f)' /\ (setup.wait => FcAt(f)')
  /\ setup.wait => \A k \in DOMAIN Answers' : Answers'[k].id = i => ReleaseAt(k)'
  /\ setup.ext =>
       /\ \A c \in Ch : FlowControlIdTable[c] = i => LabelAt(c)'
       /\ \A k \in DOMAIN Answers' : Answers'[k].id = i /\ Answers'[k].rc = "OK_FC" =>
            \/ <<i, Answers'[k].ch>> \in cardFc'
            \/ \E n \in DOMAIN Answers' : n > k /\ Released(n, i)'
Added(a) ==
  /\ a.id \in Id => AddedOk(a, a.id)
  /\ CodeTypes' /\ Plumbing' /\ PlainInv' /\ (RcExtensionSupported' => setup.ext)
  /\ \A x \in Entity : eId[x] # 0 => Parts(x)' = Parts(x)
  /\ \A s \in Slot : Num(Asked', AssignReqs(s)) + Num(Answers', AssignRcs(s)) =
                       Num(Asked, AssignReqs(s)) + Num(Answers, AssignRcs(s))

LEMMA MovedShape ==
  ASSUME IInv, NEW a, NEW d, Moved(a, d)
  PROVE  /\ Answers' = Append(Answers, a) /\ a \in RetCodes /\ Answers' \in Seq(RetCodes)
         /\ \E N \in Nat :
              /\ N = Len(Answers) + 1 /\ N \in DOMAIN Answers' /\ Answers'[N] = a
              /\ \A k \in DOMAIN Answers :
                   k \in DOMAIN Answers' /\ Answers'[k] = Answers[k] /\ k \in Nat /\ k < N
              /\ \A k \in DOMAIN Answers' : k = N \/ k \in DOMAIN Answers
<1>1. RcMem \in Seq(RetCodes) /\ cardRc \in Seq(RetCodes) /\ a \in RetCodes
  BY DEF IInv, CodeTypes, Types, Moved
<1>2. Answers' = Append(Answers, a) /\ Answers \in Seq(RetCodes)
  BY <1>1 DEF Answers, Moved
<1>3. LET n == Len(Answers) + 1
          new == Append(Answers, a) IN
      /\ new \in Seq(RetCodes) /\ n \in DOMAIN new /\ new[n] = a /\ n \in Nat
      /\ \A k \in DOMAIN Answers : k \in DOMAIN new /\ new[k] = Answers[k] /\ k \in Nat /\ k < n
      /\ \A k \in DOMAIN new : k = n \/ k \in DOMAIN Answers
  BY <1>1, <1>2, AppendFacts
<1>4. PICK N : N = Len(Answers) + 1
  OBVIOUS
<1>5. /\ N \in Nat /\ N = Len(Answers) + 1 /\ N \in DOMAIN Answers' /\ Answers'[N] = a
      /\ \A k \in DOMAIN Answers :
           k \in DOMAIN Answers' /\ Answers'[k] = Answers[k] /\ k \in Nat /\ k < N
      /\ \A k \in DOMAIN Answers' : k = N \/ k \in DOMAIN Answers
  BY <1>2, <1>3, <1>4, Zenon
<1>. QED
  BY <1>1, <1>2, <1>3, <1>5, Zenon

LEMMA CardStep ==
  ASSUME IInv, NEW a, NEW d, Moved(a, d), Untouched(a), Added(a), NEW N, N = Len(Answers) + 1,
         AnswerAt(N)', OwnRelease(N)'
  PROVE  IInv'
<1>t. Types
  BY DEF IInv, CodeTypes
<1>1. /\ N \in Nat /\ N \in DOMAIN Answers' /\ Answers'[N] = a /\ a \in RetCodes
      /\ \A k \in DOMAIN Answers :
           k \in DOMAIN Answers' /\ Answers'[k] = Answers[k] /\ k \in Nat /\ k < N
      /\ \A k \in DOMAIN Answers' : k = N \/ k \in DOMAIN Answers
  BY MovedShape
<1>2. /\ UNCHANGED <<eId, eNo, More, Req, held, e_tbl, IdTable, flags, FlowControlIdTable, queue,
                     failed, setup, pc, ReadyInt, ReadyCount, filled, this, RcMem>>
  BY DEF Moved
<1>3. /\ \A k \in DOMAIN Asked' : k \in Nat /\ k + d \in DOMAIN Asked /\ Asked'[k] = Asked[k + d]
      /\ d \in {0, 1}
  BY DEF Moved
<1>4. \A j : (Live(j)' <=> Live(j)) /\ Owner(j)' = Owner(j)
  BY <1>2 DEF Live, Owner
<1>5. /\ \A k \in DOMAIN Asked : Asked[k].id # 0 => Asked[k].id \in Id
      /\ \A k \in DOMAIN Answers : Answers[k].id # 0 => Answers[k].id \in Id
      /\ a.id # 0 => a.id \in Id
      /\ \A f \in cardFc' : f[1] \in Id /\ f \in Id \X Ch
      /\ cardIds' \subseteq Id
  <2>1. Types'
    BY DEF Added, CodeTypes
  <2>. QED
    BY <2>1, <1>t, <1>1, Typed DEF Types, ReqBufs, RetCodes
<1>6. TableInv'
  BY <1>2 DEF IInv, TableInv, Live, Owner
<1>7. QueueInv'
  BY <1>2 DEF IInv, QueueInv
<1>8. PhaseInv'
  <2>. SUFFICES ASSUME NEW x \in Entity
                PROVE  PhaseAt(x)'
    BY DEF PhaseInv
  <2>1. PhaseAt(x) /\ (InQueue(eNo[x])' <=> InQueue(eNo[x]))
    BY <1>2 DEF IInv, PhaseInv, InQueue
  <2>2. eId[x] # 0 => Parts(x)' = Parts(x)
    BY DEF Added
  <2>3. eId[x] # 0 => Phase(x)'
    BY <2>1, <2>2, <1>2 DEF PhaseAt, Phase
  <2>. QED
    BY <2>1, <2>3, <1>2 DEF PhaseAt
<1>9. AssignInv'
  <2>. SUFFICES ASSUME NEW s \in Slot
                PROVE  AssignAt(s)'
    BY DEF AssignInv
  <2>1. AssignAt(s) /\ (InQueue(s)' <=> InQueue(s)) /\ (Assigning(s)' <=> Assigning(s))
    BY <1>2 DEF IInv, AssignInv, InQueue, Assigning
  <2>2. Num(Asked', AssignReqs(s)) + Num(Answers', AssignRcs(s)) =
          Num(Asked, AssignReqs(s)) + Num(Answers, AssignRcs(s))
    BY DEF Added
  <2>. QED
    BY <2>1, <2>2, <1>2 DEF AssignAt
<1>10. AskedInv'
  <2>. SUFFICES ASSUME NEW k \in DOMAIN Asked'
                PROVE  AskedAt(k)'
    BY DEF AskedInv
  <2>1. k + d \in DOMAIN Asked /\ Asked'[k] = Asked[k + d] /\ AskedAt(k + d) /\ k \in Nat
    BY <1>3 DEF IInv, AskedInv
  <2>2. PICK j : j = Asked'[k].id
    OBVIOUS
  <2>3. j # 0 => j \in cardIds'
    <3>1. j # 0 => j \in Id /\ j \in cardIds
      BY <2>1, <2>2, <1>5 DEF AskedAt
    <3>. QED
      BY <2>2, <3>1 DEF Added, AddedOk, Untouched
  <2>4. j # 0 /\ Asked'[k].code # "MDATA" => \A n \in DOMAIN Asked' : n > k => Asked'[n].id # j
    <3>. SUFFICES ASSUME j # 0, Asked'[k].code # "MDATA", NEW n \in DOMAIN Asked', n > k
                  PROVE  Asked'[n].id # j
      OBVIOUS
    <3>1. n + d \in DOMAIN Asked /\ Asked'[n] = Asked[n + d] /\ n + d > k + d
      BY <2>1, <1>3
    <3>. QED
      BY <3>1, <2>1, <2>2 DEF AskedAt
  <2>5. Live(j)' = Live(j) /\ Owner(j)' = Owner(j)
    BY <1>4 DEF Live
  <2>. QED
    BY <2>1, <2>2, <2>3, <2>4, <2>5, <1>2 DEF AskedAt
<1>11. AnswersInv'
  <2>. SUFFICES ASSUME NEW k \in DOMAIN Answers
                PROVE  AnswerAt(k)'
    BY <1>1 DEF AnswersInv
  <2>1. AnswerAt(k) /\ Answers'[k] = Answers[k] /\ k \in Nat /\ k < N
    BY <1>1 DEF IInv, AnswersInv
  <2>2. CASE Answers[k].id = 0
    BY <2>1, <2>2 DEF AnswerAt
  <2>3. CASE Answers[k].id # 0
    <3>1. PICK j \in Id : j = Answers[k].id
      BY <2>3, <1>5
    <3>2. (Live(j)' <=> Live(j)) /\ Owner(j)' = Owner(j)
      BY <1>4
    <3>3. \A n \in DOMAIN Asked' : \E m \in DOMAIN Asked : Asked[m] = Asked'[n]
      BY <1>3
    <3>4. CASE Answers[k].rc = "ASSIGN_OK"
      <4>1. a.id # j
        BY <3>1, <3>4 DEF Added, AddedOk
      <4>2. /\ j \in cardIds /\ (\A f \in cardFc : f[1] # j)
            /\ (\A n \in DOMAIN Answers : n > k => Answers[n].id # j)
            /\ (\A n \in DOMAIN Asked : Asked[n].id # j)
            /\ Live(j) => /\ Req[Owner(j)].code = "REMOVE" /\ More[Owner(j)] >= 96
                          /\ \E n \in DOMAIN Answers : n < k /\ EndsRemove(n, j)
        BY <3>1, <3>4, <2>1 DEF AnswerAt
      <4>3. j \in cardIds'
        BY <4>1, <4>2 DEF Untouched
      <4>4. \A f \in cardFc' : f[1] # j
        BY <4>1, <4>2, <1>5 DEF Untouched
      <4>5. \A n \in DOMAIN Answers' : n > k => Answers'[n].id # j
        BY <4>1, <4>2, <1>1
      <4>6. \A n \in DOMAIN Asked' : Asked'[n].id # j
        BY <4>2, <3>3
      <4>7. \A n \in DOMAIN Answers : EndsRemove(n, j) => n \in DOMAIN Answers' /\ EndsRemove(n, j)'
        BY <1>1, <1>2 DEF EndsRemove
      <4>8. Live(j)' => /\ Req'[Owner(j)'].code = "REMOVE" /\ More'[Owner(j)'] >= 96
                        /\ \E n \in DOMAIN Answers' : n < k /\ EndsRemove(n, j)'
        BY <4>2, <4>7, <3>2, <1>2
      <4>9. Answers'[k].rc = "ASSIGN_OK" /\ Answers'[k].type = "none" /\ Answers'[k].ref \in Slot
            /\ Answers'[k].id = j /\ j # 0
        BY <2>1, <2>3, <3>1, <3>4 DEF AnswerAt
      <4>. QED
        BY <4>3, <4>4, <4>5, <4>6, <4>8, <4>9 DEF AnswerAt
    <3>5. CASE Answers[k].rc = "OK_FC"
      <4>1. a.id = j => IsRelease(a)
        BY <3>1, <3>5 DEF Added, AddedOk
      <4>2. \A n \in DOMAIN Answers' : n > k /\ Answers'[n].id = j => IsRelease(Answers'[n])
        BY <4>1, <3>1, <3>5, <2>1, <1>1 DEF AnswerAt
      <4>3. \A n \in DOMAIN Asked' : Asked'[n].id # j
        BY <3>1, <3>3, <3>5, <2>1 DEF AnswerAt
      <4>. QED
        BY <4>2, <4>3, <3>1, <3>2, <3>5, <2>1, <1>2 DEF AnswerAt
    <3>6. CASE Answers[k].rc \notin {"ASSIGN_OK", "OK_FC"}
      BY <3>1, <3>2, <3>6, <2>1, <1>2 DEF AnswerAt
    <3>. QED
      BY <3>4, <3>5, <3>6
  <2>. QED
    BY <2>2, <2>3
<1>12. RemoveInv'
  <2>1. \A s \in Slot : PendingAt(s)'
    BY <1>2 DEF IInv, RemoveInv, PendingAt
  <2>2. ASSUME NEW j \in Id, j # a.id
        PROVE  LiveAt(j)' /\ (j \in cardIds' => GoneAt(j)')
    <3>1. /\ j \in cardIds' <=> j \in cardIds
          /\ (\E n \in DOMAIN Asked : Asked[n].id = j) => \E n \in DOMAIN Asked' : Asked'[n].id = j
      BY <2>2 DEF Untouched
    <3>2. \A n \in DOMAIN Answers :
            /\ EndsRemove(n, j) => n \in DOMAIN Answers' /\ EndsRemove(n, j)'
            /\ Assigns(n, j) => n \in DOMAIN Answers' /\ Assigns(n, j)'
      BY <1>1, <1>2 DEF EndsRemove, Assigns
    <3>3. LiveAt(j)'
      BY <3>1, <3>2, <1>2, <1>4 DEF IInv, RemoveInv, LiveAt
    <3>4. j \in cardIds' => GoneAt(j)'
      BY <3>1, <3>2, <1>2, <1>4 DEF IInv, RemoveInv, GoneAt
    <3>. QED
      BY <3>3, <3>4
  <2>3. \A j \in Id : LiveAt(j)' /\ (j \in cardIds' => GoneAt(j)')
    BY <2>2 DEF Added, AddedOk
  <2>. QED
    BY <2>1, <2>3, <1>5 DEF RemoveInv
<1>13. FlowInv'
  <2>1. ASSUME NEW f \in cardFc'
        PROVE  OwnFc(f)'
    <3>1. CASE f[1] = a.id
      BY <3>1, <1>5 DEF Added, AddedOk
    <3>2. CASE f[1] # a.id
      <4>1. f \in cardFc /\ (f[1] \in cardIds' <=> f[1] \in cardIds)
        BY <3>2, <1>5 DEF Untouched
      <4>2. OwnFc(f)
        BY <4>1 DEF IInv, FlowInv
      <4>. QED
        BY <4>1, <4>2, <1>4 DEF OwnFc
    <3>. QED
      BY <3>1, <3>2
  <2>2. ASSUME NEW k \in DOMAIN Answers
        PROVE  OwnRelease(k)'
    <3>1. OwnRelease(k) /\ Answers'[k] = Answers[k]
      BY <1>1 DEF IInv, FlowInv
    <3>. QED
      BY <3>1, <1>2, <1>4 DEF OwnRelease, IsRelease
  <2>3. \A k \in DOMAIN Answers' : OwnRelease(k)'
    BY <2>2, <1>1
  <2>4. /\ \A c \in Ch : FlowControlIdTable'[c] # 0 => eId'[c[1]] = FlowControlIdTable'[c]
        /\ \A s \in Slot : "NO_RC_CANCELLING" \in flags'[s] => setup'.ext
        /\ RcExtensionSupported' => setup'.ext
    BY <1>2 DEF IInv, FlowInv, Added
  <2>. QED
    BY <2>1, <2>3, <2>4 DEF FlowInv
<1>14. WaitInv'
  <2>. SUFFICES ASSUME setup.wait
                PROVE  WaitInv'
    BY <1>2 DEF WaitInv
  <2>1. ASSUME NEW f \in cardFc'
        PROVE  FcAt(f)'
    <3>1. CASE f[1] = a.id
      BY <3>1, <1>5 DEF Added, AddedOk
    <3>2. CASE f[1] # a.id
      <4>1. f \in cardFc
        BY <3>2, <1>5 DEF Untouched
      <4>2. FcAt(f)
        BY <4>1 DEF IInv, WaitInv
      <4>3. \A n \in DOMAIN Answers : IsFc(n, f[1], f[2]) => n \in DOMAIN Answers' /\ IsFc(n, f[1], f[2])'
        BY <1>1 DEF IsFc
      <4>. QED
        BY <4>2, <4>3, <1>2, <1>4 DEF FcAt
    <3>. QED
      BY <3>1, <3>2
  <2>2. ASSUME NEW k \in DOMAIN Answers'
        PROVE  ReleaseAt(k)'
    <3>1. CASE Answers'[k].id = a.id
      <4>1. CASE a.id \in Id
        BY <4>1, <3>1 DEF Added, AddedOk
      <4>2. CASE a.id \notin Id
        <5>1. AnswerAt(k)' /\ a.id = 0
          BY <4>2, <1>5, <1>11 DEF AnswersInv
        <5>2. ~IsRelease(Answers'[k])
          BY <5>1, <3>1 DEF AnswerAt, IsRelease
        <5>. QED
          BY <5>2 DEF ReleaseAt, IsRelease
      <4>. QED
        BY <4>1, <4>2
    <3>2. CASE Answers'[k].id # a.id
      <4>1. k \in DOMAIN Answers /\ Answers'[k] = Answers[k]
        BY <3>2, <1>1
      <4>2. ReleaseAt(k) /\ OwnRelease(k)
        BY <4>1 DEF IInv, WaitInv, FlowInv
      <4>. SUFFICES ASSUME IsRelease(Answers[k])
                    PROVE  ReleaseAt(k)'
        BY <4>1 DEF ReleaseAt, IsRelease
      <4>3. PICK j, c : j = Answers[k].id /\ c = Answers[k].ch
        OBVIOUS
      <4>4. j \in Id /\ c \in Ch /\ j # a.id
        <5>1. AnswerAt(k)
          BY <4>1 DEF IInv, AnswersInv
        <5>2. j # 0
          BY <5>1, <4>3 DEF AnswerAt, IsRelease
        <5>. QED
          BY <5>2, <4>1, <4>2, <4>3, <3>2, <1>5 DEF OwnRelease
      <4>5. <<j, c>> \notin cardFc'
        <5>1. <<j, c>> \notin cardFc /\ <<j, c>> \in Id \X Ch /\ <<j, c>>[1] = j
          BY <4>2, <4>3, <4>4 DEF ReleaseAt
        <5>. QED
          BY <5>1, <4>4 DEF Untouched
      <4>6. \A n \in DOMAIN Answers : IsFc(n, j, c) => n \in DOMAIN Answers' /\ IsFc(n, j, c)'
        BY <1>1 DEF IsFc
      <4>7. c \in held' \/ \E n \in DOMAIN Answers' : n < k /\ IsFc(n, j, c)'
        BY <4>2, <4>3, <4>6, <1>2 DEF ReleaseAt
      <4>8. \A n \in DOMAIN Answers' : n # k /\ IsRelease(Answers'[n]) =>
              Answers'[n].id # j \/ Answers'[n].ch # c
        BY <4>2, <4>3, <4>4, <1>1 DEF ReleaseAt, IsRelease
      <4>9. Live(j)' /\ Answers'[k].id = j /\ Answers'[k].ch = c
        BY <4>1, <4>2, <4>3, <1>4 DEF ReleaseAt
      <4>. QED
        BY <4>5, <4>7, <4>8, <4>9 DEF ReleaseAt
    <3>. QED
      BY <3>1, <3>2
  <2>3. \A x \in Entity : SparesAt(x)'
    BY <1>2 DEF IInv, WaitInv, SparesAt
  <2>. QED
    BY <2>1, <2>2, <2>3 DEF WaitInv
<1>15. LabelInv'
  <2>. SUFFICES ASSUME setup.ext
                PROVE  LabelInv'
    BY <1>2 DEF LabelInv
  <2>1. ASSUME NEW c \in Ch
        PROVE  LabelAt(c)'
    <3>0. PICK j : j = FlowControlIdTable[c]
      OBVIOUS
    <3>. SUFFICES ASSUME j # 0, j # a.id
                  PROVE  LabelAt(c)'
      <4>1. j = 0 => LabelAt(c)'
        BY <3>0, <1>2 DEF LabelAt
      <4>2. j = a.id /\ j # 0 => LabelAt(c)'
        BY <3>0, <1>5 DEF Added, AddedOk
      <4>. QED
        BY <4>1, <4>2
    <3>1. j \in Id /\ LabelAt(c)
      BY <3>0, FcOwner DEF IInv, LabelInv
    <3>2. <<j, c>> \in cardFc => <<j, c>> \in cardFc'
      <4>1. <<j, c>> \in Id \X Ch /\ <<j, c>>[1] = j
        BY <3>1
      <4>. QED
        BY <4>1 DEF Untouched
    <3>3. \A n \in DOMAIN Answers : Released(n, j) => n \in DOMAIN Answers' /\ Released(n, j)'
      BY <1>1 DEF Released
    <3>4. ASSUME "NO_RC_CANCELLING" \notin flags[IdTable[j]]
          PROVE  /\ c \in held /\ (More[c[1]] # 32 /\ Req[c[1]].ch = c => Req[c[1]].code # "DATA")
                 /\ \/ "REMOVE_PENDING" \in flags[IdTable[j]] \/ <<j, c>> \in cardFc'
                    \/ \E n \in DOMAIN Answers' : Released(n, j)'
                 /\ \A k \in DOMAIN Answers' :
                      /\ Answers'[k].id = j /\ Answers'[k].ch = c
                      /\ Answers'[k].rc = "OK" /\ Answers'[k].type = "none"
                      => \E n \in DOMAIN Answers' : n < k /\ Released(n, j)'
      <4>1. /\ c \in held /\ (More[c[1]] # 32 /\ Req[c[1]].ch = c => Req[c[1]].code # "DATA")
            /\ \/ "REMOVE_PENDING" \in flags[IdTable[j]] \/ <<j, c>> \in cardFc
               \/ \E n \in DOMAIN Answers : Released(n, j)
            /\ \A k \in DOMAIN Answers :
                 /\ Answers[k].id = j /\ Answers[k].ch = c
                 /\ Answers[k].rc = "OK" /\ Answers[k].type = "none"
                 => \E n \in DOMAIN Answers : n < k /\ Released(n, j)
        BY <3>0, <3>1, <3>4 DEF LabelAt
      <4>2. ASSUME NEW k \in DOMAIN Answers', Answers'[k].id = j, Answers'[k].ch = c,
                   Answers'[k].rc = "OK", Answers'[k].type = "none"
            PROVE  \E n \in DOMAIN Answers' : n < k /\ Released(n, j)'
        <5>1. k \in DOMAIN Answers /\ Answers'[k] = Answers[k]
          BY <4>2, <1>1
        <5>2. \E n \in DOMAIN Answers : n < k /\ Released(n, j)
          BY <5>1, <4>1, <4>2
        <5>. QED
          BY <5>2, <3>3
      <4>. QED
        BY <4>1, <4>2, <3>2, <3>3
    <3>. QED
      BY <3>0, <3>4, <1>2 DEF LabelAt
  <2>2. ASSUME NEW k \in DOMAIN Answers', Answers'[k].rc = "OK_FC"
        PROVE  \/ <<Answers'[k].id, Answers'[k].ch>> \in cardFc'
               \/ \E n \in DOMAIN Answers' : n > k /\ Released(n, Answers[k].id)'
    <3>1. PICK j, c : j \in Id /\ j = Answers'[k].id /\ c = Answers'[k].ch
      <4>1. AnswerAt(k)'
        BY <1>11 DEF AnswersInv
      <4>. QED
        BY <4>1, <2>2, <1>1, <1>5 DEF AnswerAt
    <3>2. <<j, c>> \in cardFc' \/ \E n \in DOMAIN Answers' : n > k /\ Released(n, j)'
      <4>1. CASE j = a.id
        BY <4>1, <3>1, <2>2 DEF Added, AddedOk
      <4>2. CASE j # a.id
        <5>1. k \in DOMAIN Answers /\ Answers'[k] = Answers[k]
          BY <4>2, <3>1, <1>1
        <5>2. <<j, c>> \in cardFc \/ \E n \in DOMAIN Answers : n > k /\ Released(n, j)
          BY <5>1, <3>1, <2>2 DEF IInv, LabelInv
        <5>3. \A n \in DOMAIN Answers : Released(n, j) => n \in DOMAIN Answers' /\ Released(n, j)'
          BY <1>1 DEF Released
        <5>4. <<j, c>> \in cardFc => <<j, c>> \in cardFc'
          <6>1. <<j, c>> \in cardFc => <<j, c>> \in Id \X Ch /\ <<j, c>>[1] = j
            BY <1>t DEF Types
          <6>. QED
            BY <6>1, <4>2 DEF Untouched
        <5>. QED
          BY <5>2, <5>3, <5>4
      <4>. QED
        BY <4>1, <4>2
    <3>. QED
      BY <3>1, <3>2 DEF Released
  <2>. QED
    BY <2>1, <2>2 DEF LabelInv
<1>. QED
  BY <1>6, <1>7, <1>8, <1>9, <1>10, <1>11, <1>12, <1>13, <1>14, <1>15 DEF IInv, Added

\* A return code that answers no request.
LEMMA SameSums ==
  ASSUME IInv, NEW a, NEW d, Moved(a, d), Asked' = Asked, a.id = 0 \/ IsRelease(a),
         a.rc \notin {"ASSIGN_OK", "ASSIGN_BAD"}
  PROVE  /\ \A x \in Entity : eId[x] # 0 => Parts(x)' = Parts(x)
         /\ \A s \in Slot : Num(Asked', AssignReqs(s)) + Num(Answers', AssignRcs(s)) =
                              Num(Asked, AssignReqs(s)) + Num(Answers, AssignRcs(s))
<1>1. Answers' = Append(Answers, a) /\ a \in RetCodes /\ Answers \in Seq(RetCodes)
  BY MovedShape, Typed DEF IInv, CodeTypes
<1>2. ASSUME NEW x \in Entity, eId[x] # 0
      PROVE  Parts(x)' = Parts(x)
  <2>1. a \notin AnswersOf(eId[x])
    BY <1>2 DEF AnswersOf, IsRelease
  <2>2. Num(Answers', AnswersOf(eId[x])) = Num(Answers, AnswersOf(eId[x]))
    BY <2>1, <1>1, NumAppendOut
  <2>3. eId' = eId
    BY DEF Moved
  <2>. QED
    BY <2>2, <2>3 DEF Parts
<1>3. ASSUME NEW s \in Slot
      PROVE  Num(Answers', AssignRcs(s)) = Num(Answers, AssignRcs(s))
  <2>1. a \notin AssignRcs(s)
    BY DEF AssignRcs
  <2>. QED
    BY <2>1, <1>1, NumAppendOut
<1>. QED
  BY <1>2, <1>3

LEMMA CardReadyStep == IInv /\ CardReady => IInv'
<1>. SUFFICES ASSUME IInv, CardReady
              PROVE  IInv'
  OBVIOUS
<1>t. Types
  BY DEF IInv, CodeTypes
<1>1. PICK a : a = [rc |-> "READY_INT", id |-> 0, ch |-> NoCh, ref |-> 0, type |-> "none"]
  OBVIOUS
<1>2. /\ cardRc' = Append(cardRc, a) /\ cardReadyInt' = cardReadyInt - 1 /\ cardReadyInt > 0
      /\ UNCHANGED <<ReqMem, RcMem, cardIds, cardFc>>
      /\ UNCHANGED <<eId, eNo, More, Req, held, e_tbl, IdTable, flags, FlowControlIdTable, queue,
                     failed, setup, pc, ReadyInt, ReadyCount, filled, this>>
  BY <1>1 DEF CardReady, CardOnly, Answer, entity, tables, locals
<1>b. UNCHANGED <<FlowControlSkipTable, RcExtensionSupported, soft_isr, irq>>
  BY DEF CardReady, CardOnly, tables
<1>3. a \in RetCodes /\ a.id = 0 /\ a.rc = "READY_INT" /\ a.type = "none"
  BY <1>1 DEF RetCodes
<1>4. Asked' = Asked /\ Asked \in Seq(ReqBufs)
  BY <1>t, <1>2, Typed DEF Asked
<1>5. Moved(a, 0)
  BY <1>2, <1>3, <1>4 DEF Moved
<1>6. Untouched(a)
  BY <1>2, <1>4 DEF Untouched
<1>7. Answers' = Append(Answers, a) /\ Answers \in Seq(RetCodes) /\ Answers'[Len(Answers) + 1] = a
  BY <1>t, <1>5, MovedShape, Typed
<1>8. CodeTypes'
  <2>1. cardReadyInt' \in {0, 1} /\ cardRc' \in Seq(RetCodes)
    BY <1>t, <1>2, <1>3 DEF Types
  <2>2. Types'
    BY <2>1, <1>t, <1>2, SMTT(30) DEF Types
  <2>. QED
    BY <2>2, <1>b, Zenon DEF IInv, CodeTypes
<1>9. Plumbing'
  <2>1. Num(Answers', ReadyRcs) = Num(Answers, ReadyRcs) + 1 /\ Num(Answers, ReadyRcs) \in Nat
    BY <1>3, <1>7, NumAppendIn DEF ReadyRcs
  <2>2. cardReadyInt' + Num(Answers', ReadyRcs) = ReadyInt'
    BY <2>1, <1>t, <1>2 DEF IInv, Plumbing, Types
  <2>. QED
    BY <2>2, <1>2, <1>b DEF IInv, Plumbing
<1>10. Added(a)
  <2>1. PlainInv'
    BY <1>2, <1>b DEF IInv, PlainInv
  <2>2. RcExtensionSupported' => setup.ext
    BY <1>b DEF IInv, FlowInv
  <2>3. /\ \A x \in Entity : eId[x] # 0 => Parts(x)' = Parts(x)
        /\ \A s \in Slot : Num(Asked', AssignReqs(s)) + Num(Answers', AssignRcs(s)) =
                             Num(Asked, AssignReqs(s)) + Num(Answers, AssignRcs(s))
    BY <1>3, <1>4, <1>5, SameSums
  <2>. QED
    BY <2>1, <2>2, <2>3, <1>3, <1>8, <1>9, SlotFacts DEF Added
<1>11. PICK N : N = Len(Answers) + 1 /\ Answers'[N] = a
  BY <1>7
<1>12. AnswerAt(N)' /\ OwnRelease(N)'
  BY <1>3, <1>11 DEF AnswerAt, OwnRelease, IsRelease
<1>. QED
  BY <1>5, <1>6, <1>10, <1>11, <1>12, CardStep

\* The release comes after the OK_FC it ends, and once.
LEMMA CardReleaseStep == IInv /\ CardRelease => IInv'
<1>. SUFFICES ASSUME IInv, CardRelease
              PROVE  IInv'
  OBVIOUS
<1>t. Types
  BY DEF IInv, CodeTypes
<1>0. PICK f \in cardFc :
        /\ cardFc' = cardFc \ {f}
        /\ Answer("OK", [id |-> f[1], ch |-> f[2]], IF setup.ext THEN "OK_FC" ELSE "unlabelled")
  BY DEF CardRelease
<1>1. PICK i \in Id, c \in Ch : f = <<i, c>>
  BY <1>t DEF Types
<1>2. PICK a : a = [rc |-> "OK", id |-> i, ch |-> c, ref |-> 0,
                    type |-> IF setup.ext THEN "OK_FC" ELSE "unlabelled"]
  OBVIOUS
<1>3. /\ a \in RetCodes /\ a.id = i /\ a.rc = "OK" /\ a.ch = c /\ IsRelease(a)
      /\ (setup.ext <=> a.type = "OK_FC") /\ a.type \notin {"none", "REMOVE_COMPLETE"} /\ i # 0
  BY <1>2, SlotFacts DEF RetCodes, IsRelease
<1>4. cardRc' = Append(cardRc, a)
  BY <1>0, <1>1, <1>2 DEF Answer
<1>5. /\ UNCHANGED <<ReqMem, RcMem, cardIds, cardReadyInt>> /\ cardFc' = cardFc \ {<<i, c>>}
      /\ UNCHANGED <<eId, eNo, More, Req, held, e_tbl, IdTable, flags, FlowControlIdTable, queue,
                     failed, setup, pc, ReadyInt, ReadyCount, filled, this>>
  BY <1>0, <1>1 DEF CardRelease, CardOnly, entity, tables, locals
<1>b. UNCHANGED <<FlowControlSkipTable, RcExtensionSupported, soft_isr, irq>>
  BY DEF CardRelease, CardOnly, tables
<1>6. Asked' = Asked /\ Asked \in Seq(ReqBufs)
  BY <1>t, <1>5, Typed DEF Asked
<1>7. Moved(a, 0)
  BY <1>3, <1>4, <1>5, <1>6 DEF Moved
<1>8. Untouched(a)
  BY <1>3, <1>5, <1>6 DEF Untouched
<1>9. PICK N \in Nat :
        /\ N = Len(Answers) + 1 /\ N \in DOMAIN Answers' /\ Answers'[N] = a
        /\ \A k \in DOMAIN Answers :
             k \in DOMAIN Answers' /\ Answers'[k] = Answers[k] /\ k \in Nat /\ k < N
        /\ \A k \in DOMAIN Answers' : k = N \/ k \in DOMAIN Answers
  BY <1>7, MovedShape
<1>10. Answers' = Append(Answers, a) /\ Answers \in Seq(RetCodes)
  BY <1>t, <1>7, MovedShape, Typed
<1>11. CodeTypes'
  <2>1. cardFc' \in SUBSET (Id \X Ch) /\ cardRc' \in Seq(RetCodes)
    BY <1>t, <1>3, <1>4, <1>5 DEF Types
  <2>2. Types'
    BY <2>1, <1>t, <1>5, SMTT(30) DEF Types
  <2>. QED
    BY <2>2, <1>b, Zenon DEF IInv, CodeTypes
<1>12. Plumbing'
  <2>1. Num(Answers', ReadyRcs) = Num(Answers, ReadyRcs)
    BY <1>3, <1>10, NumAppendOut DEF ReadyRcs
  <2>. QED
    BY <2>1, <1>5, <1>b DEF IInv, Plumbing
<1>13. OwnFc(<<i, c>>) /\ <<i, c>> \in cardFc /\ (setup.wait => FcAt(<<i, c>>))
  BY <1>1 DEF IInv, FlowInv, WaitInv
<1>14. (Live(i)' <=> Live(i)) /\ Owner(i)' = Owner(i)
  BY <1>5 DEF Live, Owner
<1>15. OwnRelease(N)' /\ AnswerAt(N)'
  <2>1. Live(i) => c[1] = Owner(i)
    BY <1>13 DEF OwnFc
  <2>2. OwnRelease(N)'
    BY <2>1, <1>3, <1>5, <1>9, <1>14 DEF OwnRelease
  <2>3. AnswerAt(N)'
    BY <1>3, <1>9 DEF AnswerAt
  <2>. QED
    BY <2>2, <2>3
<1>16. AddedOk(a, i)
  <2>1. LiveAt(i)' /\ (i \in cardIds' => GoneAt(i)')
    <3>1. \A n \in DOMAIN Answers :
            /\ EndsRemove(n, i) => n \in DOMAIN Answers' /\ EndsRemove(n, i)'
            /\ Assigns(n, i) => n \in DOMAIN Answers' /\ Assigns(n, i)'
      BY <1>5, <1>9 DEF EndsRemove, Assigns
    <3>2. LiveAt(i) /\ (i \in cardIds => GoneAt(i))
      BY DEF IInv, RemoveInv
    <3>3. LiveAt(i)'
      BY <3>1, <3>2, <1>5, <1>6, <1>14 DEF LiveAt
    <3>4. i \in cardIds' => GoneAt(i)'
      BY <3>1, <3>2, <1>5, <1>6, <1>14 DEF GoneAt
    <3>. QED
      BY <3>3, <3>4
  <2>2. \A k \in DOMAIN Asked' : Asked'[k].id = i => i \in cardIds'
    BY <1>3, <1>5, <1>6 DEF IInv, AskedInv, AskedAt
  <2>3. \A k \in DOMAIN Answers : Answers[k].id = i => Answers[k].rc # "ASSIGN_OK"
    <3>. SUFFICES ASSUME NEW k \in DOMAIN Answers, Answers[k].id = i, Answers[k].rc = "ASSIGN_OK"
                  PROVE  FALSE
      OBVIOUS
    <3>1. \A g \in cardFc : g[1] # i
      BY DEF IInv, AnswersInv, AnswerAt
    <3>. QED
      BY <3>1, <1>13
  <2>4. ASSUME NEW g \in cardFc', g[1] = i
        PROVE  OwnFc(g)' /\ (setup.wait => FcAt(g)')
    <3>1. OwnFc(g) /\ (setup.wait => FcAt(g))
      BY <1>5 DEF IInv, FlowInv, WaitInv
    <3>2. \A n \in DOMAIN Answers : IsFc(n, g[1], g[2]) => n \in DOMAIN Answers' /\ IsFc(n, g[1], g[2])'
      BY <1>9 DEF IsFc
    <3>. QED
      BY <3>1, <3>2, <2>4, <1>5, <1>14 DEF OwnFc, FcAt
  <2>5. ASSUME setup.wait, NEW k \in DOMAIN Answers', Answers'[k].id = i
        PROVE  ReleaseAt(k)'
    <3>0. \A n \in DOMAIN Answers : \A e : IsFc(n, i, e) => n \in DOMAIN Answers' /\ IsFc(n, i, e)'
      BY <1>9 DEF IsFc
    <3>1. \A n \in DOMAIN Answers : IsRelease(Answers[n]) /\ Answers[n].id = i => Answers[n].ch # c
      BY <2>5, <1>13 DEF IInv, WaitInv, ReleaseAt
    <3>2. CASE k = N
      <4>1. Live(i) /\ (c \in held \/ \E n \in DOMAIN Answers : IsFc(n, i, c))
        BY <2>5, <1>13 DEF FcAt
      <4>2. c \in held' \/ \E n \in DOMAIN Answers' : n < N /\ IsFc(n, i, c)'
        BY <4>1, <3>0, <1>5, <1>9
      <4>3. <<i, c>> \notin cardFc' /\ Live(i)'
        BY <4>1, <1>5, <1>14
      <4>4. \A n \in DOMAIN Answers' : n # N /\ IsRelease(Answers'[n]) =>
              Answers'[n].id # i \/ Answers'[n].ch # c
        BY <3>1, <1>9
      <4>. QED
        BY <4>2, <4>3, <4>4, <3>2, <1>3, <1>9 DEF ReleaseAt
    <3>3. CASE k # N
      <4>1. k \in DOMAIN Answers /\ Answers'[k] = Answers[k] /\ ReleaseAt(k)
        BY <3>3, <2>5, <1>9 DEF IInv, WaitInv
      <4>. SUFFICES ASSUME IsRelease(Answers[k])
                    PROVE  ReleaseAt(k)'
        BY <4>1 DEF ReleaseAt, IsRelease
      <4>2. PICK e : e = Answers[k].ch
        OBVIOUS
      <4>3. /\ Live(i) /\ <<i, e>> \notin cardFc
            /\ e \in held \/ \E n \in DOMAIN Answers : n < k /\ IsFc(n, i, e)
            /\ \A n \in DOMAIN Answers : n # k /\ IsRelease(Answers[n]) =>
                 Answers[n].id # i \/ Answers[n].ch # e
        BY <4>1, <4>2, <2>5 DEF ReleaseAt
      <4>4. e # c
        BY <4>1, <4>2, <3>1, <2>5
      <4>5. e \in held' \/ \E n \in DOMAIN Answers' : n < k /\ IsFc(n, i, e)'
        BY <4>3, <3>0, <1>5
      <4>6. \A n \in DOMAIN Answers' : n # k /\ IsRelease(Answers'[n]) =>
              Answers'[n].id # i \/ Answers'[n].ch # e
        BY <4>3, <4>4, <1>3, <1>9
      <4>. QED
        BY <4>1, <4>2, <4>3, <4>5, <4>6, <2>5, <1>5, <1>14 DEF ReleaseAt
    <3>. QED
      BY <3>2, <3>3
  <2>6. ASSUME setup.ext, NEW e \in Ch, FlowControlIdTable[e] = i
        PROVE  LabelAt(e)'
    <3>1. Released(N, i)'
      BY <2>6, <1>3, <1>9 DEF Released
    <3>2. LabelAt(e)
      BY <2>6 DEF IInv, LabelInv
    <3>3. \A n \in DOMAIN Answers : Released(n, i) => n \in DOMAIN Answers' /\ Released(n, i)'
      BY <1>9 DEF Released
    <3>4. ASSUME "NO_RC_CANCELLING" \notin flags[IdTable[i]], NEW k \in DOMAIN Answers',
                 Answers'[k].id = i, Answers'[k].ch = e, Answers'[k].rc = "OK",
                 Answers'[k].type = "none"
          PROVE  \E n \in DOMAIN Answers' : n < k /\ Released(n, i)'
      <4>1. k \in DOMAIN Answers /\ Answers'[k] = Answers[k]
        BY <3>4, <1>3, <1>9
      <4>2. \E n \in DOMAIN Answers : n < k /\ Released(n, i)
        BY <4>1, <3>2, <3>4, <2>6, <1>3 DEF LabelAt
      <4>. QED
        BY <4>2, <3>3
    <3>5. "NO_RC_CANCELLING" \notin flags[IdTable[i]] =>
            e \in held' /\ (More'[e[1]] # 32 /\ Req'[e[1]].ch = e => Req'[e[1]].code # "DATA")
      BY <3>2, <2>6, <1>3, <1>5 DEF LabelAt
    <3>. QED
      BY <3>1, <3>4, <3>5, <2>6, <1>5, <1>9 DEF LabelAt
  <2>7. ASSUME setup.ext, NEW k \in DOMAIN Answers', Answers'[k].id = i, Answers'[k].rc = "OK_FC"
        PROVE  \/ <<i, Answers'[k].ch>> \in cardFc'
               \/ \E n \in DOMAIN Answers' : n > k /\ Released(n, i)'
    <3>1. k \in DOMAIN Answers /\ N > k
      BY <2>7, <1>3, <1>9
    <3>2. Released(N, i)'
      BY <2>7, <1>3, <1>9 DEF Released
    <3>. QED
      BY <3>1, <3>2, <1>9
  <2>. QED
    BY <2>1, <2>2, <2>3, <2>4, <2>5, <2>6, <2>7, <1>3 DEF AddedOk
<1>17. Added(a)
  <2>1. PlainInv'
    BY <1>5, <1>b DEF IInv, PlainInv
  <2>2. RcExtensionSupported' => setup.ext
    BY <1>b DEF IInv, FlowInv
  <2>3. /\ \A x \in Entity : eId[x] # 0 => Parts(x)' = Parts(x)
        /\ \A s \in Slot : Num(Asked', AssignReqs(s)) + Num(Answers', AssignRcs(s)) =
                             Num(Asked, AssignReqs(s)) + Num(Answers, AssignRcs(s))
    BY <1>3, <1>6, <1>7, SameSums
  <2>. QED
    BY <2>1, <2>2, <2>3, <1>3, <1>11, <1>12, <1>16 DEF Added
<1>. QED
  BY <1>7, <1>8, <1>9, <1>15, <1>17, CardStep

-----------------------------------------------------------------------------
(***************************************************************************)
(* The card takes the first request and answers it.                        *)
(***************************************************************************)
LEMMA TakeShape ==
  ASSUME IInv, CardTake, NEW q, q = Head(ReqMem)
  PROVE  /\ q \in ReqBufs /\ 1 \in DOMAIN Asked /\ Asked[1] = q /\ Head(Asked) = q
         /\ Asked # <<>> /\ Asked' = Tail(Asked) /\ AskedAt(1)
         /\ \A k \in DOMAIN Asked' :
              k \in Nat /\ k >= 1 /\ k + 1 \in DOMAIN Asked /\ Asked'[k] = Asked[k + 1]
         /\ \A k \in DOMAIN Asked : /\ k \in Nat /\ k >= 1
                                    /\ k # 1 => k - 1 \in DOMAIN Asked' /\ Asked'[k - 1] = Asked[k]
         /\ ReqMem' \in Seq(ReqBufs) /\ Len(ReqMem') <= Len(ReqMem)
         /\ UNCHANGED <<eId, eNo, More, Req, held, e_tbl, IdTable, flags, FlowControlIdTable, queue,
                        failed, setup, pc, ReadyInt, ReadyCount, filled, this, RcMem,
                        cardReadyInt>>
<1>1. ReqMem \in Seq(ReqBufs) /\ filled \in Seq(ReqBufs) /\ ReqMem # <<>> /\ ReqMem' = Tail(ReqMem)
  BY DEF IInv, CodeTypes, Types, CardTake
<1>2. UNCHANGED <<eId, eNo, More, Req, held, e_tbl, IdTable, flags, FlowControlIdTable, queue,
                  failed, setup, pc, ReadyInt, ReadyCount, filled, this, RcMem, cardReadyInt>>
  BY DEF CardTake, CardOnly, entity, tables, locals
<1>3. /\ Asked \in Seq(ReqBufs) /\ Asked # <<>> /\ Asked' = Tail(Asked)
      /\ Head(Asked) = Head(ReqMem) /\ ReqMem' \in Seq(ReqBufs) /\ Len(ReqMem') <= Len(ReqMem)
  BY <1>1, <1>2 DEF Asked
<1>4. /\ q \in ReqBufs /\ 1 \in DOMAIN Asked /\ Asked[1] = q /\ Head(Asked) = q
      /\ \A k \in DOMAIN Asked' :
           k \in Nat /\ k >= 1 /\ k + 1 \in DOMAIN Asked /\ Asked'[k] = Asked[k + 1]
      /\ \A k \in DOMAIN Asked : /\ k \in Nat /\ k >= 1
                                 /\ k # 1 => k - 1 \in DOMAIN Asked' /\ Asked'[k - 1] = Asked[k]
  BY <1>3, TailFacts
<1>5. AskedAt(1)
  BY <1>4 DEF IInv, AskedInv
<1>. QED
  BY <1>2, <1>3, <1>4, <1>5

\* The answer takes the place of the request in all the counts.
Swap(q, a) ==
  \/ /\ q.code = "ASSIGN" /\ q.id = 0 /\ a.rc \in {"ASSIGN_OK", "ASSIGN_BAD"} /\ a.ref = q.ref
     /\ a.rc = "ASSIGN_BAD" => a.id = 0
  \/ /\ q.code # "ASSIGN" /\ a.rc \in {"OK", "OK_FC"} /\ a.id = q.id /\ ~IsRelease(a)

LEMMA SwapSums ==
  ASSUME IInv, NEW q \in ReqBufs, NEW a \in RetCodes, Swap(q, a), Asked # <<>>, Head(Asked) = q,
         Asked' = Tail(Asked), Answers' = Append(Answers, a), eId' = eId
  PROVE  /\ \A x \in Entity : eId[x] # 0 => Parts(x)' = Parts(x)
         /\ \A s \in Slot : Num(Asked', AssignReqs(s)) + Num(Answers', AssignRcs(s)) =
                              Num(Asked, AssignReqs(s)) + Num(Answers, AssignRcs(s))
<1>1. Asked \in Seq(ReqBufs) /\ Answers \in Seq(RetCodes)
  BY Typed DEF IInv, CodeTypes
<1>2. ASSUME NEW S, NEW R, q \in S <=> a \in R
      PROVE  Num(Asked', S) + Num(Answers', R) = Num(Asked, S) + Num(Answers, R)
  <2>1. CASE q \in S
    <3>1. Num(Asked, S) = Num(Asked', S) + 1 /\ Num(Asked', S) \in Nat
      BY <2>1, <1>1, NumTailIn
    <3>2. Num(Answers', R) = Num(Answers, R) + 1 /\ Num(Answers, R) \in Nat
      BY <2>1, <1>1, <1>2, NumAppendIn
    <3>. QED
      BY <3>1, <3>2
  <2>2. CASE q \notin S
    <3>1. Num(Asked, S) = Num(Asked', S)
      BY <2>2, <1>1, NumTailOut
    <3>2. Num(Answers', R) = Num(Answers, R)
      BY <2>2, <1>1, <1>2, NumAppendOut
    <3>. QED
      BY <3>1, <3>2
  <2>. QED
    BY <2>1, <2>2
<1>3. ASSUME NEW x \in Entity, eId[x] # 0
      PROVE  Parts(x)' = Parts(x)
  <2>1. q \in ReqsOf(eId[x]) <=> a \in AnswersOf(eId[x])
    BY <1>3 DEF Swap, ReqsOf, AnswersOf, IsRelease
  <2>2. Num(Asked', ReqsOf(eId[x])) + Num(Answers', AnswersOf(eId[x])) =
          Num(Asked, ReqsOf(eId[x])) + Num(Answers, AnswersOf(eId[x]))
    BY <2>1, <1>2
  <2>. QED
    BY <2>2 DEF Parts
<1>4. ASSUME NEW s \in Slot
      PROVE  Num(Asked', AssignReqs(s)) + Num(Answers', AssignRcs(s)) =
               Num(Asked, AssignReqs(s)) + Num(Answers, AssignRcs(s))
  <2>1. q \in AssignReqs(s) <=> a \in AssignRcs(s)
    BY DEF Swap, AssignReqs, AssignRcs
  <2>. QED
    BY <2>1, <1>2
<1>. QED
  BY <1>3, <1>4

\* What the card itself does with the Ids and the channels.
CardSide(a) ==
  /\ cardIds' \in SUBSET Id /\ cardFc' \in SUBSET (Id \X Ch)
  /\ \A j \in Id : j # a.id => (j \in cardIds' <=> j \in cardIds)
  /\ \A f \in Id \X Ch : f[1] # a.id => (f \in cardFc' <=> f \in cardFc)

LEMMA TakeMoved ==
  ASSUME IInv, CardTake, NEW q, q = Head(ReqMem), NEW a \in RetCodes,
         cardRc' = Append(cardRc, a), Swap(q, a), CardSide(a)
  PROVE  Moved(a, 1) /\ Untouched(a)
<1>1. /\ \A k \in DOMAIN Asked' :
           k \in Nat /\ k >= 1 /\ k + 1 \in DOMAIN Asked /\ Asked'[k] = Asked[k + 1]
      /\ \A k \in DOMAIN Asked : /\ k \in Nat /\ k >= 1
                                 /\ k # 1 => k - 1 \in DOMAIN Asked' /\ Asked'[k - 1] = Asked[k]
      /\ Asked[1] = q
  BY TakeShape
<1>2. UNCHANGED <<eId, eNo, More, Req, held, e_tbl, IdTable, flags, FlowControlIdTable, queue,
                  failed, setup, pc, ReadyInt, ReadyCount, filled, this, RcMem>>
  BY TakeShape
<1>3. Moved(a, 1)
  BY <1>1, <1>2 DEF Moved
<1>4. ASSUME NEW j \in Id, j # a.id, \E n \in DOMAIN Asked : Asked[n].id = j
      PROVE  \E n \in DOMAIN Asked' : Asked'[n].id = j
  <2>1. PICK n \in DOMAIN Asked : Asked[n].id = j
    BY <1>4
  <2>2. n # 1
    BY <2>1, <1>1, <1>4, SlotFacts DEF Swap
  <2>. QED
    BY <2>1, <2>2, <1>1
<1>. QED
  BY <1>3, <1>4 DEF Untouched, CardSide

LEMMA TakenStep ==
  ASSUME IInv, CardTake, NEW q, q = Head(ReqMem), NEW a \in RetCodes,
         cardRc' = Append(cardRc, a), Swap(q, a), CardSide(a), NEW N, N = Len(Answers) + 1,
         a.id \in Id => AddedOk(a, a.id), AnswerAt(N)'
  PROVE  IInv'
<1>t. Types
  BY DEF IInv, CodeTypes
<1>1. Moved(a, 1) /\ Untouched(a)
  BY TakeMoved
<1>2. /\ q \in ReqBufs /\ Head(Asked) = q /\ Asked # <<>> /\ Asked' = Tail(Asked)
      /\ ReqMem' \in Seq(ReqBufs) /\ Len(ReqMem') <= Len(ReqMem)
      /\ UNCHANGED <<eId, eNo, More, Req, held, e_tbl, IdTable, flags, FlowControlIdTable, queue,
                     failed, setup, pc, ReadyInt, ReadyCount, filled, this, RcMem, cardReadyInt>>
  BY TakeShape
<1>b. UNCHANGED <<FlowControlSkipTable, RcExtensionSupported, soft_isr, irq>>
  BY DEF CardTake, CardOnly, tables
<1>3. Answers' = Append(Answers, a) /\ Answers \in Seq(RetCodes) /\ Answers'[N] = a
  BY <1>t, <1>1, MovedShape, Typed
<1>4. CodeTypes'
  <2>1. cardFc' \in SUBSET (Id \X Ch) /\ cardRc' \in Seq(RetCodes) /\ cardIds' \in SUBSET Id
    BY <1>t DEF Types, CardSide
  <2>2. Types'
    <3>1. /\ eId' \in [Entity -> Id \cup {0}] /\ eNo' \in [Entity -> Slot \cup {0}]
          /\ More' \in [Entity -> 0 .. 255] /\ Req' \in [Entity -> Requests] /\ held' \in SUBSET Ch
          /\ e_tbl' \in [Slot -> Entity \cup {NULL}] /\ queue' \in Seq(Slot)
      BY <1>t, <1>2, Zenon DEF Types
    <3>2. /\ IdTable' \in [Id -> Slot \cup {0}]
          /\ flags' \in [Slot -> SUBSET {"REMOVE_PENDING", "NO_RC_CANCELLING"}]
          /\ FlowControlIdTable' \in [Ch -> Id \cup {0}] /\ ReadyInt' \in {0, 1}
          /\ pc' \in {"idle", "rc", "free", "out1", "send1", "clr", "out2", "send2"}
      BY <1>t, <1>2, Zenon DEF Types
    <3>3. /\ ReadyCount' \in 0 .. NumReq /\ filled' \in Seq(ReqBufs)
          /\ this' \in Entity \cup {NULL} /\ failed' \in Slot \cup {0} /\ RcMem' \in Seq(RetCodes)
          /\ cardReadyInt' \in {0, 1} /\ setup' \in Setups
      BY <1>t, <1>2, Zenon DEF Types
    <3>. QED
      BY <2>1, <3>1, <3>2, <3>3, <1>2, Zenon DEF Types
  <2>. QED
    BY <2>2, <1>b, Zenon DEF IInv, CodeTypes
<1>5. Plumbing'
  <2>1. a \notin ReadyRcs
    BY DEF Swap, ReadyRcs
  <2>2. Num(Answers', ReadyRcs) = Num(Answers, ReadyRcs)
    BY <2>1, <1>3, NumAppendOut
  <2>3. /\ Len(ReqMem) \in Nat /\ Len(ReqMem') \in Nat /\ Len(filled) \in Nat /\ ReadyCount \in Nat
        /\ NumReq \in Nat
    BY <1>t, <1>2, XdiAssumption DEF Types
  <2>4. Len(ReqMem') + Len(filled') + ReadyCount' <= NumReq'
    BY <2>3, <1>2 DEF IInv, Plumbing
  <2>5. /\ RcMem' # <<>> => irq'
        /\ pc' \in {"rc", "free", "out1", "send1", "clr"} => irq'
    BY <1>2, <1>b DEF IInv, Plumbing
  <2>. QED
    BY <2>2, <2>4, <2>5, <1>2 DEF IInv, Plumbing
<1>6. /\ \A x \in Entity : eId[x] # 0 => Parts(x)' = Parts(x)
      /\ \A s \in Slot : Num(Asked', AssignReqs(s)) + Num(Answers', AssignRcs(s)) =
                           Num(Asked, AssignReqs(s)) + Num(Answers, AssignRcs(s))
  BY <1>2, <1>3, SwapSums
<1>7. Added(a)
  <2>1. PlainInv'
    BY <1>2, <1>b DEF IInv, PlainInv
  <2>2. RcExtensionSupported' => setup.ext
    BY <1>b DEF IInv, FlowInv
  <2>. QED
    BY <2>1, <2>2, <1>4, <1>5, <1>6 DEF Added
<1>8. OwnRelease(N)'
  <2>1. ~IsRelease(a)
    BY <1>3 DEF Swap, AnswerAt, IsRelease
  <2>. QED
    BY <2>1, <1>3 DEF OwnRelease, IsRelease
<1>. QED
  BY <1>1, <1>7, <1>8, CardStep

\* The releases and the flow controlled channels of the Id of the answer.
LEMMA TakenFlow ==
  ASSUME IInv, NEW a, NEW d, Moved(a, d), NEW i, a.id = i, ~IsRelease(a), setup.wait,
         \A k \in DOMAIN Answers : Answers[k].id = i /\ IsRelease(Answers[k]) =>
           <<i, Answers[k].ch>> \notin cardFc',
         NEW k \in DOMAIN Answers', Answers'[k].id = i
  PROVE  ReleaseAt(k)'
<1>1. PICK N \in Nat :
        /\ Answers'[N] = a
        /\ \A n \in DOMAIN Answers : n \in DOMAIN Answers' /\ Answers'[n] = Answers[n]
        /\ \A n \in DOMAIN Answers' : n = N \/ n \in DOMAIN Answers
  BY MovedShape
<1>2. held' = held /\ IdTable' = IdTable
  BY DEF Moved
<1>. SUFFICES ASSUME IsRelease(Answers'[k])
              PROVE  ReleaseAt(k)'
  BY DEF ReleaseAt, IsRelease
<1>3. k \in DOMAIN Answers /\ Answers'[k] = Answers[k] /\ k # N
  BY <1>1
<1>4. PICK c : c = Answers[k].ch
  OBVIOUS
<1>5. /\ Live(i) /\ <<i, c>> \notin cardFc'
      /\ c \in held \/ \E n \in DOMAIN Answers : n < k /\ IsFc(n, i, c)
      /\ \A n \in DOMAIN Answers : n # k /\ IsRelease(Answers[n]) =>
           Answers[n].id # i \/ Answers[n].ch # c
  <2>1. ReleaseAt(k)
    BY <1>3 DEF IInv, WaitInv
  <2>. QED
    BY <2>1, <1>3, <1>4 DEF ReleaseAt
<1>6. \A n \in DOMAIN Answers : IsFc(n, i, c) => n \in DOMAIN Answers' /\ IsFc(n, i, c)'
  BY <1>1 DEF IsFc
<1>7. c \in held' \/ \E n \in DOMAIN Answers' : n < k /\ IsFc(n, i, c)'
  BY <1>2, <1>5, <1>6
<1>8. \A n \in DOMAIN Answers' : n # k /\ IsRelease(Answers'[n]) =>
        Answers'[n].id # i \/ Answers'[n].ch # c
  BY <1>1, <1>5
<1>9. Live(i)' /\ Answers'[k].ch = c
  BY <1>2, <1>3, <1>4, <1>5 DEF Live
<1>. QED
  BY <1>5, <1>7, <1>8, <1>9 DEF ReleaseAt

LEMMA TakenLabel ==
  ASSUME IInv, NEW a, NEW d, Moved(a, d), NEW i, a.id = i, i # 0, setup.ext, NEW c \in Ch,
         FlowControlIdTable[c] = i,
         <<i, c>> \in cardFc => <<i, c>> \in cardFc' \/ "REMOVE_PENDING" \in flags[IdTable[i]],
         a.rc = "OK" /\ a.type = "none" /\ a.ch = c /\ "NO_RC_CANCELLING" \notin flags[IdTable[i]] =>
           \E n \in DOMAIN Answers : Released(n, i)
  PROVE  LabelAt(c)'
<1>1. PICK N \in Nat :
        /\ Answers'[N] = a
        /\ \A n \in DOMAIN Answers : n \in DOMAIN Answers' /\ Answers'[n] = Answers[n] /\ n < N
        /\ \A n \in DOMAIN Answers' : n = N \/ n \in DOMAIN Answers
  BY MovedShape
<1>2. UNCHANGED <<held, IdTable, flags, More, Req, FlowControlIdTable>>
  BY DEF Moved
<1>. SUFFICES ASSUME "NO_RC_CANCELLING" \notin flags[IdTable[i]]
              PROVE  LabelAt(c)'
  BY <1>2 DEF LabelAt
<1>3. /\ c \in held /\ (More[c[1]] # 32 /\ Req[c[1]].ch = c => Req[c[1]].code # "DATA")
      /\ \/ "REMOVE_PENDING" \in flags[IdTable[i]] \/ <<i, c>> \in cardFc
         \/ \E n \in DOMAIN Answers : Released(n, i)
      /\ \A k \in DOMAIN Answers :
           /\ Answers[k].id = i /\ Answers[k].ch = c
           /\ Answers[k].rc = "OK" /\ Answers[k].type = "none"
           => \E n \in DOMAIN Answers : n < k /\ Released(n, i)
  <2>1. LabelAt(c)
    BY DEF IInv, LabelInv
  <2>. QED
    BY <2>1 DEF LabelAt
<1>4. \A n \in DOMAIN Answers : Released(n, i) => n \in DOMAIN Answers' /\ Released(n, i)' /\ n < N
  BY <1>1 DEF Released
<1>5. ASSUME NEW k \in DOMAIN Answers', Answers'[k].id = i, Answers'[k].ch = c,
             Answers'[k].rc = "OK", Answers'[k].type = "none"
      PROVE  \E n \in DOMAIN Answers' : n < k /\ Released(n, i)'
  <2>1. CASE k = N
    BY <2>1, <1>1, <1>4, <1>5
  <2>2. CASE k # N
    <3>1. k \in DOMAIN Answers /\ Answers'[k] = Answers[k]
      BY <2>2, <1>1
    <3>2. \E n \in DOMAIN Answers : n < k /\ Released(n, i)
      BY <3>1, <1>3, <1>5
    <3>. QED
      BY <3>2, <1>4
  <2>. QED
    BY <2>1, <2>2
<1>6. \/ "REMOVE_PENDING" \in flags[IdTable[i]] \/ <<i, c>> \in cardFc'
      \/ \E n \in DOMAIN Answers' : Released(n, i)'
  BY <1>3, <1>4
<1>. QED
  BY <1>2, <1>3, <1>5, <1>6 DEF LabelAt

\* A request that is no ASSIGN.
TakenAt(q, i) ==
  /\ i = q.id /\ i \in Id /\ i # 0 /\ i \in cardIds
  /\ \A k \in DOMAIN Answers : Answers[k].id = i => Answers[k].rc \notin {"ASSIGN_OK", "OK_FC"}
  /\ ~Live(i) => q.code = "REMOVE" /\ ~setup.wait
  /\ Live(i) => /\ Owner(i) \in Entity /\ eId[Owner(i)] = i /\ More[Owner(i)] >= 80
                /\ q.ch = Req[Owner(i)].ch /\ q.ch \in {Owner(i)} \X (1 .. NumCh)
                /\ IF q.code = "MDATA" THEN Req[Owner(i)].code = "DATA"
                   ELSE q.code = Req[Owner(i)].code /\ More[Owner(i)] >= 96
  /\ q.code # "REMOVE" => Live(i) /\ "REMOVE_PENDING" \notin flags[IdTable[i]]
  /\ q.code # "MDATA" => \A k \in DOMAIN Asked' : Asked'[k].id # i

LEMMA Taken ==
  ASSUME IInv, CardTake, NEW q, q = Head(ReqMem), q.code # "ASSIGN"
  PROVE  TakenAt(q, q.id)
<1>t. Types
  BY DEF IInv, CodeTypes
<1>1. /\ q \in ReqBufs /\ 1 \in DOMAIN Asked /\ Asked[1] = q /\ AskedAt(1)
      /\ \A k \in DOMAIN Asked' :
           k \in Nat /\ k >= 1 /\ k + 1 \in DOMAIN Asked /\ Asked'[k] = Asked[k + 1]
  BY TakeShape
<1>2. PICK i : i = q.id
  OBVIOUS
<1>3. i \in Id /\ i # 0 /\ i \in cardIds
  <2>1. i # 0 /\ i \in Id \cup {0}
    BY <1>1, <1>2 DEF AskedAt, ReqBufs
  <2>. QED
    BY <2>1, <1>1, <1>2 DEF AskedAt
<1>4. ASSUME NEW k \in DOMAIN Answers, Answers[k].id = i, Answers[k].rc \in {"ASSIGN_OK", "OK_FC"}
      PROVE  FALSE
  <2>1. \A n \in DOMAIN Asked : Asked[n].id # i
    BY <1>4 DEF IInv, AnswersInv, AnswerAt
  <2>. QED
    BY <2>1, <1>1, <1>2
<1>5. ~Live(i) => q.code = "REMOVE" /\ ~setup.wait
  BY <1>1, <1>2, <1>3 DEF AskedAt
<1>6. ASSUME Live(i)
      PROVE  /\ Owner(i) \in Entity /\ eId[Owner(i)] = i /\ More[Owner(i)] >= 80
             /\ q.ch = Req[Owner(i)].ch /\ q.ch \in {Owner(i)} \X (1 .. NumCh)
             /\ IF q.code = "MDATA" THEN Req[Owner(i)].code = "DATA"
                ELSE q.code = Req[Owner(i)].code /\ More[Owner(i)] >= 96
  <2>1. PICK x \in Entity : x = Owner(i) /\ eId[x] = i
    BY <1>3, <1>6, Owned
  <2>2. q.ch = Req[x].ch /\ IF q.code = "MDATA" THEN Req[x].code = "DATA"
                            ELSE q.code = Req[x].code /\ More[x] >= 96
    BY <2>1, <1>1, <1>2, <1>3, <1>6 DEF AskedAt
  <2>3. Num(Asked, ReqsOf(i)) # 0
    BY <1>t, <1>1, <1>2, Typed, NumZero DEF ReqsOf
  <2>4. Parts(x) # 0 /\ Parts(x) \in Nat
    BY <2>1, <2>3, <1>t, Quiet
  <2>5. Phase(x) /\ (More[x] # 32 => Req[x].ch \in {x} \X (1 .. NumCh))
    BY <2>1, <1>3, Phases
  <2>6. More[x] >= 80
    BY <2>4, <2>5 DEF Phase
  <2>7. q.ch \in {x} \X (1 .. NumCh)
    BY <2>2, <2>5, <2>6
  <2>. QED
    BY <2>1, <2>2, <2>6, <2>7
<1>7. q.code # "REMOVE" => Live(i) /\ "REMOVE_PENDING" \notin flags[IdTable[i]]
  <2>. SUFFICES ASSUME q.code # "REMOVE"
                PROVE  Live(i) /\ "REMOVE_PENDING" \notin flags[IdTable[i]]
    OBVIOUS
  <2>1. Live(i)
    BY <1>5
  <2>2. Req[Owner(i)].code # "REMOVE"
    BY <2>1, <1>6
  <2>3. IdTable[i] \in Slot /\ Owner(i) = e_tbl[IdTable[i]]
    BY <2>1, <1>3, Owned
  <2>. QED
    BY <2>1, <2>2, <2>3 DEF IInv, RemoveInv, PendingAt
<1>8. ASSUME q.code # "MDATA", NEW k \in DOMAIN Asked'
      PROVE  Asked'[k].id # i
  <2>1. \A n \in DOMAIN Asked : n > 1 => Asked[n].id # i
    BY <1>1, <1>2, <1>3, <1>8 DEF AskedAt
  <2>2. k + 1 \in DOMAIN Asked /\ k + 1 > 1 /\ Asked'[k] = Asked[k + 1]
    BY <1>1
  <2>. QED
    BY <2>1, <2>2
<1>9. TakenAt(q, i)
  BY <1>2, <1>3, <1>4, <1>5, <1>6, <1>7, <1>8 DEF TakenAt
<1>. QED
  BY <1>2, <1>9

\* OK: the channel is not flow controlled.
LEMMA TakeOkStep ==
  ASSUME IInv, CardTake, NEW q, q = Head(ReqMem), q.code \in {"MDATA", "DATA", "DISC"},
         q.code = "DISC" => <<q.id, q.ch>> \notin cardFc, Answer("OK", q, "none"),
         cardIds' = cardIds, cardFc' = cardFc
  PROVE  IInv'
<1>t. Types
  BY DEF IInv, CodeTypes
<1>1. PICK i : i = q.id
  OBVIOUS
<1>2. TakenAt(q, i) /\ q \in ReqBufs
  BY <1>1, Taken, TakeShape
<1>3. PICK a : a = [rc |-> "OK", id |-> i, ch |-> q.ch, ref |-> 0, type |-> "none"]
  OBVIOUS
<1>4. a \in RetCodes /\ cardRc' = Append(cardRc, a)
  BY <1>1, <1>2, <1>3 DEF RetCodes, ReqBufs, Answer
<1>5. Swap(q, a) /\ ~IsRelease(a)
  BY <1>1, <1>3 DEF Swap, IsRelease
<1>6. CardSide(a)
  BY <1>t DEF CardSide, Types
<1>7. Moved(a, 1)
  BY <1>4, <1>5, <1>6, TakeMoved
<1>8. PICK N : N = Len(Answers) + 1
  OBVIOUS
<1>9. /\ Answers'[N] = a /\ N \in DOMAIN Answers'
      /\ \A k \in DOMAIN Answers : k \in DOMAIN Answers' /\ Answers'[k] = Answers[k]
      /\ \A k \in DOMAIN Answers' : k = N \/ k \in DOMAIN Answers
  BY <1>7, <1>8, MovedShape
<1>10. UNCHANGED <<eId, More, Req, held, e_tbl, IdTable, flags, FlowControlIdTable, setup>>
  BY <1>7 DEF Moved
<1>11. PICK x : x = Owner(i)
  OBVIOUS
<1>12. /\ i \in Id /\ i # 0 /\ i \in cardIds /\ Live(i) /\ Live(i)' /\ Owner(i)' = x /\ x \in Entity
       /\ "REMOVE_PENDING" \notin flags[IdTable[i]] /\ Req[x].code \in {"DATA", "DISC"}
       /\ More[x] >= 80 /\ q.ch = Req[x].ch /\ q.ch[1] = x
       /\ q.code # "DISC" => Req[x].code = "DATA"
       /\ \A k \in DOMAIN Answers : Answers[k].id = i => Answers[k].rc \notin {"ASSIGN_OK", "OK_FC"}
  BY <1>2, <1>10, <1>11 DEF TakenAt, Live, Owner
<1>13. LiveAt(i)' /\ GoneAt(i)'
  BY <1>10, <1>12 DEF LiveAt, GoneAt
<1>14. ASSUME NEW f \in cardFc', f[1] = i
       PROVE  OwnFc(f)' /\ (setup.wait => FcAt(f)')
  <2>1. OwnFc(f) /\ (setup.wait => FcAt(f)) /\ f \in cardFc
    BY DEF IInv, FlowInv, WaitInv
  <2>2. setup.wait => f[2] \in held'
    BY <2>1, <1>10, <1>12, <1>14 DEF FcAt, IsFc
  <2>. QED
    BY <2>1, <2>2, <1>10, <1>11, <1>12, <1>14 DEF OwnFc, FcAt
<1>15. ASSUME setup.wait, NEW k \in DOMAIN Answers', Answers'[k].id = i
       PROVE  ReleaseAt(k)'
  <2>1. \A n \in DOMAIN Answers : Answers[n].id = i /\ IsRelease(Answers[n]) =>
          <<i, Answers[n].ch>> \notin cardFc'
    BY <1>15 DEF IInv, WaitInv, ReleaseAt
  <2>2. a.id = i
    BY <1>3
  <2>. QED
    BY <2>1, <2>2, <1>5, <1>7, <1>15, TakenFlow
<1>16. ASSUME setup.ext, NEW c \in Ch, FlowControlIdTable[c] = i
       PROVE  LabelAt(c)'
  <2>1. ASSUME a.ch = c, "NO_RC_CANCELLING" \notin flags[IdTable[i]]
        PROVE  \E n \in DOMAIN Answers : Released(n, i)
    <3>1. /\ More[c[1]] # 32 /\ Req[c[1]].ch = c => Req[c[1]].code # "DATA"
          /\ \/ "REMOVE_PENDING" \in flags[IdTable[i]] \/ <<i, c>> \in cardFc
             \/ \E n \in DOMAIN Answers : Released(n, i)
      <4>1. LabelAt(c)
        BY <1>16 DEF IInv, LabelInv
      <4>. QED
        BY <4>1, <2>1, <1>12, <1>16 DEF LabelAt
    <3>2. q.ch = c /\ c[1] = x /\ More[x] # 32
      BY <2>1, <1>3, <1>12
    <3>3. q.code = "DISC"
      BY <3>1, <3>2, <1>12
    <3>. QED
      BY <3>1, <3>2, <3>3, <1>1, <1>12
  <2>2. a.id = i /\ (<<i, c>> \in cardFc => <<i, c>> \in cardFc')
    BY <1>3
  <2>. QED
    BY <2>1, <2>2, <1>7, <1>12, <1>16, TakenLabel
<1>17. AddedOk(a, i)
  <2>1. \A k \in DOMAIN Answers' : Answers'[k].id = i => Answers'[k].rc # "OK_FC"
    BY <1>3, <1>9, <1>12
  <2>. QED
    BY <2>1, <1>12, <1>13, <1>14, <1>15, <1>16 DEF AddedOk
<1>18. AnswerAt(N)'
  BY <1>3, <1>9, <1>10, <1>11, <1>12 DEF AnswerAt
<1>19. a.id = i
  BY <1>3
<1>. QED
  BY <1>4, <1>5, <1>6, <1>8, <1>17, <1>18, <1>19, TakenStep

\* OK_FC: the channel is flow controlled.
LEMMA TakeFcStep ==
  ASSUME IInv, CardTake, NEW q, q = Head(ReqMem), q.code \in {"DATA", "DISC"},
         Answer("OK_FC", q, "none"), cardIds' = cardIds,
         cardFc' = cardFc \cup {<<q.id, q.ch>>}
  PROVE  IInv'
<1>t. Types
  BY DEF IInv, CodeTypes
<1>1. PICK i : i = q.id
  OBVIOUS
<1>2. TakenAt(q, i) /\ q \in ReqBufs
  BY <1>1, Taken, TakeShape
<1>3. PICK a : a = [rc |-> "OK_FC", id |-> i, ch |-> q.ch, ref |-> 0, type |-> "none"]
  OBVIOUS
<1>4. a \in RetCodes /\ cardRc' = Append(cardRc, a)
  BY <1>1, <1>2, <1>3 DEF RetCodes, ReqBufs, Answer
<1>5. Swap(q, a) /\ ~IsRelease(a)
  BY <1>1, <1>3 DEF Swap, IsRelease
<1>6. CardSide(a)
  <2>1. <<i, q.ch>> \in Id \X Ch
    BY <1>2 DEF TakenAt, Ch
  <2>2. a.id = i
    BY <1>3
  <2>. QED
    BY <2>1, <2>2, <1>t, <1>1 DEF CardSide, Types
<1>7. Moved(a, 1)
  BY <1>4, <1>5, <1>6, TakeMoved
<1>8. PICK N : N = Len(Answers) + 1
  OBVIOUS
<1>9. /\ Answers'[N] = a /\ N \in DOMAIN Answers'
      /\ \A k \in DOMAIN Answers : k \in DOMAIN Answers' /\ Answers'[k] = Answers[k] /\ k < N
      /\ \A k \in DOMAIN Answers' : k = N \/ k \in DOMAIN Answers
  BY <1>7, <1>8, MovedShape
<1>10. UNCHANGED <<eId, More, Req, held, e_tbl, IdTable, flags, FlowControlIdTable, setup>>
  BY <1>7 DEF Moved
<1>11. PICK x : x = Owner(i)
  OBVIOUS
<1>12. /\ i \in Id /\ i # 0 /\ i \in cardIds /\ Live(i) /\ Live(i)' /\ Owner(i)' = x /\ x \in Entity
       /\ "REMOVE_PENDING" \notin flags[IdTable[i]] /\ Req[x].code \in {"DATA", "DISC"}
       /\ More[x] >= 96 /\ q.ch = Req[x].ch /\ q.ch[1] = x /\ eId[x] = i
       /\ \A k \in DOMAIN Asked' : Asked'[k].id # i
       /\ \A k \in DOMAIN Answers : Answers[k].id = i => Answers[k].rc \notin {"ASSIGN_OK", "OK_FC"}
  BY <1>2, <1>10, <1>11 DEF TakenAt, Live, Owner
<1>13. LiveAt(i)' /\ GoneAt(i)'
  BY <1>10, <1>12 DEF LiveAt, GoneAt
<1>14. ASSUME NEW f \in cardFc', f[1] = i
       PROVE  OwnFc(f)' /\ (setup.wait => FcAt(f)')
  <2>1. CASE f = <<i, q.ch>>
    <3>1. IsFc(N, i, q.ch)'
      BY <1>3, <1>9 DEF IsFc
    <3>. QED
      BY <2>1, <3>1, <1>9, <1>12 DEF OwnFc, FcAt
  <2>2. CASE f # <<i, q.ch>>
    <3>1. f \in cardFc
      BY <2>2, <1>1
    <3>2. OwnFc(f) /\ (setup.wait => FcAt(f))
      BY <3>1 DEF IInv, FlowInv, WaitInv
    <3>3. setup.wait => f[2] \in held'
      BY <3>2, <1>10, <1>12, <1>14 DEF FcAt, IsFc
    <3>. QED
      BY <3>2, <3>3, <1>10, <1>11, <1>12, <1>14 DEF OwnFc, FcAt
  <2>. QED
    BY <2>1, <2>2
<1>15. ASSUME setup.wait, NEW k \in DOMAIN Answers', Answers'[k].id = i
       PROVE  ReleaseAt(k)'
  <2>1. ASSUME NEW n \in DOMAIN Answers, Answers[n].id = i, IsRelease(Answers[n])
        PROVE  <<i, Answers[n].ch>> \notin cardFc'
    <3>1. <<i, Answers[n].ch>> \notin cardFc /\ Answers[n].ch \in held
      BY <2>1, <1>12, <1>15 DEF IInv, WaitInv, ReleaseAt, IsFc
    <3>2. q.ch \notin held
      BY <1>12, <1>15 DEF IInv, WaitInv, SparesAt
    <3>. QED
      BY <3>1, <3>2, <1>1
  <2>2. a.id = i
    BY <1>3
  <2>. QED
    BY <2>1, <2>2, <1>5, <1>7, <1>15, TakenFlow
<1>16. ASSUME setup.ext, NEW c \in Ch, FlowControlIdTable[c] = i
       PROVE  LabelAt(c)'
  <2>1. a.id = i /\ a.rc # "OK" /\ (<<i, c>> \in cardFc => <<i, c>> \in cardFc')
    BY <1>3
  <2>. QED
    BY <2>1, <1>7, <1>12, <1>16, TakenLabel
<1>17. AddedOk(a, i)
  <2>1. \A k \in DOMAIN Answers' :
          Answers'[k].id = i /\ Answers'[k].rc = "OK_FC" => <<i, Answers'[k].ch>> \in cardFc'
    BY <1>1, <1>3, <1>9, <1>12
  <2>. QED
    BY <2>1, <1>12, <1>13, <1>14, <1>15, <1>16 DEF AddedOk
<1>18. AnswerAt(N)'
  <2>1. \A n \in DOMAIN Answers' : ~(n > N)
    <3>1. N \in Nat /\ \A n \in DOMAIN Answers : n \in Nat /\ n < N
      <4>1. Answers \in Seq(RetCodes)
        BY Typed DEF IInv, CodeTypes
      <4>2. Len(Answers) \in Nat /\ \A n \in DOMAIN Answers : n \in 1 .. Len(Answers)
        BY <4>1, LenProperties, Zenon
      <4>. QED
        BY <4>2, <1>8
    <3>2. \A n \in DOMAIN Answers' : n = N \/ n \in DOMAIN Answers
      BY <1>9
    <3>. QED
      BY <3>1, <3>2
  <2>. QED
    BY <2>1, <1>3, <1>9, <1>10, <1>11, <1>12 DEF AnswerAt
<1>19. a.id = i
  BY <1>3
<1>. QED
  BY <1>4, <1>5, <1>6, <1>8, <1>17, <1>18, <1>19, TakenStep

\* The answer to a REMOVE: the card forgets the Id.
LEMMA TakeRemoveStep ==
  ASSUME Premises, IInv, CardTake, NEW q, q = Head(ReqMem), q.code = "REMOVE",
         Answer("OK", q, IF setup.ext THEN "REMOVE_COMPLETE" ELSE "none"),
         cardIds' = cardIds \ {q.id}, cardFc' = {f \in cardFc : f[1] # q.id}
  PROVE  IInv'
<1>t. Types
  BY DEF IInv, CodeTypes
<1>1. PICK i : i = q.id
  OBVIOUS
<1>2. TakenAt(q, i) /\ q \in ReqBufs
  BY <1>1, Taken, TakeShape
<1>p. setup.ext \/ setup.wait
  BY <1>t DEF Premises, Types
<1>3. PICK a : a = [rc |-> "OK", id |-> i, ch |-> q.ch, ref |-> 0,
                    type |-> IF setup.ext THEN "REMOVE_COMPLETE" ELSE "none"]
  OBVIOUS
<1>4. a \in RetCodes /\ cardRc' = Append(cardRc, a)
  BY <1>1, <1>2, <1>3 DEF RetCodes, ReqBufs, Answer
<1>5. Swap(q, a) /\ ~IsRelease(a) /\ a.id = i
  BY <1>1, <1>3 DEF Swap, IsRelease
<1>6. CardSide(a)
  BY <1>t, <1>1, <1>5 DEF CardSide, Types
<1>7. Moved(a, 1)
  BY <1>4, <1>5, <1>6, TakeMoved
<1>8. PICK N : N = Len(Answers) + 1
  OBVIOUS
<1>9. /\ Answers'[N] = a /\ N \in DOMAIN Answers'
      /\ \A k \in DOMAIN Answers : k \in DOMAIN Answers' /\ Answers'[k] = Answers[k]
      /\ \A k \in DOMAIN Answers' : k = N \/ k \in DOMAIN Answers
  BY <1>7, <1>8, MovedShape
<1>10. UNCHANGED <<eId, More, Req, held, e_tbl, IdTable, flags, FlowControlIdTable, setup>>
  BY <1>7 DEF Moved
<1>11. PICK x : x = Owner(i)
  OBVIOUS
<1>12. /\ i \in Id /\ i # 0 /\ (Live(i)' <=> Live(i)) /\ Owner(i)' = x
       /\ Live(i) => /\ Req[x].code = "REMOVE" /\ More[x] >= 96 /\ More[x] >= 80
                     /\ q.ch = Req[x].ch
       /\ ~setup.ext => Live(i)
       /\ \A k \in DOMAIN Answers : Answers[k].id = i => Answers[k].rc \notin {"ASSIGN_OK", "OK_FC"}
       /\ \A k \in DOMAIN Asked' : Asked'[k].id # i
  BY <1>2, <1>p, <1>10, <1>11 DEF TakenAt, Live, Owner
<1>13. Live(i) => "REMOVE_PENDING" \in flags[IdTable[i]]
  BY <1>11, <1>12 DEF IInv, RemoveInv, LiveAt
<1>14. LiveAt(i)' /\ i \notin cardIds'
  <2>1. EndsRemove(N, i)'
    BY <1>3, <1>9, <1>10 DEF EndsRemove
  <2>2. i \notin cardIds'
    BY <1>1
  <2>. QED
    BY <2>1, <2>2, <1>9, <1>10, <1>12, <1>13 DEF LiveAt
<1>15. ASSUME setup.wait, NEW k \in DOMAIN Answers', Answers'[k].id = i
       PROVE  ReleaseAt(k)'
  <2>1. \A n \in DOMAIN Answers : Answers[n].id = i /\ IsRelease(Answers[n]) =>
          <<i, Answers[n].ch>> \notin cardFc'
    BY <1>1
  <2>. QED
    BY <2>1, <1>5, <1>7, <1>15, TakenFlow
<1>16. ASSUME setup.ext, NEW c \in Ch, FlowControlIdTable[c] = i
       PROVE  LabelAt(c)'
  <2>1. Live(i)
    <3>1. c[1] \in Entity /\ eId[c[1]] = i
      BY <1>12, <1>16 DEF IInv, FlowInv, Ch
    <3>2. IdTable[i] \in Slot
      BY <3>1, <1>12 DEF IInv, TableInv
    <3>. QED
      BY <3>2, SlotFacts DEF Live
  <2>2. a.type # "none"
    BY <1>3, <1>16
  <2>. QED
    BY <2>1, <2>2, <1>5, <1>7, <1>12, <1>13, <1>16, TakenLabel
<1>17. AddedOk(a, i)
  <2>1. \A k \in DOMAIN Answers' : Answers'[k].id = i => Answers'[k].rc # "OK_FC"
    BY <1>3, <1>9, <1>12
  <2>2. \A f \in cardFc' : f[1] # i
    BY <1>1
  <2>. QED
    BY <2>1, <2>2, <1>12, <1>14, <1>15, <1>16 DEF AddedOk
<1>18. AnswerAt(N)'
  <2>1. a.rc = "OK" /\ a.ch = q.ch
    BY <1>3
  <2>2. CASE setup.ext
    <3>1. a.type = "REMOVE_COMPLETE"
      BY <2>2, <1>3
    <3>. QED
      BY <2>1, <2>2, <3>1, <1>5, <1>9, <1>10, <1>12 DEF AnswerAt
  <2>3. CASE ~setup.ext
    <3>1. a.type = "none"
      BY <2>3, <1>3
    <3>. QED
      BY <2>1, <2>3, <3>1, <1>5, <1>9, <1>10, <1>12 DEF AnswerAt
  <2>. QED
    BY <2>2, <2>3
<1>. QED
  BY <1>4, <1>5, <1>6, <1>8, <1>17, <1>18, TakenStep

\* The answer to an ASSIGN: a new Id, or none.
LEMMA TakeAssignStep ==
  ASSUME IInv, CardTake, NEW q, q = Head(ReqMem), q.code = "ASSIGN",
         NEW i \in (Id \ cardIds) \cup {0},
         cardIds' = IF i = 0 THEN cardIds ELSE cardIds \cup {i},
         cardRc' = Append(cardRc,
           [rc |-> IF i = 0 THEN "ASSIGN_BAD" ELSE "ASSIGN_OK", id |-> i,
            ch |-> NoCh, ref |-> q.ref, type |-> "none"]),
         cardFc' = cardFc
  PROVE  IInv'
<1>t. Types
  BY DEF IInv, CodeTypes
<1>1. PICK a : a = [rc |-> IF i = 0 THEN "ASSIGN_BAD" ELSE "ASSIGN_OK", id |-> i,
                    ch |-> NoCh, ref |-> q.ref, type |-> "none"]
  OBVIOUS
<1>2. /\ q \in ReqBufs /\ q.id = 0 /\ q.ref \in Slot
      /\ \A k \in DOMAIN Asked' : k + 1 \in DOMAIN Asked /\ Asked'[k] = Asked[k + 1]
  <2>1. q \in ReqBufs /\ Asked[1] = q /\ AskedAt(1)
    BY TakeShape
  <2>2. \A k \in DOMAIN Asked' : k + 1 \in DOMAIN Asked /\ Asked'[k] = Asked[k + 1]
    BY TakeShape
  <2>. QED
    BY <2>1, <2>2 DEF AskedAt, ReqBufs
<1>3. a \in RetCodes /\ cardRc' = Append(cardRc, a) /\ a.id = i /\ a.type = "none" /\ a.ref = q.ref
  BY <1>1, <1>2 DEF RetCodes
<1>4. /\ i = 0 => a.rc = "ASSIGN_BAD"
      /\ i # 0 => a.rc = "ASSIGN_OK" /\ i \in Id /\ i \notin cardIds /\ cardIds' = cardIds \cup {i}
  BY <1>1
<1>5. Swap(q, a) /\ ~IsRelease(a)
  BY <1>2, <1>3, <1>4 DEF Swap, IsRelease
<1>6. CardSide(a)
  BY <1>t, <1>3 DEF CardSide, Types
<1>7. Moved(a, 1)
  BY <1>3, <1>5, <1>6, TakeMoved
<1>8. PICK N : N = Len(Answers) + 1
  OBVIOUS
<1>9. /\ Answers'[N] = a /\ N \in DOMAIN Answers'
      /\ \A k \in DOMAIN Answers : k \in DOMAIN Answers' /\ Answers'[k] = Answers[k] /\ k < N
      /\ \A k \in DOMAIN Answers' : k = N \/ k \in DOMAIN Answers
  BY <1>7, <1>8, MovedShape
<1>10. UNCHANGED <<eId, More, Req, held, e_tbl, IdTable, flags, FlowControlIdTable, setup>>
  BY <1>7 DEF Moved
<1>11. PICK x : x = Owner(i)
  OBVIOUS
<1>12. /\ Live(i)' <=> Live(i)
       /\ Owner(i)' = x
  BY <1>10, <1>11 DEF Live, Owner
<1>13. ASSUME i # 0
       PROVE  /\ \A k \in DOMAIN Asked : Asked[k].id # i
              /\ \A k \in DOMAIN Asked' : Asked'[k].id # i
              /\ \A f \in cardFc : f[1] # i
              /\ Live(i) => /\ Req[x].code = "REMOVE" /\ More[x] >= 96
                            /\ \E n \in DOMAIN Answers : EndsRemove(n, i)
              /\ \A k \in DOMAIN Answers : Answers[k].id = i => Answers[k].rc \notin {"ASSIGN_OK", "OK_FC"}
  <2>1. \A k \in DOMAIN Asked : Asked[k].id # i
    BY <1>4, <1>13 DEF IInv, AskedInv, AskedAt
  <2>2. \A f \in cardFc : f[1] # i
    BY <1>4, <1>13 DEF IInv, FlowInv, OwnFc
  <2>3. Live(i) => /\ Req[x].code = "REMOVE" /\ More[x] >= 96
                   /\ \E n \in DOMAIN Answers : EndsRemove(n, i)
    BY <1>4, <1>11, <1>13 DEF IInv, RemoveInv, LiveAt
  <2>4. ASSUME NEW k \in DOMAIN Answers, Answers[k].id = i
        PROVE  Answers[k].rc \notin {"ASSIGN_OK", "OK_FC"}
    <3>1. AnswerAt(k)
      BY DEF IInv, AnswersInv
    <3>. QED
      BY <2>3, <2>4, <3>1, <1>4, <1>11, <1>13 DEF AnswerAt
  <2>. QED
    BY <2>1, <2>2, <2>3, <2>4, <1>2
<1>14. ASSUME i # 0
       PROVE  AddedOk(a, i)
  <2>1. Assigns(N, i)' /\ i \in cardIds' /\ i \in Id
    BY <1>3, <1>4, <1>9, <1>14 DEF Assigns
  <2>2. GoneAt(i)'
    BY <2>1, <1>9 DEF GoneAt
  <2>3. LiveAt(i)'
    <3>1. LiveAt(i)
      BY <2>1 DEF IInv, RemoveInv
    <3>. QED
      BY <2>1, <3>1, <1>9, <1>10, <1>11, <1>12 DEF LiveAt
  <2>4. ASSUME setup.wait, NEW k \in DOMAIN Answers', Answers'[k].id = i
        PROVE  ReleaseAt(k)'
    <3>1. \A n \in DOMAIN Answers : Answers[n].id = i /\ IsRelease(Answers[n]) =>
            <<i, Answers[n].ch>> \notin cardFc'
      BY <1>13, <1>14
    <3>. QED
      BY <2>4, <3>1, <1>3, <1>5, <1>7, TakenFlow
  <2>5. ASSUME setup.ext, NEW c \in Ch, FlowControlIdTable[c] = i
        PROVE  LabelAt(c)'
    <3>1. a.rc # "OK" /\ (<<i, c>> \in cardFc => <<i, c>> \in cardFc')
      BY <1>4, <1>14
    <3>. QED
      BY <2>5, <3>1, <1>3, <1>7, <1>14, TakenLabel
  <2>6. \A k \in DOMAIN Answers' : Answers'[k].id = i => Answers'[k].rc # "OK_FC"
    BY <1>4, <1>9, <1>13, <1>14
  <2>. QED
    BY <2>1, <2>2, <2>3, <2>4, <2>5, <2>6, <1>13, <1>14 DEF AddedOk
<1>15. AnswerAt(N)'
  <2>1. CASE i = 0
    BY <2>1, <1>2, <1>3, <1>4, <1>9 DEF AnswerAt
  <2>2. CASE i # 0
    <3>1. i \in cardIds' /\ \A f \in cardFc' : f[1] # i
      BY <2>2, <1>4, <1>13
    <3>2. \A n \in DOMAIN Answers' : ~(n > N)
      <4>1. N \in Nat /\ \A n \in DOMAIN Answers : n \in Nat /\ n < N
        <5>1. Answers \in Seq(RetCodes)
          BY <1>t, Typed
        <5>2. Len(Answers) \in Nat /\ \A n \in DOMAIN Answers : n \in 1 .. Len(Answers)
          BY <5>1, LenProperties, Zenon
        <5>. QED
          BY <5>2, <1>8
      <4>2. \A n \in DOMAIN Answers' : n = N \/ n \in DOMAIN Answers
        BY <1>9
      <4>. QED
        BY <4>1, <4>2
    <3>3. \A n \in DOMAIN Answers : EndsRemove(n, i) => n \in DOMAIN Answers' /\ n < N /\ EndsRemove(n, i)'
      BY <1>9, <1>10 DEF EndsRemove
    <3>4. Live(i)' => /\ Req'[x].code = "REMOVE" /\ More'[x] >= 96
                      /\ \E n \in DOMAIN Answers' : n < N /\ EndsRemove(n, i)'
      BY <2>2, <3>3, <1>10, <1>12, <1>13
    <3>5. \A n \in DOMAIN Asked' : Asked'[n].id # i
      BY <2>2, <1>13
    <3>. QED
      BY <2>2, <3>1, <3>2, <3>4, <3>5, <1>2, <1>3, <1>4, <1>9, <1>12 DEF AnswerAt
  <2>. QED
    BY <2>1, <2>2
<1>16. a.id \in Id => AddedOk(a, a.id)
  BY <1>3, <1>14, SlotFacts
<1>. QED
  BY <1>3, <1>5, <1>6, <1>8, <1>15, <1>16, TakenStep

LEMMA CardTakeStep == Premises /\ IInv /\ CardTake => IInv'
<1>. SUFFICES ASSUME Premises, IInv, CardTake
              PROVE  IInv'
  OBVIOUS
<1>1. PICK q : q = Head(ReqMem)
  OBVIOUS
<1>2. q.code # "UREMOVE"
  <2>1. Asked[1] = q /\ AskedAt(1)
    BY <1>1, TakeShape
  <2>. QED
    BY <2>1 DEF AskedAt
<1>3. \/ /\ q.code = "ASSIGN"
         /\ \E i \in (Id \ cardIds) \cup {0} :
              /\ cardIds' = IF i = 0 THEN cardIds ELSE cardIds \cup {i}
              /\ cardRc' = Append(cardRc,
                   [rc |-> IF i = 0 THEN "ASSIGN_BAD" ELSE "ASSIGN_OK", id |-> i,
                    ch |-> NoCh, ref |-> q.ref, type |-> "none"])
         /\ cardFc' = cardFc
      \/ /\ q.code = "MDATA" \/ (q.code \in {"DATA", "DISC"} /\ <<q.id, q.ch>> \notin cardFc)
         /\ Answer("OK", q, "none")
         /\ cardIds' = cardIds /\ cardFc' = cardFc
      \/ /\ q.code \in {"DATA", "DISC"}
         /\ Answer("OK_FC", q, "none")
         /\ cardFc' = cardFc \cup {<<q.id, q.ch>>}
         /\ cardIds' = cardIds
      \/ /\ q.code = "REMOVE"
         /\ Answer("OK", q, IF setup.ext THEN "REMOVE_COMPLETE" ELSE "none")
         /\ cardIds' = cardIds \ {q.id}
         /\ cardFc' = {f \in cardFc : f[1] # q.id}
  BY <1>1, <1>2, Zenon DEF CardTake
<1>4. CASE /\ q.code = "ASSIGN"
           /\ \E i \in (Id \ cardIds) \cup {0} :
                /\ cardIds' = IF i = 0 THEN cardIds ELSE cardIds \cup {i}
                /\ cardRc' = Append(cardRc,
                     [rc |-> IF i = 0 THEN "ASSIGN_BAD" ELSE "ASSIGN_OK", id |-> i,
                      ch |-> NoCh, ref |-> q.ref, type |-> "none"])
           /\ cardFc' = cardFc
  BY <1>1, <1>4, TakeAssignStep
<1>5. CASE /\ q.code = "MDATA" \/ (q.code \in {"DATA", "DISC"} /\ <<q.id, q.ch>> \notin cardFc)
           /\ Answer("OK", q, "none")
           /\ cardIds' = cardIds /\ cardFc' = cardFc
  <2>1. q.code \in {"MDATA", "DATA", "DISC"} /\ (q.code = "DISC" => <<q.id, q.ch>> \notin cardFc)
    BY <1>5
  <2>. QED
    BY <2>1, <1>1, <1>5, TakeOkStep
<1>6. CASE /\ q.code \in {"DATA", "DISC"}
           /\ Answer("OK_FC", q, "none")
           /\ cardFc' = cardFc \cup {<<q.id, q.ch>>}
           /\ cardIds' = cardIds
  BY <1>1, <1>6, TakeFcStep
<1>7. CASE /\ q.code = "REMOVE"
           /\ Answer("OK", q, IF setup.ext THEN "REMOVE_COMPLETE" ELSE "none")
           /\ cardIds' = cardIds \ {q.id}
           /\ cardFc' = {f \in cardFc : f[1] # q.id}
  BY <1>1, <1>7, TakeRemoveStep
<1>. QED
  BY <1>3, <1>4, <1>5, <1>6, <1>7

-----------------------------------------------------------------------------
(***************************************************************************)
(* The invariant holds initially and every step keeps it.                  *)
(***************************************************************************)
LEMMA InitIInv == Init => IInv
<1>. SUFFICES ASSUME Init
              PROVE  IInv
  OBVIOUS
<1>1. CodeTypes
  <2>1. /\ 0 \in Slot \cup {0} /\ 0 \in 0 .. 255 /\ 0 \in 0 .. MaxFrag /\ 0 \in 0 .. NumReq
        /\ <<>> \in Seq(Slot) /\ <<>> \in Seq(ReqBufs) /\ <<>> \in Seq(RetCodes)
    BY XdiAssumption
  <2>2. [code |-> "ASSIGN", ch |-> NoCh, left |-> 0] \in Requests
    BY <2>1 DEF Requests, ReqCodes
  <2>3. Types
    BY <2>1, <2>2 DEF Init, Types
  <2>4. FlowControlSkipTable \in [Ch -> BOOLEAN] /\ RcExtensionSupported \in BOOLEAN
    BY Zenon DEF Init
  <2>5. soft_isr \in BOOLEAN /\ irq \in BOOLEAN
    BY Zenon DEF Init
  <2>. QED
    BY <2>3, <2>4, <2>5, Zenon DEF CodeTypes
<1>2. Asked = <<>> /\ Answers = <<>> /\ DOMAIN Asked = {} /\ DOMAIN Answers = {} /\ DOMAIN queue = {}
  BY DEF Init, Asked, Answers
<1>3. \A S : Num(Asked, S) = 0 /\ Num(Answers, S) = 0
  <2>1. Asked \in Seq({}) /\ Answers \in Seq({})
    BY <1>2
  <2>. QED
    BY <1>2, <2>1, NumZero
<1>4. Plumbing
  <2>1. Len(ReqMem) + Len(filled) + ReadyCount <= NumReq
    BY XdiAssumption DEF Init
  <2>. QED
    BY <2>1, <1>3 DEF Init, Plumbing
<1>5. TableInv /\ QueueInv
  BY <1>2 DEF Init, TableInv, QueueInv, Live
<1>6. PhaseInv
  BY DEF Init, PhaseInv, PhaseAt
<1>7. AssignInv
  BY <1>3 DEF Init, AssignInv, AssignAt, Assigning
<1>8. AskedInv /\ AnswersInv
  BY <1>2 DEF AskedInv, AnswersInv
<1>9. RemoveInv
  BY DEF Init, RemoveInv, PendingAt, LiveAt, Live
<1>10. FlowInv
  BY <1>2 DEF Init, FlowInv
<1>11. WaitInv
  BY <1>2 DEF Init, WaitInv, SparesAt
<1>12. PlainInv
  BY DEF Init, PlainInv
<1>13. LabelInv
  BY <1>2 DEF Init, LabelInv, LabelAt
<1>. QED
  BY <1>1, <1>4, <1>5, <1>6, <1>7, <1>8, <1>9, <1>10, <1>11, <1>12, <1>13 DEF IInv

\* Every step of the adapter in use keeps the invariant.
LEMMA StepIInv ==
  ASSUME Premises, IInv,
         \/ \E x \in Entity : RequestAssign(x) /\ ~Waits(x)
         \/ ClientNext \/ DpcNext \/ CardNext \/ UNCHANGED vars
  PROVE  IInv'
<1>1. CASE \E x \in Entity : RequestAssign(x) /\ ~Waits(x)
  BY <1>1, RequestAssignStep
<1>2. CASE ClientNext
  BY <1>2, RequestStep DEF ClientNext
<1>3. CASE SendPart \/ SendEnd
  <2>1. PICK s : s = Head(queue)
    OBVIOUS
  <2>2. PICK x : x = e_tbl[s]
    OBVIOUS
  <2>3. PICK i : i = eId[x]
    OBVIOUS
  <2>4. PICK n : n = Parts(x)
    OBVIOUS
  <2>5. PICK code : code = IF Req[x].left > 1 /\ x \in NL THEN "MDATA" ELSE Req[x].code
    OBVIOUS
  <2>6. PICK m : m = IF Req[x].left > 1 /\ x \in NL THEN 81 + n ELSE 97 + n
    OBVIOUS
  <2>. QED
    BY <1>3, <2>1, <2>2, <2>3, <2>4, <2>5, <2>6, SendKnownStep
<1>4. CASE SendAssign
  <2>1. PICK s : s = Head(queue)
    OBVIOUS
  <2>2. PICK x : x = e_tbl[s]
    OBVIOUS
  <2>. QED
    BY <1>4, <2>1, <2>2, SendAssignStep
<1>5. CASE isdn_rc
  BY <1>5, RcReadyIntStep, RcIgnoredStep, RcKnownStep, RcAssignStep, RcUnknownStep DEF isdn_rc
<1>6. CASE DpcStart \/ RcLoopEnd \/ RcFree \/ clr_irq \/ pr_ready \/ Publish
  BY <1>6, DpcStartStep, RcLoopEndStep, RcFreeStep, clr_irqStep, pr_readyStep, PublishStep
<1>7. CASE CardNext
  BY <1>7, CardTakeStep, CardReleaseStep, CardReadyStep, CardPostStep DEF CardNext
<1>8. CASE UNCHANGED vars
  <2>. USE <1>8 DEF vars, entity, tables, locals, card
  <2>1. UNCHANGED Kept /\ Asked' = Asked /\ Answers' = Answers /\ pc' = pc
    BY DEF Kept, Asked, Answers
  <2>2. Types'
    BY Zenon DEF IInv, CodeTypes, Types
  <2>3. CodeTypes'
    BY <2>2, Zenon DEF IInv, CodeTypes
  <2>4. Plumbing'
    BY <2>1 DEF IInv, Plumbing
  <2>. QED
    BY <2>1, <2>3, <2>4, Frame
<1>. QED
  BY <1>1, <1>2, <1>3, <1>4, <1>5, <1>6, <1>7, <1>8, Zenon DEF DpcNext

-----------------------------------------------------------------------------
(***************************************************************************)
(* What the invariant says of the properties.                              *)
(***************************************************************************)
\* What the queue names is in the table and busy.
LEMMA BusyInQueue == Premises /\ IInv => QueueSound
<1>. SUFFICES ASSUME Premises, IInv, NEW k \in DOMAIN queue, NEW s, s = queue[k], NEW x, x = e_tbl[s]
              PROVE  x # NULL /\ eNo[x] = s /\ Busy(x)
  BY DEF QueueSound
<1>t. Types
  BY DEF IInv, CodeTypes
<1>1. s \in Slot /\ s # failed /\ x # NULL /\ x \in Entity /\ InQueue(s)
  BY <1>t, Typed DEF IInv, QueueInv, InQueue, Types
<1>2. eNo[x] = s
  BY <1>1 DEF IInv, TableInv
<1>3. CASE eId[x] = 0
  <2>1. More[x] = 64
    BY <1>1, <1>3 DEF IInv, AssignInv, AssignAt, Assigning
  <2>. QED
    BY <2>1, <1>1, <1>2, QueuedByte DEF Busy
<1>4. CASE eId[x] # 0
  BY <1>1, <1>2, <1>4, IdlePhase DEF Busy
<1>. QED
  BY <1>3, <1>4

\* Entries of the queue name different entities.
LEMMA OnceInQueue == IInv => QueuedOnce
<1>. SUFFICES ASSUME IInv, NEW k \in DOMAIN queue, NEW n \in DOMAIN queue, k # n
              PROVE  e_tbl[queue[k]] # e_tbl[queue[n]]
  BY DEF QueuedOnce
<1>1. Types
  BY DEF IInv, CodeTypes
<1>2. queue[k] \in Slot /\ queue[n] \in Slot
  BY <1>1, Typed DEF Types
<1>. QED
  BY <1>2 DEF IInv, QueueInv, TableInv

\* The byte of an entity with an Id counts its parts.
LEMMA Counted == Premises /\ IInv => CountExact
<1>. SUFFICES ASSUME Premises, IInv, NEW x \in Entity, eId[x] # 0, NEW n, n = Parts(x)
              PROVE  XMOREC(More[x]) = n
  BY DEF CountExact
<1>1. n \in Nat /\ Phase(x) /\ MaxFrag \in Nat /\ MaxFrag <= 15 /\ Req[x].left \in Nat
  BY Phases, XdiAssumption DEF Premises, Requests
<1>2. CASE More[x] = 32 /\ n = 0
  BY <1>2, IdleByte
<1>3. CASE More[x] = 64 /\ n = 0
  BY <1>3, QueuedByte
<1>4. CASE More[x] = 80 + n /\ Req[x].left >= 1 /\ n + Req[x].left <= MaxFrag
  BY <1>1, <1>4, PartByte
<1>5. CASE More[x] = 96 + n /\ n \in 1 .. MaxFrag
  BY <1>1, <1>5, SentByte
<1>. QED
  BY <1>1, <1>2, <1>3, <1>4, <1>5 DEF Phase

\* IdTable and the entities agree.
LEMMA Owners == IInv => IdTableSound
<1>. SUFFICES ASSUME IInv
              PROVE  IdTableSound
  OBVIOUS
<1>1. ASSUME NEW i \in Id, IdTable[i] # 0
      PROVE  LET x == e_tbl[IdTable[i]] IN x # NULL /\ eId[x] = i /\ eNo[x] = IdTable[i]
  <2>1. Live(i)
    BY <1>1 DEF Live
  <2>. QED
    BY <2>1, Owned, SlotFacts
<1>2. \A x \in Entity : eId[x] # 0 => IdTable[eId[x]] = eNo[x]
  BY DEF IInv, TableInv
<1>. QED
  BY <1>1, <1>2 DEF IdTableSound

\* An idle entity has nothing under way.
LEMMA Idle == Premises /\ IInv => IdleIsQuiet
BY IdlePhase DEF IdleIsQuiet, Busy, InQueue

\* An Id the host does not know is not known to the card, or on its way.
LEMMA Gone == IInv => RemovedIsGone
<1>. SUFFICES ASSUME IInv, setup.wait, NEW i \in cardIds, IdTable[i] = 0
              PROVE  \E k \in DOMAIN (RcMem \o cardRc) :
                       (RcMem \o cardRc)[k].id = i /\ (RcMem \o cardRc)[k].rc = "ASSIGN_OK"
  BY DEF RemovedIsGone
<1>1. GoneAt(i)
  BY DEF IInv, RemoveInv
<1>. QED
  BY <1>1 DEF GoneAt, Live, Assigns, Answers

-----------------------------------------------------------------------------
(***************************************************************************)
(* The theorems.                                                           *)
(***************************************************************************)
\* What holds in every state, the last step of an entity with two slots included.
Always ==
  /\ TypeOK /\ (~twice => IInv)
  /\ IdTableSound /\ IdleIsQuiet /\ CountExact /\ RemovedIsGone

\* A second ASSIGN leaves the Ids, and the entities that have one, alone.
LEMMA SecondAssign ==
  ASSUME Premises, IInv, NEW x \in Entity, RequestAssign(x)
  PROVE  CodeTypes' /\ IdTableSound' /\ IdleIsQuiet' /\ CountExact' /\ RemovedIsGone'
<1>. DEFINE q == [code |-> "ASSIGN", ch |-> NoCh, left |-> 1]
<1>t. Types
  BY DEF IInv, CodeTypes
<1>1. PICK s \in Slot :
        /\ e_tbl[s] = NULL /\ e_tbl' = [e_tbl EXCEPT ![s] = x] /\ eNo' = [eNo EXCEPT ![x] = s]
        /\ Accept(x, s, 0, q)
  BY DEF RequestAssign
<1>2. /\ More' = [More EXCEPT ![x] = 64] /\ Req' = [Req EXCEPT ![x] = q]
      /\ queue' = Append(queue, s) /\ eId[x] = 0
      /\ UNCHANGED <<eId, held, IdTable, flags, FlowControlIdTable, FlowControlSkipTable,
                     RcExtensionSupported, ReadyInt, pc, ReadyCount, filled, this, failed, irq,
                     ReqMem, RcMem, cardRc, cardIds, cardFc, cardReadyInt, setup>>
      /\ Asked' = Asked /\ Answers' = Answers
  BY <1>1, IdleByte DEF RequestAssign, Accept, locals, card, Asked, Answers
<1>3. soft_isr' \in BOOLEAN
  BY <1>1 DEF Accept
<1>4. /\ e_tbl'[s] = x /\ \A t \in Slot : t # s => e_tbl'[t] = e_tbl[t]
      /\ \A y \in Entity : y # x => eNo'[y] = eNo[y] /\ More'[y] = More[y] /\ Req'[y] = Req[y]
  BY <1>t, <1>1, <1>2 DEF Types
<1>5. /\ \A k \in DOMAIN queue' : (k \in DOMAIN queue /\ queue'[k] = queue[k]) \/ queue'[k] = s
      /\ queue' \in Seq(Slot)
  BY <1>t, <1>1, <1>2, AppendFacts DEF Types
<1>6. CodeTypes'
  <2>1. q \in Requests
    BY XdiAssumption DEF Requests, ReqCodes
  <2>2. Types'
    BY <1>t, <1>1, <1>2, <1>5, <2>1, XdiAssumption, SMTT(30) DEF Types
  <2>. QED
    BY <2>2, <1>2, <1>3, Zenon DEF IInv, CodeTypes
<1>7. \A y \in Entity : eId[y] # 0 =>
        /\ y # x /\ eNo'[y] = eNo[y] /\ More'[y] = More[y] /\ eNo[y] # s /\ Parts(y)' = Parts(y)
  <2>. SUFFICES ASSUME NEW y \in Entity, eId[y] # 0
                PROVE  y # x /\ eNo'[y] = eNo[y] /\ More'[y] = More[y] /\ eNo[y] # s
                       /\ Parts(y)' = Parts(y)
    OBVIOUS
  <2>1. y # x /\ eNo'[y] = eNo[y] /\ More'[y] = More[y]
    BY <1>2, <1>4
  <2>2. eNo[y] # s
    BY <1>1, Alone, SlotFacts
  <2>3. Parts(y)' = Parts(y)
    BY <1>2 DEF Parts
  <2>. QED
    BY <2>1, <2>2, <2>3
<1>8. IdTableSound'
  <2>1. ASSUME NEW i \in Id, IdTable[i] # 0
        PROVE  LET y == e_tbl'[IdTable[i]] IN y # NULL /\ eId[y] = i /\ eNo'[y] = IdTable[i]
    <3>1. IdTable[i] \in Slot /\ Owner(i) \in Entity /\ eId[Owner(i)] = i /\ Owner(i) # NULL
          /\ eNo[Owner(i)] = IdTable[i] /\ i # 0
      BY <2>1, Owned, SlotFacts DEF Live
    <3>2. Owner(i) # x /\ IdTable[i] # s
      BY <3>1, <1>7, <1>2
    <3>. QED
      BY <3>1, <3>2, <1>4 DEF Owner
  <2>2. \A y \in Entity : eId[y] # 0 => IdTable[eId[y]] = eNo'[y]
    BY <1>7, Owners DEF IdTableSound
  <2>. QED
    BY <2>1, <2>2, <1>2 DEF IdTableSound
<1>9. IdleIsQuiet'
  BY <1>2, <1>5, <1>7, Idle DEF IdleIsQuiet, Busy
<1>10. CountExact'
  BY <1>2, <1>7, Counted DEF CountExact
<1>11. RemovedIsGone'
  BY <1>2, Gone DEF RemovedIsGone
<1>. QED
  BY <1>6, <1>8, <1>9, <1>10, <1>11

LEMMA InitAlways == Premises /\ Init => Always
<1>. SUFFICES ASSUME Premises, Init
              PROVE  Always
  OBVIOUS
<1>1. IInv /\ twice \in BOOLEAN
  BY InitIInv DEF Init
<1>. QED
  BY <1>1, Owners, Idle, Counted, Gone, Zenon DEF IInv, TypeOK, Always

LEMMA StepAlways == Premises /\ Always /\ [Next]_vars => Always'
<1>. SUFFICES ASSUME Premises, Always, [Next]_vars
              PROVE  Always'
  OBVIOUS
<1>1. ASSUME IInv', twice' \in BOOLEAN
      PROVE  Always'
  <2>1. IdTableSound' /\ IdleIsQuiet' /\ CountExact' /\ RemovedIsGone'
    BY <1>1, Owners, Idle, Counted, Gone, PTL
  <2>. QED
    BY <1>1, <2>1, Zenon DEF IInv, TypeOK, Always
<1>2. ASSUME NEW x \in Entity, ~twice, RequestAssign(x), twice' = Waits(x)
      PROVE  Always'
  <2>1. IInv
    BY <1>2 DEF Always
  <2>2. CASE Waits(x)
    <3>1. twice' = TRUE
      BY <1>2, <2>2 DEF Waits
    <3>. QED
      BY <3>1, <2>1, <1>2, SecondAssign, Zenon DEF TypeOK, Always
  <2>3. CASE ~Waits(x)
    <3>1. twice' = FALSE
      BY <1>2, <2>3 DEF Waits
    <3>2. IInv'
      BY <2>1, <1>2, <2>3, RequestAssignStep
    <3>. QED
      BY <3>1, <3>2, <1>1
  <2>. QED
    BY <2>2, <2>3
<1>3. ASSUME ~twice, ClientNext \/ DpcNext \/ CardNext, twice' = twice
      PROVE  Always'
  <2>1. IInv'
    BY <1>3, StepIInv DEF Always
  <2>. QED
    BY <2>1, <1>1, <1>3 DEF Always, TypeOK
<1>4. CASE UNCHANGED vars
  <2>1. CASE ~twice
    <3>1. IInv'
      BY <2>1, <1>4, StepIInv DEF Always
    <3>2. twice' \in BOOLEAN
      <4>1. twice' = twice
        BY <1>4, Zenon DEF vars
      <4>. QED
        BY <4>1, Zenon DEF Always, TypeOK
    <3>. QED
      BY <3>1, <3>2, <1>1
  <2>2. CASE twice
    <3>. USE <1>4 DEF vars, entity, tables, locals, card
    <3>1. CodeTypes'
      <4>1. CodeTypes
        BY DEF Always, TypeOK
      <4>2. Types'
        BY <4>1, Zenon DEF CodeTypes, Types
      <4>. QED
        BY <4>1, <4>2, Zenon DEF CodeTypes
    <3>2. twice' /\ TypeOK'
      BY <3>1, <2>2, Zenon DEF Always, TypeOK
    <3>3. IdTableSound' /\ RemovedIsGone'
      BY Zenon DEF Always, IdTableSound, RemovedIsGone
    <3>4. Asked' = Asked /\ Answers' = Answers
      BY DEF Asked, Answers
    <3>5. IdleIsQuiet' /\ CountExact'
      BY <3>4 DEF Always, IdleIsQuiet, CountExact, Busy, Parts
    <3>. QED
      BY <3>2, <3>3, <3>5, Zenon DEF Always
  <2>. QED
    BY <2>1, <2>2
<1>. QED
  BY <1>2, <1>3, <1>4, Zenon DEF Next, Goes

LEMMA Inductive ==
  ASSUME Premises
  PROVE  Spec => []Always
BY InitAlways, StepAlways, PTL DEF Spec

\* Every variable keeps its type: More stays a byte although it is counted up and
\* down, pr_ready has at most one ready interrupt outstanding, and pr_out never
\* takes the card to have more free request buffers than it has.
THEOREM TypesKept ==
  ASSUME Premises
  PROVE  Spec => []TypeOK
<1>1. Always => TypeOK
  BY DEF Always
<1>. QED
  BY <1>1, Inductive, PTL

\* pr_out never meets a freed or a stale entry in the request queue, and every
\* entity it sends is busy, until request takes an entity that waits for the
\* answer to its ASSIGN a second time.
THEOREM QueueNamesBusy ==
  ASSUME Premises
  PROVE  Spec => []QueueSound
<1>1. Premises /\ Always => QueueSound
  BY BusyInQueue DEF Always, QueueSound
<1>. QED
  BY <1>1, Inductive, PTL

\* No entity is in the request queue twice, although request and pr_out both put
\* entities into it, until request takes an entity that waits for the answer to
\* its ASSIGN a second time.
THEOREM NeverQueuedTwice ==
  ASSUME Premises
  PROVE  Spec => []QueuedOnce
<1>1. Always => QueuedOnce
  BY OnceInQueue DEF Always, QueuedOnce
<1>. QED
  BY <1>1, Inductive, PTL

\* isdn_rc applies a return code to the entity it belongs to: IdTable and the
\* entities agree in both directions, also when an entity asks twice.
THEOREM IdsAgree ==
  ASSUME Premises
  PROVE  Spec => []IdTableSound
<1>1. Always => IdTableSound
  BY DEF Always
<1>. QED
  BY <1>1, Inductive, PTL

\* When isdn_rc tells a client that its request is done nothing of it is left in
\* the queue, with the card or on its way back.
THEOREM DoneIsDone ==
  ASSUME Premises
  PROVE  Spec => []IdleIsQuiet
<1>1. Always => IdleIsQuiet
  BY DEF Always
<1>. QED
  BY <1>1, Inductive, PTL

\* The four bits of XMOREC are exactly the number of return codes to come.
THEOREM CountIsExact ==
  ASSUME Premises
  PROVE  Spec => []CountExact
<1>1. Always => CountExact
  BY DEF Always
<1>. QED
  BY <1>1, Inductive, PTL

\* remove_entity of isdn_rc forgets an Id only for the answer to its REMOVE: the
\* card never knows an Id of a waiting client that the host has given up.
THEOREM ForgottenByBoth ==
  ASSUME Premises
  PROVE  Spec => []RemovedIsGone
<1>1. Always => RemovedIsGone
  BY DEF Always
<1>. QED
  BY <1>1, Inductive, PTL
=============================================================================
