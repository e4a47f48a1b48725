------------------------------- MODULE XdiInd -------------------------------
(***************************************************************************)
(* The indication path of one XDI adapter (kernel/di.c): the second half   *)
(* of pr_dpc, which goes through the indications of one interrupt, and     *)
(* isdn_ind, which hands them to the entities.                             *)
(*                                                                         *)
(* A packet arrives as a chain of buffers, each an indication; all but the *)
(* last carry the code MInd.  At the first buffer of a packet the client's *)
(* look-ahead callback refuses it for now (RNR = 1), discards the packet   *)
(* (RNR = 2), takes the data itself, or supplies buffers R for the whole   *)
(* packet, which isdn_ind fills until the end of the chain.                *)
(*                                                                         *)
(* pr_dpc means to refuse, after a refused indication, all others of its   *)
(* Id in the same interrupt, but it remembers one Id (RNRId) and only      *)
(* until an indication of another Id is handled: then the next one of the  *)
(* first Id is handed over out of its order (forgot).                      *)
(*                                                                         *)
(* isdn_ind looks at R[RNum], behind the client's buffers, when they are   *)
(* full before the end of the chain, and writes its length when the last   *)
(* buffer of the chain finds them full (behind).  What lies there is the   *)
(* client's: it may or may not look like an empty buffer.                  *)
(*                                                                         *)
(* The card is external: it keeps the indications of an Id in order,       *)
(* mixes those of different Ids as it likes, and presents a refused one    *)
(* (RNR set) again in a later interrupt.  Data is counted in units; the    *)
(* indications of an Id are numbered.                                      *)
(***************************************************************************)
EXTENDS Integers, Sequences, FiniteSets, SequencesExt

CONSTANTS Entity,     \* the clients' entities
          Packets,    \* what the card sends: the buffer lengths of a packet
          Offers,     \* buffer lists the clients offer
          MaxInd,     \* bound: indications of one Id
          MaxBatch,   \* bound: indications of one interrupt
          NULL

ASSUME IndAssumption ==
  /\ NULL \notin Entity
  /\ Packets \subseteq Seq(Nat) /\ Offers \subseteq Seq(Nat)
  /\ MaxInd \in Nat /\ MaxBatch \in Nat

VARIABLES known,     \* entities in IdTable
          RCurrent, ROffset, RNR, R,          \* of the entities
          IndMem, irq, k, RNRId,              \* pr_dpc and the shared memory
          cardInd, sent,                      \* the card
          got,       \* history: the indications an entity took, as numbered
          copied,    \* history: length and size of the packet just completed
          forgot,    \* history: entities whose refusal pr_dpc forgot
          behind     \* history: what was left of the packet, and of R, when an
                     \* entry behind R was touched

host == <<known, RCurrent, ROffset, RNR, R>>
history == <<got, copied, forgot, behind>>
vars == <<host, IndMem, irq, k, RNRId, cardInd, sent, history>>

\* The first n elements of s together, and all of them.
Units(s, n) ==
  LET sum[i \in 0 .. Len(s)] == IF i = 0 THEN 0 ELSE sum[i - 1] + s[i] IN sum[n]
Total(s) == Units(s, Len(s))

Init ==
  /\ known = {}
  /\ RCurrent = [x \in Entity |-> 255] /\ ROffset = [x \in Entity |-> 0]
  /\ RNR = [x \in Entity |-> 0] /\ R = [x \in Entity |-> <<>>]
  /\ IndMem = <<>> /\ irq = FALSE /\ k = 1 /\ RNRId = NULL
  /\ cardInd = [x \in Entity |-> <<>>] /\ sent = [x \in Entity |-> 0]
  /\ got = [x \in Entity |-> <<>>] /\ copied = [x \in Entity |-> <<0, 0>>]
  /\ forgot = {} /\ behind = [x \in Entity |-> <<0, 0>>]

Pending(x) == \E n \in DOMAIN IndMem : IndMem[n].id = x

\* request(ASSIGN) and its return code: the entity starts without a packet.
AssignRc(x) ==
  /\ x \notin known /\ ~Pending(x)
  /\ known' = known \cup {x}
  /\ RCurrent' = [RCurrent EXCEPT ![x] = 255]
  /\ sent' = [sent EXCEPT ![x] = 0]
  /\ got' = [got EXCEPT ![x] = <<>>] /\ copied' = [copied EXCEPT ![x] = <<0, 0>>]
  /\ forgot' = forgot \ {x} /\ behind' = [behind EXCEPT ![x] = <<0, 0>>]
  /\ UNCHANGED <<ROffset, RNR, R, IndMem, irq, k, RNRId, cardInd>>

\* The return code of a REMOVE, applied before the indications of the same
\* interrupt: those of this Id find it gone.
RemoveRc(x) ==
  /\ x \in known /\ (irq => k = 1)
  /\ known' = known \ {x}
  /\ RNR' = [RNR EXCEPT ![x] = 0]
  /\ cardInd' = [cardInd EXCEPT ![x] = <<>>]
  /\ UNCHANGED <<RCurrent, ROffset, R, IndMem, irq, k, RNRId, sent, history>>

-----------------------------------------------------------------------------
\* Fault: the end of the client's buffer is not looked at.
Copy_NoEnd(r, cur, off, len) == <<cur, off + len>>

\* One turn of the copy loop of isdn_ind: the next bytes of the rest go to
\* buffer cur of R, at offset off.  The loop stops when R is used up.
Turn(r, at) ==
  LET full == at.cur < Len(r) /\ at.off = r[at.cur + 1]
      c == IF full THEN at.cur + 1 ELSE at.cur
      o == IF full THEN 0 ELSE at.off
      n == IF r[c + 1] - o < at.rest THEN r[c + 1] - o ELSE at.rest
  IN  IF c >= Len(r) THEN [cur |-> c, off |-> o, rest |-> at.rest, on |-> FALSE]
      ELSE [cur |-> c, off |-> o + n, rest |-> at.rest - n, on |-> n < at.rest]

\* The copy loop: len units into R from buffer cur, offset off.  Every turn but
\* the first one starts a buffer, so there are at most Len(r) + 1.
Copy(r, cur, off, len) ==
  LET loop[i \in 0 .. Len(r)] ==
        IF i = 0 THEN Turn(r, [cur |-> cur, off |-> off, rest |-> len, on |-> TRUE])
        ELSE IF loop[i - 1].on THEN Turn(r, loop[i - 1]) ELSE loop[i - 1]
  IN  <<loop[Len(r)].cur, loop[Len(r)].off>>

Ind == IndMem[k]
Took(x) == got' = [got EXCEPT ![x] = Append(@, Ind.n)]

\* Fault: pr_dpc does not remember whose indication was refused.
Refuse_Forget(x) ==
  /\ IndMem' = [IndMem EXCEPT ![k].rnr = TRUE]
  /\ RNRId' = NULL
  /\ UNCHANGED <<host, got, copied, behind>>

\* isdn_ind marks the indication RNR: the card keeps it.
Refuse(x) ==
  /\ IndMem' = [IndMem EXCEPT ![k].rnr = TRUE]
  /\ RNRId' = x
  /\ UNCHANGED <<host, got, copied, behind>>

\* What the client finds in R at the end of the packet: all buffers before cur,
\* and of that one off units.
Filled(r, cur, off) ==
  IF cur >= Len(r) THEN Total(r)
  ELSE Total(SubSeq([r EXCEPT ![cur + 1] = off], 1, IF off # 0 THEN cur + 1 ELSE cur))

\* Copy one buffer of the chain; with the last one the packet is complete.  When
\* R is full already, its next entry is passed over if it looks empty (pass).
CopyInd(x, r, cur, off) ==
  \E pass \in IF cur < Len(r) THEN {0} ELSE {0, 1} :
    LET at == Copy(r, cur, off, Ind.len)
        to == <<at[1] + pass, at[2]>>
    IN  /\ R' = [R EXCEPT ![x] = r]
        /\ ROffset' = [ROffset EXCEPT ![x] = to[2]]
        /\ RCurrent' = [RCurrent EXCEPT ![x] = IF Ind.last THEN 255 ELSE to[1]]
        /\ copied' = IF Ind.last
                     THEN [copied EXCEPT ![x] = <<Filled(r, to[1], to[2]), Ind.total>>]
                     ELSE copied
        /\ behind' = IF cur >= Len(r) \/ (Ind.last /\ to[1] >= Len(r))
                     THEN [behind EXCEPT ![x] = <<Ind.total - Ind.before,
                                                  Total(r) - Ind.total>>]
                     ELSE behind
        /\ Took(x)
        /\ UNCHANGED <<known, RNR>>

\* The first buffer of a packet: what the client decides at the look-ahead.
LookAhead(x) ==
  /\ RCurrent[x] = 255
  /\ \/ Refuse(x)
     \/ \* the client takes the data itself
        /\ Took(x)
        /\ RNRId' = NULL
        /\ UNCHANGED <<host, copied, behind, IndMem>>
     \/ \* discard: RNR = 2 until the last buffer
        /\ RCurrent' = [RCurrent EXCEPT ![x] = IF Ind.last THEN 255 ELSE 0]
        /\ ROffset' = [ROffset EXCEPT ![x] = 0]
        /\ RNR' = [RNR EXCEPT ![x] = IF Ind.last THEN 0 ELSE 2]
        /\ Took(x)
        /\ RNRId' = NULL
        /\ UNCHANGED <<known, R, copied, behind, IndMem>>
     \/ \* buffers for the whole packet, or for what the client takes for one
        /\ Ind.first \/ x \in forgot'
        /\ \E r \in Offers : Total(r) >= Ind.total /\ CopyInd(x, r, 0, 0)
        /\ RNRId' = NULL
        /\ UNCHANGED IndMem

\* Fault: every buffer of the chain goes to the start of the client's buffer.
Continue_NoOffset(x) ==
  /\ RCurrent[x] # 255 /\ RNR[x] # 2
  /\ RNRId' = NULL
  /\ UNCHANGED IndMem
  /\ CopyInd(x, R[x], RCurrent[x], 0)

\* The other buffers of a packet: discarded, or copied to what R has left.
Continue(x) ==
  /\ RCurrent[x] # 255
  /\ RNRId' = NULL
  /\ UNCHANGED IndMem
  /\ \/ /\ RNR[x] = 2
        /\ RCurrent' = [RCurrent EXCEPT ![x] = IF Ind.last THEN 255 ELSE @]
        /\ RNR' = [RNR EXCEPT ![x] = IF Ind.last THEN 0 ELSE 2]
        /\ Took(x)
        /\ UNCHANGED <<known, ROffset, R, copied, behind>>
     \/ /\ RNR[x] # 2
        /\ CopyInd(x, R[x], RCurrent[x], ROffset[x])

\* After a refused indication of x in this interrupt, one of another Id has been
\* handled: pr_dpc does not remember x.
Forgets(x) == \E i, h \in 1 .. (k - 1) :
  i < h /\ IndMem[i].id = x /\ IndMem[i].rnr /\ IndMem[h].id # x

\* One turn of pr_dpc's loop over the indications.
Handle ==
  /\ irq /\ k <= Len(IndMem)
  /\ k' = k + 1
  /\ forgot' = IF Forgets(Ind.id) THEN forgot \cup {Ind.id} ELSE forgot
  /\ LET x == Ind.id IN
     \/ \* the application has refused an indication of this Id
        /\ RNRId = x
        /\ IndMem' = [IndMem EXCEPT ![k].rnr = TRUE]
        /\ UNCHANGED <<host, RNRId, got, copied, behind>>
     \/ RNRId # x /\ x \in known /\ LookAhead(x)
     \/ RNRId # x /\ x \in known /\ Continue(x)
     \/ \* not our Id
        /\ RNRId # x /\ x \notin known
        /\ RNRId' = NULL
        /\ UNCHANGED <<host, IndMem, got, copied, behind>>
  /\ UNCHANGED <<irq, cardInd, sent>>

\* The refused indications of x, in the order of the interrupt.
Returned(x) ==
  LET back == {i \in DOMAIN IndMem : IndMem[i].id = x /\ IndMem[i].rnr /\ x \in known}
      nth(j) == CHOOSE i \in back : Cardinality({h \in back : h <= i}) = j
  IN  [j \in 1 .. Cardinality(back) |-> IndMem[nth(j)]]

\* IndOutput = 0 and clr_irq: the card takes the refused indications back.
LoopEnd ==
  /\ irq /\ k > Len(IndMem)
  /\ irq' = FALSE /\ k' = 1 /\ RNRId' = NULL /\ IndMem' = <<>>
  /\ cardInd' = [x \in Entity |-> Returned(x) \o cardInd[x]]
  /\ UNCHANGED <<host, sent, history>>

-----------------------------------------------------------------------------
\* The card receives a packet for x.  before is a history: what comes before a
\* buffer in its packet.
CardPacket(x, p) ==
  /\ x \in known /\ sent[x] + Len(p) <= MaxInd
  /\ cardInd' = [cardInd EXCEPT ![x] = @ \o
       [j \in DOMAIN p |-> [id |-> x, n |-> sent[x] + j, len |-> p[j],
                            before |-> Units(p, j - 1), total |-> Total(p),
                            first |-> j = 1, last |-> j = Len(p), rnr |-> FALSE]]]
  /\ sent' = [sent EXCEPT ![x] = @ + Len(p)]
  /\ UNCHANGED <<host, IndMem, irq, k, RNRId, history>>

CardPut(x) ==
  /\ ~irq /\ cardInd[x] # <<>> /\ Len(IndMem) < MaxBatch
  /\ IndMem' = Append(IndMem, [Head(cardInd[x]) EXCEPT !.rnr = FALSE])
  /\ cardInd' = [cardInd EXCEPT ![x] = Tail(@)]
  /\ UNCHANGED <<host, irq, k, RNRId, sent, history>>

CardIrq ==
  /\ ~irq /\ IndMem # <<>>
  /\ irq' = TRUE
  /\ UNCHANGED <<host, IndMem, k, RNRId, cardInd, sent, history>>

Next ==
  \/ \E x \in Entity : AssignRc(x) \/ RemoveRc(x) \/ CardPut(x)
  \/ \E x \in Entity, p \in Packets : CardPacket(x, p)
  \/ CardIrq \/ Handle \/ LoopEnd

Spec == Init /\ [][Next]_vars

-----------------------------------------------------------------------------
\* An entity gets the indications of its Id in order, each once: one that was
\* refused holds back those that come after it.  Not so when the interrupt has an
\* indication of another Id between them, although pr_dpc says it of all.
InOrder == \A x \in Entity \ forgot : \A n \in DOMAIN got[x] : got[x][n] = n

\* The buffers the client finds in R at the receive complete callback hold
\* the whole packet, if none of it was handed over out of its order.
PacketComplete == \A x \in Entity \ forgot : copied[x][1] = copied[x][2]

\* isdn_ind copies nothing outside the client's buffers, and it touches an entry
\* behind them only when they are exactly full with all of the packet, for an
\* empty buffer at its end.
WithinBuffers == \A x \in Entity :
  /\ x \in known /\ RCurrent[x] # 255 /\ RNR[x] # 2 /\ RCurrent[x] < Len(R[x]) =>
       ROffset[x] <= R[x][RCurrent[x] + 1]
  /\ x \notin forgot => behind[x] = <<0, 0>>
=============================================================================
