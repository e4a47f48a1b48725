------------------------------ MODULE MsgQueue ------------------------------
(***************************************************************************)
(* The message ring of kernel/dqueue.c, which holds the return codes and   *)
(* the indications of one user mode IDI entity between the XDI callback    *)
(* (writer) and the read() of the application (reader).  Messages have     *)
(* variable size and are never split over the end of the buffer: when a    *)
(* message does not fit above Tail the ring wraps early and remembers the  *)
(* place in Wrap.                                                           *)
(*                                                                         *)
(* Every call of dqueue.c runs under the caller's adapter_lock, so each    *)
(* function is one action.  A writer that was given a message fills and    *)
(* completes it later (queueCompleteMsg); other writers may allocate and   *)
(* complete in between.  Addresses are the real ones, in bytes; the buffer *)
(* is [Base, High).  What a message carries is abstracted to Data: a cell  *)
(* that a writer has overwritten, and that is no header any more.          *)
(***************************************************************************)
EXTENDS Integers, Sequences

CONSTANTS Base,        \* lowest address of the buffer
          Size,        \* total size of the buffer in bytes
          Sizes        \* the message sizes callers ask for

NULL == 0
DIVA_MSG_INCOMPLETE == 32768          \* 0x8000
DIVA_MSG_HEAD_SIZE == 4               \* sizeof(DIVA_MSG_HEAD)
DWORD == 4                            \* sizeof(dword)

ASSUME BaseAssumption == Base \in Nat \ {NULL}
ASSUME SizeAssumption == Size \in Nat \ {0}
\* The top bit of the stored Size is the INCOMPLETE mark.
ASSUME SizesAssumption == \A s \in Sizes : s \in Nat /\ s < DIVA_MSG_INCOMPLETE

High == Base + Size
Addr == Base .. (High - 1)

VARIABLES QHead,       \* first message in queue (if any)
          QTail,       \* first free position
          QWrap,       \* current wraparound position or NULL
          QCount,      \* current no of bytes in queue
          mem,         \* address -> message header, or Data
          q            \* the messages callers hold or wait for, oldest
                       \* first (addresses): a history variable

vars == <<QHead, QTail, QWrap, QCount, mem, q>>

Cell == [size : Nat, incomplete : BOOLEAN]

\* A cell with payload in it: no header has this size.
Data == [size |-> DIVA_MSG_INCOMPLETE, incomplete |-> FALSE]

\* DIVA_MSG_NEED: header and payload, rounded up to a dword.
DIVA_MSG_NEED(size) ==
  ((DIVA_MSG_HEAD_SIZE + size + DWORD - 1) \div DWORD) * DWORD

\* One past the last byte of the message at address a.
End(a) == a + DIVA_MSG_NEED(mem[a].size)

-----------------------------------------------------------------------------
queueInit ==
  /\ QHead = Base /\ QTail = Base
  /\ QWrap = NULL
  /\ QCount = 0
  /\ mem = [a \in Addr |-> Data]
  /\ q = <<>>

\* Fault: an empty ring takes a message of any size.
AllocAt_NoLimit(need) ==
  IF QTail = QHead
    THEN IF QWrap # NULL THEN NULL ELSE QTail
    ELSE IF QTail > QHead
      THEN IF QTail + need <= High THEN QTail
           ELSE IF Base + need > QHead THEN NULL ELSE Base
      ELSE IF QTail + need > QHead THEN NULL ELSE QTail

\* Fault: the message below Head is not looked at when the ring wraps.
AllocAt_NoHead(need) ==
  IF QTail = QHead
    THEN IF QWrap # NULL \/ need > Size THEN NULL ELSE QTail
    ELSE IF QTail > QHead
      THEN IF QTail + need <= High THEN QTail ELSE Base
      ELSE IF QTail + need > QHead THEN NULL ELSE QTail

(***************************************************************************)
(* Where queueAllocMsg puts a message of need bytes: NULL when it must be  *)
(* refused, Base when the ring wraps, else the current tail.               *)
(***************************************************************************)
AllocAt(need) ==
  IF QTail = QHead
    THEN IF QWrap # NULL \/ need > Size THEN NULL ELSE QTail
    ELSE IF QTail > QHead
      THEN IF QTail + need <= High THEN QTail
           ELSE IF Base + need > QHead THEN NULL ELSE Base
      ELSE IF QTail + need > QHead THEN NULL ELSE QTail

\* diva_data_q_get_segment4write: queueAllocMsg finds room.
queueAllocMsg(size) ==
  LET need == DIVA_MSG_NEED(size)
      at   == AllocAt(need)
  IN  /\ at # NULL
      /\ QWrap' = IF at # QTail THEN QTail ELSE QWrap
      /\ mem' = [mem EXCEPT ![at] = [size |-> size, incomplete |-> TRUE]]
      /\ QTail' = at + need
      /\ QCount' = QCount + size
      /\ q' = Append(q, at)
      /\ UNCHANGED QHead

\* The writer fills its payload, then diva_data_q_ack_segment4write.
queueCompleteMsg(msg) ==
  /\ mem[msg].incomplete
  /\ mem' = [a \in Addr |->
       IF a = msg THEN [mem[a] EXCEPT !.incomplete = FALSE]
       ELSE IF /\ a >= msg + DIVA_MSG_HEAD_SIZE
               /\ a < msg + DIVA_MSG_HEAD_SIZE + mem[msg].size
         THEN Data ELSE mem[a]]
  /\ UNCHANGED <<QHead, QTail, QWrap, QCount, q>>

\* Fault: a message is shown before its writer has completed it.
queuePeekMsg_Incomplete ==
  IF QHead = QTail /\ QWrap = NULL THEN NULL ELSE QHead

\* The message diva_data_q_get_segment4read shows, or NULL.
queuePeekMsg ==
  IF (QHead = QTail /\ QWrap = NULL) \/ mem[QHead].incomplete THEN NULL ELSE QHead

\* Fault: a ring that has become empty is not reset to its base.
queueFreeMsg_NoReset ==
  LET size == mem[QHead].size
      next == QHead + DIVA_MSG_NEED(size)
      atWrap == QWrap # NULL /\ next >= QWrap
  IN  /\ queuePeekMsg # NULL
      /\ QCount' = QCount - size
      /\ QHead' = IF atWrap THEN Base ELSE next
      /\ QWrap' = IF atWrap THEN NULL ELSE QWrap
      /\ q' = Tail(q)
      /\ UNCHANGED <<QTail, mem>>

(***************************************************************************)
(* diva_data_q_ack_segment4read: the reader frees the message it was shown *)
(* (um_idi.c acknowledges only after a successful peek, lock held).        *)
(***************************************************************************)
queueFreeMsg ==
  LET size == mem[QHead].size
      next == QHead + DIVA_MSG_NEED(size)
  IN  /\ queuePeekMsg # NULL
      /\ QCount' = QCount - size
      /\ \/ /\ QWrap # NULL /\ next >= QWrap
            /\ QHead' = Base /\ QWrap' = NULL /\ UNCHANGED QTail
         \/ /\ QWrap # NULL /\ next < QWrap
            /\ QHead' = next /\ UNCHANGED <<QTail, QWrap>>
         \/ /\ QWrap = NULL /\ next >= QTail
            /\ QHead' = Base /\ QTail' = Base /\ UNCHANGED QWrap
         \/ /\ QWrap = NULL /\ next < QTail
            /\ QHead' = next /\ UNCHANGED <<QTail, QWrap>>
      /\ q' = Tail(q)
      /\ UNCHANGED mem

Init == queueInit

Next == \/ \E s \in Sizes : queueAllocMsg(s)
        \/ \E i \in DOMAIN q : queueCompleteMsg(q[i])
        \/ queueFreeMsg

Spec == Init /\ [][Next]_vars

-----------------------------------------------------------------------------
TypeOK ==
  /\ QHead \in Addr /\ QTail \in Base .. High /\ QWrap \in {NULL} \cup (Base .. High)
  /\ QCount \in Int
  /\ mem \in [Addr -> Cell]
  /\ q \in Seq(Addr)

\* The oldest message is where the reader looks.  An empty ring is reset to
\* Base: queueAllocMsg takes an empty ring without looking at High.
HeadIsOldest ==
  IF q = <<>> THEN QHead = Base /\ QTail = Base /\ QWrap = NULL
              ELSE QHead = q[1]

\* Every live message has its header, within the buffer.
LiveHeaders ==
  \A i \in DOMAIN q : /\ mem[q[i]].size \in Sizes
                      /\ End(q[i]) <= High

\* Messages follow one another without gap; the last one ends at Tail.
Chained ==
  \A i \in DOMAIN q :
    IF i = Len(q) THEN End(q[i]) = QTail
    ELSE IF QWrap # NULL /\ End(q[i]) = QWrap THEN q[i + 1] = Base
         ELSE q[i + 1] = End(q[i])

\* No two live messages overlap: a writer that fills its own payload
\* destroys no other message.
Disjoint ==
  \A i, j \in DOMAIN q :
    i # j => End(q[i]) <= q[j] \/ End(q[j]) <= q[i]

\* The message lies in the upper part of a wrapped ring, read first ...
Upper(a) == QHead <= a /\ End(a) <= QWrap
\* ... or in the lower part, below the free gap [Tail, Head).
Lower(a) == End(a) <= QTail

\* The address order of the live messages, which makes the invariants above
\* inductive: an unwrapped ring lies in [Head, Tail), a wrapped one in
\* [Head, Wrap) and then in [Base, Tail) with Tail <= Head.
Ordered ==
  IF QWrap = NULL
    THEN /\ QHead <= QTail
         /\ \A i \in DOMAIN q : QHead <= q[i] /\ End(q[i]) <= QTail
         /\ \A i, j \in DOMAIN q : i < j => End(q[i]) <= q[j]
    ELSE /\ Base < QTail /\ QTail <= QHead /\ QHead < QWrap
         /\ \A i \in DOMAIN q : Upper(q[i]) \/ Lower(q[i])
         /\ \A i, j \in DOMAIN q :
              i < j => \/ End(q[i]) <= q[j] /\ (Lower(q[i]) => Lower(q[j]))
                       \/ Upper(q[i]) /\ Lower(q[j])

IInv == TypeOK /\ HeadIsOldest /\ LiveHeaders /\ Chained /\ Ordered
-----------------------------------------------------------------------------
\* The queue as its callers see it: the headers of the live messages.
FifoView == [i \in DOMAIN q |-> mem[q[i]]]
Fifo == INSTANCE MsgFifo WITH fifo <- FifoView

\* The ring of dqueue.c delivers messages first in first out, each with the
\* size it was allocated with and only once it is complete.
FifoSpec == Fifo!Spec
=============================================================================
