------------------------- MODULE UmIdiMasterProofs -------------------------
(***************************************************************************)
(* The inductive invariant of the user mode IDI, module UmIdi, for every   *)
(* set of files and masters: the queues of the masters, the watchdogs, and *)
(* what the card still owes to each entity.  The lemmas here show that the *)
(* callbacks of a master keep it; UmIdiProofs has the steps of the files   *)
(* and the theorems.                                                       *)
(***************************************************************************)
EXTENDS UmIdi, TLAPS, FiniteSetTheorems, SequenceTheorems

(***************************************************************************)
(* Types.                                                                  *)
(***************************************************************************)
FileSt == {"closed", "open", "removing", "waiting", "deleting", "delayed"}
StatusBit == {"RC_PENDING", "ASSIGN_PENDING", "REMOVE_PENDING", "REMOVED", "TIMEOUT"}
ReqName == {"ASSIGN", "READ", "WRITE", "EXECUTE", "REMOVE"}
FileRec ==
  [st : FileSt, me : Master \cup {NULL}, on_active_q : BOOLEAN, Id : BOOLEAN,
   rc_count : Nat, status : SUBSET StatusBit, Req : ReqName \cup {"none"},
   buffer : {"none", "READ", "WRITE"}, len : Nat, rc : BOOLEAN, data : Nat,
   bit : {0, 1}, timer : BOOLEAN, handler : BOOLEAN, aborted : BOOLEAN]

MasterSt == {"free", "Idle", "AssignPending", "Assigned", "ResponsePending",
             "Cancelled", "RemovePending", "OutOfService", "delayed"}
AnyTag == Tag \cup {NoTag}
MasterRec ==
  [st : MasterSt, rc_count : Int,
   license_state : {"Idle", "Init", "Write", "WaitResponse"}, chained : BOOLEAN,
   timeout : BOOLEAN, active : Seq(File), idle : Seq(File), cbuffer : AnyTag,
   rest : Int]

Request == [k : {"req"}, req : ReqName, tag : AnyTag]
Event == [k : {"rc", "ind", "data"}, ok : BOOLEAN, req : ReqName, tag : AnyTag,
          n : Nat]

TypeOK ==
  /\ kind \in {"man", "idi", "license"}
  /\ present \in BOOLEAN
  /\ fi \in [File -> FileRec]
  /\ ma \in [Master -> MasterRec]
  /\ up \in [Ent -> Seq(Request \cup Event)]
  /\ known \subseteq Ent

(***************************************************************************)
(* The files: a closed one has left nothing behind, only an open logical   *)
(* entity has a master, and who waits is watched.                          *)
(***************************************************************************)
FileFits(kd, e) ==
  /\ kd # "man" => e.st \in {"closed", "open"}
  /\ e.st = "closed" => /\ e.me = NULL /\ ~e.on_active_q /\ ~e.Id /\ e.status = {}
                        /\ e.rc_count = 0 /\ ~e.rc /\ ~e.timer /\ ~e.aborted
  /\ e.me # NULL => /\ e.st = "open" /\ kd # "man"
                    /\ {"REMOVE_PENDING", "TIMEOUT"} \cap e.status = {}
                    /\ e.on_active_q => e.timer \/ e.aborted
                    /\ kd = "idi" /\ e.timer => e.on_active_q
  /\ e.st \in {"removing", "waiting"} => /\ "REMOVE_PENDING" \in e.status
                                         /\ e.timer \/ e.aborted

(***************************************************************************)
(* Master m, in state r, and the files F: everybody is on a queue once; a  *)
(* master that waits for an answer works for the file at the head of its   *)
(* active queue; one that leaves or has left has no files.                 *)
(***************************************************************************)
Once(q) == \A i, j \in DOMAIN q : q[i] = q[j] => i = j
ActiveOf(F, m) == {f \in File : F[f].me = m /\ F[f].on_active_q}
IdleOf(F, m) == {f \in File : F[f].me = m /\ ~F[f].on_active_q}

MasterFits(F, r, m) ==
  /\ Once(r.active) /\ Once(r.idle)
  /\ Range(r.active) = ActiveOf(F, m) /\ Range(r.idle) = IdleOf(F, m)
  /\ r.st = "ResponsePending" => r.active # <<>>
  /\ r.st \in {"free", "delayed", "RemovePending"} => r.active = <<>> /\ r.idle = <<>>

(***************************************************************************)
(* The assignment of master m: v is what the card has for it, K whom the   *)
(* card knows.                                                             *)
(***************************************************************************)
Assigns(F, r, m, v, K) ==
  /\ r.st \in {"free", "Idle", "OutOfService", "delayed"} => v = <<>> /\ m \notin K
  /\ r.st = "AssignPending" =>
       \/ v = <<>>
       \/ Len(v) = 1 /\ v[1].k = "req" /\ v[1].req = "ASSIGN" /\ m \notin K
  /\ r.st \in {"free", "Idle", "AssignPending"} => r.license_state = "Idle"
  /\ r.st = "Idle" => r.active = <<>>
  /\ r.st = "AssignPending" =>
       \A f \in ActiveOf(F, m) : "ASSIGN_PENDING" \in F[f].status
  /\ r.st # "AssignPending" => \A f \in ActiveOf(F, m) : F[f].buffer # "none"
  /\ \A f \in File : F[f].me = m /\ F[f].Id =>
       r.st \in {"Assigned", "ResponsePending", "Cancelled"}

\* A master that can send has nobody waiting, unless an answer was cancelled
\* half way.
Rests(kd, r, G) ==
  /\ r.st # "free" => kd # "man"
  /\ r.st = "Assigned" =>
       \/ kd = "idi" /\ r.active = <<>>
       \/ kd = "license" /\ r.license_state = "Idle" /\ r.active = <<>>
       \/ kd = "license" /\ "stall" \in G

\* A master that is not on its way has files.
Used(r) == r.st \in {"Idle", "Assigned"} => r.active # <<>> \/ r.idle # <<>>

(***************************************************************************)
(* What the card owes a master that nobody has given up, as long as no     *)
(* chain was cut.                                                          *)
(***************************************************************************)
Weight(req) == IF req = "READ" THEN 2 ELSE 1

\* The answers u account for c events and those a chain will add.
Balanced(kd, u, c) ==
  \/ /\ Len(u) = 1 /\ u[1].k = "req" /\ u[1].req \in {"READ", "WRITE", "EXECUTE"}
     /\ c = Weight(u[1].req)
  \/ /\ u # <<>>
     /\ \A i \in DOMAIN u : u[i].k # "req" /\ (u[i].k = "rc" => u[i].ok)
     /\ \/ Len(u) = c /\ \A i \in DOMAIN u : u[i].n = 0
        \/ \E i \in DOMAIN u :
             /\ kd = "idi" /\ u[i].k # "rc" /\ u[i].n > 0 /\ i <= c
             /\ Len(u) = c + u[i].n
             /\ \A j \in DOMAIN u \ {i} : u[j].n = 0

Owes(kd, F, r, v) ==
  /\ r.st = "Assigned" => v = <<>>
  /\ r.st = "RemovePending" => Len(v) = 1 /\ v[1].k = "req" /\ v[1].req = "REMOVE"
  /\ r.st \in {"ResponsePending", "Cancelled"} => Balanced(kd, v, r.rc_count)
  /\ r.st = "ResponsePending" =>
       LET g == Head(r.active) IN \A i \in DOMAIN v : v[i].tag = <<g, F[g].bit>>

MasterInv(kd, F, r, m, v, K, G) ==
  /\ MasterFits(F, r, m)
  /\ Assigns(F, r, m, v, K)
  /\ Rests(kd, r, G)
  /\ Used(r)
  /\ "cut" \notin G => r.timeout \/ Owes(kd, F, r, v)

Files == \A f \in File : FileFits(kind, fi[f])
Masters ==
  \A m \in Master : MasterInv(kind, fi, ma[m], m, up[m], known, ghost)

(***************************************************************************)
(* What the card owes a management entity f, in state e, that its watchdog *)
(* has not given up.                                                       *)
(***************************************************************************)
Owed(v) == {i \in DOMAIN v : v[i].k \in {"req", "rc"}}

EntityFits(f, e, v, K) ==
  /\ ~e.Id => v = <<>> /\ f \notin K
  /\ e.rc => "RC_PENDING" \in e.status
  /\ e.aborted => e.handler
  /\ e.st = "deleting" => e.handler \/ ~e.Id
  /\ "ASSIGN_PENDING" \in e.status =>
       Len(v) = 1 /\ v[1].k = "req" /\ v[1].req = "ASSIGN" /\ f \notin K
  /\ \A i, j \in Owed(v) : i = j
  /\ \A i \in Owed(v) :
       /\ e.rc_count > 0
       /\ e.st = "open" => "RC_PENDING" \in e.status /\ ~e.rc
       /\ v[i].req # "REMOVE" => v[i].tag = <<f, e.bit>>
       /\ v[i].req = "REMOVE" => i = Len(v) /\ v[i].k = "req"
       /\ v[i].req = "ASSIGN" => "ASSIGN_PENDING" \in e.status

Entities ==
  /\ ~present => /\ \A x \in Ent : Quiet(x)
                 /\ \A f \in File : fi[f].st # "delayed" /\ fi[f].me = NULL
  /\ kind # "man" => \A f \in File : Quiet(f)
  /\ kind = "man" => \A f \in File : fi[f].me = NULL
  /\ kind = "man" /\ present =>
       \A f \in File : "TIMEOUT" \in fi[f].status \/ EntityFits(f, fi[f], up[f], known)
  /\ \A f \in File : fi[f].st = "delayed" => "TIMEOUT" \in fi[f].status

IInv ==
  /\ TypeOK /\ Files /\ Masters /\ Entities
  /\ AnswerToAsker /\ FreedIsQuiet

-----------------------------------------------------------------------------
(***************************************************************************)
(* Lemmas about queues in which everybody is at most once.                 *)
(***************************************************************************)
\* diva_q_add_tail of one who is not on the queue.
LEMMA OnceAppend ==
  ASSUME NEW S, NEW q \in Seq(S), NEW f \in S, Once(q), f \notin Range(q)
  PROVE  /\ Append(q, f) \in Seq(S) /\ Once(Append(q, f))
         /\ Range(Append(q, f)) = Range(q) \cup {f}
         /\ Append(q, f) # <<>>
         /\ q # <<>> => Head(Append(q, f)) = Head(q)
         /\ q = <<>> => Head(Append(q, f)) = f
<1> DEFINE p == Append(q, f)
<1>1. p \in Seq(S) /\ Len(p) = Len(q) + 1 /\ p[Len(q) + 1] = f
      /\ \A i \in 1 .. Len(q) : p[i] = q[i]
  OBVIOUS
<1>2. Once(p)
  BY <1>1 DEF Once, Range
<1>3. Range(p) = Range(q) \cup {f}
  BY <1>1 DEF Range
<1> QED BY <1>1, <1>2, <1>3

\* Taking the head off.
LEMMA OnceTail ==
  ASSUME NEW S, NEW q \in Seq(S), q # <<>>, Once(q)
  PROVE  /\ Tail(q) \in Seq(S) /\ Once(Tail(q))
         /\ Range(Tail(q)) = Range(q) \ {Head(q)}
         /\ Head(q) \in Range(q) /\ Head(q) \in S
<1> DEFINE p == Tail(q)
<1>1. /\ p \in Seq(S) /\ Len(p) = Len(q) - 1 /\ Len(q) \in Nat /\ Len(q) > 0
      /\ Head(q) = q[1] /\ q[1] \in S
      /\ \A i \in 1 .. Len(p) : p[i] = q[i + 1]
  OBVIOUS
<1>2. Once(p)
  BY <1>1 DEF Once
<1>3. Range(p) \subseteq Range(q) \ {Head(q)}
  BY <1>1 DEF Range, Once
<1>4. ASSUME NEW x \in Range(q) \ {Head(q)} PROVE x \in Range(p)
  <2>1. PICK i \in 1 .. Len(q) : q[i] = x
    BY DEF Range
  <2>2. i - 1 \in 1 .. Len(p) /\ p[i - 1] = x
    BY <1>1, <2>1
  <2> HIDE DEF p
  <2> QED BY <1>1, <2>2 DEF Range
<1>5. Head(q) \in Range(q)
  BY <1>1 DEF Range
<1>6. Range(p) = Range(q) \ {Head(q)}
  BY <1>3, <1>4
<1> HIDE DEF p
<1> QED BY <1>1, <1>2, <1>5, <1>6 DEF p

\* Two queues with nobody in common, one behind the other.
LEMMA OnceConcat ==
  ASSUME NEW S, NEW q \in Seq(S), NEW p \in Seq(S), Once(q), Once(p),
         Range(q) \cap Range(p) = {}
  PROVE  /\ q \o p \in Seq(S) /\ Once(q \o p)
         /\ Range(q \o p) = Range(q) \cup Range(p)
<1> DEFINE c == q \o p
<1>1. /\ c \in Seq(S) /\ Len(c) = Len(q) + Len(p) /\ Len(q) \in Nat /\ Len(p) \in Nat
      /\ \A i \in 1 .. Len(q) : c[i] = q[i]
      /\ \A i \in 1 .. Len(p) : c[Len(q) + i] = p[i]
  OBVIOUS
<1>2. \A i \in 1 .. Len(c) : \/ i \in 1 .. Len(q) /\ c[i] = q[i]
                             \/ i - Len(q) \in 1 .. Len(p) /\ c[i] = p[i - Len(q)]
  BY <1>1
<1>3. \A i \in 1 .. Len(q), j \in 1 .. Len(p) : q[i] # p[j]
  BY DEF Range
<1>4. Once(c)
  BY <1>1, <1>2, <1>3 DEF Once
<1>5. Range(c) \subseteq Range(q) \cup Range(p)
  BY <1>1, <1>2 DEF Range
<1>6. Range(q) \subseteq Range(c)
  BY <1>1 DEF Range
<1>7. Range(p) \subseteq Range(c)
  <2> SUFFICES ASSUME NEW x \in Range(p) PROVE x \in Range(c)
    OBVIOUS
  <2>1. PICK i \in 1 .. Len(p) : p[i] = x
    BY DEF Range
  <2>2. Len(q) + i \in 1 .. Len(c) /\ c[Len(q) + i] = x
    BY <1>1, <2>1
  <2> QED BY <1>1, <2>2 DEF Range
<1> QED BY <1>1, <1>4, <1>5, <1>6, <1>7

\* The sequence without an element.
LEMMA NoElement ==
  ASSUME NEW S, NEW q \in Seq(S), Len(q) = 0
  PROVE  q = <<>>
BY EmptySeq

\* One who is alone.
LEMMA TailOfOne ==
  ASSUME NEW S, NEW q \in Seq(S), Len(q) = 1
  PROVE  q # <<>> /\ Tail(q) = <<>> /\ DOMAIN q = {1} /\ Head(q) = q[1] /\ q[1] \in S
<1>1. q # <<>>
  <2> SUFFICES ASSUME q = <<>> PROVE FALSE
    OBVIOUS
  <2>1. <<>> \in Seq(S) /\ Len(<<>>) = 0
    BY EmptySeq, Zenon
  <2> QED BY <2>1
<1>2. Tail(q) \in Seq(S) /\ Len(Tail(q)) = 0 /\ Head(q) \in S
  BY <1>1, HeadTailProperties
<1>3. Tail(q) = <<>>
  BY <1>2, NoElement, Zenon
<1>4. DOMAIN q = {1} /\ q[1] \in S
  <2>1. \A i : i \in DOMAIN q <=> i \in 1 .. Len(q)
    BY LenProperties, Zenon
  <2> QED BY <2>1, ElementOfSeq
<1>5. Head(q) = q[1]
  BY <1>1
<1> QED BY <1>1, <1>3, <1>4, <1>5

\* diva_q_remove.
LEMMA OnceRemove ==
  ASSUME NEW S, NEW q \in Seq(S), NEW f, Once(q)
  PROVE  LET p == RemoveFirst(q, f) IN
         /\ p \in Seq(S) /\ Once(p)
         /\ Range(p) = Range(q) \ {f}
         /\ q # <<>> /\ Head(q) # f => p # <<>> /\ Head(p) = Head(q)
<1> DEFINE p == RemoveFirst(q, f)
<1>1. CASE f \notin Range(q)
  <2>1. p = q
    BY <1>1 DEF RemoveFirst, Range
  <2> QED BY <1>1, <2>1
<1>2. CASE f \in Range(q)
  <2>1. PICK k \in 1 .. Len(q) : q[k] = f
    BY <1>2 DEF Range
  <2>2. {i \in 1 .. Len(q) : q[i] = f} = {k}
    BY <2>1 DEF Once
  <2>3. Min({k}) = k
    BY <2>1 DEF Min
  <2>4. SelectInSeq(q, LAMBDA v : v = f) = k
    BY <2>2, <2>3 DEF SelectInSeq
  <2>5. p = SubSeq(q, 1, k - 1) \o SubSeq(q, k + 1, Len(q))
    <3>1. p = RemoveAt(q, SelectInSeq(q, LAMBDA v : v = f))
      BY <2>1 DEF RemoveFirst
    <3> QED BY <2>4, <3>1 DEF RemoveAt
  <2>6. /\ p \in Seq(S) /\ Len(p) = Len(q) - 1 /\ Len(q) \in Nat /\ Len(q) > 0
        /\ \A i \in 1 .. Len(p) : p[i] = IF i < k THEN q[i] ELSE q[i + 1]
    <3> DEFINE a == SubSeq(q, 1, k - 1)
               b == SubSeq(q, k + 1, Len(q))
    <3>1. a \in Seq(S) /\ Len(a) = k - 1 /\ \A i \in 1 .. k - 1 : a[i] = q[i]
      BY <2>1, SubSeqProperties
    <3>2. b \in Seq(S) /\ Len(b) = Len(q) - k /\ \A i \in 1 .. Len(q) - k : b[i] = q[k + i]
      BY <2>1, SubSeqProperties
    <3> HIDE DEF a, b
    <3>3. a \o b \in Seq(S) /\ Len(a \o b) = Len(q) - 1
      <4>1. a \o b \in Seq(S) /\ Len(a \o b) = Len(a) + Len(b)
        BY <3>1, <3>2, ConcatProperties
      <4> QED BY <3>1, <3>2, <4>1, <2>1, LenProperties
    <3>4. ASSUME NEW i \in 1 .. Len(q) - 1
          PROVE  (a \o b)[i] = IF i < k THEN q[i] ELSE q[i + 1]
      <4>1. CASE i < k
        BY <3>1, <3>2, <4>1, <2>1
      <4>2. CASE i >= k
        <5>1. (a \o b)[i] = b[i - (k - 1)]
          BY <3>1, <3>2, <4>2, <2>1
        <5>2. i - (k - 1) \in 1 .. Len(q) - k /\ k + (i - (k - 1)) = i + 1
          BY <4>2, <2>1
        <5> QED BY <3>2, <4>2, <5>1, <5>2
      <4>3. i < k \/ i >= k
        BY <2>1
      <4> QED BY <4>1, <4>2, <4>3
    <3>5. p = a \o b
      BY <2>5 DEF a, b
    <3> HIDE DEF p
    <3>6. \A i \in 1 .. Len(q) - 1 : p[i] = IF i < k THEN q[i] ELSE q[i + 1]
      BY <3>4, <3>5
    <3>7. p \in Seq(S) /\ Len(p) = Len(q) - 1
      BY <3>3, <3>5, Zenon
    <3>8. Len(q) \in Nat /\ Len(q) > 0
      BY <2>1
    <3>9. \A i \in 1 .. Len(p) : p[i] = IF i < k THEN q[i] ELSE q[i + 1]
      BY <3>6, <3>7, Zenon
    <3> QED BY <3>7, <3>8, <3>9, Zenon
  <2>7. Once(p)
    BY <2>6, SMTT(30) DEF Once
  <2>8. Range(p) \subseteq Range(q) \ {f}
    BY <2>1, <2>6, SMTT(30) DEF Range, Once
  <2>9. ASSUME NEW x \in Range(q) \ {f} PROVE x \in Range(p)
    <3>1. PICK i \in 1 .. Len(q) : q[i] = x
      BY DEF Range
    <3>2. i # k
      BY <2>1, <3>1
    <3>3. CASE i < k
      BY <2>6, <3>1, <3>3 DEF Range
    <3>4. CASE i > k
      <4>1. i - 1 \in 1 .. Len(p) /\ p[i - 1] = x
        BY <2>6, <3>1, <3>4
      <4> QED BY <2>6, <4>1 DEF Range
    <3> QED BY <3>2, <3>3, <3>4
  <2>10. ASSUME Head(q) # f PROVE p # <<>> /\ Head(p) = Head(q)
    <3>1. k # 1
      BY <2>1, <2>10
    <3> QED BY <2>6, <3>1
  <2> QED BY <2>6, <2>7, <2>8, <2>9, <2>10
<1> QED BY <1>1, <1>2

-----------------------------------------------------------------------------
(***************************************************************************)
(* Lemmas about the parts of the callbacks.                                *)
(***************************************************************************)
\* process_idi_rc leaves a file where it is.
Same(r, e) ==
  /\ r \in FileRec
  /\ r.st = e.st /\ r.me = e.me /\ r.on_active_q = e.on_active_q
  /\ r.timer = e.timer /\ r.handler = e.handler /\ r.aborted = e.aborted
  /\ r.bit = e.bit /\ r.data = e.data /\ r.buffer = e.buffer /\ r.len = e.len

\* process_idi_rc ends an assignment, and leaves a return code for who waits for
\* one.
LEMMA ProcessIdiRcFacts ==
  ASSUME NEW e \in FileRec, NEW ok
  PROVE  LET r == ProcessIdiRc(e, ok) IN
         /\ Same(r, e)
         /\ r.status = e.status \ {"ASSIGN_PENDING"}
         /\ "ASSIGN_PENDING" \in e.status /\ ~ok => r.Id = FALSE
         /\ ~("ASSIGN_PENDING" \in e.status /\ ~ok) => r.Id = e.Id
         /\ r.rc => e.rc \/ "RC_PENDING" \in e.status
         /\ ~(e.Req = "REMOVE" /\ e.Id /\ ok) /\ "RC_PENDING" \in e.status => r.rc
<1> DEFINE z == "ASSIGN_PENDING" \in e.status /\ ~ok
           a == IF "ASSIGN_PENDING" \in e.status /\ ~ok
                THEN [e EXCEPT !.Id = FALSE, !.Req = "none"] ELSE e
           b == [a EXCEPT !.status = @ \ {"ASSIGN_PENDING"}]
           c == IF b.Req = "REMOVE" /\ ~b.Id
                THEN [b EXCEPT !.Req = "none", !.rc_count = 0] ELSE b
           d == WriteRc(c)
           g == [d EXCEPT !.rc_count = IF @ > 0 THEN @ - 1 ELSE 0]
<1>1. ProcessIdiRc(e, ok) = IF b.Req = "REMOVE" /\ b.Id /\ ok THEN b ELSE g
  BY Zenon DEF ProcessIdiRc
<1>2. Same(a, e) /\ a.status = e.status /\ a.rc = e.rc
      /\ (z => a.Id = FALSE /\ a.Req = "none") /\ (~z => a.Id = e.Id /\ a.Req = e.Req)
  <2>1. CASE z
    <3>1. a = [e EXCEPT !.Id = FALSE, !.Req = "none"]
      BY <2>1
    <3> HIDE DEF a
    <3>2. a \in FileRec /\ a.Req = "none" /\ a.Id = FALSE /\ a.rc = e.rc
          /\ a.status = e.status
      BY <3>1 DEF FileRec
    <3>3. a.st = e.st /\ a.me = e.me /\ a.on_active_q = e.on_active_q
          /\ a.timer = e.timer /\ a.handler = e.handler /\ a.aborted = e.aborted
          /\ a.bit = e.bit /\ a.data = e.data /\ a.buffer = e.buffer /\ a.len = e.len
      BY <3>1 DEF FileRec
    <3> QED BY <2>1, <3>2, <3>3 DEF Same
  <2>2. CASE ~z
    <3>1. a = e
      BY <2>2
    <3> HIDE DEF a
    <3> QED BY <2>2, <3>1 DEF Same
  <2> QED BY <2>1, <2>2
<1> HIDE DEF a
<1>3. Same(b, e) /\ b.status = e.status \ {"ASSIGN_PENDING"} /\ b.Id = a.Id
      /\ b.rc = e.rc /\ b.Req = a.Req
  BY <1>2 DEF FileRec, Same
<1> HIDE DEF b
<1>4. Same(c, e) /\ c.status = e.status \ {"ASSIGN_PENDING"} /\ c.Id = a.Id
  <2>1. CASE b.Req = "REMOVE" /\ ~b.Id
    <3>1. c = [b EXCEPT !.Req = "none", !.rc_count = 0]
      BY <2>1
    <3> HIDE DEF c
    <3> QED BY <1>3, <3>1 DEF FileRec, Same
  <2>2. CASE ~(b.Req = "REMOVE" /\ ~b.Id)
    BY <1>3, <2>2
  <2> QED BY <2>1, <2>2
<1> HIDE DEF c
<1>5. Same(d, e) /\ d.status = e.status \ {"ASSIGN_PENDING"} /\ d.Id = a.Id
      /\ (d.rc <=> "RC_PENDING" \in e.status)
  <2>1. d = [c EXCEPT !.rc = "RC_PENDING" \in c.status]
    BY DEF WriteRc
  <2>2. ("RC_PENDING" \in c.status) \in BOOLEAN
    OBVIOUS
  <2> DEFINE y == "RC_PENDING" \in c.status
  <2>3. y <=> "RC_PENDING" \in e.status
    BY <1>4
  <2> HIDE DEF d, y
  <2>4. y \in BOOLEAN /\ d = [c EXCEPT !.rc = y]
    BY <2>1, <2>2 DEF y
  <2>5. Same(d, e) /\ d.status = c.status /\ d.Id = c.Id /\ d.rc = y
    BY <1>4, <2>4 DEF FileRec, Same
  <2> QED BY <1>4, <2>5, <2>3
<1> HIDE DEF d
<1>6. Same(g, e) /\ g.status = e.status \ {"ASSIGN_PENDING"} /\ g.Id = a.Id
      /\ g.rc = d.rc
  <2>1. PICK n \in Nat : g = [d EXCEPT !.rc_count = n]
    BY <1>5 DEF FileRec, Same
  <2> HIDE DEF g
  <2> QED BY <1>5, <2>1 DEF FileRec, Same
<1> HIDE DEF g
<1>7. CASE b.Req = "REMOVE" /\ b.Id /\ ok
  <2>1. ProcessIdiRc(e, ok) = b
    BY <1>1, <1>7
  <2>2. ~z => e.Req = "REMOVE" /\ e.Id
    BY <1>2, <1>3, <1>7
  <2> QED BY <1>2, <1>3, <1>7, <2>1, <2>2
<1>8. CASE ~(b.Req = "REMOVE" /\ b.Id /\ ok)
  BY <1>1, <1>2, <1>5, <1>6, <1>8
<1> QED BY <1>7, <1>8

\* The callback of a file: a watchdog is stopped unless it guards a close.
AfterRc(r, e, ok) ==
  /\ r \in FileRec
  /\ r.st = e.st /\ r.me = e.me /\ r.on_active_q = e.on_active_q
  /\ r.handler = e.handler /\ r.aborted = e.aborted
  /\ r.bit = e.bit /\ r.data = e.data /\ r.buffer = e.buffer /\ r.len = e.len
  /\ "TIMEOUT" \in e.status => r = e
  /\ "REMOVE_PENDING" \in e.status => r.timer = e.timer
  /\ {"REMOVE_PENDING", "TIMEOUT"} \cap e.status = {} => r.timer = FALSE
  /\ r.timer => e.timer
  /\ r.status \subseteq e.status
  /\ \A x \in {"TIMEOUT", "REMOVE_PENDING", "RC_PENDING", "REMOVED"} :
       x \in r.status <=> x \in e.status
  /\ "TIMEOUT" \notin e.status =>
       /\ r.status = e.status \ {"ASSIGN_PENDING"}
       /\ "ASSIGN_PENDING" \in e.status /\ ~ok => r.Id = FALSE
       /\ ~("ASSIGN_PENDING" \in e.status /\ ~ok) => r.Id = e.Id
       /\ r.rc => e.rc \/ "RC_PENDING" \in e.status
       /\ ~(e.Req = "REMOVE" /\ e.Id /\ ok) /\ "RC_PENDING" \in e.status => r.rc

\* A return code for a file, from diva_um_idi_xdi_callback on.
LEMMA CallbackRcFacts ==
  ASSUME NEW e \in FileRec, NEW ok
  PROVE  AfterRc(XdiCallbackRc(e, ok), e, ok)
<1> DEFINE s == IF "REMOVE_PENDING" \in e.status THEN e ELSE StopWdog(e)
<1>1. CASE "TIMEOUT" \in e.status
  <2>1. XdiCallbackRc(e, ok) = e
    BY <1>1 DEF XdiCallbackRc
  <2>2. e.status \subseteq e.status
    OBVIOUS
  <2> QED BY <1>1, <2>1, <2>2 DEF AfterRc
<1>2. CASE "TIMEOUT" \notin e.status
  <2>1. XdiCallbackRc(e, ok) = ProcessIdiRc(s, ok)
    BY <1>2, Zenon DEF XdiCallbackRc
  <2>2. Same(s, [e EXCEPT !.timer = s.timer]) /\ s.status = e.status /\ s.Id = e.Id
        /\ s.rc = e.rc /\ s.Req = e.Req
        /\ ("REMOVE_PENDING" \in e.status => s.timer = e.timer)
        /\ ("REMOVE_PENDING" \notin e.status => s.timer = FALSE)
    <3>1. CASE "REMOVE_PENDING" \in e.status
      BY <3>1 DEF FileRec, Same
    <3>2. CASE "REMOVE_PENDING" \notin e.status
      BY <3>2 DEF FileRec, Same, StopWdog
    <3> QED BY <3>1, <3>2
  <2> HIDE DEF s
  <2>3. s \in FileRec
    BY <2>2 DEF Same
  <2>4. s.st = e.st /\ s.me = e.me /\ s.on_active_q = e.on_active_q
        /\ s.handler = e.handler /\ s.aborted = e.aborted
        /\ s.bit = e.bit /\ s.data = e.data /\ s.buffer = e.buffer /\ s.len = e.len
    BY <2>2 DEF Same, FileRec
  <2> DEFINE r == ProcessIdiRc(s, ok)
  <2>5. /\ Same(r, s)
        /\ r.status = s.status \ {"ASSIGN_PENDING"}
        /\ "ASSIGN_PENDING" \in s.status /\ ~ok => r.Id = FALSE
        /\ ~("ASSIGN_PENDING" \in s.status /\ ~ok) => r.Id = s.Id
        /\ r.rc => s.rc \/ "RC_PENDING" \in s.status
        /\ ~(s.Req = "REMOVE" /\ s.Id /\ ok) /\ "RC_PENDING" \in s.status => r.rc
    BY <2>3, ProcessIdiRcFacts
  <2> HIDE DEF r
  <2>6. r = XdiCallbackRc(e, ok)
    BY <2>1 DEF r
  <2>7. r.timer = s.timer
    BY <2>5 DEF Same
  <2>8. r.timer => e.timer
    BY <2>2, <2>7
  <2>9. r \in FileRec /\ r.st = e.st /\ r.me = e.me /\ r.on_active_q = e.on_active_q
        /\ r.handler = e.handler /\ r.aborted = e.aborted
        /\ r.bit = e.bit /\ r.data = e.data /\ r.buffer = e.buffer /\ r.len = e.len
    BY <2>4, <2>5 DEF Same
  <2>10. AfterRc(r, e, ok)
    BY <1>2, <2>2, <2>5, <2>7, <2>8, <2>9 DEF AfterRc
  <2> QED BY <2>6, <2>10
<1> QED BY <1>1, <1>2

\* An indication is one more message for the file and nothing else.
LEMMA TakeIndFacts ==
  ASSUME NEW e \in FileRec
  PROVE  LET r == TakeInd(e) IN
         /\ r \in FileRec
         /\ r.st = e.st /\ r.me = e.me /\ r.on_active_q = e.on_active_q
         /\ r.timer = e.timer /\ r.handler = e.handler /\ r.aborted = e.aborted
         /\ r.bit = e.bit /\ r.buffer = e.buffer /\ r.len = e.len
         /\ r.status = e.status /\ r.Id = e.Id /\ r.rc = e.rc /\ r.Req = e.Req
         /\ r.rc_count = e.rc_count
<1> DEFINE r == TakeInd(e)
<1>1. PICK n \in Nat : r = [e EXCEPT !.data = n]
  <2>1. e.data \in Nat /\ e = [e EXCEPT !.data = e.data]
    BY DEF FileRec
  <2>2. e.data + 1 \in Nat
    BY <2>1
  <2>3. r = [e EXCEPT !.data = e.data + 1] \/ r = e
    BY DEF TakeInd
  <2> HIDE DEF r
  <2> QED BY <2>1, <2>2, <2>3
<1> HIDE DEF r
<1>2. r \in FileRec
  BY <1>1 DEF FileRec
<1>3. /\ r.st = e.st /\ r.me = e.me /\ r.on_active_q = e.on_active_q
      /\ r.timer = e.timer /\ r.handler = e.handler /\ r.aborted = e.aborted
      /\ r.bit = e.bit /\ r.buffer = e.buffer /\ r.len = e.len
      /\ r.status = e.status /\ r.Id = e.Id /\ r.rc = e.rc /\ r.Req = e.Req
      /\ r.rc_count = e.rc_count
  BY <1>1 DEF FileRec
<1> QED BY <1>2, <1>3 DEF r

\* What the card answers to a request: a return code, or for a READ that it
\* accepts a return code, an indication, and those that this one announces.
LEMMA AnswerShape ==
  ASSUME NEW q \in Request, NEW a \in Answers(q)
  PROVE  /\ a \in Seq(Event) /\ a # <<>>
         /\ \A i \in DOMAIN a : a[i].tag = q.tag /\ a[i].req = q.req
         /\ \/ Len(a) = 1 /\ a[1].k = "rc" /\ a[1].n = 0 /\ (q.req = "READ" => ~a[1].ok)
            \/ /\ q.req = "READ"
               /\ \E n \in Nat, i, j \in {1, 2} :
                    /\ i # j /\ Len(a) = n + 2 /\ (kind # "idi" => n = 0)
                    /\ a[i].k = "rc" /\ a[i].ok /\ a[i].n = 0
                    /\ a[j].k = "ind" /\ a[j].n = n
                    /\ \A h \in DOMAIN a \ {1, 2} : a[h].k = "ind" /\ a[h].n = 0
<1>1. \A ok \in BOOLEAN : Rc(q, ok) \in Event
  BY DEF Rc, Event, Request
<1>2. \A n \in Nat : Ind(q, n) \in Event
  BY DEF Ind, Event, Request
<1>3. CASE \E ok \in BOOLEAN : a = <<Rc(q, ok)>> /\ (q.req = "READ" => ~ok)
  <2>1. PICK ok \in BOOLEAN : a = <<Rc(q, ok)>> /\ (q.req = "READ" => ~ok)
    BY <1>3
  <2>2. Len(a) = 1 /\ a[1] = Rc(q, ok) /\ a \in Seq(Event) /\ a # <<>>
    BY <1>1, <2>1
  <2>3. a[1].ok = ok /\ a[1].k = "rc" /\ a[1].n = 0 /\ a[1].tag = q.tag /\ a[1].req = q.req
    BY <2>2 DEF Rc
  <2>4. q.req = "READ" => ~a[1].ok
    BY <2>1, <2>3
  <2>5. DOMAIN a = {1}
    BY <2>2
  <2> QED BY <2>2, <2>3, <2>4, <2>5
<1>4. ASSUME q.req = "READ", NEW n \in 0 .. (IF kind = "idi" THEN MaxChain ELSE 0),
             NEW more, more = [i \in 1 .. n |-> Ind(q, 0)],
             \/ a = <<Rc(q, TRUE), Ind(q, n)>> \o more
             \/ a = <<Ind(q, n), Rc(q, TRUE)>> \o more
      PROVE  /\ a \in Seq(Event) /\ a # <<>>
             /\ \A i \in DOMAIN a : a[i].tag = q.tag /\ a[i].req = q.req
             /\ \E i, j \in {1, 2} :
                  /\ i # j /\ Len(a) = n + 2 /\ (kind # "idi" => n = 0)
                  /\ a[i].k = "rc" /\ a[i].ok /\ a[i].n = 0
                  /\ a[j].k = "ind" /\ a[j].n = n
                  /\ \A h \in DOMAIN a \ {1, 2} : a[h].k = "ind" /\ a[h].n = 0
  <2>1. n \in Nat /\ (kind # "idi" => n = 0)
    BY UmIdiAssumption DEF UmIdiAssumption
  <2>2. more \in Seq(Event) /\ Len(more) = n /\ \A h \in 1 .. n : more[h] = Ind(q, 0)
    BY <1>2, <1>4, <2>1
  <2>3. ASSUME NEW x \in Event, NEW y \in Event, a = <<x, y>> \o more
        PROVE  /\ a \in Seq(Event) /\ a # <<>> /\ Len(a) = n + 2 /\ a[1] = x /\ a[2] = y
               /\ \A h \in DOMAIN a \ {1, 2} : a[h] = Ind(q, 0)
    <3>1. <<x, y>> \in Seq(Event) /\ Len(<<x, y>>) = 2
      OBVIOUS
    <3>2. a \in Seq(Event) /\ Len(a) = n + 2 /\ a[1] = x /\ a[2] = y
      BY <2>1, <2>2, <2>3, <3>1
    <3>3. ASSUME NEW h \in DOMAIN a \ {1, 2} PROVE a[h] = Ind(q, 0)
      <4>1. h \in 3 .. n + 2 /\ h - 2 \in 1 .. n
        BY <2>1, <3>2
      <4>2. a[h] = more[h - 2]
        BY <2>1, <2>2, <2>3, <3>1, <4>1
      <4> QED BY <2>2, <4>1, <4>2
    <3> QED BY <2>1, <3>2, <3>3
  <2>4. Rc(q, TRUE) \in Event /\ Ind(q, n) \in Event
    BY <1>1, <1>2, <2>1
  <2>5. /\ Rc(q, TRUE).k = "rc" /\ Rc(q, TRUE).ok = TRUE /\ Rc(q, TRUE).n = 0
        /\ Rc(q, TRUE).tag = q.tag /\ Rc(q, TRUE).req = q.req
        /\ Ind(q, n).k = "ind" /\ Ind(q, n).n = n
        /\ Ind(q, n).tag = q.tag /\ Ind(q, n).req = q.req
        /\ Ind(q, 0).k = "ind" /\ Ind(q, 0).n = 0
        /\ Ind(q, 0).tag = q.tag /\ Ind(q, 0).req = q.req
    BY DEF Rc, Ind
  <2>6. CASE a = <<Rc(q, TRUE), Ind(q, n)>> \o more
    <3>1. /\ a \in Seq(Event) /\ a # <<>> /\ Len(a) = n + 2
          /\ a[1] = Rc(q, TRUE) /\ a[2] = Ind(q, n)
          /\ \A h \in DOMAIN a \ {1, 2} : a[h] = Ind(q, 0)
      BY <2>3, <2>4, <2>6
    <3>2. \A i \in DOMAIN a : a[i].tag = q.tag /\ a[i].req = q.req
      BY <2>5, <3>1
    <3>3. /\ 1 # 2 /\ a[1].k = "rc" /\ a[1].ok /\ a[1].n = 0
          /\ a[2].k = "ind" /\ a[2].n = n
          /\ \A h \in DOMAIN a \ {1, 2} : a[h].k = "ind" /\ a[h].n = 0
      BY <2>5, <3>1, ZenonT(30)
    <3> QED BY <2>1, <3>1, <3>2, <3>3
  <2>7. CASE a = <<Ind(q, n), Rc(q, TRUE)>> \o more
    <3>1. /\ a \in Seq(Event) /\ a # <<>> /\ Len(a) = n + 2
          /\ a[2] = Rc(q, TRUE) /\ a[1] = Ind(q, n)
          /\ \A h \in DOMAIN a \ {1, 2} : a[h] = Ind(q, 0)
      BY <2>3, <2>4, <2>7
    <3>2. \A i \in DOMAIN a : a[i].tag = q.tag /\ a[i].req = q.req
      BY <2>5, <3>1
    <3>3. /\ 1 # 2 /\ a[2].k = "rc" /\ a[2].ok /\ a[2].n = 0
          /\ a[1].k = "ind" /\ a[1].n = n
          /\ \A h \in DOMAIN a \ {1, 2} : a[h].k = "ind" /\ a[h].n = 0
      BY <2>5, <3>1, ZenonT(30)
    <3> QED BY <2>1, <3>1, <3>2, <3>3
  <2> QED BY <1>4, <2>6, <2>7
<1>5. \/ \E ok \in BOOLEAN : a = <<Rc(q, ok)>> /\ (q.req = "READ" => ~ok)
      \/ /\ q.req = "READ"
         /\ \E n \in 0 .. (IF kind = "idi" THEN MaxChain ELSE 0) :
              LET more == [i \in 1 .. n |-> Ind(q, 0)] IN
              \/ a = <<Rc(q, TRUE), Ind(q, n)>> \o more
              \/ a = <<Ind(q, n), Rc(q, TRUE)>> \o more
  BY Zenon DEF Answers
<1>6. CASE /\ q.req = "READ"
           /\ \E n \in 0 .. (IF kind = "idi" THEN MaxChain ELSE 0) :
                LET more == [i \in 1 .. n |-> Ind(q, 0)] IN
                \/ a = <<Rc(q, TRUE), Ind(q, n)>> \o more
                \/ a = <<Ind(q, n), Rc(q, TRUE)>> \o more
  <2>1. PICK n \in 0 .. (IF kind = "idi" THEN MaxChain ELSE 0) :
               LET more == [i \in 1 .. n |-> Ind(q, 0)] IN
               \/ a = <<Rc(q, TRUE), Ind(q, n)>> \o more
               \/ a = <<Ind(q, n), Rc(q, TRUE)>> \o more
    BY <1>6
  <2>2. n \in Nat
    BY UmIdiAssumption DEF UmIdiAssumption
  <2> DEFINE more == [i \in 1 .. n |-> Ind(q, 0)]
  <2>3. \/ a = <<Rc(q, TRUE), Ind(q, n)>> \o more
        \/ a = <<Ind(q, n), Rc(q, TRUE)>> \o more
    BY <2>1
  <2>4. /\ a \in Seq(Event) /\ a # <<>>
        /\ \A i \in DOMAIN a : a[i].tag = q.tag /\ a[i].req = q.req
        /\ \E i, j \in {1, 2} :
             /\ i # j /\ Len(a) = n + 2 /\ (kind # "idi" => n = 0)
             /\ a[i].k = "rc" /\ a[i].ok /\ a[i].n = 0
             /\ a[j].k = "ind" /\ a[j].n = n
             /\ \A h \in DOMAIN a \ {1, 2} : a[h].k = "ind" /\ a[h].n = 0
    <3>1. q.req = "READ"
      BY <1>6
    <3> QED BY <1>4, <2>3, <3>1, Zenon
  <2> QED BY <1>6, <2>2, <2>4, Zenon
<1> QED BY <1>3, <1>5, <1>6

\* What the card delivers: what it has, the first request answered.
LEMMA DeliveryShape ==
  ASSUME TypeOK, NEW x \in Ent, NEW u \in Deliveries(x)
  PROVE  /\ u \in Seq(Request \cup Event) /\ u # <<>> /\ Head(u) \in Event
         /\ Tail(u) \in Seq(Request \cup Event)
         /\ up[x] # <<>> /\ up[x] \in Seq(Request \cup Event)
         /\ \/ up[x][1].k # "req" /\ u = up[x]
            \/ /\ up[x][1].k = "req" /\ up[x][1] \in Request
               /\ \E a \in Answers(up[x][1]) : u = a \o Tail(up[x])
<1>1. up[x] \in Seq(Request \cup Event)
  BY DEF TypeOK
<1>2. up[x] # <<>>
  BY DEF Deliveries
<1>3. up[x][1] \in Request \cup Event /\ Head(up[x]) = up[x][1]
      /\ Tail(up[x]) \in Seq(Request \cup Event)
  BY <1>1, <1>2
<1>4. CASE up[x][1].k # "req"
  <2>1. u = up[x]
    BY <1>2, <1>3, <1>4 DEF Deliveries
  <2>2. up[x][1] \in Event
    BY <1>3, <1>4 DEF Request
  <2> QED BY <1>1, <1>2, <1>3, <1>4, <2>1, <2>2
<1>5. CASE up[x][1].k = "req"
  <2>1. PICK a \in Answers(up[x][1]) : u = a \o Tail(up[x])
    BY <1>2, <1>3, <1>5 DEF Deliveries
  <2>2. up[x][1] \in Request
    BY <1>3, <1>5 DEF Event
  <2>3. a \in Seq(Event) /\ a # <<>>
    BY <2>2, AnswerShape
  <2>4. u \in Seq(Request \cup Event) /\ u # <<>> /\ Head(u) = a[1] /\ a[1] \in Event
    BY <1>3, <2>1, <2>3
  <2>5. Tail(u) \in Seq(Request \cup Event)
    BY <2>4
  <2> QED BY <1>1, <1>2, <1>5, <2>1, <2>2, <2>4, <2>5
<1> QED BY <1>4, <1>5

\* A request is appended to what the card has for its entity.
LEMMA SendFacts ==
  ASSUME NEW u \in [Ent -> Seq(Request \cup Event)], NEW x \in Ent,
         NEW req \in ReqName \cup {"none"}, NEW tag \in AnyTag, Send(u, x, req, tag)
  PROVE  /\ up' \in [Ent -> Seq(Request \cup Event)]
         /\ req = "none" => up' = u
         /\ req # "none" => up'[x] = Append(u[x], [k |-> "req", req |-> req, tag |-> tag])
         /\ \A y \in Ent \ {x} : up'[y] = u[y]
<1> DEFINE q == [k |-> "req", req |-> req, tag |-> tag]
<1>1. CASE req = "none"
  BY <1>1 DEF Send
<1>2. CASE req # "none"
  <2>1. q \in Request
    BY <1>2 DEF Request, ReqName
  <2>2. up' = [u EXCEPT ![x] = Append(u[x], q)]
    BY <1>2 DEF Send
  <2> HIDE DEF q
  <2>3. Append(u[x], q) \in Seq(Request \cup Event)
    BY <2>1
  <2>4. up' \in [Ent -> Seq(Request \cup Event)] /\ up'[x] = Append(u[x], q)
        /\ \A y \in Ent \ {x} : up'[y] = u[y]
    BY <2>2, <2>3
  <2> QED BY <1>2, <2>4 DEF q
<1> QED BY <1>1, <1>2

\* What follows an event of a master: its queues stay, and if it can send it
\* does.
LEMMA FollowFacts ==
  ASSUME NEW r \in MasterRec, NEW fs \in [File -> FileRec]
  PROVE  LET n == Follow(r, fs)
             g == Head(r.active)
         IN
         /\ n.r \in MasterRec /\ n.req \in ReqName \cup {"none"} /\ n.tag \in AnyTag
         /\ n.r.active = r.active /\ n.r.idle = r.idle /\ n.r.timeout = r.timeout
         /\ \/ n.r = r /\ n.req = "none"
               /\ \/ r.st # "Assigned"
                  \/ kind = "idi" /\ r.rc_count # 0
                  \/ r.active = <<>> /\ r.idle # <<>>
                  \/ kind # "idi" /\ r.license_state # "Idle" /\ r.active # <<>>
            \/ /\ r.st = "Assigned" /\ r.active # <<>> /\ kind = "idi"
               /\ n.r.st = "ResponsePending" /\ n.req = fs[g].buffer
               /\ n.tag = <<g, fs[g].bit>> /\ n.r.rc_count = Weight(n.req)
               /\ n.r.license_state = r.license_state
            \/ /\ r.st = "Assigned" /\ r.active # <<>> /\ kind # "idi"
               /\ n.r.st = "ResponsePending" /\ n.req = "EXECUTE"
               /\ n.tag = <<g, fs[g].bit>> /\ n.r.rc_count = 1
            \/ /\ r.st = "Assigned" /\ r.active = <<>> /\ r.idle = <<>>
               /\ n.r.st = "RemovePending" /\ n.req = "REMOVE" /\ n.r.rc_count = 1
<1> DEFINE n == Follow(r, fs)
           g == Head(r.active)
<1>0. NoTag \in AnyTag /\ r.active \in Seq(File) /\ r.idle \in Seq(File)
      /\ (r.active # <<>> => g \in File)
      /\ (r.active # <<>> => <<g, fs[g].bit>> \in AnyTag)
  BY DEF AnyTag, MasterRec, Tag, FileRec
<1>1. ASSUME n = Nothing(r)
      PROVE  n.r = r /\ n.req = "none" /\ n.tag = NoTag
  BY <1>1 DEF Nothing
<1>2. CASE r.st # "Assigned" \/ (kind = "idi" /\ r.rc_count # 0)
  <2>1. n = Nothing(r)
    BY <1>2, Zenon DEF Follow
  <2> HIDE DEF n
  <2> QED BY <1>0, <1>1, <1>2, <2>1 DEF n
<1>3. CASE r.st = "Assigned" /\ ~(kind = "idi" /\ r.rc_count # 0)
  <2>1. CASE r.active # <<>> /\ kind = "idi"
    <3>1. n = [r |-> [Ask(r, fs[g].buffer) EXCEPT !.chained = FALSE, !.cbuffer = NoTag],
               req |-> fs[g].buffer, tag |-> <<g, fs[g].bit>>]
      BY <1>3, <2>1 DEF Follow
    <3>2. n.r = [Ask(r, fs[g].buffer) EXCEPT !.chained = FALSE, !.cbuffer = NoTag]
          /\ n.req = fs[g].buffer /\ n.tag = <<g, fs[g].bit>>
      BY <3>1
    <3>3. fs[g].buffer \in {"none", "READ", "WRITE"}
      BY <1>0, <2>1 DEF FileRec
    <3> HIDE DEF n
    <3>4. n.r \in MasterRec /\ n.r.active = r.active /\ n.r.idle = r.idle
          /\ n.r.timeout = r.timeout /\ n.r.st = "ResponsePending"
          /\ n.r.rc_count = Weight(fs[g].buffer) /\ n.r.license_state = r.license_state
      <4>1. PICK c \in Int : c = Weight(fs[g].buffer)
        BY DEF Weight
      <4>2. PICK R : R = n.r /\ R = [r EXCEPT !.st = "ResponsePending", !.rc_count = c,
                                          !.chained = FALSE, !.cbuffer = NoTag]
        BY <3>2, <4>1 DEF Ask, Weight
      <4>3. R \in MasterRec
        BY <1>0, <4>2 DEF MasterRec, MasterSt
      <4>4. R.active = r.active /\ R.idle = r.idle /\ R.timeout = r.timeout
            /\ R.st = "ResponsePending" /\ R.rc_count = c
            /\ R.license_state = r.license_state
        BY <4>2 DEF MasterRec
      <4> QED BY <4>1, <4>2, <4>3, <4>4
    <3> QED BY <1>0, <1>3, <2>1, <3>2, <3>3, <3>4 DEF n, ReqName
  <2>2. CASE r.active # <<>> /\ kind # "idi" /\ r.license_state = "Idle"
    <3>1. n = [r |-> InitLicense(r), req |-> "EXECUTE", tag |-> <<g, fs[g].bit>>]
      BY <1>3, <2>2 DEF Follow
    <3>2. n.r = InitLicense(r) /\ n.req = "EXECUTE" /\ n.tag = <<g, fs[g].bit>>
      BY <3>1
    <3> HIDE DEF n
    <3>3. n.r \in MasterRec /\ n.r.active = r.active /\ n.r.idle = r.idle
          /\ n.r.timeout = r.timeout /\ n.r.st = "ResponsePending" /\ n.r.rc_count = 1
      <4>1. PICK c \in Int : c = 1
        OBVIOUS
      <4>2. PICK R : R = n.r /\ R = [r EXCEPT !.st = "ResponsePending", !.rc_count = c,
                                          !.license_state = "Init", !.cbuffer = NoTag]
        BY <3>2, <4>1 DEF InitLicense
      <4>3. R \in MasterRec
        BY <1>0, <4>2 DEF MasterRec, MasterSt
      <4>4. R.active = r.active /\ R.idle = r.idle /\ R.timeout = r.timeout
            /\ R.st = "ResponsePending" /\ R.rc_count = c
        BY <4>2 DEF MasterRec
      <4> QED BY <4>1, <4>2, <4>3, <4>4
    <3> QED BY <1>0, <1>3, <2>2, <3>2, <3>3 DEF n, ReqName
  <2>3. CASE r.active # <<>> /\ kind # "idi" /\ r.license_state # "Idle"
    <3>1. n = Nothing(r)
      BY <1>3, <2>3 DEF Follow
    <3> HIDE DEF n
    <3> QED BY <1>0, <1>1, <2>3, <3>1 DEF n
  <2>4. CASE r.active = <<>> /\ r.idle = <<>>
    <3>1. n = SendRemove(r)
      BY <1>3, <2>4 DEF Follow
    <3>2. n.r = [r EXCEPT !.st = "RemovePending", !.rc_count = 1] /\ n.req = "REMOVE"
          /\ n.tag = NoTag
      BY <3>1 DEF SendRemove
    <3> HIDE DEF n
    <3>3. n.r \in MasterRec /\ n.r.active = r.active /\ n.r.idle = r.idle
          /\ n.r.timeout = r.timeout /\ n.r.st = "RemovePending" /\ n.r.rc_count = 1
      <4>1. PICK c \in Int : c = 1
        OBVIOUS
      <4>2. PICK R : R = n.r /\ R = [r EXCEPT !.st = "RemovePending", !.rc_count = c]
        BY <3>2, <4>1
      <4>3. R \in MasterRec
        BY <4>2 DEF MasterRec, MasterSt
      <4>4. R.active = r.active /\ R.idle = r.idle
            /\ R.timeout = r.timeout /\ R.st = "RemovePending" /\ R.rc_count = c
        BY <4>2 DEF MasterRec
      <4> QED BY <4>1, <4>2, <4>3, <4>4
    <3> QED BY <1>0, <1>3, <2>4, <3>2, <3>3 DEF n, ReqName
  <2>5. CASE r.active = <<>> /\ r.idle # <<>>
    <3>1. n = Nothing(r)
      BY <1>3, <2>5 DEF Follow
    <3> HIDE DEF n
    <3> QED BY <1>0, <1>1, <2>5, <3>1 DEF n
  <2> QED BY <2>1, <2>2, <2>3, <2>4, <2>5
<1> QED BY <1>2, <1>3

\* The queue moves of a master.
LEMMA OnActiveFacts ==
  ASSUME NEW r \in MasterRec, NEW f \in File, Once(r.idle)
  PROVE  /\ OnActive(r, f) \in MasterRec
         /\ OnActive(r, f).active = Append(r.active, f)
         /\ OnActive(r, f).idle = RemoveFirst(r.idle, f)
         /\ OnActive(r, f).st = r.st /\ OnActive(r, f).rc_count = r.rc_count
         /\ OnActive(r, f).timeout = r.timeout
         /\ OnActive(r, f).license_state = r.license_state
<1>1. PICK a, b : a = Append(r.active, f) /\ b = RemoveFirst(r.idle, f)
  OBVIOUS
<1>2. r.active \in Seq(File) /\ r.idle \in Seq(File)
  BY DEF MasterRec
<1>3. a \in Seq(File)
  BY <1>1, <1>2
<1>4. b \in Seq(File)
  BY <1>1, <1>2, OnceRemove
<1>5. PICK R : R = OnActive(r, f) /\ R = [r EXCEPT !.idle = b, !.active = a]
  BY <1>1 DEF OnActive
<1>6. R \in MasterRec
  BY <1>3, <1>4, <1>5 DEF MasterRec
<1>7. R.active = a /\ R.idle = b /\ R.st = r.st /\ R.rc_count = r.rc_count
      /\ R.timeout = r.timeout /\ R.license_state = r.license_state
  BY <1>5 DEF MasterRec
<1> QED BY <1>1, <1>5, <1>6, <1>7

\* The file at the head of the active queue goes to the tail of the idle one.
LEMMA ToIdleFacts ==
  ASSUME NEW r \in MasterRec, r.active # <<>>
  PROVE  /\ ToIdle(r) \in MasterRec
         /\ ToIdle(r).active = Tail(r.active)
         /\ ToIdle(r).idle = Append(r.idle, Head(r.active))
         /\ ToIdle(r).st = r.st /\ ToIdle(r).rc_count = r.rc_count
         /\ ToIdle(r).timeout = r.timeout
         /\ ToIdle(r).license_state = r.license_state
<1>1. PICK a, b : a = Tail(r.active) /\ b = Append(r.idle, Head(r.active))
  OBVIOUS
<1>2. r.active \in Seq(File) /\ r.idle \in Seq(File)
  BY DEF MasterRec
<1>3. a \in Seq(File) /\ b \in Seq(File)
  BY <1>1, <1>2
<1>4. PICK R : R = ToIdle(r) /\ R = [r EXCEPT !.active = a, !.idle = b]
  BY <1>1 DEF ToIdle
<1>5. R \in MasterRec
  BY <1>3, <1>4 DEF MasterRec
<1>6. R.active = a /\ R.idle = b /\ R.st = r.st /\ R.rc_count = r.rc_count
      /\ R.timeout = r.timeout /\ R.license_state = r.license_state
  BY <1>4 DEF MasterRec
<1> QED BY <1>1, <1>4, <1>5, <1>6

\* The file n after its answer was delivered to e: off the active queue, the
\* watchdog stopped or, for the license server, left alone.
Through(n, e) ==
  /\ n \in FileRec
  /\ n.st = e.st /\ n.me = e.me /\ n.on_active_q = FALSE /\ n.bit = 0
  /\ n.aborted = e.aborted /\ n.handler = e.handler
  /\ n.status \subseteq e.status
  /\ \A x \in {"TIMEOUT", "REMOVE_PENDING"} : x \in n.status <=> x \in e.status
  /\ n.timer => e.timer
  /\ n.Id => e.Id
  /\ kind = "idi" /\ {"REMOVE_PENDING", "TIMEOUT"} \cap e.status = {} => n.timer = FALSE

\* The file n that stays on its queue after a part of a chain.
Stays(n, e) ==
  /\ n \in FileRec
  /\ n.st = e.st /\ n.me = e.me /\ n.on_active_q = e.on_active_q
  /\ n.timer = e.timer /\ n.handler = e.handler /\ n.aborted = e.aborted
  /\ n.bit = e.bit /\ n.buffer = e.buffer
  /\ n.status = e.status /\ n.Id = e.Id

\* A file that gets the return code of its request is through.
LEMMA ThroughRc ==
  ASSUME NEW e \in FileRec, NEW ok, NEW l \in Nat,
         NEW o, o = [e EXCEPT !.on_active_q = FALSE, !.bit = 0, !.buffer = "none", !.len = l]
  PROVE  Through(XdiCallbackRc(o, ok), e)
<1>1. PICK z \in {0, 1} : z = 0
  OBVIOUS
<1>2. o \in FileRec
  <2>1. o = [e EXCEPT !.on_active_q = FALSE, !.bit = z, !.buffer = "none", !.len = l]
    BY <1>1
  <2> QED BY <2>1 DEF FileRec
<1>3. o.st = e.st /\ o.me = e.me /\ o.on_active_q = FALSE /\ o.bit = 0
      /\ o.aborted = e.aborted /\ o.handler = e.handler /\ o.status = e.status
      /\ o.timer = e.timer /\ o.Id = e.Id
  BY DEF FileRec
<1> DEFINE n == XdiCallbackRc(o, ok)
<1>a. AfterRc(n, o, ok)
  BY <1>2, CallbackRcFacts
<1> HIDE DEF n
<1>4. /\ n \in FileRec
      /\ n.st = o.st /\ n.me = o.me /\ n.on_active_q = o.on_active_q
      /\ n.handler = o.handler /\ n.aborted = o.aborted /\ n.bit = o.bit
      /\ {"REMOVE_PENDING", "TIMEOUT"} \cap o.status = {} => n.timer = FALSE
      /\ n.status \subseteq o.status
      /\ \A x \in {"TIMEOUT", "REMOVE_PENDING"} : x \in n.status <=> x \in o.status
  BY <1>a DEF AfterRc
<1>5. n.timer => o.timer
  BY <1>a DEF AfterRc
<1>6. n.Id => o.Id
  BY <1>a DEF AfterRc
<1>7. (n.timer => e.timer) /\ (n.Id => e.Id)
  BY <1>3, <1>5, <1>6
<1>8. /\ n.st = e.st /\ n.me = e.me /\ n.on_active_q = FALSE /\ n.bit = 0
      /\ n.aborted = e.aborted /\ n.handler = e.handler
      /\ n.status \subseteq e.status
      /\ \A x \in {"TIMEOUT", "REMOVE_PENDING"} : x \in n.status <=> x \in e.status
      /\ {"REMOVE_PENDING", "TIMEOUT"} \cap e.status = {} => n.timer = FALSE
  BY <1>3, <1>4
<1>9. Through(n, e)
  BY <1>4, <1>7, <1>8 DEF Through
<1> QED BY <1>9 DEF n

\* It still is with the indication that comes along.
LEMMA ThroughInd ==
  ASSUME NEW e, NEW o, Through(o, e)
  PROVE  Through(TakeInd(o), e)
<1>1. o \in FileRec
  BY DEF Through
<1> DEFINE n == TakeInd(o)
<1>2. /\ n \in FileRec
      /\ n.st = o.st /\ n.me = o.me /\ n.on_active_q = o.on_active_q
      /\ n.timer = o.timer /\ n.handler = o.handler /\ n.aborted = o.aborted
      /\ n.bit = o.bit /\ n.status = o.status /\ n.Id = o.Id
  BY <1>1, TakeIndFacts
<1> HIDE DEF n
<1>3. Through(n, e)
  BY <1>2 DEF Through
<1> QED BY <1>3 DEF n

\* The end of the callback of an ordinary master.
LEMMA DeliveredFacts ==
  ASSUME TypeOK, NEW r \in MasterRec, r.active # <<>>, NEW ok
  PROVE  LET f == Head(r.active)
             F == Delivered(r, ok)
         IN  /\ f \in File /\ F \in [File -> FileRec]
             /\ \A x \in File \ {f} : F[x] = fi[x]
             /\ r.chained => Stays(F[f], fi[f])
             /\ ~r.chained => Through(F[f], fi[f])
<1> DEFINE f == Head(r.active)
           F == Delivered(r, ok)
<1>1. f \in File /\ fi[f] \in FileRec /\ fi \in [File -> FileRec]
  BY DEF MasterRec, TypeOK
<1> HIDE DEF f
<1> DEFINE o == [fi[f] EXCEPT !.on_active_q = FALSE, !.bit = 0, !.buffer = "none"]
           e == IF r.chained THEN fi[f] ELSE XdiCallbackRc(o, ok)
           n == IF ok /\ r.cbuffer # NoTag THEN TakeInd(e) ELSE e
<1>2. F = [fi EXCEPT ![f] = n]
  BY DEF Delivered, f
<1>3. ASSUME ~r.chained PROVE Through(n, fi[f])
  <2>1. PICK l \in Nat : l = fi[f].len
    BY <1>1 DEF FileRec
  <2>2. o = [fi[f] EXCEPT !.on_active_q = FALSE, !.bit = 0, !.buffer = "none", !.len = l]
    BY <1>1, <2>1 DEF FileRec
  <2> HIDE DEF o
  <2>3. Through(XdiCallbackRc(o, ok), fi[f])
    BY <1>1, <2>2, ThroughRc
  <2>4. e = XdiCallbackRc(o, ok)
    BY <1>3
  <2> HIDE DEF e
  <2>5. Through(e, fi[f]) /\ Through(TakeInd(e), fi[f])
    BY <2>3, <2>4, ThroughInd
  <2> QED BY <2>5
<1>4. ASSUME r.chained PROVE Stays(n, fi[f])
  <2>1. e = fi[f]
    BY <1>4
  <2> HIDE DEF e
  <2>2. Stays(e, fi[f])
    BY <1>1, <2>1 DEF Stays
  <2>3. Stays(TakeInd(e), fi[f])
    BY <1>1, <2>1, TakeIndFacts DEF Stays
  <2> QED BY <2>2, <2>3
<1> HIDE DEF n
<1>5. n \in FileRec
  BY <1>3, <1>4 DEF Through, Stays
<1>6. F \in [File -> FileRec] /\ F[f] = n /\ \A x \in File \ {f} : F[x] = fi[x]
  BY <1>1, <1>2, <1>5
<1> HIDE DEF F
<1> QED BY <1>1, <1>3, <1>4, <1>6 DEF F, f

\* The license response is delivered.
LEMMA DeliverLicenseFacts ==
  ASSUME TypeOK, NEW r \in MasterRec, r.active # <<>>, kind = "license"
  PROVE  LET f == Head(r.active)
             F == DeliverLicense(r)
         IN  /\ f \in File /\ F \in [File -> FileRec]
             /\ \A x \in File \ {f} : F[x] = fi[x]
             /\ Through(F[f], fi[f])
<1> DEFINE f == Head(r.active)
           F == DeliverLicense(r)
<1>1. f \in File /\ fi[f] \in FileRec /\ fi \in [File -> FileRec]
  BY DEF MasterRec, TypeOK
<1> HIDE DEF f
<1>2. PICK t \in BOOLEAN : t = (fi[f].timer /\ "REMOVE_PENDING" \notin fi[f].status)
  OBVIOUS
<1>3. PICK c \in Nat : c = IF fi[f].rc_count > 0 THEN fi[f].rc_count - 1 ELSE 0
  BY <1>1 DEF FileRec
<1>4. PICK z \in {0, 1} : z = 0
  OBVIOUS
<1>5. PICK l \in Nat : l = 0
  OBVIOUS
<1> DEFINE e == [fi[f] EXCEPT !.on_active_q = FALSE,
                   !.status = fi[f].status \ {"RC_PENDING"},
                   !.bit = z, !.buffer = "none", !.len = l, !.timer = t, !.rc_count = c]
<1>6. F = [fi EXCEPT ![f] = TakeInd(e)]
  BY <1>2, <1>3, <1>4, <1>5 DEF DeliverLicense, f
<1>7. e \in FileRec
  BY <1>1 DEF FileRec
<1>8. e.st = fi[f].st /\ e.me = fi[f].me /\ e.on_active_q = FALSE /\ e.bit = 0
      /\ e.aborted = fi[f].aborted /\ e.handler = fi[f].handler
      /\ e.status = fi[f].status \ {"RC_PENDING"} /\ e.timer = t /\ e.Id = fi[f].Id
  BY <1>1, <1>4 DEF FileRec
<1> HIDE DEF e
<1>9. e.timer => fi[f].timer
  BY <1>2, <1>8
<1>10. Through(e, fi[f])
  BY <1>7, <1>8, <1>9 DEF Through
<1>11. Through(TakeInd(e), fi[f])
  BY <1>10, ThroughInd
<1> DEFINE n == TakeInd(e)
<1>12. n \in FileRec
  BY <1>11 DEF Through
<1> HIDE DEF n
<1>13. F = [fi EXCEPT ![f] = n]
  BY <1>6 DEF n
<1> HIDE DEF F
<1>14. F \in [File -> FileRec] /\ F[f] = n /\ \A x \in File \ {f} : F[x] = fi[x]
  BY <1>1, <1>12, <1>13
<1> QED BY <1>1, <1>11, <1>14 DEF F, f, n

-----------------------------------------------------------------------------
(***************************************************************************)
(* What the callbacks of a master do, in five forms: the master becomes r  *)
(* and the files F, before it sends what follows; G goes to the ghosts.    *)
(***************************************************************************)
Kept(r, s) == r.active = s.active /\ r.idle = s.idle

\* One of several answers: nothing but the count changes.
Hold(m, u, r, F, G) ==
  LET s == ma[m]
      ev == Head(u)
  IN  /\ F = fi /\ Kept(r, s) /\ r.st = s.st /\ r.license_state = s.license_state
      /\ G \subseteq {"cut"}
      /\ ev.k = "rc" => s.st \in {"Assigned", "ResponsePending", "Cancelled"}
      /\ s.st \in {"ResponsePending", "Cancelled"} =>
           /\ s.rc_count # 1
           /\ s.rc_count > 0 => r.rc_count = s.rc_count - 1
           /\ ev.k = "rc" => ev.ok
           /\ kind = "idi" /\ ev.k # "rc" /\ ev.n > 0 => "cut" \in G

\* The last answer to a request whose file has closed.
Back(m, u, r, F, G) ==
  LET s == ma[m]
      ev == Head(u)
  IN  /\ F = fi /\ Kept(r, s) /\ r.st = "Assigned" /\ r.rc_count = 0
      /\ s.st \notin {"ResponsePending", "Assigned"}
      /\ kind = "license" => s.st = "Cancelled"
      /\ r.license_state \in {s.license_state, "Idle"}
      /\ kind = "license" /\ r.license_state # "Idle" => "stall" \in G
      /\ G \subseteq {"cut", "stall"}
      /\ ev.k = "rc" => s.st = "Cancelled" /\ (ev.ok => s.rc_count = 1)
      /\ ev.k # "rc" => s.rc_count = 1 /\ (kind = "idi" /\ ev.n > 0 => "cut" \in G)

\* The last answer to the request of the file at the head.
Serve(m, u, r, F, G) ==
  LET s == ma[m]
      ev == Head(u)
      f == Head(s.active)
  IN  /\ s.st = "ResponsePending" /\ r.st = "Assigned" /\ r.rc_count = 0
      /\ kind = "license" => r.license_state = "Idle"
      /\ r.active = Tail(s.active) /\ r.idle = Append(s.idle, f)
      /\ Through(F[f], fi[f]) /\ \A x \in File \ {f} : F[x] = fi[x]
      /\ G \subseteq Wrong(s, ev.tag) \cup {"cut"}
      /\ ev.k = "rc" /\ ev.ok => s.rc_count = 1
      /\ ev.k # "rc" /\ s.rc_count > 0 /\ "cut" \notin G =>
           s.rc_count = 1 /\ (kind = "idi" => ev.n = 0)

\* A part of a chain for the file at the head.
Chain(m, u, r, F, G) ==
  LET s == ma[m]
      ev == Head(u)
      f == Head(s.active)
  IN  /\ kind = "idi" /\ s.st = "ResponsePending" /\ r.st = "ResponsePending"
      /\ Kept(r, s) /\ r.license_state = s.license_state
      /\ Stays(F[f], fi[f]) /\ \A x \in File \ {f} : F[x] = fi[x]
      /\ G \subseteq Wrong(s, ev.tag) \cup {"cut"}
      /\ ev.k = "data" /\ r.rc_count # 0
      /\ \/ ev.n > 0 /\ r.rc_count = s.rc_count - 1 + ev.n
         \/ r.rc_count = s.rc_count - 1 /\ (ev.n > 0 => "cut" \in G)

\* The answer to the ASSIGN.
Told(e, ok) == XdiCallbackRc([e EXCEPT !.on_active_q = FALSE, !.Id = TRUE], ok)
AssignAll(m, u, r, F, G) ==
  LET s == ma[m]
      ev == Head(u)
  IN  /\ s.st = "AssignPending" /\ ev.k = "rc" /\ G = {}
      /\ r.st = IF ev.ok THEN "Assigned" ELSE "OutOfService"
      /\ r.rc_count = 0 /\ r.license_state = s.license_state
      /\ r.active = <<>> /\ r.idle = s.idle \o s.active
      /\ F = [f \in File |-> IF f \notin Range(s.active) THEN fi[f]
                             ELSE Told(fi[f], ev.ok)]

Effect(m, u, r, F, G) ==
  /\ r \in MasterRec /\ F \in [File -> FileRec]
  /\ ma[m].timeout = FALSE /\ r.timeout = FALSE
  /\ \/ Hold(m, u, r, F, G) \/ Back(m, u, r, F, G) \/ Serve(m, u, r, F, G)
     \/ Chain(m, u, r, F, G) \/ AssignAll(m, u, r, F, G)

\* The other callbacks: an indication is announced, and the next piece of the
\* license is written.
Announce(m, u) ==
  /\ ma[m].st = "ResponsePending" /\ Head(u).k = "ind"
  /\ up' = [up EXCEPT ![m] = [u EXCEPT ![1].k = "data"]]
  /\ UNCHANGED <<kind, present, nr_delayed_cleanup_entities, fi, ma, known, ghost>>

Piece(m, u) ==
  /\ kind = "license" /\ ma[m].st = "ResponsePending" /\ ma[m].rc_count = 1
  /\ Head(u).k = "rc" /\ Head(u).ok
  /\ \E rest \in Int : license_step(m, u, rest)

\* The types of a file and of a master that is told.
LEMMA ToldFacts ==
  ASSUME NEW e \in FileRec, NEW ok
  PROVE  LET n == Told(e, ok) IN
         /\ n \in FileRec /\ n.st = e.st /\ n.me = e.me /\ n.on_active_q = FALSE
         /\ n.handler = e.handler /\ n.aborted = e.aborted /\ n.bit = e.bit
         /\ n.buffer = e.buffer /\ n.status \subseteq e.status
         /\ {"REMOVE_PENDING", "TIMEOUT"} \cap e.status = {} => n.timer = FALSE
         /\ "TIMEOUT" \notin e.status /\ "ASSIGN_PENDING" \in e.status /\ ~ok => n.Id = FALSE
<1> DEFINE o == [e EXCEPT !.on_active_q = FALSE, !.Id = TRUE]
           n == XdiCallbackRc(o, ok)
<1>1. o \in FileRec /\ o.st = e.st /\ o.me = e.me /\ o.on_active_q = FALSE
      /\ o.handler = e.handler /\ o.aborted = e.aborted /\ o.bit = e.bit
      /\ o.buffer = e.buffer /\ o.status = e.status
  BY DEF FileRec
<1> HIDE DEF o
<1>2. AfterRc(n, o, ok)
  BY <1>1, CallbackRcFacts
<1> HIDE DEF n
<1>3. /\ n \in FileRec /\ n.st = e.st /\ n.me = e.me /\ n.on_active_q = FALSE
      /\ n.handler = e.handler /\ n.aborted = e.aborted /\ n.bit = e.bit
      /\ n.buffer = e.buffer /\ n.status \subseteq e.status
      /\ {"REMOVE_PENDING", "TIMEOUT"} \cap e.status = {} => n.timer = FALSE
      /\ "TIMEOUT" \notin e.status /\ "ASSIGN_PENDING" \in e.status /\ ~ok => n.Id = FALSE
  BY <1>1, <1>2 DEF AfterRc
<1>4. Told(e, ok) = n
  BY DEF Told, n, o
<1> QED BY <1>3, <1>4

\* The master after a delivery: its file stays while a chain is pending.
LEMMA AfterDeliveryFacts ==
  ASSUME NEW a \in MasterRec, a.active # <<>>, NoTag \in AnyTag
  PROVE  LET r == AfterDelivery(a) IN
         /\ r \in MasterRec /\ r.st = a.st /\ r.rc_count = a.rc_count
         /\ r.timeout = a.timeout /\ r.license_state = a.license_state
         /\ a.chained => Kept(r, a)
         /\ ~a.chained => /\ r.active = Tail(a.active)
                          /\ r.idle = Append(a.idle, Head(a.active))
<1> DEFINE o == IF a.chained THEN a ELSE ToIdle(a)
<1>1. PICK r : r = AfterDelivery(a) /\ r = [o EXCEPT !.cbuffer = NoTag]
  BY DEF AfterDelivery
<1>2. /\ o \in MasterRec /\ o.st = a.st /\ o.rc_count = a.rc_count
      /\ o.timeout = a.timeout /\ o.license_state = a.license_state
      /\ a.chained => Kept(o, a)
      /\ ~a.chained => /\ o.active = Tail(a.active)
                       /\ o.idle = Append(a.idle, Head(a.active))
  BY ToIdleFacts DEF Kept
<1> HIDE DEF o
<1>3. r \in MasterRec
  BY <1>1, <1>2 DEF MasterRec
<1>4. r.st = o.st /\ r.rc_count = o.rc_count /\ r.timeout = o.timeout
      /\ r.license_state = o.license_state /\ r.active = o.active /\ r.idle = o.idle
  BY <1>1, <1>2 DEF MasterRec
<1> QED BY <1>1, <1>2, <1>3, <1>4 DEF Kept

\* The license master when its answer is complete.
LEMMA ServedFacts ==
  ASSUME NEW s \in MasterRec, s.active # <<>>
  PROVE  LET r == Served(s) IN
         /\ r \in MasterRec /\ r.st = "Assigned" /\ r.rc_count = 0
         /\ r.timeout = s.timeout /\ r.license_state = "Idle"
         /\ r.active = Tail(s.active) /\ r.idle = Append(s.idle, Head(s.active))
<1> DEFINE o == ToIdle(s)
<1>1. PICK c \in Int : c = 0
  OBVIOUS
<1>2. PICK r : r = Served(s) /\ r = [o EXCEPT !.st = "Assigned", !.rc_count = c,
                                             !.license_state = "Idle"]
  BY <1>1 DEF Served
<1>3. o \in MasterRec /\ o.active = Tail(s.active) /\ o.timeout = s.timeout
      /\ o.idle = Append(s.idle, Head(s.active))
  BY ToIdleFacts
<1> HIDE DEF o
<1>4. r \in MasterRec
  BY <1>2, <1>3 DEF MasterRec, MasterSt
<1>5. r.st = "Assigned" /\ r.rc_count = c /\ r.timeout = o.timeout
      /\ r.license_state = "Idle" /\ r.active = o.active /\ r.idle = o.idle
  BY <1>2, <1>3 DEF MasterRec
<1> QED BY <1>1, <1>2, <1>3, <1>4, <1>5

\* What is known of a master at a callback.
LEMMA AtCallback ==
  ASSUME TypeOK, Masters, NEW m \in Master, NEW u \in Deliveries(m)
  PROVE  /\ ma[m] \in MasterRec /\ fi \in [File -> FileRec] /\ m \in Ent
         /\ Head(u) \in Event /\ Head(u).ok \in BOOLEAN /\ Head(u).n \in Nat
         /\ Head(u).tag \in AnyTag /\ ma[m].rc_count \in Int /\ NoTag \in AnyTag
         /\ ma[m].chained \in BOOLEAN /\ ma[m].st \in MasterSt
         /\ ma[m].license_state \in {"Idle", "Init", "Write", "WaitResponse"}
         /\ ma[m].cbuffer \in AnyTag
         /\ ma[m].st = "ResponsePending" => ma[m].active # <<>>
<1>1. m \in Ent
  BY DEF Ent
<1>2. Head(u) \in Event
  BY <1>1, DeliveryShape
<1>3. ma[m] \in MasterRec /\ fi \in [File -> FileRec]
  BY DEF TypeOK
<1>4. ma[m].st = "ResponsePending" => ma[m].active # <<>>
  BY DEF Masters, MasterInv, MasterFits
<1>5. NoTag \in AnyTag
  BY DEF AnyTag
<1> QED BY <1>1, <1>2, <1>3, <1>4, <1>5 DEF Event, MasterRec

\* me_assign_rc answers everybody on the active queue.
LEMMA AssignRcEffect ==
  ASSUME TypeOK, Masters, NEW m \in Master, NEW u \in Deliveries(m), me_assign_rc(m, u)
  PROVE  \E r, F, G : Done(m, u, r, F, G) /\ Effect(m, u, r, F, G)
<1> DEFINE s == ma[m]
           ok == Head(u).ok
           r == [s EXCEPT !.st = IF ok THEN "Assigned" ELSE "OutOfService",
                          !.rc_count = 0, !.chained = FALSE, !.active = <<>>,
                          !.idle = s.idle \o s.active]
           F == [f \in File |-> IF f \notin Range(s.active) THEN fi[f]
                                ELSE Told(fi[f], ok)]
<1>0. s \in MasterRec /\ fi \in [File -> FileRec] /\ ok \in BOOLEAN
  BY AtCallback
<1>1. Done(m, u, r, F, {}) /\ MasterEvent(m, u, "rc") /\ s.st = "AssignPending"
  BY DEF me_assign_rc, Told
<1>2. F \in [File -> FileRec]
  BY <1>0, ToldFacts
<1> HIDE DEF F
<1>3. PICK c \in Int : c = 0
  OBVIOUS
<1>4. PICK st \in MasterSt : st = IF ok THEN "Assigned" ELSE "OutOfService"
  BY DEF MasterSt
<1>a. s.idle \o s.active \in Seq(File) /\ <<>> \in Seq(File)
  BY <1>0 DEF MasterRec
<1>5. PICK q \in Seq(File) : q = s.idle \o s.active
  BY <1>a, Zenon
<1>6. PICK p \in Seq(File) : p = <<>>
  BY <1>a, Zenon
<1>7. PICK R : R = r
  OBVIOUS
<1>8. R = [s EXCEPT !.st = st, !.rc_count = c, !.chained = FALSE, !.active = p, !.idle = q]
  BY <1>3, <1>4, <1>5, <1>6, <1>7
<1>9. R \in MasterRec
  BY <1>0, <1>8 DEF MasterRec
<1>10. R.st = st /\ R.rc_count = c /\ R.active = p /\ R.idle = q
       /\ R.timeout = s.timeout /\ R.license_state = s.license_state
  BY <1>0, <1>8 DEF MasterRec
<1>11. s.timeout = FALSE /\ Head(u).k = "rc"
  BY <1>0, <1>1 DEF MasterEvent, MasterRec
<1>12. AssignAll(m, u, R, F, {})
  BY <1>1, <1>3, <1>4, <1>5, <1>6, <1>10, <1>11 DEF AssignAll, F
<1>13. Effect(m, u, R, F, {})
  BY <1>2, <1>9, <1>10, <1>11, <1>12 DEF Effect
<1>14. Done(m, u, R, F, {})
  BY <1>1, <1>7
<1> QED BY <1>13, <1>14

\* me_rc counts, delivers, or ends a cancelled answer.
LEMMA RcEffect ==
  ASSUME TypeOK, Masters, NEW m \in Master, NEW u \in Deliveries(m), me_rc(m, u)
  PROVE  \E r, F, G : Done(m, u, r, F, G) /\ Effect(m, u, r, F, G)
<1> DEFINE s == ma[m]
           ev == Head(u)
           n == IF ev.ok THEN s.rc_count - 1 ELSE 0
           a == [s EXCEPT !.st = "Assigned", !.rc_count = 0, !.chained = FALSE]
<1>0. s \in MasterRec /\ fi \in [File -> FileRec] /\ ev.ok \in BOOLEAN /\ n \in Int
      /\ s.rc_count \in Int /\ NoTag \in AnyTag /\ s.chained \in BOOLEAN
      /\ s.st \in MasterSt /\ s.cbuffer \in AnyTag
      /\ s.license_state \in {"Idle", "Init", "Write", "WaitResponse"}
      /\ (s.st = "ResponsePending" => s.active # <<>>)
  BY AtCallback
<1>1. MasterEvent(m, u, "rc") /\ kind = "idi"
  BY DEF me_rc
<1>2. s.timeout = FALSE /\ ev.k = "rc"
  BY <1>0, <1>1 DEF MasterEvent, MasterRec
<1>3. PICK R : R = a
  OBVIOUS
<1>4. /\ R \in MasterRec /\ Kept(R, s) /\ R.st = "Assigned" /\ R.rc_count = 0
      /\ R.license_state = s.license_state /\ R.timeout = s.timeout
      /\ R.chained = FALSE /\ R.active = s.active /\ R.idle = s.idle
  <2>1. PICK c \in Int : c = 0
    OBVIOUS
  <2>2. R = [s EXCEPT !.st = "Assigned", !.rc_count = c, !.chained = FALSE]
    BY <1>3, <2>1
  <2>3. R \in MasterRec
    BY <1>0, <2>2 DEF MasterRec, MasterSt
  <2>4. R.st = "Assigned" /\ R.rc_count = c /\ R.active = s.active /\ R.idle = s.idle
        /\ R.license_state = s.license_state /\ R.timeout = s.timeout
        /\ R.chained = FALSE
    BY <1>0, <2>2 DEF MasterRec
  <2> QED BY <2>1, <2>3, <2>4 DEF Kept
<1>5. CASE /\ s.st \in {"ResponsePending", "Cancelled"} /\ n # 0
           /\ Done(m, u, [s EXCEPT !.rc_count = n], fi, {})
  <2>1. PICK r, c : c = n /\ r = [s EXCEPT !.rc_count = c]
    OBVIOUS
  <2>2. c \in Int /\ c # 0 /\ ev.ok /\ c = s.rc_count - 1
    BY <1>0, <1>5, <2>1
  <2>3. r \in MasterRec
    BY <1>0, <2>1, <2>2 DEF MasterRec
  <2>4. r.st = s.st /\ r.rc_count = c /\ Kept(r, s) /\ r.timeout = s.timeout
        /\ r.license_state = s.license_state
    BY <1>0, <2>1 DEF MasterRec, Kept
  <2>5. Hold(m, u, r, fi, {})
    BY <1>0, <1>2, <1>5, <2>2, <2>4 DEF Hold
  <2>6. Effect(m, u, r, fi, {})
    BY <1>0, <1>2, <2>3, <2>4, <2>5 DEF Effect
  <2>7. Done(m, u, r, fi, {})
    BY <1>5, <2>1
  <2> QED BY <2>6, <2>7
<1>6. CASE /\ s.st = "ResponsePending" /\ n = 0
           /\ Done(m, u, AfterDelivery(a), Delivered(a, ev.ok), Wrong(s, ev.tag))
  <2>1. R.active # <<>> /\ R.active = s.active /\ R.idle = s.idle
    BY <1>0, <1>4, <1>6
  <2> DEFINE f == Head(s.active)
             F == Delivered(R, ev.ok)
             r == AfterDelivery(R)
  <2>2. f \in File /\ F \in [File -> FileRec] /\ Through(F[f], fi[f])
        /\ \A x \in File \ {f} : F[x] = fi[x]
    BY <1>4, <2>1, DeliveredFacts
  <2>3. /\ r \in MasterRec /\ r.st = "Assigned" /\ r.rc_count = 0
        /\ r.timeout = s.timeout /\ r.active = Tail(s.active) /\ r.idle = Append(s.idle, f)
    <3>1. /\ r \in MasterRec /\ r.st = R.st /\ r.rc_count = R.rc_count /\ r.timeout = R.timeout
          /\ ~R.chained => /\ r.active = Tail(R.active)
                           /\ r.idle = Append(R.idle, Head(R.active))
      BY <1>0, <1>4, <2>1, AfterDeliveryFacts
    <3> HIDE DEF r
    <3> QED BY <3>1, <1>4, <2>1
  <2>4. Done(m, u, r, F, Wrong(s, ev.tag))
    BY <1>3, <1>6
  <2> HIDE DEF F, r
  <2>5. ev.ok => s.rc_count = 1
    BY <1>0, <1>6
  <2>6. Serve(m, u, r, F, Wrong(s, ev.tag))
    BY <1>1, <1>2, <1>6, <2>2, <2>3, <2>5 DEF Serve
  <2>7. Effect(m, u, r, F, Wrong(s, ev.tag))
    BY <1>2, <2>2, <2>3, <2>6 DEF Effect
  <2> QED BY <2>4, <2>7
<1>7. CASE s.st = "Assigned" /\ Done(m, u, s, fi, {})
  <2>1. Hold(m, u, s, fi, {})
    BY <1>7 DEF Hold, Kept
  <2>2. Effect(m, u, s, fi, {})
    BY <1>0, <1>2, <2>1 DEF Effect
  <2> QED BY <1>7, <2>2
<1>8. CASE s.st = "Cancelled" /\ n = 0 /\ Done(m, u, a, fi, {})
  <2>1. ev.ok => s.rc_count = 1
    BY <1>0, <1>8
  <2>2. Back(m, u, R, fi, {})
    BY <1>1, <1>2, <1>4, <1>8, <2>1 DEF Back
  <2>3. Effect(m, u, R, fi, {})
    BY <1>0, <1>2, <1>4, <2>2 DEF Effect
  <2>4. Done(m, u, R, fi, {})
    BY <1>3, <1>8
  <2> QED BY <2>3, <2>4
<1>9. \/ /\ s.st \in {"ResponsePending", "Cancelled"} /\ n # 0
         /\ Done(m, u, [s EXCEPT !.rc_count = n], fi, {})
      \/ /\ s.st = "ResponsePending" /\ n = 0
         /\ Done(m, u, AfterDelivery(a), Delivered(a, ev.ok), Wrong(s, ev.tag))
      \/ /\ s.st = "Assigned" \/ (s.st = "Cancelled" /\ n = 0)
         /\ Done(m, u, IF s.st = "Assigned" THEN s ELSE a, fi, {})
  BY Zenon DEF me_rc
<1> QED BY <1>5, <1>6, <1>7, <1>8, <1>9

\* me_announced takes the announcement of an indication, or drops it.
LEMMA AnnouncedEffect ==
  ASSUME TypeOK, Masters, NEW m \in Master, NEW u \in Deliveries(m), me_announced(m, u)
  PROVE  \/ \E r, F, G : Done(m, u, r, F, G) /\ Effect(m, u, r, F, G)
         \/ Announce(m, u)
<1> DEFINE s == ma[m]
           ev == Head(u)
           last == s.rc_count = 1
           G == Note(ev.n > 0, "cut")
           a == [s EXCEPT !.rc_count = s.rc_count - 1,
                          !.st = IF last THEN "Assigned" ELSE s.st,
                          !.chained = s.chained /\ ~last]
<1>0. s \in MasterRec /\ fi \in [File -> FileRec]
      /\ s.rc_count \in Int /\ s.chained \in BOOLEAN /\ s.st \in MasterSt
  BY AtCallback
<1>1. MasterEvent(m, u, "ind") /\ kind = "idi"
  BY DEF me_announced
<1>2. s.timeout = FALSE /\ ev.k = "ind"
  BY <1>0, <1>1 DEF MasterEvent, MasterRec
<1>3. CASE s.st = "ResponsePending"
  BY <1>2, <1>3 DEF me_announced, Announce
<1>4. CASE s.st # "ResponsePending"
  <2>1. Done(m, u, a, fi, G)
    BY <1>4 DEF me_announced
  <2>2. PICK c \in Int : c = s.rc_count - 1
    BY <1>0
  <2>3. PICK ch \in BOOLEAN : ch = (s.chained /\ ~last)
    OBVIOUS
  <2>4. PICK st \in MasterSt : st = IF last THEN "Assigned" ELSE s.st
    BY <1>0 DEF MasterSt
  <2>5. PICK r : r = a
    OBVIOUS
  <2>6. r = [s EXCEPT !.rc_count = c, !.st = st, !.chained = ch]
    BY <2>2, <2>3, <2>4, <2>5
  <2>7. r \in MasterRec
    BY <1>0, <2>6 DEF MasterRec
  <2>8. r.st = st /\ r.rc_count = c /\ Kept(r, s) /\ r.timeout = s.timeout
        /\ r.license_state = s.license_state
    BY <1>0, <2>6 DEF MasterRec, Kept
  <2>9. G \subseteq {"cut"} /\ (ev.n > 0 => "cut" \in G)
    BY DEF Note
  <2> HIDE DEF G
  <2>10. CASE last /\ s.st # "Assigned"
    <3>1. r.st = "Assigned" /\ r.rc_count = 0
      BY <2>2, <2>4, <2>8, <2>10
    <3>2. Back(m, u, r, fi, G)
      BY <1>1, <1>2, <1>4, <2>8, <2>9, <2>10, <3>1 DEF Back
    <3> QED BY <1>0, <1>2, <2>1, <2>5, <2>7, <2>8, <3>2 DEF Effect
  <2>11. CASE ~(last /\ s.st # "Assigned")
    <3>1. r.st = s.st
      BY <2>4, <2>8, <2>11
    <3>2. s.st = "Cancelled" => s.rc_count # 1
      BY <2>11
    <3>3. Hold(m, u, r, fi, G)
      BY <1>0, <1>1, <1>2, <1>4, <2>2, <2>8, <2>9, <3>1, <3>2 DEF Hold
    <3> QED BY <1>0, <1>2, <2>1, <2>5, <2>7, <2>8, <3>3 DEF Effect
  <2> QED BY <2>10, <2>11
<1> QED BY <1>3, <1>4

\* me_complete counts the indication and delivers it, with the return code or as
\* a part of a chain.
LEMMA CompleteEffect ==
  ASSUME TypeOK, Masters, NEW m \in Master, NEW u \in Deliveries(m), me_complete(m, u)
  PROVE  \E r, F, G : Done(m, u, r, F, G) /\ Effect(m, u, r, F, G)
<1> DEFINE s == ma[m]
           ev == Head(u)
           starts == ~s.chained /\ ev.n > 0
           n == s.rc_count - 1 + (IF starts THEN ev.n ELSE 0)
           a == [s EXCEPT !.cbuffer = ev.tag, !.rc_count = n,
                          !.st = IF n = 0 THEN "Assigned" ELSE s.st,
                          !.chained = n # 0 /\ (s.chained \/ starts)]
           b == [s EXCEPT !.cbuffer = NoTag, !.rc_count = s.rc_count - 1,
                          !.st = IF s.rc_count = 1 THEN "Assigned" ELSE s.st]
<1>0. s \in MasterRec /\ fi \in [File -> FileRec] /\ ev.n \in Nat /\ ev.tag \in AnyTag
      /\ s.rc_count \in Int /\ NoTag \in AnyTag /\ s.chained \in BOOLEAN
      /\ s.st \in MasterSt /\ (s.st = "ResponsePending" => s.active # <<>>)
  BY AtCallback
<1>1. MasterEvent(m, u, "data") /\ kind = "idi"
  BY DEF me_complete
<1>2. s.timeout = FALSE /\ ev.k = "data"
  BY <1>0, <1>1 DEF MasterEvent, MasterRec
<1>3. PICK c \in Int : c = n
  BY <1>0
<1>4. PICK ch \in BOOLEAN : ch = (n # 0 /\ (s.chained \/ starts))
  OBVIOUS
<1>5. PICK st \in MasterSt : st = IF n = 0 THEN "Assigned" ELSE s.st
  BY <1>0 DEF MasterSt
<1>6. PICK R : R = a
  OBVIOUS
<1>7. R = [s EXCEPT !.cbuffer = ev.tag, !.rc_count = c, !.st = st, !.chained = ch]
  BY <1>3, <1>4, <1>5, <1>6
<1>8. R \in MasterRec
  BY <1>0, <1>7 DEF MasterRec
<1>9. R.st = st /\ R.rc_count = c /\ R.active = s.active /\ R.idle = s.idle
      /\ R.timeout = s.timeout /\ R.license_state = s.license_state /\ R.chained = ch
  BY <1>0, <1>7 DEF MasterRec
<1>10. CASE s.st # "ResponsePending" /\ Done(m, u, b, fi, Note(ev.n > 0, "cut"))
  <2> DEFINE G == Note(ev.n > 0, "cut")
  <2>1. PICK d \in Int : d = s.rc_count - 1
    BY <1>0
  <2>2. PICK t \in MasterSt : t = IF s.rc_count = 1 THEN "Assigned" ELSE s.st
    BY <1>0 DEF MasterSt
  <2>3. PICK r : r = b
    OBVIOUS
  <2>4. r = [s EXCEPT !.cbuffer = NoTag, !.rc_count = d, !.st = t]
    BY <2>1, <2>2, <2>3
  <2>5. r \in MasterRec
    BY <1>0, <2>4 DEF MasterRec
  <2>6. r.st = t /\ r.rc_count = d /\ Kept(r, s) /\ r.timeout = s.timeout
        /\ r.license_state = s.license_state
    BY <1>0, <2>4 DEF MasterRec, Kept
  <2>7. G \subseteq {"cut"} /\ (ev.n > 0 => "cut" \in G)
    BY DEF Note
  <2> HIDE DEF G
  <2>8. Done(m, u, r, fi, G)
    BY <1>10, <2>3 DEF G
  <2>9. CASE s.rc_count = 1 /\ s.st # "Assigned"
    <3>1. r.st = "Assigned" /\ r.rc_count = 0
      BY <2>1, <2>2, <2>6, <2>9
    <3>2. Back(m, u, r, fi, G)
      BY <1>1, <1>2, <1>10, <2>6, <2>7, <2>9, <3>1 DEF Back
    <3> QED BY <1>0, <1>2, <2>5, <2>6, <2>8, <3>2 DEF Effect
  <2>10. CASE ~(s.rc_count = 1 /\ s.st # "Assigned")
    <3>1. r.st = s.st /\ (s.st = "Cancelled" => s.rc_count # 1)
      BY <2>2, <2>6, <2>10
    <3>2. Hold(m, u, r, fi, G)
      BY <1>0, <1>1, <1>2, <1>10, <2>1, <2>6, <2>7, <3>1 DEF Hold
    <3> QED BY <1>0, <1>2, <2>5, <2>6, <2>8, <3>2 DEF Effect
  <2> QED BY <2>9, <2>10
<1>11. CASE /\ s.st = "ResponsePending" /\ (n = 0 \/ a.chained)
            /\ Done(m, u, AfterDelivery(a), Delivered(a, TRUE),
                    Wrong(s, ev.tag) \cup Note(s.chained /\ ev.n > 0, "cut"))
  <2> DEFINE f == Head(s.active)
             F == Delivered(R, TRUE)
             r == AfterDelivery(R)
             G == Wrong(s, ev.tag) \cup Note(s.chained /\ ev.n > 0, "cut")
  <2>1. R.active # <<>>
    BY <1>0, <1>9, <1>11
  <2>2. /\ f \in File /\ F \in [File -> FileRec] /\ \A x \in File \ {f} : F[x] = fi[x]
        /\ ch => Stays(F[f], fi[f])
        /\ ~ch => Through(F[f], fi[f])
    BY <1>8, <1>9, <2>1, DeliveredFacts
  <2>3. /\ r \in MasterRec /\ r.st = st /\ r.rc_count = c
        /\ r.timeout = s.timeout /\ r.license_state = s.license_state
        /\ ch => Kept(r, s)
        /\ ~ch => r.active = Tail(s.active) /\ r.idle = Append(s.idle, f)
    BY <1>0, <1>8, <1>9, <2>1, AfterDeliveryFacts DEF Kept
  <2>4. Done(m, u, r, F, G)
    BY <1>6, <1>11
  <2>5. G \subseteq Wrong(s, ev.tag) \cup {"cut"} /\ (s.chained /\ ev.n > 0 => "cut" \in G)
    BY DEF Note
  <2>6. n = 0 \/ ch
    BY <1>6, <1>9, <1>11
  <2> HIDE DEF F, r, G
  <2>7. CASE ch
    <3>1. n # 0 /\ (s.chained \/ starts) /\ st = "ResponsePending"
      BY <1>4, <1>5, <1>11, <2>7
    <3>2. \/ ev.n > 0 /\ c = s.rc_count - 1 + ev.n
          \/ c = s.rc_count - 1 /\ (ev.n > 0 => "cut" \in G)
      BY <1>0, <1>3, <2>5, <3>1
    <3>3. Chain(m, u, r, F, G)
      BY <1>1, <1>2, <1>3, <1>11, <2>2, <2>3, <2>5, <2>7, <3>1, <3>2 DEF Chain
    <3> QED BY <1>2, <2>2, <2>3, <2>4, <3>3 DEF Effect
  <2>8. CASE ~ch
    <3>1. n = 0 /\ st = "Assigned"
      BY <1>5, <2>6, <2>8
    <3>2. s.rc_count > 0 /\ "cut" \notin G => s.rc_count = 1 /\ ev.n = 0
      <4>1. CASE starts
        <5>1. s.rc_count - 1 + ev.n = 0 /\ ev.n > 0
          BY <3>1, <4>1
        <5> QED BY <1>0, <5>1
      <4>2. CASE ~starts
        <5>1. s.rc_count - 1 + 0 = 0
          BY <3>1, <4>2
        <5>2. ev.n > 0 => "cut" \in G
          <6>1. ev.n > 0 => s.chained
            BY <4>2, Zenon
          <6> QED BY <2>5, <6>1, Zenon
        <5>3. s.rc_count = 1
          BY <1>0, <5>1
        <5>4. ev.n > 0 \/ ev.n = 0
          BY <1>0
        <5> QED BY <5>2, <5>3, <5>4
      <4> QED BY <4>1, <4>2
    <3>3. Serve(m, u, r, F, G)
      BY <1>1, <1>2, <1>3, <1>11, <2>2, <2>3, <2>5, <2>8, <3>1, <3>2 DEF Serve
    <3> QED BY <1>2, <2>2, <2>3, <2>4, <3>3 DEF Effect
  <2> QED BY <2>7, <2>8
<1>12. CASE s.st = "ResponsePending" /\ n # 0 /\ ~a.chained /\ Done(m, u, a, fi, {})
  <2>1. ~ch /\ st = s.st
    BY <1>5, <1>6, <1>9, <1>12
  <2>2. ~s.chained /\ ~starts
    BY <1>4, <1>12, <2>1
  <2>3. ev.n = 0 /\ c = s.rc_count - 1 /\ s.rc_count # 1
    BY <1>0, <1>3, <1>12, <2>2
  <2>4. Hold(m, u, R, fi, {})
    BY <1>0, <1>2, <1>9, <2>1, <2>3 DEF Hold, Kept
  <2>5. Effect(m, u, R, fi, {})
    BY <1>0, <1>2, <1>8, <1>9, <2>4 DEF Effect
  <2>6. Done(m, u, R, fi, {})
    BY <1>6, <1>12
  <2> QED BY <2>5, <2>6
<1>13. \/ s.st # "ResponsePending" /\ Done(m, u, b, fi, Note(ev.n > 0, "cut"))
       \/ /\ s.st = "ResponsePending" /\ (n = 0 \/ a.chained)
          /\ Done(m, u, AfterDelivery(a), Delivered(a, TRUE),
                  Wrong(s, ev.tag) \cup Note(s.chained /\ ev.n > 0, "cut"))
       \/ s.st = "ResponsePending" /\ n # 0 /\ ~a.chained /\ Done(m, u, a, fi, {})
  BY Zenon DEF me_complete
<1> QED BY <1>10, <1>11, <1>12, <1>13

\* diva_um_idi_license_xdi_callback, a return code.
LEMMA LicenseRcEffect ==
  ASSUME TypeOK, Masters, NEW m \in Master, NEW u \in Deliveries(m), license_rc(m, u)
  PROVE  \/ \E r, F, G : Done(m, u, r, F, G) /\ Effect(m, u, r, F, G)
         \/ Piece(m, u)
<1> DEFINE s == ma[m]
           ev == Head(u)
           f == Head(s.active)
           n == IF ev.ok THEN s.rc_count - 1 ELSE 0
           o == [fi[f] EXCEPT !.on_active_q = FALSE, !.bit = 0, !.buffer = "none", !.len = 0]
           F == [fi EXCEPT ![f] = XdiCallbackRc(o, FALSE)]
           b == [s EXCEPT !.rc_count = 0, !.st = "Assigned", !.license_state = "Idle"]
<1>0. s \in MasterRec /\ fi \in [File -> FileRec] /\ ev.ok \in BOOLEAN /\ n \in Int
      /\ s.rc_count \in Int /\ s.st \in MasterSt
      /\ (s.st = "ResponsePending" => s.active # <<>>)
  BY AtCallback
<1>1. MasterEvent(m, u, "rc") /\ kind = "license"
  BY DEF license_rc
<1>2. s.timeout = FALSE /\ ev.k = "rc"
  BY <1>0, <1>1 DEF MasterEvent, MasterRec
<1>3. CASE /\ s.st \in {"ResponsePending", "Cancelled"} /\ n # 0
           /\ Done(m, u, [s EXCEPT !.rc_count = n], fi, {})
  <2>1. PICK r, c : c = n /\ r = [s EXCEPT !.rc_count = c]
    OBVIOUS
  <2>2. c \in Int /\ c # 0 /\ ev.ok /\ c = s.rc_count - 1
    BY <1>0, <1>3, <2>1
  <2>3. r \in MasterRec
    BY <1>0, <2>1, <2>2 DEF MasterRec
  <2>4. r.st = s.st /\ r.rc_count = c /\ Kept(r, s) /\ r.timeout = s.timeout
        /\ r.license_state = s.license_state
    BY <1>0, <2>1 DEF MasterRec, Kept
  <2>5. Hold(m, u, r, fi, {})
    BY <1>0, <1>2, <1>3, <2>2, <2>4 DEF Hold
  <2>6. Effect(m, u, r, fi, {})
    BY <1>0, <1>2, <2>3, <2>4, <2>5 DEF Effect
  <2>7. Done(m, u, r, fi, {})
    BY <1>3, <2>1
  <2> QED BY <2>6, <2>7
<1>4. ASSUME s.st = "ResponsePending", ev.ok, n = 0, NEW rest \in Int, license_step(m, u, rest)
      PROVE  Piece(m, u)
  <2>1. s.rc_count = 1
    BY <1>0, <1>4
  <2>2. \E x \in Int : license_step(m, u, x)
    BY <1>4
  <2> QED BY <1>1, <1>2, <1>4, <2>1, <2>2, Zenon DEF Piece
<1>5. CASE /\ s.st = "ResponsePending" /\ ev.ok /\ n = 0 /\ s.license_state = "Init"
           /\ license_step(m, u, fi[f].len)
  <2>1. fi[f].len \in Int
    <3>1. f \in File
      BY <1>0, <1>5 DEF MasterRec
    <3> QED BY <1>0, <3>1 DEF FileRec
  <2> QED BY <1>4, <1>5, <2>1
<1>6. CASE /\ s.st = "ResponsePending" /\ ev.ok /\ n = 0 /\ s.license_state = "Write"
           /\ license_step(m, u, s.rest)
  <2>1. s.rest \in Int
    BY <1>0 DEF MasterRec
  <2> QED BY <1>4, <1>6, <2>1
<1> DEFINE R == Served(s)
<1>7. ASSUME s.st = "ResponsePending"
      PROVE  /\ R \in MasterRec /\ R.st = "Assigned" /\ R.rc_count = 0
             /\ R.timeout = FALSE /\ R.license_state = "Idle"
             /\ R.active = Tail(s.active) /\ R.idle = Append(s.idle, f)
  <2>1. s.active # <<>>
    BY <1>0, <1>7
  <2> QED BY <1>0, <1>2, <2>1, ServedFacts
<1>8. CASE /\ s.st = "ResponsePending" /\ ev.ok /\ n = 0 /\ s.license_state = "WaitResponse"
           /\ Done(m, u, Served(s), DeliverLicense(s), Wrong(s, ev.tag))
  <2> DEFINE D == DeliverLicense(s)
  <2>1. f \in File /\ D \in [File -> FileRec] /\ Through(D[f], fi[f])
        /\ \A x \in File \ {f} : D[x] = fi[x]
    BY <1>0, <1>1, <1>8, DeliverLicenseFacts
  <2>2. s.rc_count = 1
    BY <1>0, <1>8
  <2>3. Done(m, u, R, D, Wrong(s, ev.tag))
    BY <1>8
  <2> HIDE DEF R, D
  <2>4. Serve(m, u, R, D, Wrong(s, ev.tag))
    BY <1>2, <1>7, <1>8, <2>1, <2>2 DEF Serve
  <2>5. Effect(m, u, R, D, Wrong(s, ev.tag))
    BY <1>2, <1>7, <1>8, <2>1, <2>4 DEF Effect
  <2> QED BY <2>3, <2>5
<1>9. CASE /\ s.st = "ResponsePending" /\ ~ev.ok
           /\ Done(m, u, Served(s), F, Wrong(s, ev.tag))
  <2>1. f \in File /\ fi[f] \in FileRec
    BY <1>0, <1>9 DEF MasterRec
  <2>2. Through(XdiCallbackRc(o, FALSE), fi[f])
    <3>1. PICK l \in Nat : l = 0
      OBVIOUS
    <3>2. o = [fi[f] EXCEPT !.on_active_q = FALSE, !.bit = 0, !.buffer = "none", !.len = l]
      BY <3>1
    <3> HIDE DEF o
    <3> QED BY <2>1, <3>2, ThroughRc
  <2>3. PICK x : x = XdiCallbackRc(o, FALSE)
    OBVIOUS
  <2>4. x \in FileRec /\ Through(x, fi[f]) /\ F = [fi EXCEPT ![f] = x]
    BY <2>2, <2>3 DEF Through
  <2>5. F \in [File -> FileRec] /\ F[f] = x /\ \A y \in File \ {f} : F[y] = fi[y]
    BY <1>0, <2>1, <2>4
  <2>6. Done(m, u, R, F, Wrong(s, ev.tag))
    BY <1>9
  <2> HIDE DEF R, F
  <2>7. Serve(m, u, R, F, Wrong(s, ev.tag))
    BY <1>2, <1>7, <1>9, <2>4, <2>5 DEF Serve
  <2>8. Effect(m, u, R, F, Wrong(s, ev.tag))
    BY <1>2, <1>7, <1>9, <2>5, <2>7 DEF Effect
  <2> QED BY <2>6, <2>8
<1>10. CASE s.st = "Cancelled" /\ n = 0 /\ Done(m, u, b, fi, {})
  <2>1. PICK c \in Int : c = 0
    OBVIOUS
  <2>2. PICK r : r = b
    OBVIOUS
  <2>3. r = [s EXCEPT !.rc_count = c, !.st = "Assigned", !.license_state = "Idle"]
    BY <2>1, <2>2
  <2>4. r \in MasterRec
    BY <1>0, <2>3 DEF MasterRec, MasterSt
  <2>5. r.st = "Assigned" /\ r.rc_count = c /\ r.license_state = "Idle" /\ Kept(r, s)
        /\ r.timeout = s.timeout
    BY <1>0, <2>3 DEF MasterRec, Kept
  <2>6. ev.ok => s.rc_count = 1
    BY <1>0, <1>10
  <2>7. Back(m, u, r, fi, {})
    BY <1>1, <1>2, <1>10, <2>1, <2>5, <2>6 DEF Back
  <2>8. Effect(m, u, r, fi, {})
    BY <1>0, <1>2, <2>4, <2>5, <2>7 DEF Effect
  <2>9. Done(m, u, r, fi, {})
    BY <1>10, <2>2
  <2> QED BY <2>8, <2>9
<1>11. \/ /\ s.st \in {"ResponsePending", "Cancelled"} /\ n # 0
          /\ Done(m, u, [s EXCEPT !.rc_count = n], fi, {})
       \/ /\ s.st = "ResponsePending" /\ ev.ok /\ n = 0 /\ s.license_state = "Init"
          /\ license_step(m, u, fi[f].len)
       \/ /\ s.st = "ResponsePending" /\ ev.ok /\ n = 0 /\ s.license_state = "Write"
          /\ license_step(m, u, s.rest)
       \/ /\ s.st = "ResponsePending" /\ ev.ok /\ n = 0 /\ s.license_state = "WaitResponse"
          /\ Done(m, u, Served(s), DeliverLicense(s), Wrong(s, ev.tag))
       \/ /\ s.st = "ResponsePending" /\ ~ev.ok
          /\ Done(m, u, Served(s), F, Wrong(s, ev.tag))
       \/ s.st = "Cancelled" /\ n = 0 /\ Done(m, u, b, fi, {})
  BY Zenon DEF license_rc
<1> QED BY <1>3, <1>5, <1>6, <1>8, <1>9, <1>10, <1>11

\* An indication for a license master whose file has gone.
LEMMA LicenseCancelledEffect ==
  ASSUME TypeOK, Masters, NEW m \in Master, NEW u \in Deliveries(m), license_cancelled(m, u)
  PROVE  \E r, F, G : Done(m, u, r, F, G) /\ Effect(m, u, r, F, G)
<1> DEFINE s == ma[m]
           ev == Head(u)
           n == IF s.rc_count > 0 THEN s.rc_count - 1 ELSE 0
           last == s.rc_count = 1
           a == [s EXCEPT !.rc_count = n,
                          !.st = IF s.st = "Cancelled" /\ last THEN "Assigned" ELSE s.st]
           G == Note(last /\ s.st = "Cancelled" /\ s.license_state # "Idle", "stall")
<1>0. s \in MasterRec /\ fi \in [File -> FileRec] /\ s.rc_count \in Int /\ s.st \in MasterSt
  BY AtCallback
<1>1. ev.k \in {"ind", "data"} /\ ~s.timeout /\ kind = "license" /\ s.st # "ResponsePending"
  BY DEF license_cancelled, MasterEvent
<1>2. s.timeout = FALSE
  BY <1>0, <1>1 DEF MasterRec
<1>3. PICK c \in Int : c = n
  BY <1>0
<1>4. PICK st \in MasterSt : st = IF s.st = "Cancelled" /\ last THEN "Assigned" ELSE s.st
  BY <1>0 DEF MasterSt
<1>5. PICK r : r = a
  OBVIOUS
<1>6. r = [s EXCEPT !.rc_count = c, !.st = st]
  BY <1>3, <1>4, <1>5
<1>7. r \in MasterRec
  BY <1>0, <1>6 DEF MasterRec
<1>8. r.st = st /\ r.rc_count = c /\ Kept(r, s) /\ r.timeout = s.timeout
      /\ r.license_state = s.license_state
  BY <1>0, <1>6 DEF MasterRec, Kept
<1>9. Done(m, u, r, fi, G)
  BY <1>5 DEF license_cancelled
<1>10. CASE s.st = "Cancelled" /\ last
  <2>1. r.st = "Assigned" /\ r.rc_count = 0
    BY <1>0, <1>3, <1>4, <1>8, <1>10
  <2>2. G \subseteq {"stall"} /\ (s.license_state # "Idle" => "stall" \in G)
    BY <1>10 DEF Note
  <2> HIDE DEF G
  <2>3. Back(m, u, r, fi, G)
    BY <1>1, <1>8, <1>10, <2>1, <2>2 DEF Back
  <2> QED BY <1>0, <1>2, <1>7, <1>8, <1>9, <2>3 DEF Effect
<1>11. CASE ~(s.st = "Cancelled" /\ last)
  <2>1. r.st = s.st /\ (s.rc_count > 0 => r.rc_count = s.rc_count - 1)
        /\ (s.st = "Cancelled" => s.rc_count # 1)
    BY <1>0, <1>3, <1>4, <1>8, <1>11
  <2>2. G \subseteq {"cut"}
    BY <1>11 DEF Note
  <2> HIDE DEF G
  <2>3. Hold(m, u, r, fi, G)
    BY <1>1, <1>8, <2>1, <2>2 DEF Hold
  <2> QED BY <1>0, <1>2, <1>7, <1>8, <1>9, <2>3 DEF Effect
<1> QED BY <1>10, <1>11

\* The response of the license server, announced and complete.
LEMMA LicenseIndEffect ==
  ASSUME TypeOK, Masters, NEW m \in Master, NEW u \in Deliveries(m), license_ind(m, u)
  PROVE  \/ \E r, F, G : Done(m, u, r, F, G) /\ Effect(m, u, r, F, G)
         \/ Announce(m, u)
<1> DEFINE s == ma[m]
           ev == Head(u)
           f == Head(s.active)
<1>0. s \in MasterRec /\ fi \in [File -> FileRec] /\ s.rc_count \in Int
      /\ (s.st = "ResponsePending" => s.active # <<>>)
  BY AtCallback
<1>1. kind = "license" /\ s.st = "ResponsePending"
  BY DEF license_ind
<1>2. CASE /\ MasterEvent(m, u, "ind")
           /\ up' = [up EXCEPT ![m] = [u EXCEPT ![1].k = "data"]]
           /\ UNCHANGED <<kind, present, nr_delayed_cleanup_entities, fi, ma, known, ghost>>
  BY <1>1, <1>2 DEF Announce, MasterEvent
<1>3. CASE /\ MasterEvent(m, u, "data") /\ s.rc_count > 1
           /\ Done(m, u, [s EXCEPT !.rc_count = s.rc_count - 1], fi, {})
  <2>0. s.timeout = FALSE /\ ev.k = "data"
    BY <1>0, <1>3 DEF MasterEvent, MasterRec
  <2>1. PICK c \in Int : c = s.rc_count - 1
    BY <1>0
  <2>2. PICK r : r = [s EXCEPT !.rc_count = c]
    OBVIOUS
  <2>3. r \in MasterRec
    BY <1>0, <2>2 DEF MasterRec
  <2>4. r.st = s.st /\ r.rc_count = c /\ Kept(r, s) /\ r.timeout = s.timeout
        /\ r.license_state = s.license_state
    BY <1>0, <2>2 DEF MasterRec, Kept
  <2>5. s.rc_count # 1
    BY <1>0, <1>3
  <2>6. Hold(m, u, r, fi, {})
    BY <1>0, <1>1, <2>0, <2>1, <2>4, <2>5 DEF Hold
  <2>7. Effect(m, u, r, fi, {})
    BY <1>0, <2>0, <2>3, <2>4, <2>6 DEF Effect
  <2>8. Done(m, u, r, fi, {})
    BY <1>3, <2>1, <2>2
  <2> QED BY <2>7, <2>8
<1>4. CASE /\ MasterEvent(m, u, "data") /\ s.rc_count = 1
           /\ Done(m, u, Served(s), DeliverLicense(s), Wrong(s, ev.tag))
  <2> DEFINE D == DeliverLicense(s)
             R == Served(s)
  <2>0. s.timeout = FALSE /\ ev.k = "data"
    BY <1>0, <1>4 DEF MasterEvent, MasterRec
  <2>1. f \in File /\ D \in [File -> FileRec] /\ Through(D[f], fi[f])
        /\ \A x \in File \ {f} : D[x] = fi[x]
    BY <1>0, <1>1, DeliverLicenseFacts
  <2>2. /\ R \in MasterRec /\ R.st = "Assigned" /\ R.rc_count = 0
        /\ R.timeout = FALSE /\ R.license_state = "Idle"
        /\ R.active = Tail(s.active) /\ R.idle = Append(s.idle, f)
    BY <1>0, <1>1, <2>0, ServedFacts
  <2>3. Done(m, u, R, D, Wrong(s, ev.tag))
    BY <1>4
  <2> HIDE DEF R, D
  <2>4. Serve(m, u, R, D, Wrong(s, ev.tag))
    BY <1>1, <1>4, <2>0, <2>1, <2>2 DEF Serve
  <2>5. Effect(m, u, R, D, Wrong(s, ev.tag))
    BY <2>0, <2>1, <2>2, <2>4 DEF Effect
  <2> QED BY <2>3, <2>5
<1>5. \/ /\ MasterEvent(m, u, "ind")
         /\ up' = [up EXCEPT ![m] = [u EXCEPT ![1].k = "data"]]
         /\ UNCHANGED <<kind, present, nr_delayed_cleanup_entities, fi, ma, known, ghost>>
      \/ /\ MasterEvent(m, u, "data") /\ s.rc_count > 1
         /\ Done(m, u, [s EXCEPT !.rc_count = s.rc_count - 1], fi, {})
      \/ /\ MasterEvent(m, u, "data") /\ s.rc_count = 1
         /\ Done(m, u, Served(s), DeliverLicense(s), Wrong(s, ev.tag))
  BY Zenon DEF license_ind
<1> QED BY <1>2, <1>3, <1>4, <1>5

-----------------------------------------------------------------------------
(***************************************************************************)
(* The steps as changes of one master: master m was r and the card had v   *)
(* for it; it becomes t and the card has w.                                *)
(***************************************************************************)
\* What the end of a callback makes of r, with the files F and the rest v of
\* what the card has.
Settles(kd, F, r, v, t, w) ==
  LET g == Head(r.active) IN
  /\ t \in MasterRec /\ w \in Seq(Request \cup Event)
  /\ t.active = r.active /\ t.idle = r.idle /\ t.timeout = r.timeout
  /\ \/ /\ t = r /\ w = v
        /\ \/ r.st # "Assigned"
           \/ kd = "idi" /\ r.rc_count # 0
           \/ r.active = <<>> /\ r.idle # <<>>
           \/ kd # "idi" /\ r.license_state # "Idle" /\ r.active # <<>>
     \/ /\ r.st = "Assigned" /\ r.active # <<>> /\ t.st = "ResponsePending"
        /\ \/ F[g].buffer = "none"
           \/ \E q \in Request :
                /\ q.req \in {"READ", "WRITE", "EXECUTE"} /\ q.tag = <<g, F[g].bit>>
                /\ w = Append(v, q) /\ t.rc_count = Weight(q.req)
     \/ /\ r.st = "Assigned" /\ r.active = <<>> /\ r.idle = <<>>
        /\ t.st = "RemovePending"
        /\ \E q \in Request : q.req = "REMOVE" /\ w = Append(v, q)

\* Nothing but master m and what the card has for it changes, and files.
OnlyMaster(m) ==
  /\ \A k \in Master \ {m} : ma'[k] = ma[k]
  /\ \A x \in Ent \ {m} : up'[x] = up[x] /\ (x \in known' <=> x \in known)
  /\ kind' = kind /\ present' = present

\* What the card knows of an entity changes with ASSIGN and REMOVE alone.
LEMMA KnownAfterFacts ==
  ASSUME TypeOK, NEW x \in Ent, NEW ev
  PROVE  /\ KnownAfter(x, ev) \subseteq Ent
         /\ \A y \in Ent \ {x} : y \in KnownAfter(x, ev) <=> y \in known
         /\ x \in KnownAfter(x, ev) =>
              x \in known \/ (ev.k = "rc" /\ ev.req = "ASSIGN" /\ ev.ok)
         /\ ev.k = "rc" /\ ev.req = "REMOVE" => x \notin KnownAfter(x, ev)
BY DEF KnownAfter, TypeOK

\* What a callback changes that ends with Done.
LEMMA DoneFacts ==
  ASSUME TypeOK, NEW m \in Master, NEW u \in Deliveries(m), NEW r, NEW F, NEW G,
         Done(m, u, r, F, G), Effect(m, u, r, F, G)
  PROVE  /\ TypeOK' /\ OnlyMaster(m)
         /\ fi' = F /\ ghost' = ghost \cup G /\ known' = KnownAfter(m, Head(u))
         /\ Settles(kind, F, r, Tail(u), ma'[m], up'[m])
<1> DEFINE n == Follow(r, F)
           g == Head(r.active)
           v == [up EXCEPT ![m] = Tail(u)]
<1>1. r \in MasterRec /\ F \in [File -> FileRec]
  BY DEF Effect
<1>2. /\ n.r \in MasterRec /\ n.req \in ReqName \cup {"none"} /\ n.tag \in AnyTag
      /\ n.r.active = r.active /\ n.r.idle = r.idle /\ n.r.timeout = r.timeout
      /\ \/ n.r = r /\ n.req = "none"
            /\ \/ r.st # "Assigned"
               \/ kind = "idi" /\ r.rc_count # 0
               \/ r.active = <<>> /\ r.idle # <<>>
               \/ kind # "idi" /\ r.license_state # "Idle" /\ r.active # <<>>
         \/ /\ r.st = "Assigned" /\ r.active # <<>> /\ kind = "idi"
            /\ n.r.st = "ResponsePending" /\ n.req = F[g].buffer
            /\ n.tag = <<g, F[g].bit>> /\ n.r.rc_count = Weight(n.req)
         \/ /\ r.st = "Assigned" /\ r.active # <<>> /\ kind # "idi"
            /\ n.r.st = "ResponsePending" /\ n.req = "EXECUTE"
            /\ n.tag = <<g, F[g].bit>> /\ n.r.rc_count = 1
         \/ /\ r.st = "Assigned" /\ r.active = <<>> /\ r.idle = <<>>
            /\ n.r.st = "RemovePending" /\ n.req = "REMOVE" /\ n.r.rc_count = 1
  BY <1>1, FollowFacts
<1>3. /\ ma' = [ma EXCEPT ![m] = n.r] /\ fi' = F /\ Send(v, m, n.req, n.tag)
      /\ known' = KnownAfter(m, Head(u)) /\ ghost' = ghost \cup G
      /\ kind' = kind /\ present' = present
  BY DEF Done
<1> HIDE DEF n
<1>4. m \in Ent
  BY DEF Ent
<1>5. Tail(u) \in Seq(Request \cup Event)
  BY <1>4, DeliveryShape
<1>6. v \in [Ent -> Seq(Request \cup Event)] /\ v[m] = Tail(u)
      /\ \A x \in Ent \ {m} : v[x] = up[x]
  BY <1>4, <1>5 DEF TypeOK
<1> HIDE DEF v
<1>7. /\ up' \in [Ent -> Seq(Request \cup Event)]
      /\ n.req = "none" => up' = v
      /\ n.req # "none" => up'[m] = Append(v[m], [k |-> "req", req |-> n.req, tag |-> n.tag])
      /\ \A y \in Ent \ {m} : up'[y] = v[y]
  BY <1>2, <1>3, <1>4, <1>6, SendFacts
<1>8. ma' \in [Master -> MasterRec] /\ ma'[m] = n.r /\ \A k \in Master \ {m} : ma'[k] = ma[k]
  BY <1>2, <1>3 DEF TypeOK
<1>9. known' \subseteq Ent /\ \A x \in Ent \ {m} : x \in known' <=> x \in known
  BY <1>3, <1>4, KnownAfterFacts
<1>10. TypeOK'
  <2>1. fi' \in [File -> FileRec] /\ kind' = kind /\ present' = present
    BY <1>1, <1>3
  <2> QED BY <2>1, <1>7, <1>8, <1>9 DEF TypeOK
<1>11. OnlyMaster(m)
  BY <1>3, <1>6, <1>7, <1>8, <1>9 DEF OnlyMaster
<1>12. Settles(kind, F, r, Tail(u), n.r, up'[m])
  <2>0. up'[m] \in Seq(Request \cup Event)
    BY <1>4, <1>7
  <2>1. PICK q : q = [k |-> "req", req |-> n.req, tag |-> n.tag]
    OBVIOUS
  <2>2. q.req = n.req /\ q.tag = n.tag /\ (n.req # "none" => q \in Request)
    BY <1>2, <2>1 DEF Request, ReqName
  <2>3. n.req # "none" => up'[m] = Append(Tail(u), q)
    BY <1>6, <1>7, <2>1
  <2>4. n.req = "none" => up'[m] = Tail(u)
    BY <1>6, <1>7
  <2>5. CASE n.r = r /\ n.req = "none"
            /\ \/ r.st # "Assigned"
               \/ kind = "idi" /\ r.rc_count # 0
               \/ r.active = <<>> /\ r.idle # <<>>
               \/ kind # "idi" /\ r.license_state # "Idle" /\ r.active # <<>>
    BY <1>2, <2>0, <2>4, <2>5, Zenon DEF Settles
  <2>6. CASE /\ r.st = "Assigned" /\ r.active # <<>> /\ kind = "idi"
             /\ n.r.st = "ResponsePending" /\ n.req = F[g].buffer
             /\ n.tag = <<g, F[g].bit>> /\ n.r.rc_count = Weight(n.req)
    <3>1. F[g].buffer \in {"none", "READ", "WRITE"}
      <4>1. g \in File
        BY <1>1, <2>6 DEF MasterRec
      <4> QED BY <1>1, <4>1 DEF FileRec
    <3>2. CASE F[g].buffer = "none"
      BY <1>2, <2>0, <2>6, <3>2 DEF Settles
    <3>3. CASE F[g].buffer # "none"
      <4>1. q \in Request /\ q.req \in {"READ", "WRITE", "EXECUTE"} /\ q.tag = <<g, F[g].bit>>
            /\ up'[m] = Append(Tail(u), q) /\ n.r.rc_count = Weight(q.req)
        BY <2>2, <2>3, <2>6, <3>1, <3>3
      <4> QED BY <1>2, <2>0, <2>6, <4>1 DEF Settles
    <3> QED BY <3>2, <3>3
  <2>7. CASE /\ r.st = "Assigned" /\ r.active # <<>> /\ kind # "idi"
             /\ n.r.st = "ResponsePending" /\ n.req = "EXECUTE"
             /\ n.tag = <<g, F[g].bit>> /\ n.r.rc_count = 1
    <3>1. q \in Request /\ q.req \in {"READ", "WRITE", "EXECUTE"} /\ q.tag = <<g, F[g].bit>>
          /\ up'[m] = Append(Tail(u), q) /\ n.r.rc_count = Weight(q.req)
      BY <2>2, <2>3, <2>7 DEF Weight
    <3> QED BY <1>2, <2>0, <2>7, <3>1 DEF Settles
  <2>8. CASE /\ r.st = "Assigned" /\ r.active = <<>> /\ r.idle = <<>>
             /\ n.r.st = "RemovePending" /\ n.req = "REMOVE" /\ n.r.rc_count = 1
    <3>1. q \in Request /\ q.req = "REMOVE" /\ up'[m] = Append(Tail(u), q)
      BY <2>2, <2>3, <2>8
    <3> QED BY <1>2, <2>0, <2>8, <3>1 DEF Settles
  <2> QED BY <1>2, <2>5, <2>6, <2>7, <2>8
<1> QED BY <1>3, <1>8, <1>10, <1>11, <1>12

\* Seen from its master, which is r, the file n is what e was.
Calm(n, e, r) ==
  /\ n.me = e.me /\ n.on_active_q = e.on_active_q /\ n.bit = e.bit
  /\ n.on_active_q /\ e.buffer # "none" => n.buffer # "none"
  /\ n.on_active_q /\ "ASSIGN_PENDING" \in e.status => "ASSIGN_PENDING" \in n.status
  /\ n.Id => e.Id \/ r.st \in {"Assigned", "ResponsePending", "Cancelled"}

\* A master keeps its invariant when its files are calm.
LEMMA MasterCalm ==
  ASSUME NEW kd, NEW m \in Master, NEW r \in MasterRec, NEW v,
         NEW F \in [File -> FileRec], NEW E \in [File -> FileRec],
         NEW K, NEW L, NEW G, NEW H,
         MasterInv(kd, F, r, m, v, K, G),
         \A f \in File : F[f].me = m \/ E[f].me = m => Calm(E[f], F[f], r),
         m \in L => m \in K,
         "stall" \in G => "stall" \in H,
         "cut" \in G => "cut" \in H
  PROVE  MasterInv(kd, E, r, m, v, L, H)
<1>1. ActiveOf(E, m) = ActiveOf(F, m) /\ IdleOf(E, m) = IdleOf(F, m)
  BY DEF ActiveOf, IdleOf, Calm
<1>2. MasterFits(E, r, m)
  BY <1>1 DEF MasterInv, MasterFits
<1>3. \A f \in ActiveOf(E, m) :
        /\ F[f].buffer # "none" => E[f].buffer # "none"
        /\ "ASSIGN_PENDING" \in F[f].status => "ASSIGN_PENDING" \in E[f].status
  BY DEF ActiveOf, Calm
<1>4. \A f \in File : E[f].me = m /\ E[f].Id =>
        r.st \in {"Assigned", "ResponsePending", "Cancelled"}
  BY DEF Calm, MasterInv, Assigns
<1>5. Assigns(E, r, m, v, L)
  BY <1>1, <1>3, <1>4 DEF MasterInv, Assigns
<1>6. Rests(kd, r, H) /\ Used(r)
  BY DEF MasterInv, Rests
<1>7. ASSUME Owes(kd, F, r, v) PROVE Owes(kd, E, r, v)
  <2>1. CASE r.st = "ResponsePending"
    <3>1. r.active # <<>> /\ r.active \in Seq(File) /\ Range(r.active) = ActiveOf(F, m)
      BY <2>1 DEF MasterInv, MasterFits, MasterRec
    <3>2. Head(r.active) \in ActiveOf(F, m)
      BY <3>1 DEF Range
    <3>3. E[Head(r.active)].bit = F[Head(r.active)].bit
      BY <3>2 DEF ActiveOf, Calm
    <3> QED BY <1>7, <3>3 DEF Owes
  <2>2. CASE r.st # "ResponsePending"
    BY <1>7, <2>2 DEF Owes
  <2> QED BY <2>1, <2>2
<1> QED BY <1>2, <1>5, <1>6, <1>7 DEF MasterInv

\* A master stays as it is when none of its files changes.
LEMMA MasterAside ==
  ASSUME NEW kd, NEW m \in Master, NEW r \in MasterRec, NEW v,
         NEW F \in [File -> FileRec], NEW E \in [File -> FileRec],
         NEW K, NEW L, NEW G, NEW H,
         MasterInv(kd, F, r, m, v, K, G),
         \A f \in File : F[f].me = m \/ E[f].me = m => E[f] = F[f],
         m \in L => m \in K,
         "stall" \in G => "stall" \in H,
         "cut" \in G => "cut" \in H
  PROVE  MasterInv(kd, E, r, m, v, L, H)
<1>1. \A f \in File : F[f].me = m \/ E[f].me = m => Calm(E[f], F[f], r)
  BY DEF Calm
<1> QED BY <1>1, MasterCalm

\* A watchdog gives a master up.
LEMMA MasterGivenUp ==
  ASSUME NEW kd, NEW m, NEW r \in MasterRec, NEW t \in MasterRec, NEW v,
         NEW F, NEW K, NEW G,
         MasterInv(kd, F, r, m, v, K, G), t = [r EXCEPT !.timeout = TRUE]
  PROVE  MasterInv(kd, F, t, m, v, K, G)
<1>1. t.st = r.st /\ t.active = r.active /\ t.idle = r.idle /\ t.timeout = TRUE
      /\ t.license_state = r.license_state
  BY DEF MasterRec
<1>2. MasterFits(F, t, m)
  BY <1>1 DEF MasterInv, MasterFits
<1>3. Assigns(F, t, m, v, K)
  BY <1>1 DEF MasterInv, Assigns
<1>4. Rests(kd, t, G) /\ Used(t)
  BY <1>1 DEF MasterInv, Rests, Used
<1> QED BY <1>1, <1>2, <1>3, <1>4 DEF MasterInv

\* The answers under way, one after the other: each is counted, and the one
\* that announces a chain raises what is left.
LEMMA BalancedNext ==
  ASSUME NEW kd, NEW u \in Seq(Request \cup Event), NEW c \in Int,
         Balanced(kd, u, c), u[1].k # "req"
  PROVE  /\ u # <<>> /\ c > 0 /\ (u[1].k = "rc" => u[1].ok)
         /\ u[1].k # "rc" /\ u[1].n > 0 =>
              kd = "idi" /\ Balanced(kd, Tail(u), c - 1 + u[1].n)
         /\ (u[1].k = "rc" \/ ~(u[1].n > 0)) /\ c = 1 => Tail(u) = <<>>
         /\ (u[1].k = "rc" \/ ~(u[1].n > 0)) /\ c # 1 => Balanced(kd, Tail(u), c - 1)
<1> DEFINE p == Tail(u)
<1>1. /\ u # <<>>
      /\ \A i \in DOMAIN u : u[i].k # "req" /\ (u[i].k = "rc" => u[i].ok)
      /\ \/ Len(u) = c /\ \A i \in DOMAIN u : u[i].n = 0
         \/ \E i \in DOMAIN u :
              /\ kd = "idi" /\ u[i].k # "rc" /\ u[i].n > 0 /\ i <= c
              /\ Len(u) = c + u[i].n
              /\ \A j \in DOMAIN u \ {i} : u[j].n = 0
  BY DEF Balanced
<1>2. /\ Len(u) \in Nat /\ Len(u) > 0 /\ DOMAIN u = 1 .. Len(u) /\ 1 \in DOMAIN u
      /\ Len(p) = Len(u) - 1 /\ DOMAIN p = 1 .. Len(p)
      /\ \A i \in DOMAIN p : p[i] = u[i + 1] /\ i + 1 \in DOMAIN u /\ i + 1 # 1
      /\ (Len(u) = 1 => p = <<>>) /\ (Len(u) # 1 => p # <<>>)
  <2>1. Len(u) \in Nat /\ Len(u) > 0 /\ DOMAIN u = 1 .. Len(u) /\ 1 \in DOMAIN u
    BY <1>1
  <2>2. p \in Seq(Request \cup Event) /\ Len(p) = Len(u) - 1 /\ DOMAIN p = 1 .. Len(p)
    BY <1>1
  <2>3. \A i \in DOMAIN p : p[i] = u[i + 1]
    BY <1>1
  <2> HIDE DEF p
  <2>4. \A i \in DOMAIN p : i + 1 \in DOMAIN u /\ i + 1 # 1
    BY <2>1, <2>2
  <2>5. (Len(u) = 1 => p = <<>>) /\ (Len(u) # 1 => p # <<>>)
    BY <2>1, <2>2
  <2> QED BY <2>1, <2>2, <2>3, <2>4, <2>5
<1>3. \A i \in DOMAIN u : u[i] \in Event /\ u[i].n \in Nat
  <2>1. \A i \in DOMAIN u : u[i] \in Request \cup Event
    OBVIOUS
  <2>2. \A x \in Request : x.k = "req"
    BY DEF Request
  <2>3. \A x \in Event : x.n \in Nat
    BY DEF Event
  <2> QED BY <1>1, <2>1, <2>2, <2>3
<1> HIDE DEF p
<1>4. \A i \in DOMAIN p : p[i].k # "req" /\ (p[i].k = "rc" => p[i].ok)
  BY <1>1, <1>2
<1>5. CASE Len(u) = c /\ \A i \in DOMAIN u : u[i].n = 0
  <2>1. c > 0 /\ ~(u[1].n > 0) /\ \A i \in DOMAIN p : p[i].n = 0
    BY <1>2, <1>5
  <2>2. c = 1 => p = <<>>
    BY <1>2, <1>5
  <2>3. c # 1 => p # <<>> /\ Len(p) = c - 1
    BY <1>2, <1>5
  <2>4. c # 1 => Balanced(kd, p, c - 1)
    BY <1>4, <2>1, <2>3 DEF Balanced
  <2> QED BY <1>1, <1>2, <2>1, <2>2, <2>4 DEF p
<1>6. ASSUME NEW h \in DOMAIN u, kd = "idi", u[h].k # "rc", u[h].n > 0, h <= c,
             Len(u) = c + u[h].n, \A j \in DOMAIN u \ {h} : u[j].n = 0
      PROVE  /\ c > 0
             /\ u[1].k # "rc" /\ u[1].n > 0 => Balanced(kd, p, c - 1 + u[1].n)
             /\ (u[1].k = "rc" \/ ~(u[1].n > 0)) => c # 1 /\ Balanced(kd, p, c - 1)
  <2>1. h \in Nat /\ h >= 1 /\ c > 0 /\ u[h].n \in Nat
    BY <1>2, <1>3, <1>6
  <2>a. Len(p) = (c - 1) + u[h].n /\ Len(u) # 1
    <3>1. PICK n \in Nat : n = u[h].n
      BY <2>1
    <3>2. n > 0 /\ Len(u) = c + n
      BY <1>6, <3>1
    <3>3. Len(p) = Len(u) - 1
      BY <1>2
    <3>4. Len(p) = (c - 1) + n /\ Len(u) # 1
      <4>1. PICK k : k = Len(u)
        OBVIOUS
      <4>2. k = c + n /\ k \in Int
        BY <3>2, <4>1
      <4>3. Len(p) = k - 1
        BY <3>3, <4>1
      <4>4. k # 1 /\ k - 1 = (c - 1) + n
        BY <2>1, <3>2, <4>2
      <4> QED BY <4>1, <4>3, <4>4
    <3> QED BY <3>1, <3>4
  <2>b. p # <<>>
    BY <1>2, <2>a
  <2>2. CASE h = 1
    <3>1. Len(p) = c - 1 + u[1].n /\ p # <<>>
      BY <2>a, <2>b, <2>2
    <3>2. \A i \in DOMAIN p : p[i].n = 0
      BY <1>2, <1>6, <2>2
    <3>3. Balanced(kd, p, c - 1 + u[1].n)
      BY <1>4, <3>1, <3>2 DEF Balanced
    <3> QED BY <1>6, <2>1, <2>2, <3>3
  <2>3. CASE h # 1
    <3>1. u[1].n = 0
      BY <1>2, <1>6, <2>3
    <3>2. PICK i : i = h - 1
      OBVIOUS
    <3>3. i \in DOMAIN p /\ i + 1 = h /\ i <= c - 1 /\ c # 1
      <4>1. h \in 1 .. Len(u) /\ h <= c /\ Len(u) \in Nat /\ Len(p) = Len(u) - 1
            /\ DOMAIN p = 1 .. Len(p)
        BY <1>2, <1>6
      <4> QED BY <2>1, <2>3, <3>2, <4>1
    <3>4. p[i].k # "rc" /\ p[i].n > 0 /\ Len(p) = (c - 1) + p[i].n
      <4>1. p[i] = u[h]
        BY <1>2, <3>3
      <4> QED BY <1>6, <2>a, <4>1
    <3>5. \A j \in DOMAIN p \ {i} : p[j].n = 0
      <4> SUFFICES ASSUME NEW j \in DOMAIN p \ {i} PROVE p[j].n = 0
        OBVIOUS
      <4>1. j + 1 \in DOMAIN u \ {h} /\ p[j] = u[j + 1]
        BY <1>2, <3>3
      <4> QED BY <1>6, <4>1
    <3>6. Balanced(kd, p, c - 1)
      BY <1>4, <1>6, <2>b, <3>3, <3>4, <3>5 DEF Balanced
    <3> QED BY <2>1, <3>1, <3>3, <3>6
  <2> QED BY <2>2, <2>3
<1>7. CASE \E i \in DOMAIN u :
              /\ kd = "idi" /\ u[i].k # "rc" /\ u[i].n > 0 /\ i <= c
              /\ Len(u) = c + u[i].n
              /\ \A j \in DOMAIN u \ {i} : u[j].n = 0
  <2>1. /\ c > 0 /\ kd = "idi"
        /\ u[1].k # "rc" /\ u[1].n > 0 => Balanced(kd, p, c - 1 + u[1].n)
        /\ (u[1].k = "rc" \/ ~(u[1].n > 0)) => c # 1 /\ Balanced(kd, p, c - 1)
    BY <1>6, <1>7
  <2> QED BY <1>1, <1>2, <2>1 DEF p
<1> QED BY <1>1, <1>5, <1>7

\* When the card begins to answer what it has, a request is replaced by its
\* answers; a refused one has a single answer.
LEMMA BalancedDelivery ==
  ASSUME TypeOK, NEW m \in Ent, NEW u \in Deliveries(m), NEW c \in Int,
         Balanced(kind, up[m], c)
  PROVE  /\ u[1].k # "req" /\ Head(u) = u[1]
         /\ \/ Balanced(kind, u, c)
            \/ Tail(u) = <<>> /\ u[1].k = "rc" /\ ~u[1].ok
         /\ \A g : (\A i \in DOMAIN up[m] : up[m][i].tag = g) =>
                     \A i \in DOMAIN u : u[i].tag = g
<1> DEFINE v == up[m]
<1>1. /\ u \in Seq(Request \cup Event) /\ u # <<>> /\ Head(u) \in Event
      /\ v # <<>> /\ v \in Seq(Request \cup Event)
      /\ \/ v[1].k # "req" /\ u = v
         \/ /\ v[1].k = "req" /\ v[1] \in Request
            /\ \E a \in Answers(v[1]) : u = a \o Tail(v)
  BY DeliveryShape
<1>2. Head(u) = u[1] /\ u[1].k # "req"
  BY <1>1 DEF Event
<1>3. CASE v[1].k # "req" /\ u = v
  BY <1>2, <1>3
<1>4. CASE /\ v[1].k = "req" /\ v[1] \in Request
           /\ \E a \in Answers(v[1]) : u = a \o Tail(v)
  <2>1. Len(v) = 1 /\ v[1].req \in {"READ", "WRITE", "EXECUTE"} /\ c = Weight(v[1].req)
    BY <1>1, <1>4 DEF Balanced
  <2>2. PICK a \in Answers(v[1]) : u = a \o Tail(v)
    BY <1>4
  <2>3. PICK q \in Request : q = v[1]
    BY <1>4
  <2>4. /\ a \in Seq(Event) /\ a # <<>>
        /\ \A i \in DOMAIN a : a[i].tag = q.tag /\ a[i].req = q.req
        /\ \/ Len(a) = 1 /\ a[1].k = "rc" /\ a[1].n = 0 /\ (q.req = "READ" => ~a[1].ok)
           \/ /\ q.req = "READ"
              /\ \E n \in Nat, i, j \in {1, 2} :
                   /\ i # j /\ Len(a) = n + 2 /\ (kind # "idi" => n = 0)
                   /\ a[i].k = "rc" /\ a[i].ok /\ a[i].n = 0
                   /\ a[j].k = "ind" /\ a[j].n = n
                   /\ \A h \in DOMAIN a \ {1, 2} : a[h].k = "ind" /\ a[h].n = 0
    BY <2>2, <2>3, AnswerShape
  <2>5. u = a
    <3>1. Tail(v) = <<>>
      <4>1. Len(v) = 1 /\ v \in Seq(Request \cup Event)
        BY <1>1, <2>1
      <4> QED BY <4>1, TailOfOne
    <3> QED BY <2>2, <2>4, <3>1, ConcatEmptySeq
  <2>6. \A i \in DOMAIN u : u[i].tag = v[1].tag
    BY <2>3, <2>4, <2>5
  <2>7. \A g : (\A i \in DOMAIN v : v[i].tag = g) => \A i \in DOMAIN u : u[i].tag = g
    BY <1>1, <2>1, <2>6
  <2>8. Balanced(kind, u, c) \/ (Tail(u) = <<>> /\ u[1].k = "rc" /\ ~u[1].ok)
    <3>1. CASE Len(a) = 1 /\ a[1].k = "rc" /\ a[1].n = 0 /\ (q.req = "READ" => ~a[1].ok)
      <4>1. CASE a[1].ok
        <5>1. c = 1
          BY <2>1, <2>3, <3>1, <4>1 DEF Weight
        <5>2. DOMAIN a = {1}
          BY <2>4, <3>1
        <5> QED BY <2>4, <2>5, <3>1, <4>1, <5>1, <5>2 DEF Balanced
      <4>2. CASE ~a[1].ok
        <5>0. a \in Seq(Event) /\ a # <<>> /\ Len(a) = 1
          BY <2>4, <3>1
        <5>1. Tail(a) = <<>>
          BY <5>0, TailOfOne
        <5> QED BY <2>5, <3>1, <4>2, <5>1
      <4> QED BY <4>1, <4>2
    <3>2. ASSUME q.req = "READ", NEW n \in Nat, NEW i \in {1, 2}, NEW j \in {1, 2},
                 i # j, Len(a) = n + 2, kind # "idi" => n = 0,
                 a[i].k = "rc", a[i].ok, a[i].n = 0, a[j].k = "ind", a[j].n = n,
                 \A h \in DOMAIN a \ {1, 2} : a[h].k = "ind" /\ a[h].n = 0
          PROVE  Balanced(kind, a, c)
      <4>1. c = 2
        BY <2>1, <2>3, <3>2 DEF Weight
      <4>2. DOMAIN a = 1 .. Len(a) /\ i \in DOMAIN a /\ j \in DOMAIN a /\ j <= c
        BY <2>4, <3>2, <4>1
      <4>3. \A h \in DOMAIN a : a[h].k # "req" /\ (a[h].k = "rc" => a[h].ok)
        BY <3>2, <4>2
      <4>4. \A h \in DOMAIN a \ {j} : a[h].n = 0
        BY <3>2, <4>2
      <4>5. CASE n = 0
        BY <2>4, <3>2, <4>1, <4>2, <4>3, <4>4, <4>5 DEF Balanced
      <4>6. CASE n # 0
        <5>1. kind = "idi" /\ a[j].k # "rc" /\ a[j].n > 0 /\ Len(a) = c + a[j].n
          BY <3>2, <4>1, <4>6
        <5> QED BY <2>4, <4>2, <4>3, <4>4, <5>1 DEF Balanced
      <4> QED BY <4>5, <4>6
    <3> QED BY <2>4, <2>5, <3>1, <3>2
  <2> QED BY <1>2, <2>7, <2>8
<1> QED BY <1>1, <1>3, <1>4

\* A master before the end of its callback.
Ready(kd, F, r, m, v, K, G) ==
  /\ MasterFits(F, r, m)
  /\ Assigns(F, r, m, v, K)
  /\ r.st # "Idle" /\ (r.st # "free" => kd # "man")
  /\ r.st = "Assigned" =>
       /\ kd = "idi" /\ r.rc_count # 0 => r.active = <<>> /\ r.idle # <<>>
       /\ kd = "license" /\ r.license_state # "Idle" => "stall" \in G
  /\ "cut" \notin G => r.timeout \/ Owes(kd, F, r, v)

\* A master that is ready fits once it has sent what Follow chose.
LEMMA SettleInv ==
  ASSUME NEW kd \in {"man", "idi", "license"}, NEW F \in [File -> FileRec],
         NEW r \in MasterRec, NEW m \in Master, NEW v \in Seq(Request \cup Event),
         NEW K, NEW G, NEW t, NEW w,
         Ready(kd, F, r, m, v, K, G), Settles(kd, F, r, v, t, w)
  PROVE  MasterInv(kd, F, t, m, w, K, G)
<1> DEFINE g == Head(r.active)
<1>1. t \in MasterRec /\ t.active = r.active /\ t.idle = r.idle /\ t.timeout = r.timeout
  BY DEF Settles
<1>2. MasterFits(F, r, m) /\ Assigns(F, r, m, v, K)
  BY DEF Ready
<1>3. CASE /\ t = r /\ w = v
           /\ \/ r.st # "Assigned"
              \/ kd = "idi" /\ r.rc_count # 0
              \/ r.active = <<>> /\ r.idle # <<>>
              \/ kd # "idi" /\ r.license_state # "Idle" /\ r.active # <<>>
  <2>1. Rests(kd, r, G) /\ Used(r)
    BY <1>3 DEF Ready, Rests, Used
  <2> QED BY <1>2, <1>3, <2>1 DEF MasterInv, Ready
<1>4. CASE /\ r.st = "Assigned" /\ r.active # <<>> /\ t.st = "ResponsePending"
           /\ \/ F[g].buffer = "none"
              \/ \E q \in Request :
                   /\ q.req \in {"READ", "WRITE", "EXECUTE"} /\ q.tag = <<g, F[g].bit>>
                   /\ w = Append(v, q) /\ t.rc_count = Weight(q.req)
  <2>1. g \in ActiveOf(F, m)
    <3>1. g \in Range(r.active)
      BY <1>4 DEF MasterRec, Range
    <3> QED BY <1>2, <3>1 DEF MasterFits
  <2>2. F[g].buffer # "none"
    BY <1>2, <1>4, <2>1 DEF Assigns
  <2>3. PICK q \in Request :
          /\ q.req \in {"READ", "WRITE", "EXECUTE"} /\ q.tag = <<g, F[g].bit>>
          /\ w = Append(v, q) /\ t.rc_count = Weight(q.req)
    BY <1>4, <2>2
  <2>4. MasterFits(F, t, m)
    BY <1>1, <1>2, <1>4 DEF MasterFits
  <2>5. Assigns(F, t, m, w, K)
    BY <1>1, <1>2, <1>4 DEF Assigns
  <2>6. Rests(kd, t, G) /\ Used(t)
    BY <1>4 DEF Ready, Rests, Used
  <2>7. ASSUME "cut" \notin G, ~t.timeout PROVE Owes(kd, F, t, w)
    <3>1. v = <<>>
      BY <1>1, <1>4, <2>7 DEF Ready, Owes
    <3>2. Len(w) = 1 /\ w[1] = q /\ DOMAIN w = {1}
      BY <2>3, <3>1
    <3>3. q.k = "req"
      BY DEF Request
    <3>4. Balanced(kd, w, t.rc_count)
      BY <2>3, <3>2, <3>3 DEF Balanced
    <3>5. \A i \in DOMAIN w : w[i].tag = <<g, F[g].bit>>
      BY <2>3, <3>2
    <3> QED BY <1>1, <1>4, <3>4, <3>5 DEF Owes
  <2> QED BY <2>4, <2>5, <2>6, <2>7 DEF MasterInv
<1>5. CASE /\ r.st = "Assigned" /\ r.active = <<>> /\ r.idle = <<>>
           /\ t.st = "RemovePending"
           /\ \E q \in Request : q.req = "REMOVE" /\ w = Append(v, q)
  <2>1. PICK q \in Request : q.req = "REMOVE" /\ w = Append(v, q)
    BY <1>5
  <2>2. MasterFits(F, t, m)
    BY <1>1, <1>2, <1>5 DEF MasterFits
  <2>3. Range(r.active) = {} /\ Range(r.idle) = {}
    BY <1>5 DEF Range
  <2>4. \A f \in File : F[f].me # m
    BY <1>2, <2>3 DEF MasterFits, ActiveOf, IdleOf
  <2>5. ActiveOf(F, m) = {}
    BY <2>4 DEF ActiveOf
  <2>6. Assigns(F, t, m, w, K)
    BY <1>5, <2>4, <2>5 DEF Assigns
  <2>7. Rests(kd, t, G) /\ Used(t)
    BY <1>5 DEF Ready, Rests, Used
  <2>8. ASSUME "cut" \notin G, ~t.timeout PROVE Owes(kd, F, t, w)
    <3>1. v = <<>>
      BY <1>1, <1>5, <2>8 DEF Ready, Owes
    <3>2. Len(w) = 1 /\ w[1] = q
      BY <2>1, <3>1
    <3>3. q.k = "req"
      BY DEF Request
    <3> QED BY <1>5, <2>1, <3>2, <3>3 DEF Owes
  <2> QED BY <2>2, <2>6, <2>7, <2>8 DEF MasterInv
<1> QED BY <1>3, <1>4, <1>5 DEF Settles

\* ASSIGN and REMOVE are answered by a return code alone.
LEMMA ShortAnswer ==
  ASSUME TypeOK, NEW m \in Ent, NEW u \in Deliveries(m),
         Len(up[m]) = 1, up[m][1].k = "req", up[m][1].req \in {"ASSIGN", "REMOVE"}
  PROVE  Head(u).k = "rc" /\ Head(u).req = up[m][1].req /\ Tail(u) = <<>> /\ Len(u) = 1
<1> DEFINE v == up[m]
<1>1. /\ v # <<>> /\ v \in Seq(Request \cup Event) /\ v[1] \in Request
      /\ \E a \in Answers(v[1]) : u = a \o Tail(v)
  BY DeliveryShape
<1>2. PICK a \in Answers(v[1]) : u = a \o Tail(v)
  BY <1>1
<1>3. PICK q \in Request : q = v[1]
  BY <1>1
<1>4. /\ a \in Seq(Event) /\ Len(a) = 1 /\ a[1].k = "rc"
      /\ \A i \in DOMAIN a : a[i].req = q.req
  BY <1>2, <1>3, AnswerShape
<1>5. Tail(v) = <<>>
  BY <1>1, TailOfOne
<1>6. u = a
  BY <1>2, <1>4, <1>5, ConcatEmptySeq
<1>7. Head(a) = a[1] /\ Tail(a) = <<>> /\ DOMAIN a = {1}
  BY <1>4, TailOfOne
<1> QED BY <1>3, <1>4, <1>6, <1>7

\* What the card delivers in each state of a master.
Arriving(m, u, s) ==
  /\ m \in Ent /\ up[m] # <<>> /\ u \in Seq(Request \cup Event) /\ u # <<>>
  /\ Tail(u) \in Seq(Request \cup Event)
  /\ Head(u) \in Event /\ Head(u) = u[1] /\ s \in MasterRec
  /\ s.rc_count \in Int /\ Head(u).n \in Nat
  /\ MasterInv(kind, fi, s, m, up[m], known, ghost)
  /\ s.st \notin {"free", "Idle", "OutOfService", "delayed"}
  /\ s.st = "AssignPending" =>
       Head(u).k = "rc" /\ Head(u).req = "ASSIGN" /\ Tail(u) = <<>> /\ m \notin known
  /\ "cut" \notin ghost /\ s.timeout = FALSE =>
       /\ Owes(kind, fi, s, up[m]) /\ s.st # "Assigned"
       /\ s.st = "RemovePending" =>
            Head(u).k = "rc" /\ Head(u).req = "REMOVE" /\ Len(u) = 1
       /\ s.st \in {"ResponsePending", "Cancelled"} => Balanced(kind, up[m], s.rc_count)

\* The delivery to a master fits the state it is in.
LEMMA AtDelivery ==
  ASSUME TypeOK, Masters, NEW m \in Master, NEW u \in Deliveries(m), NEW s, s = ma[m]
  PROVE  Arriving(m, u, s)
<1>1. m \in Ent
  BY DEF Ent
<1>2. /\ u \in Seq(Request \cup Event) /\ u # <<>> /\ Head(u) \in Event /\ up[m] # <<>>
      /\ Tail(u) \in Seq(Request \cup Event)
  BY <1>1, DeliveryShape
<1>3. Head(u) = u[1] /\ Head(u).n \in Nat
  BY <1>2 DEF Event
<1>4. s \in MasterRec /\ s.rc_count \in Int
  BY DEF TypeOK, MasterRec
<1>5. MasterInv(kind, fi, s, m, up[m], known, ghost)
  BY DEF Masters
<1>6. s.st \notin {"free", "Idle", "OutOfService", "delayed"}
  BY <1>2, <1>5 DEF MasterInv, Assigns
<1>7. ASSUME s.st = "AssignPending"
      PROVE  Head(u).k = "rc" /\ Head(u).req = "ASSIGN" /\ Tail(u) = <<>> /\ m \notin known
  <2>1. Len(up[m]) = 1 /\ up[m][1].k = "req" /\ up[m][1].req = "ASSIGN" /\ m \notin known
    BY <1>2, <1>5, <1>7 DEF MasterInv, Assigns
  <2> QED BY <1>1, <2>1, ShortAnswer
<1>8. ASSUME "cut" \notin ghost, s.timeout = FALSE
      PROVE  /\ Owes(kind, fi, s, up[m]) /\ s.st # "Assigned"
             /\ s.st = "RemovePending" =>
                   Head(u).k = "rc" /\ Head(u).req = "REMOVE" /\ Len(u) = 1
             /\ s.st \in {"ResponsePending", "Cancelled"} => Balanced(kind, up[m], s.rc_count)
  <2>1. Owes(kind, fi, s, up[m])
    BY <1>5, <1>8 DEF MasterInv
  <2>2. s.st # "Assigned"
    BY <1>2, <2>1 DEF Owes
  <2>3. ASSUME s.st = "RemovePending"
        PROVE  Head(u).k = "rc" /\ Head(u).req = "REMOVE" /\ Len(u) = 1
    <3>1. Len(up[m]) = 1 /\ up[m][1].k = "req" /\ up[m][1].req = "REMOVE"
      BY <2>1, <2>3 DEF Owes
    <3> QED BY <1>1, <3>1, ShortAnswer
  <2>4. s.st \in {"ResponsePending", "Cancelled"} => Balanced(kind, up[m], s.rc_count)
    BY <2>1 DEF Owes
  <2> QED BY <2>1, <2>2, <2>3, <2>4
<1> QED BY <1>1, <1>2, <1>3, <1>4, <1>5, <1>6, <1>7, <1>8 DEF Arriving

\* What is left after an answer to a master that waits for one.
LEMMA AfterAnswer ==
  ASSUME TypeOK, NEW m \in Ent, NEW u \in Deliveries(m), NEW c \in Int,
         Balanced(kind, up[m], c)
  PROVE  LET ev == Head(u) IN
         /\ c > 0 /\ ev.k # "req"
         /\ ev.k = "rc" /\ ~ev.ok => Tail(u) = <<>>
         /\ ev.k # "rc" /\ ev.n > 0 => kind = "idi" /\ Balanced(kind, Tail(u), c - 1 + ev.n)
         /\ (ev.k = "rc" \/ ~(ev.n > 0)) /\ c = 1 => Tail(u) = <<>>
         /\ ((ev.k = "rc" /\ ev.ok) \/ (ev.k # "rc" /\ ~(ev.n > 0))) /\ c # 1 =>
              Balanced(kind, Tail(u), c - 1)
         /\ \A g : (\A i \in DOMAIN up[m] : up[m][i].tag = g) =>
              ev.tag = g /\ \A i \in DOMAIN Tail(u) : Tail(u)[i].tag = g
<1>1. /\ u[1].k # "req" /\ Head(u) = u[1]
      /\ \/ Balanced(kind, u, c)
         \/ Tail(u) = <<>> /\ u[1].k = "rc" /\ ~u[1].ok
      /\ \A g : (\A i \in DOMAIN up[m] : up[m][i].tag = g) =>
                  \A i \in DOMAIN u : u[i].tag = g
  BY BalancedDelivery
<1>2. u \in Seq(Request \cup Event) /\ u # <<>>
  BY DeliveryShape
<1>3. c > 0
  <2>1. CASE Len(up[m]) = 1 /\ c = Weight(up[m][1].req)
    BY <2>1 DEF Weight
  <2>2. CASE Len(up[m]) = c /\ up[m] # <<>>
    <3>1. up[m] \in Seq(Request \cup Event)
      BY DEF TypeOK
    <3> QED BY <2>2, <3>1
  <2>3. CASE \E i \in DOMAIN up[m] : i <= c
    <3>1. DOMAIN up[m] = 1 .. Len(up[m])
      BY DEF TypeOK
    <3>2. PICK i \in 1 .. Len(up[m]) : i <= c
      BY <2>3, <3>1
    <3> QED BY <3>2
  <2> QED BY <2>1, <2>2, <2>3 DEF Balanced
<1>4. \A i \in DOMAIN Tail(u) : Tail(u)[i] = u[i + 1] /\ i + 1 \in DOMAIN u
  BY <1>2
<1>5. \A g : (\A i \in DOMAIN up[m] : up[m][i].tag = g) =>
              u[1].tag = g /\ \A i \in DOMAIN Tail(u) : Tail(u)[i].tag = g
  <2> SUFFICES ASSUME NEW g, \A i \in DOMAIN up[m] : up[m][i].tag = g
               PROVE  u[1].tag = g /\ \A i \in DOMAIN Tail(u) : Tail(u)[i].tag = g
    OBVIOUS
  <2>1. \A i \in DOMAIN u : u[i].tag = g
    BY <1>1
  <2>2. 1 \in DOMAIN u
    BY <1>2
  <2> QED BY <1>4, <2>1, <2>2
<1>6. CASE Balanced(kind, u, c)
  <2>1. /\ u # <<>> /\ c > 0 /\ (u[1].k = "rc" => u[1].ok)
        /\ u[1].k # "rc" /\ u[1].n > 0 =>
              kind = "idi" /\ Balanced(kind, Tail(u), c - 1 + u[1].n)
        /\ (u[1].k = "rc" \/ ~(u[1].n > 0)) /\ c = 1 => Tail(u) = <<>>
        /\ (u[1].k = "rc" \/ ~(u[1].n > 0)) /\ c # 1 => Balanced(kind, Tail(u), c - 1)
    BY <1>1, <1>2, <1>6, BalancedNext
  <2> QED BY <1>1, <1>5, <2>1
<1>7. CASE Tail(u) = <<>> /\ u[1].k = "rc" /\ ~u[1].ok
  BY <1>1, <1>3, <1>5, <1>7
<1> QED BY <1>1, <1>6, <1>7

\* The callbacks leave the master ready for what follows, form by form.
LEMMA HoldReady ==
  ASSUME TypeOK, Masters, NEW m \in Master, NEW u \in Deliveries(m), NEW r \in MasterRec,
         NEW F, NEW G, ma[m].timeout = FALSE, Hold(m, u, r, F, G)
  PROVE  Ready(kind, F, r, m, Tail(u), KnownAfter(m, Head(u)), ghost \cup G)
<1>1. PICK s : s = ma[m] /\ s.timeout = FALSE
  OBVIOUS
<1>0. Arriving(m, u, s)
  BY <1>1, AtDelivery
<1> DEFINE ev == Head(u)
           K == KnownAfter(m, ev)
<1>2. /\ m \in Ent /\ s \in MasterRec /\ s.rc_count \in Int
      /\ MasterInv(kind, fi, s, m, up[m], known, ghost)
      /\ s.st \notin {"free", "Idle", "OutOfService", "delayed"}
      /\ s.st = "AssignPending" => ev.k = "rc"
      /\ "cut" \notin ghost => /\ Owes(kind, fi, s, up[m]) /\ s.st # "Assigned"
                               /\ s.st = "RemovePending" => ev.k = "rc"
                               /\ s.st \in {"ResponsePending", "Cancelled"} =>
                                     Balanced(kind, up[m], s.rc_count)
  BY <1>0, <1>1 DEF Arriving
<1>3. /\ F = fi /\ r.active = s.active /\ r.idle = s.idle /\ r.st = s.st
      /\ r.license_state = s.license_state
      /\ ev.k = "rc" => s.st \in {"Assigned", "ResponsePending", "Cancelled"}
      /\ s.st \in {"ResponsePending", "Cancelled"} =>
           /\ s.rc_count # 1
           /\ s.rc_count > 0 => r.rc_count = s.rc_count - 1
           /\ ev.k = "rc" => ev.ok
           /\ kind = "idi" /\ ev.k # "rc" /\ ev.n > 0 => "cut" \in G
  BY <1>1 DEF Hold, Kept
<1> HIDE DEF K
<1>4. s.st \notin {"AssignPending"}
  BY <1>2, <1>3
<1>5. MasterFits(F, r, m)
  BY <1>2, <1>3 DEF MasterInv, MasterFits
<1>6. Assigns(F, r, m, Tail(u), K)
  BY <1>2, <1>3, <1>4 DEF MasterInv, Assigns
<1>7. r.st = "Assigned" =>
        /\ kind = "idi" /\ r.rc_count # 0 => r.active = <<>> /\ r.idle # <<>>
        /\ kind = "license" /\ r.license_state # "Idle" => "stall" \in ghost \cup G
  BY <1>2, <1>3 DEF MasterInv, Rests, Used
<1>8. r.st # "Idle" /\ (r.st # "free" => kind # "man")
  BY <1>2, <1>3 DEF MasterInv, Rests
<1>9. ASSUME "cut" \notin ghost \cup G PROVE Owes(kind, F, r, Tail(u))
  <2>1. s.st \notin {"Assigned", "RemovePending"}
    BY <1>2, <1>3, <1>9
  <2>2. CASE s.st \in {"ResponsePending", "Cancelled"}
    <3>1. Balanced(kind, up[m], s.rc_count)
      BY <1>2, <1>9, <2>2
    <3>2. PICK c \in Int : c = s.rc_count
      BY <1>2
    <3>3. /\ c > 0
          /\ ev.k # "rc" /\ ev.n > 0 => kind = "idi"
          /\ ((ev.k = "rc" /\ ev.ok) \/ (ev.k # "rc" /\ ~(ev.n > 0))) /\ c # 1 =>
               Balanced(kind, Tail(u), c - 1)
          /\ \A g : (\A i \in DOMAIN up[m] : up[m][i].tag = g) =>
               \A i \in DOMAIN Tail(u) : Tail(u)[i].tag = g
      BY <1>2, <3>1, <3>2, AfterAnswer
    <3>4. ~(ev.k # "rc" /\ ev.n > 0)
      BY <1>3, <1>9, <2>2, <3>3
    <3>5. Balanced(kind, Tail(u), c - 1) /\ r.rc_count = c - 1
      BY <1>3, <2>2, <3>2, <3>3, <3>4
    <3>6. ASSUME r.st = "ResponsePending"
          PROVE  LET g == Head(r.active) IN
                 \A i \in DOMAIN Tail(u) : Tail(u)[i].tag = <<g, F[g].bit>>
      <4>1. PICK g : g = Head(r.active)
        OBVIOUS
      <4>2. Owes(kind, fi, s, up[m])
        BY <1>2, <1>9
      <4>3. \A i \in DOMAIN up[m] : up[m][i].tag = <<g, F[g].bit>>
        BY <1>3, <3>6, <4>1, <4>2 DEF Owes
      <4>4. \A i \in DOMAIN Tail(u) : Tail(u)[i].tag = <<g, F[g].bit>>
        BY <3>3, <4>3
      <4> QED BY <4>1, <4>4
    <3> QED BY <1>3, <2>1, <3>5, <3>6 DEF Owes
  <2>3. CASE s.st \notin {"ResponsePending", "Cancelled"}
    BY <1>3, <2>1, <2>3 DEF Owes
  <2> QED BY <2>2, <2>3
<1> QED BY <1>5, <1>6, <1>7, <1>8, <1>9 DEF Ready, K

\* A master whose cancelled answer is over is ready.
LEMMA BackReady ==
  ASSUME TypeOK, Masters, NEW m \in Master, NEW u \in Deliveries(m), NEW r \in MasterRec,
         NEW F, NEW G, ma[m].timeout = FALSE, Back(m, u, r, F, G)
  PROVE  Ready(kind, F, r, m, Tail(u), KnownAfter(m, Head(u)), ghost \cup G)
<1>1. PICK s : s = ma[m] /\ s.timeout = FALSE
  OBVIOUS
<1>0. Arriving(m, u, s)
  BY <1>1, AtDelivery
<1> DEFINE ev == Head(u)
           K == KnownAfter(m, ev)
<1>2. /\ m \in Ent /\ s \in MasterRec /\ s.rc_count \in Int
      /\ MasterInv(kind, fi, s, m, up[m], known, ghost)
      /\ s.st \notin {"free", "Idle", "OutOfService", "delayed"}
      /\ s.st = "AssignPending" => ev.k = "rc"
      /\ "cut" \notin ghost => /\ s.st = "RemovePending" => ev.k = "rc"
                               /\ s.st \in {"ResponsePending", "Cancelled"} =>
                                     Balanced(kind, up[m], s.rc_count)
  BY <1>0, <1>1 DEF Arriving
<1>3. /\ F = fi /\ r.active = s.active /\ r.idle = s.idle /\ r.st = "Assigned"
      /\ r.rc_count = 0 /\ s.st \notin {"ResponsePending", "Assigned"}
      /\ kind = "license" /\ r.license_state # "Idle" => "stall" \in G
      /\ ev.k = "rc" => s.st = "Cancelled" /\ (ev.ok => s.rc_count = 1)
      /\ ev.k # "rc" => s.rc_count = 1 /\ (kind = "idi" /\ ev.n > 0 => "cut" \in G)
  BY <1>1 DEF Back, Kept
<1> HIDE DEF K
<1>4. s.st \in {"Cancelled", "RemovePending"}
  <2>1. s.st \in MasterSt
    BY <1>2 DEF MasterRec
  <2> QED BY <1>2, <1>3, <2>1 DEF MasterSt
<1>5. MasterFits(F, r, m)
  BY <1>2, <1>3 DEF MasterInv, MasterFits
<1>6. Assigns(F, r, m, Tail(u), K)
  BY <1>2, <1>3, <1>4 DEF MasterInv, Assigns
<1>7. kind # "man"
  BY <1>2 DEF MasterInv, Rests
<1>8. ASSUME "cut" \notin ghost \cup G PROVE Owes(kind, F, r, Tail(u))
  <2>1. s.st = "Cancelled"
    BY <1>2, <1>3, <1>4, <1>8
  <2>2. Balanced(kind, up[m], s.rc_count)
    BY <1>2, <1>8, <2>1
  <2>3. PICK c \in Int : c = s.rc_count
    BY <1>2
  <2>4. /\ ev.k = "rc" /\ ~ev.ok => Tail(u) = <<>>
        /\ ev.k # "rc" /\ ev.n > 0 => kind = "idi"
        /\ (ev.k = "rc" \/ ~(ev.n > 0)) /\ c = 1 => Tail(u) = <<>>
    BY <1>2, <2>2, <2>3, AfterAnswer
  <2>5. Tail(u) = <<>>
    BY <1>3, <1>8, <2>3, <2>4
  <2> QED BY <1>3, <2>5 DEF Owes
<1> QED BY <1>3, <1>5, <1>6, <1>7, <1>8 DEF Ready, K

\* A master that has served the head of its active queue is ready.
LEMMA ServeReady ==
  ASSUME TypeOK, Masters, NEW m \in Master, NEW u \in Deliveries(m), NEW r \in MasterRec,
         NEW F \in [File -> FileRec], NEW G, ma[m].timeout = FALSE, Serve(m, u, r, F, G)
  PROVE  Ready(kind, F, r, m, Tail(u), KnownAfter(m, Head(u)), ghost \cup G)
<1>1. PICK s : s = ma[m] /\ s.timeout = FALSE
  OBVIOUS
<1>0. Arriving(m, u, s)
  BY <1>1, AtDelivery
<1> DEFINE ev == Head(u)
           K == KnownAfter(m, ev)
           f == Head(s.active)
<1>2. /\ m \in Ent /\ s \in MasterRec /\ s.rc_count \in Int /\ ev.n \in Nat
      /\ MasterInv(kind, fi, s, m, up[m], known, ghost)
      /\ "cut" \notin ghost /\ s.st = "ResponsePending" => Balanced(kind, up[m], s.rc_count)
  BY <1>0, <1>1 DEF Arriving
<1>3. /\ s.st = "ResponsePending" /\ r.st = "Assigned" /\ r.rc_count = 0
      /\ kind = "license" => r.license_state = "Idle"
      /\ r.active = Tail(s.active) /\ r.idle = Append(s.idle, f)
      /\ Through(F[f], fi[f]) /\ \A x \in File \ {f} : F[x] = fi[x]
      /\ ev.k = "rc" /\ ev.ok => s.rc_count = 1
      /\ ev.k # "rc" /\ s.rc_count > 0 /\ "cut" \notin G =>
           s.rc_count = 1 /\ (kind = "idi" => ev.n = 0)
  BY <1>1 DEF Serve
<1> HIDE DEF K
<1>4. /\ Once(s.active) /\ Once(s.idle) /\ s.active # <<>>
      /\ Range(s.active) = ActiveOf(fi, m) /\ Range(s.idle) = IdleOf(fi, m)
      /\ s.active \in Seq(File) /\ s.idle \in Seq(File)
  BY <1>2, <1>3 DEF MasterInv, MasterFits, MasterRec
<1>5. /\ Once(r.active) /\ Range(r.active) = Range(s.active) \ {f}
      /\ f \in Range(s.active) /\ f \in File
  BY <1>3, <1>4, OnceTail
<1>6. fi[f].me = m /\ fi[f].on_active_q /\ f \notin Range(s.idle)
  BY <1>4, <1>5 DEF ActiveOf, IdleOf
<1>7. Once(r.idle) /\ Range(r.idle) = Range(s.idle) \cup {f} /\ r.idle # <<>>
  BY <1>3, <1>4, <1>5, <1>6, OnceAppend
<1>8. F[f].me = m /\ ~F[f].on_active_q /\ (F[f].Id => fi[f].Id)
  BY <1>3, <1>6 DEF Through
<1> HIDE DEF f
<1>9. ActiveOf(F, m) = Range(r.active) /\ IdleOf(F, m) = Range(r.idle)
  BY <1>3, <1>4, <1>5, <1>6, <1>7, <1>8 DEF ActiveOf, IdleOf
<1>10. MasterFits(F, r, m)
  BY <1>3, <1>5, <1>7, <1>9 DEF MasterFits
<1>11. Assigns(F, r, m, Tail(u), K)
  <2>1. \A x \in ActiveOf(F, m) : x \in ActiveOf(fi, m) /\ F[x] = fi[x]
    BY <1>3, <1>4, <1>5, <1>9 DEF ActiveOf
  <2>2. \A x \in ActiveOf(fi, m) : fi[x].buffer # "none"
    BY <1>2, <1>3 DEF MasterInv, Assigns
  <2> QED BY <1>3, <2>1, <2>2 DEF Assigns
<1>12. kind # "man"
  BY <1>2, <1>3 DEF MasterInv, Rests
<1>13. ASSUME "cut" \notin ghost \cup G PROVE Owes(kind, F, r, Tail(u))
  <2>2. Balanced(kind, up[m], s.rc_count)
    BY <1>2, <1>3, <1>13
  <2>3. PICK c \in Int : c = s.rc_count
    BY <1>2
  <2>4. /\ c > 0
        /\ ev.k = "rc" /\ ~ev.ok => Tail(u) = <<>>
        /\ ev.k # "rc" /\ ev.n > 0 => kind = "idi"
        /\ (ev.k = "rc" \/ ~(ev.n > 0)) /\ c = 1 => Tail(u) = <<>>
    BY <1>2, <2>2, <2>3, AfterAnswer
  <2>5. Tail(u) = <<>>
    BY <1>2, <1>3, <1>13, <2>3, <2>4
  <2> QED BY <1>3, <2>5 DEF Owes
<1> QED BY <1>3, <1>10, <1>11, <1>12, <1>13 DEF Ready, K

\* A master that has delivered a part of a chain is ready.
LEMMA ChainReady ==
  ASSUME TypeOK, Masters, NEW m \in Master, NEW u \in Deliveries(m), NEW r \in MasterRec,
         NEW F \in [File -> FileRec], NEW G, ma[m].timeout = FALSE, Chain(m, u, r, F, G)
  PROVE  Ready(kind, F, r, m, Tail(u), KnownAfter(m, Head(u)), ghost \cup G)
<1>1. PICK s : s = ma[m] /\ s.timeout = FALSE
  OBVIOUS
<1>0. Arriving(m, u, s)
  BY <1>1, AtDelivery
<1> DEFINE ev == Head(u)
           K == KnownAfter(m, ev)
           f == Head(s.active)
<1>2. /\ m \in Ent /\ s \in MasterRec /\ s.rc_count \in Int /\ ev.n \in Nat
      /\ MasterInv(kind, fi, s, m, up[m], known, ghost)
      /\ "cut" \notin ghost =>
           /\ Owes(kind, fi, s, up[m])
           /\ s.st = "ResponsePending" => Balanced(kind, up[m], s.rc_count)
  BY <1>0, <1>1 DEF Arriving
<1>3. /\ kind = "idi" /\ s.st = "ResponsePending" /\ r.st = "ResponsePending"
      /\ r.active = s.active /\ r.idle = s.idle /\ r.license_state = s.license_state
      /\ Stays(F[f], fi[f]) /\ \A x \in File \ {f} : F[x] = fi[x]
      /\ ev.k = "data" /\ r.rc_count # 0
      /\ \/ ev.n > 0 /\ r.rc_count = s.rc_count - 1 + ev.n
         \/ r.rc_count = s.rc_count - 1 /\ (ev.n > 0 => "cut" \in G)
  BY <1>1 DEF Chain, Kept
<1> HIDE DEF K, f
<1>4. \A x \in File : /\ F[x].me = fi[x].me /\ F[x].on_active_q = fi[x].on_active_q
                      /\ F[x].bit = fi[x].bit /\ F[x].buffer = fi[x].buffer
                      /\ F[x].Id = fi[x].Id
  BY <1>3 DEF Stays
<1>5. ActiveOf(F, m) = ActiveOf(fi, m) /\ IdleOf(F, m) = IdleOf(fi, m)
  BY <1>4 DEF ActiveOf, IdleOf
<1>6. MasterFits(F, r, m)
  BY <1>2, <1>3, <1>5 DEF MasterInv, MasterFits
<1>7. Assigns(F, r, m, Tail(u), K)
  <2>1. \A x \in ActiveOf(F, m) : F[x].buffer # "none"
    BY <1>2, <1>3, <1>4, <1>5 DEF MasterInv, Assigns, ActiveOf
  <2> QED BY <1>3, <2>1 DEF Assigns
<1>8. ASSUME "cut" \notin ghost \cup G PROVE Owes(kind, F, r, Tail(u))
  <2>1. Balanced(kind, up[m], s.rc_count) /\ Owes(kind, fi, s, up[m])
    BY <1>2, <1>3, <1>8
  <2>2. PICK c \in Int : c = s.rc_count
    BY <1>2
  <2>3. /\ ev.k # "rc" /\ ev.n > 0 => Balanced(kind, Tail(u), c - 1 + ev.n)
        /\ ((ev.k = "rc" /\ ev.ok) \/ (ev.k # "rc" /\ ~(ev.n > 0))) /\ c # 1 =>
              Balanced(kind, Tail(u), c - 1)
        /\ \A g : (\A i \in DOMAIN up[m] : up[m][i].tag = g) =>
              \A i \in DOMAIN Tail(u) : Tail(u)[i].tag = g
    BY <1>2, <2>1, <2>2, AfterAnswer
  <2>4. Balanced(kind, Tail(u), r.rc_count)
    BY <1>2, <1>3, <1>8, <2>2, <2>3
  <2>5. PICK g : g = Head(s.active)
    OBVIOUS
  <2>6. \A i \in DOMAIN up[m] : up[m][i].tag = <<g, fi[g].bit>>
    BY <1>3, <2>1, <2>5 DEF Owes
  <2>7. F[g].bit = fi[g].bit
    <3>1. s.active # <<>> /\ s.active \in Seq(File)
      BY <1>2, <1>3 DEF MasterInv, MasterFits, MasterRec
    <3> QED BY <1>4, <2>5, <3>1
  <2>8. \A i \in DOMAIN Tail(u) : Tail(u)[i].tag = <<g, F[g].bit>>
    BY <2>3, <2>6, <2>7
  <2> QED BY <1>3, <2>4, <2>5, <2>8 DEF Owes
<1> QED BY <1>3, <1>6, <1>7, <1>8 DEF Ready, K

\* A master that has answered the assignments is ready.
LEMMA AssignAllReady ==
  ASSUME TypeOK, Files, Masters, NEW m \in Master, NEW u \in Deliveries(m),
         NEW r \in MasterRec, NEW F \in [File -> FileRec], NEW G,
         ma[m].timeout = FALSE, AssignAll(m, u, r, F, G)
  PROVE  Ready(kind, F, r, m, Tail(u), KnownAfter(m, Head(u)), ghost \cup G)
<1>1. PICK s : s = ma[m] /\ s.timeout = FALSE
  OBVIOUS
<1>0. Arriving(m, u, s)
  BY <1>1, AtDelivery
<1> DEFINE ev == Head(u)
           K == KnownAfter(m, ev)
<1>2. /\ m \in Ent /\ s \in MasterRec
      /\ MasterInv(kind, fi, s, m, up[m], known, ghost)
      /\ s.st = "AssignPending" => ev.req = "ASSIGN" /\ Tail(u) = <<>> /\ m \notin known
  BY <1>0 DEF Arriving
<1>3. /\ s.st = "AssignPending" /\ ev.k = "rc" /\ G = {}
      /\ r.st = IF ev.ok THEN "Assigned" ELSE "OutOfService"
      /\ r.rc_count = 0 /\ r.license_state = s.license_state
      /\ r.active = <<>> /\ r.idle = s.idle \o s.active
      /\ F = [f \in File |-> IF f \notin Range(s.active) THEN fi[f]
                             ELSE Told(fi[f], ev.ok)]
  BY <1>1 DEF AssignAll
<1>4. Tail(u) = <<>> /\ (~ev.ok => m \notin K)
  BY <1>2, <1>3, KnownAfterFacts
<1> HIDE DEF K
<1>5. /\ Once(s.active) /\ Once(s.idle)
      /\ Range(s.active) = ActiveOf(fi, m) /\ Range(s.idle) = IdleOf(fi, m)
      /\ s.active \in Seq(File) /\ s.idle \in Seq(File)
  BY <1>2 DEF MasterInv, MasterFits, MasterRec
<1>6. Range(s.idle) \cap Range(s.active) = {}
  BY <1>5 DEF ActiveOf, IdleOf
<1>7. Once(r.idle) /\ Range(r.idle) = Range(s.idle) \cup Range(s.active)
  BY <1>3, <1>5, <1>6, OnceConcat
<1>8. Once(r.active) /\ Range(r.active) = {}
  BY <1>3 DEF Once, Range
<1>9. \A f \in File : f \in Range(s.active) =>
        /\ F[f].me = m /\ F[f].on_active_q = FALSE
        /\ ~ev.ok => F[f].Id = FALSE
  <2> SUFFICES ASSUME NEW f \in File, f \in Range(s.active)
               PROVE  /\ F[f].me = m /\ F[f].on_active_q = FALSE
                      /\ ~ev.ok => F[f].Id = FALSE
    OBVIOUS
  <2>1. F[f] = Told(fi[f], ev.ok)
    BY <1>3
  <2>2. fi[f].me = m /\ "ASSIGN_PENDING" \in fi[f].status
    BY <1>2, <1>3, <1>5 DEF ActiveOf, MasterInv, Assigns
  <2>3. "TIMEOUT" \notin fi[f].status
    <3>1. m # NULL
      BY UmIdiAssumption DEF UmIdiAssumption
    <3> QED BY <2>2, <3>1 DEF Files, FileFits
  <2>4. fi[f] \in FileRec
    BY DEF TypeOK
  <2>5. /\ Told(fi[f], ev.ok).me = fi[f].me /\ Told(fi[f], ev.ok).on_active_q = FALSE
        /\ "TIMEOUT" \notin fi[f].status /\ "ASSIGN_PENDING" \in fi[f].status /\ ~ev.ok =>
             Told(fi[f], ev.ok).Id = FALSE
    BY <2>4, ToldFacts, ZenonT(30)
  <2> QED BY <2>1, <2>2, <2>3, <2>5
<1>10. \A f \in File : f \notin Range(s.active) => F[f] = fi[f]
  BY <1>3
<1>11. ActiveOf(F, m) = {}
  BY <1>5, <1>9, <1>10 DEF ActiveOf
<1>12. IdleOf(F, m) = Range(r.idle)
  BY <1>5, <1>7, <1>9, <1>10 DEF ActiveOf, IdleOf
<1>13. MasterFits(F, r, m)
  BY <1>3, <1>7, <1>8, <1>11, <1>12 DEF MasterFits
<1>14. \A f \in File : F[f].me = m /\ F[f].Id => ev.ok
  <2>1. \A f \in File : fi[f].me = m => ~fi[f].Id
    BY <1>2, <1>3 DEF MasterInv, Assigns
  <2> SUFFICES ASSUME NEW f \in File, F[f].me = m, F[f].Id, ~ev.ok PROVE FALSE
    OBVIOUS
  <2>2. f \notin Range(s.active)
    BY <1>9
  <2>3. F[f] = fi[f]
    BY <1>10, <2>2
  <2> QED BY <2>1, <2>3
<1>15. Assigns(F, r, m, Tail(u), K)
  BY <1>3, <1>4, <1>11, <1>14 DEF Assigns
<1>16. kind # "man" /\ r.license_state = "Idle"
  BY <1>2, <1>3 DEF MasterInv, Rests, Assigns
<1>17. Owes(kind, F, r, Tail(u))
  BY <1>3, <1>4 DEF Owes
<1> QED BY <1>3, <1>13, <1>15, <1>16, <1>17 DEF Ready, K

\* What follows a callback of a master keeps the invariant of that master.
LEMMA EffectInv ==
  ASSUME TypeOK, Files, Masters, NEW m \in Master, NEW u \in Deliveries(m),
         NEW r, NEW F, NEW G, Done(m, u, r, F, G), Effect(m, u, r, F, G)
  PROVE  MasterInv(kind, F, ma'[m], m, up'[m], known', ghost')
<1>1. /\ ghost' = ghost \cup G /\ known' = KnownAfter(m, Head(u))
      /\ Settles(kind, F, r, Tail(u), ma'[m], up'[m])
  BY DoneFacts
<1>2. r \in MasterRec /\ F \in [File -> FileRec] /\ ma[m].timeout = FALSE
  BY DEF Effect
<1>3. Ready(kind, F, r, m, Tail(u), KnownAfter(m, Head(u)), ghost \cup G)
  BY <1>2, HoldReady, BackReady, ServeReady, ChainReady, AssignAllReady DEF Effect
<1>4. kind \in {"man", "idi", "license"}
  BY DEF TypeOK
<1>5. Tail(u) \in Seq(Request \cup Event)
  BY DeliveryShape DEF Ent
<1> QED BY <1>1, <1>2, <1>3, <1>4, <1>5, SettleInv

\* No master is a file, nor nothing.
LEMMA MasterIsOne ==
  ASSUME NEW m \in Master PROVE m # NULL /\ m \in Ent /\ m \notin File
BY UmIdiAssumption DEF UmIdiAssumption, Ent

\* A file that is through fits.
LEMMA FileThrough ==
  ASSUME NEW m \in Master, NEW e, NEW n, NEW kd, FileFits(kd, e), e.me = m,
         n.me = e.me, n.st = e.st, n.status \subseteq e.status, n.on_active_q = FALSE,
         kd = "idi" => n.timer = FALSE
  PROVE  FileFits(kd, n)
<1>1. n.st = "open" /\ kd # "man" /\ {"REMOVE_PENDING", "TIMEOUT"} \cap e.status = {}
  BY MasterIsOne DEF FileFits
<1>2. {"REMOVE_PENDING", "TIMEOUT"} \cap n.status = {}
  BY <1>1
<1> QED BY <1>1, <1>2 DEF FileFits

\* The files fit after a callback of their master, and keep it.
LEMMA EffectFiles ==
  ASSUME TypeOK, Files, Masters, NEW m \in Master, NEW u \in Deliveries(m),
         NEW r, NEW F, NEW G, Effect(m, u, r, F, G), NEW f \in File
  PROVE  /\ FileFits(kind, F[f]) /\ F[f].me = fi[f].me
         /\ F[f] # fi[f] => fi[f].me = m
<1> DEFINE s == ma[m]
           g == Head(s.active)
<1>1. FileFits(kind, fi[f]) /\ fi[f] \in FileRec
  BY DEF Files, TypeOK
<1>2. /\ Range(s.active) = ActiveOf(fi, m) /\ s.active \in Seq(File)
      /\ s.st = "ResponsePending" => s.active # <<>>
  BY DEF Masters, MasterInv, MasterFits, TypeOK, MasterRec
<1>3. s.st = "ResponsePending" => g \in ActiveOf(fi, m)
  BY <1>2 DEF Range
<1>4. CASE Hold(m, u, r, F, G) \/ Back(m, u, r, F, G)
  <2>1. F = fi
    BY <1>4 DEF Hold, Back
  <2> QED BY <1>1, <2>1
<1>5. CASE Serve(m, u, r, F, G)
  <2>1. s.st = "ResponsePending" /\ Through(F[g], fi[g]) /\ \A x \in File \ {g} : F[x] = fi[x]
    BY <1>5 DEF Serve
  <2>2. CASE f = g
    <3>1. fi[f].me = m /\ Through(F[f], fi[f])
      BY <1>3, <2>1, <2>2 DEF ActiveOf
    <3>2. {"REMOVE_PENDING", "TIMEOUT"} \cap fi[f].status = {}
      BY <1>1, <3>1, MasterIsOne DEF FileFits
    <3>3. F[f].me = fi[f].me /\ F[f].st = fi[f].st /\ F[f].status \subseteq fi[f].status
          /\ F[f].on_active_q = FALSE /\ (kind = "idi" => F[f].timer = FALSE)
      BY <3>1, <3>2 DEF Through
    <3> QED BY <1>1, <3>1, <3>3, FileThrough
  <2>3. CASE f # g
    BY <1>1, <2>1, <2>3
  <2> QED BY <2>2, <2>3
<1>6. CASE Chain(m, u, r, F, G)
  <2>1. s.st = "ResponsePending" /\ Stays(F[g], fi[g]) /\ \A x \in File \ {g} : F[x] = fi[x]
    BY <1>6 DEF Chain
  <2>2. CASE f = g
    <3>1. fi[f].me = m /\ Stays(F[f], fi[f])
      BY <1>3, <2>1, <2>2 DEF ActiveOf
    <3>2. FileFits(kind, F[f])
      <4>1. fi[f].st = "open"
        BY <1>1, <3>1, MasterIsOne DEF FileFits
      <4> QED BY <1>1, <3>1, <4>1 DEF FileFits, Stays
    <3> QED BY <3>1, <3>2 DEF Stays
  <2>3. CASE f # g
    BY <1>1, <2>1, <2>3
  <2> QED BY <2>2, <2>3
<1>7. CASE AssignAll(m, u, r, F, G)
  <2>1. F[f] = IF f \notin Range(s.active) THEN fi[f] ELSE Told(fi[f], Head(u).ok)
    BY <1>7 DEF AssignAll
  <2>2. CASE f \in Range(s.active)
    <3>1. fi[f].me = m
      BY <1>2, <2>2 DEF ActiveOf
    <3>2. {"REMOVE_PENDING", "TIMEOUT"} \cap fi[f].status = {}
      BY <1>1, <3>1, MasterIsOne DEF FileFits
    <3> DEFINE n == Told(fi[f], Head(u).ok)
    <3>3. n.st = fi[f].st /\ n.me = fi[f].me /\ n.on_active_q = FALSE
          /\ n.status \subseteq fi[f].status
          /\ ({"REMOVE_PENDING", "TIMEOUT"} \cap fi[f].status = {} => n.timer = FALSE)
      BY <1>1, ToldFacts, ZenonT(30)
    <3> HIDE DEF n
    <3>4. F[f] = n
      BY <2>1, <2>2 DEF n
    <3> QED BY <1>1, <3>1, <3>2, <3>3, <3>4, FileThrough
  <2>3. CASE f \notin Range(s.active)
    BY <1>1, <2>1, <2>3
  <2> QED BY <2>2, <2>3
<1> QED BY <1>4, <1>5, <1>6, <1>7 DEF Effect

\* An answer goes to the file that asked, unless a chain was cut.
LEMMA EffectGhosts ==
  ASSUME TypeOK, Files, Masters, NEW m \in Master, NEW u \in Deliveries(m),
         NEW r, NEW F, NEW G, Effect(m, u, r, F, G)
  PROVE  /\ "wrong" \in G => "cut" \in ghost \cup G
         /\ "freed" \notin G
<1>1. PICK s : s = ma[m] /\ s.timeout = FALSE
  BY DEF Effect
<1>2. Arriving(m, u, s)
  BY <1>1, AtDelivery
<1> DEFINE ev == Head(u)
           g == Head(s.active)
<1>3. CASE Hold(m, u, r, F, G) \/ Back(m, u, r, F, G) \/ AssignAll(m, u, r, F, G)
  BY <1>3 DEF Hold, Back, AssignAll
<1>4. CASE s.st = "ResponsePending" /\ G \subseteq Wrong(s, ev.tag) \cup {"cut"}
  <2>1. "freed" \notin G
    BY <1>4 DEF Wrong, Note
  <2>2. ASSUME "cut" \notin ghost PROVE "wrong" \notin Wrong(s, ev.tag)
    <3>1. Owes(kind, fi, s, up[m]) /\ Balanced(kind, up[m], s.rc_count)
          /\ s.rc_count \in Int /\ m \in Ent
          /\ MasterInv(kind, fi, s, m, up[m], known, ghost)
      BY <1>1, <1>2, <1>4, <2>2 DEF Arriving
    <3>2. \A i \in DOMAIN up[m] : up[m][i].tag = <<g, fi[g].bit>>
      BY <1>4, <3>1 DEF Owes
    <3>3. ev.tag = <<g, fi[g].bit>>
      <4> HIDE DEF g
      <4>1. PICK c \in Int : c = s.rc_count
        BY <3>1
      <4>2. Balanced(kind, up[m], c)
        BY <3>1, <4>1
      <4>3. \A h : (\A i \in DOMAIN up[m] : up[m][i].tag = h) =>
              ev.tag = h /\ \A i \in DOMAIN Tail(u) : Tail(u)[i].tag = h
        BY <3>1, <4>2, AfterAnswer
      <4> QED BY <3>2, <4>3
    <3>4. s.active # <<>>
      BY <1>4, <3>1 DEF MasterInv, MasterFits
    <3> QED BY <3>3, <3>4 DEF Wrong, Note, TagOf
  <2> QED BY <1>4, <2>1, <2>2
<1>5. CASE Serve(m, u, r, F, G) \/ Chain(m, u, r, F, G)
  <2>1. s.st = "ResponsePending" /\ G \subseteq Wrong(s, ev.tag) \cup {"cut"}
    BY <1>1, <1>5 DEF Serve, Chain
  <2> QED BY <1>4, <2>1
<1> QED BY <1>3, <1>5 DEF Effect

-----------------------------------------------------------------------------
(***************************************************************************)
(* The steps of the masters.                                               *)
(***************************************************************************)
\* A step of one master and its files.
LEMMA MasterStep ==
  ASSUME IInv, TypeOK', present, NEW m \in Master, OnlyMaster(m),
         MasterInv(kind, fi', ma'[m], m, up'[m], known', ghost'),
         \A f \in File : /\ FileFits(kind, fi'[f]) /\ fi'[f].me = fi[f].me
                         /\ fi'[f] # fi[f] => fi[f].me = m,
         ghost \subseteq ghost',
         "wrong" \in ghost' => "wrong" \in ghost \/ "cut" \in ghost',
         "freed" \in ghost' => "freed" \in ghost \/ "cut" \in ghost'
  PROVE  IInv'
<1>1. TypeOK /\ Files /\ Masters /\ Entities /\ AnswerToAsker /\ FreedIsQuiet
  BY DEF IInv
<1>2. /\ \A k \in Master \ {m} : ma'[k] = ma[k]
      /\ \A x \in Ent \ {m} : up'[x] = up[x] /\ (x \in known' <=> x \in known)
      /\ kind' = kind /\ present' = present
  BY DEF OnlyMaster
<1>3. Files'
  BY <1>2 DEF Files
<1>4. Masters'
  <2> SUFFICES ASSUME NEW k \in Master
               PROVE  MasterInv(kind, fi', ma'[k], k, up'[k], known', ghost')
    BY <1>2 DEF Masters
  <2>1. CASE k # m
    <3>1. MasterInv(kind, fi, ma[k], k, up[k], known, ghost)
      BY <1>1 DEF Masters
    <3>2. \A f \in File : fi[f].me = k \/ fi'[f].me = k => fi'[f] = fi[f]
      BY <2>1
    <3>3. fi \in [File -> FileRec] /\ fi' \in [File -> FileRec] /\ ma[k] \in MasterRec
      BY <1>1 DEF TypeOK
    <3>4. k \in known' => k \in known
      BY <1>2, <2>1, MasterIsOne
    <3>5. MasterInv(kind, fi', ma[k], k, up[k], known', ghost')
      BY <3>1, <3>2, <3>3, <3>4, MasterAside
    <3>6. ma'[k] = ma[k] /\ up'[k] = up[k]
      BY <1>2, <2>1, MasterIsOne
    <3> QED BY <3>5, <3>6
  <2> QED BY <2>1
<1>5. Entities'
  <2>1. \A f \in File : f \in Ent \ {m}
    BY MasterIsOne DEF Ent
  <2>2. kind # "man" => \A f \in File : up'[f] = <<>> /\ f \notin known'
    BY <1>1, <1>2, <2>1 DEF Entities, Quiet
  <2>3. kind = "man" => \A f \in File : fi'[f] = fi[f] /\ fi'[f].me = NULL
    BY <1>1, MasterIsOne DEF Entities
  <2>4. kind = "man" => \A f \in File : \/ "TIMEOUT" \in fi'[f].status
                                        \/ EntityFits(f, fi'[f], up'[f], known')
    <3> SUFFICES ASSUME kind = "man", NEW f \in File
                 PROVE  "TIMEOUT" \in fi[f].status \/ EntityFits(f, fi[f], up[f], known')
      BY <1>2, <2>1, <2>3
    <3>1. "TIMEOUT" \in fi[f].status \/ EntityFits(f, fi[f], up[f], known)
      BY <1>1 DEF Entities
    <3>2. f \in known' <=> f \in known
      BY <1>2, <2>1
    <3> QED BY <3>1, <3>2 DEF EntityFits
  <2>5. \A f \in File : fi'[f].st = "delayed" => "TIMEOUT" \in fi'[f].status
    <3> SUFFICES ASSUME NEW f \in File, fi'[f].st = "delayed"
                 PROVE  "TIMEOUT" \in fi'[f].status
      OBVIOUS
    <3>1. fi'[f].me = NULL
      BY DEF FileFits
    <3>2. fi'[f] = fi[f]
      BY <3>1, MasterIsOne
    <3> QED BY <1>1, <3>2 DEF Entities
  <2>6. kind = "man" => \A f \in File : fi'[f].me = NULL
    BY <2>3
  <2> QED BY <1>2, <2>2, <2>4, <2>5, <2>6 DEF Entities, Quiet
<1>6. AnswerToAsker' /\ FreedIsQuiet'
  BY <1>1 DEF AnswerToAsker, FreedIsQuiet
<1> QED BY <1>3, <1>4, <1>5, <1>6 DEF IInv

\* The card calls back only while the adapter is present.
LEMMA PresentAtDelivery ==
  ASSUME IInv, NEW x \in Ent, up[x] # <<>> PROVE present
BY DEF IInv, Entities, Quiet

\* A callback that ends with Done keeps the invariant.
LEMMA EffectNext ==
  ASSUME IInv, NEW m \in Master, NEW u \in Deliveries(m),
         NEW r, NEW F, NEW G, Done(m, u, r, F, G), Effect(m, u, r, F, G)
  PROVE  IInv'
<1>1. TypeOK /\ Files /\ Masters
  BY DEF IInv
<1>2. /\ TypeOK' /\ OnlyMaster(m)
      /\ fi' = F /\ ghost' = ghost \cup G
  BY <1>1, DoneFacts
<1>3. m \in Ent /\ up[m] # <<>>
  BY <1>1, DeliveryShape, MasterIsOne
<1>4. present
  BY <1>3, PresentAtDelivery
<1>5. MasterInv(kind, F, ma'[m], m, up'[m], known', ghost')
  BY <1>1, EffectInv
<1>6. \A f \in File : /\ FileFits(kind, F[f]) /\ F[f].me = fi[f].me
                      /\ F[f] # fi[f] => fi[f].me = m
  BY <1>1, EffectFiles
<1>7. ("wrong" \in G => "cut" \in ghost \cup G) /\ "freed" \notin G
  BY <1>1, EffectGhosts
<1> QED BY <1>2, <1>4, <1>5, <1>6, <1>7, MasterStep

\* An indication that is announced to a master keeps the invariant.
LEMMA AnnounceNext ==
  ASSUME IInv, NEW m \in Master, NEW u \in Deliveries(m), Announce(m, u), ma[m].timeout = FALSE
  PROVE  IInv'
<1>1. TypeOK /\ Files /\ Masters
  BY DEF IInv
<1>2. PICK s : s = ma[m] /\ s.timeout = FALSE
  OBVIOUS
<1>3. Arriving(m, u, s)
  BY <1>1, <1>2, AtDelivery
<1>4. /\ m \in Ent /\ up[m] # <<>> /\ u \in Seq(Request \cup Event) /\ u # <<>>
      /\ Head(u) = u[1] /\ u[1] \in Event /\ s.rc_count \in Int
      /\ MasterInv(kind, fi, s, m, up[m], known, ghost)
  BY <1>3 DEF Arriving
<1>5. PICK w : w = [u EXCEPT ![1].k = "data"]
  OBVIOUS
<1>6. PICK e : e = [u[1] EXCEPT !.k = "data"]
  OBVIOUS
<1>7. e \in Event /\ e.k = "data" /\ e.n = u[1].n /\ e.tag = u[1].tag
  BY <1>4, <1>6 DEF Event
<1>8. w = [u EXCEPT ![1] = e]
  BY <1>5, <1>6
<1>9. /\ w \in Seq(Request \cup Event) /\ Len(w) = Len(u) /\ DOMAIN w = DOMAIN u
      /\ w[1] = e /\ \A i \in DOMAIN u \ {1} : w[i] = u[i]
  <2>1. 1 \in DOMAIN u
    BY <1>4
  <2> QED BY <1>4, <1>7, <1>8, <2>1
<1>10. s.st = "ResponsePending" /\ u[1].k = "ind"
       /\ up' = [up EXCEPT ![m] = w]
       /\ kind' = kind /\ present' = present /\ fi' = fi /\ ma' = ma
       /\ known' = known /\ ghost' = ghost
  BY <1>2, <1>4, <1>5 DEF Announce
<1>11. up' \in [Ent -> Seq(Request \cup Event)] /\ up'[m] = w
       /\ \A x \in Ent \ {m} : up'[x] = up[x]
  BY <1>1, <1>4, <1>9, <1>10 DEF TypeOK
<1>12. TypeOK'
  BY <1>1, <1>10, <1>11 DEF TypeOK
<1>13. OnlyMaster(m)
  BY <1>10, <1>11 DEF OnlyMaster
<1>14. ASSUME "cut" \notin ghost PROVE Owes(kind, fi, s, w)
  <2>1. Owes(kind, fi, s, up[m]) /\ Balanced(kind, up[m], s.rc_count)
    BY <1>2, <1>3, <1>10, <1>14 DEF Arriving
  <2>2. /\ Balanced(kind, u, s.rc_count)
        /\ \A g : (\A i \in DOMAIN up[m] : up[m][i].tag = g) =>
                   \A i \in DOMAIN u : u[i].tag = g
    BY <1>1, <1>4, <1>10, <2>1, BalancedDelivery
  <2>3. /\ \A i \in DOMAIN u : u[i].k # "req" /\ (u[i].k = "rc" => u[i].ok)
        /\ \/ Len(u) = s.rc_count /\ \A i \in DOMAIN u : u[i].n = 0
           \/ \E i \in DOMAIN u :
                /\ kind = "idi" /\ u[i].k # "rc" /\ u[i].n > 0 /\ i <= s.rc_count
                /\ Len(u) = s.rc_count + u[i].n
                /\ \A j \in DOMAIN u \ {i} : u[j].n = 0
    BY <1>10, <2>2 DEF Balanced
  <2>4. \A i \in DOMAIN u : /\ w[i].n = u[i].n /\ w[i].tag = u[i].tag
                            /\ w[i].k # "req" /\ (w[i].k = "rc" => w[i].ok)
                            /\ u[i].k # "rc" => w[i].k # "rc"
    BY <1>7, <1>9, <2>3
  <2>5. w # <<>>
    BY <1>4, <1>9
  <2>6. Balanced(kind, w, s.rc_count)
    BY <1>9, <2>3, <2>4, <2>5 DEF Balanced
  <2>7. PICK g : g = Head(s.active)
    OBVIOUS
  <2>8. \A i \in DOMAIN up[m] : up[m][i].tag = <<g, fi[g].bit>>
    BY <1>10, <2>1, <2>7 DEF Owes
  <2>9. \A i \in DOMAIN w : w[i].tag = <<g, fi[g].bit>>
    BY <1>9, <2>2, <2>4, <2>8
  <2> QED BY <1>10, <2>6, <2>7, <2>9 DEF Owes
<1>15. Assigns(fi, s, m, w, known)
  BY <1>4, <1>10 DEF MasterInv, Assigns
<1>16. MasterInv(kind, fi, s, m, w, known, ghost)
  BY <1>4, <1>14, <1>15 DEF MasterInv
<1>17. \A f \in File : FileFits(kind, fi[f])
  BY <1>1 DEF Files
<1>18. present
  BY <1>4, PresentAtDelivery
<1> QED BY <1>2, <1>10, <1>11, <1>12, <1>13, <1>16, <1>17, <1>18, MasterStep

\* The next piece of the license data keeps the invariant.
LEMMA PieceNext ==
  ASSUME IInv, NEW m \in Master, NEW u \in Deliveries(m), Piece(m, u), ma[m].timeout = FALSE
  PROVE  IInv'
<1>1. TypeOK /\ Files /\ Masters
  BY DEF IInv
<1>2. PICK s : s = ma[m] /\ s.timeout = FALSE
  OBVIOUS
<1>3. Arriving(m, u, s)
  BY <1>1, <1>2, AtDelivery
<1>4. /\ m \in Ent /\ up[m] # <<>> /\ Tail(u) \in Seq(Request \cup Event)
      /\ s \in MasterRec /\ MasterInv(kind, fi, s, m, up[m], known, ghost)
  BY <1>3 DEF Arriving
<1>5. PICK rest \in Int : license_step(m, u, rest)
  BY DEF Piece
<1>6. kind = "license" /\ s.st = "ResponsePending" /\ s.rc_count = 1
      /\ Head(u).k = "rc" /\ Head(u).ok
  BY <1>2 DEF Piece
<1> DEFINE w == ToWrite(rest)
           g == Head(s.active)
           tag == TagOf(g)
           req == IF w # 0 THEN "WRITE" ELSE "READ"
           v == [up EXCEPT ![m] = Tail(u)]
<1>7. w \in Int
  BY DEF ToWrite
<1>8. /\ ma' = [ma EXCEPT ![m] =
           IF w # 0 THEN [s EXCEPT !.rc_count = 1, !.license_state = "Write",
                                   !.rest = rest - w]
           ELSE [s EXCEPT !.rc_count = 2, !.license_state = "WaitResponse", !.rest = 0]]
      /\ Send(v, m, req, tag)
      /\ kind' = kind /\ present' = present /\ fi' = fi /\ known' = known /\ ghost' = ghost
  BY <1>2, <1>5 DEF license_step
<1> HIDE DEF w
<1>9. PICK c \in Int : c = Weight(req)
  BY DEF Weight
<1>10. PICK l \in {"Write", "WaitResponse"} : l = IF w # 0 THEN "Write" ELSE "WaitResponse"
  OBVIOUS
<1>a. rest - w \in Int /\ 0 \in Int
  BY <1>7
<1>11. PICK o \in Int : o = IF w # 0 THEN rest - w ELSE 0
  BY <1>a, Zenon
<1>12. PICK t : t = [s EXCEPT !.rc_count = c, !.license_state = l, !.rest = o]
  OBVIOUS
<1>13. t \in MasterRec
  BY <1>4, <1>12 DEF MasterRec
<1>14. t.st = s.st /\ t.active = s.active /\ t.idle = s.idle /\ t.timeout = s.timeout
       /\ t.rc_count = c
  BY <1>4, <1>12 DEF MasterRec
<1>15. ma' = [ma EXCEPT ![m] = t]
  <2>1. CASE w # 0
    BY <1>8, <1>9, <1>10, <1>11, <1>12, <2>1 DEF Weight
  <2>2. CASE w = 0
    BY <1>8, <1>9, <1>10, <1>11, <1>12, <2>2 DEF Weight
  <2> QED BY <2>1, <2>2
<1>16. ma' \in [Master -> MasterRec] /\ ma'[m] = t /\ \A k \in Master \ {m} : ma'[k] = ma[k]
  BY <1>1, <1>13, <1>15 DEF TypeOK
<1>17. s.active # <<>> /\ g \in File /\ tag = <<g, fi[g].bit>> /\ tag \in AnyTag
  <2>1. s.active # <<>> /\ g \in File
    BY <1>4, <1>6 DEF MasterInv, MasterFits, MasterRec
  <2>2. fi[g].bit \in {0, 1}
    BY <1>1, <2>1 DEF TypeOK, FileRec
  <2> QED BY <2>1, <2>2 DEF TagOf, AnyTag, Tag
<1>18. v \in [Ent -> Seq(Request \cup Event)] /\ v[m] = Tail(u)
       /\ \A x \in Ent \ {m} : v[x] = up[x]
  BY <1>1, <1>4 DEF TypeOK
<1> HIDE DEF v, tag
<1>19. req \in {"READ", "WRITE"}
  OBVIOUS
<1> HIDE DEF req
<1>b. req \in ReqName \cup {"none"} /\ req # "none"
  BY <1>19 DEF ReqName
<1>20. PICK q : q = [k |-> "req", req |-> req, tag |-> tag]
  OBVIOUS
<1>c. /\ up' \in [Ent -> Seq(Request \cup Event)]
      /\ up'[m] = Append(Tail(u), q)
      /\ \A x \in Ent \ {m} : up'[x] = up[x]
  <2>1. Send(v, m, req, tag) /\ v \in [Ent -> Seq(Request \cup Event)] /\ tag \in AnyTag
    BY <1>8, <1>17, <1>18
  <2>2. /\ up' \in [Ent -> Seq(Request \cup Event)]
        /\ req # "none" => up'[m] = Append(v[m], [k |-> "req", req |-> req, tag |-> tag])
        /\ \A y \in Ent \ {m} : up'[y] = v[y]
    BY <1>4, <1>b, <2>1, SendFacts
  <2> QED BY <1>b, <1>18, <1>20, <2>2
<1>21. TypeOK'
  BY <1>1, <1>8, <1>16, <1>c DEF TypeOK
<1>22. OnlyMaster(m)
  BY <1>8, <1>16, <1>c DEF OnlyMaster
<1>23. ASSUME "cut" \notin ghost PROVE Owes(kind, fi, t, up'[m])
  <2>1. Balanced(kind, up[m], 1)
    BY <1>2, <1>3, <1>6, <1>23 DEF Arriving
  <2>2. PICK d \in Int : d = 1
    OBVIOUS
  <2>3. Tail(u) = <<>>
    BY <1>1, <1>4, <1>6, <2>1, <2>2, AfterAnswer
  <2>4. PICK z : z = Append(<<>>, q)
    OBVIOUS
  <2>a. z \in Seq({q}) /\ Len(z) = 1 /\ z[1] = q /\ DOMAIN z = {1}
    BY <2>4
  <2>b. up'[m] = z
    BY <1>c, <2>3, <2>4
  <2>5. Len(up'[m]) = 1 /\ up'[m][1] = q /\ DOMAIN up'[m] = {1}
    BY <2>a, <2>b
  <2>6. q.k = "req" /\ q.req = req /\ q.tag = tag
    BY <1>20
  <2>7. Balanced(kind, up'[m], c)
    BY <1>9, <1>19, <2>5, <2>6 DEF Balanced
  <2>8. \A i \in DOMAIN up'[m] : up'[m][i].tag = tag
    BY <2>5, <2>6
  <2> QED BY <1>6, <1>14, <1>17, <2>7, <2>8 DEF Owes
<1>24. Assigns(fi, t, m, up'[m], known)
  BY <1>4, <1>6, <1>14 DEF MasterInv, Assigns
<1>25. MasterFits(fi, t, m) /\ Rests(kind, t, ghost) /\ Used(t)
  BY <1>4, <1>6, <1>14 DEF MasterInv, MasterFits, Rests, Used
<1>26. MasterInv(kind, fi, t, m, up'[m], known, ghost)
  BY <1>23, <1>24, <1>25 DEF MasterInv
<1>27. \A f \in File : FileFits(kind, fi[f])
  BY <1>1 DEF Files
<1>28. present
  BY <1>4, PresentAtDelivery
<1> QED BY <1>8, <1>16, <1>21, <1>22, <1>26, <1>27, <1>28, MasterStep

\* A master that nobody has used, or whose last file has gone.
LEMMA NoMasterInv ==
  ASSUME NEW kd, NEW F, NEW m, NEW K, NEW G, m \notin K, \A f \in File : F[f].me # m
  PROVE  MasterInv(kd, F, NoMaster, m, <<>>, K, G)
<1>1. /\ NoMaster.st = "free" /\ NoMaster.active = <<>> /\ NoMaster.idle = <<>>
      /\ NoMaster.license_state = "Idle"
  BY DEF NoMaster
<1>2. ActiveOf(F, m) = {} /\ IdleOf(F, m) = {} /\ Once(<<>>) /\ Range(<<>>) = {}
  BY DEF ActiveOf, IdleOf, Once, Range
<1>3. MasterFits(F, NoMaster, m)
  BY <1>1, <1>2 DEF MasterFits
<1>4. Assigns(F, NoMaster, m, <<>>, K)
  BY <1>1, <1>2 DEF Assigns
<1>5. Rests(kd, NoMaster, G) /\ Used(NoMaster) /\ Owes(kd, F, NoMaster, <<>>)
  BY <1>1 DEF Rests, Used, Owes
<1> QED BY <1>3, <1>4, <1>5 DEF MasterInv

\* A master that does not exist has a master's fields.
LEMMA NoMasterType == NoMaster \in MasterRec
BY DEF NoMaster, MasterRec, MasterSt, AnyTag

\* me_removed: the master is freed.
LEMMA RemovedNext ==
  ASSUME IInv, NEW m \in Master, NEW u \in Deliveries(m), me_removed(m, u)
  PROVE  IInv'
<1>1. TypeOK /\ Files /\ Masters
  BY DEF IInv
<1>2. /\ ma[m].st = "RemovePending" /\ ~ma[m].timeout
      /\ ma' = [ma EXCEPT ![m] = NoMaster] /\ up' = [up EXCEPT ![m] = <<>>]
      /\ known' = known \ {m} /\ kind' = kind /\ present' = present /\ fi' = fi
      /\ ghost' = ghost \cup Note(Len(u) > 1 \/ m \in KnownAfter(m, Head(u)), "freed")
  BY DEF me_removed, MasterEvent
<1>3. PICK s : s = ma[m] /\ s.timeout = FALSE /\ s.st = "RemovePending"
  BY <1>1, <1>2 DEF TypeOK, MasterRec
<1>4. Arriving(m, u, s)
  BY <1>1, <1>3, AtDelivery
<1>5. /\ m \in Ent /\ up[m] # <<>>
      /\ s \in MasterRec /\ MasterInv(kind, fi, s, m, up[m], known, ghost)
      /\ "cut" \notin ghost => Head(u).k = "rc" /\ Head(u).req = "REMOVE" /\ Len(u) = 1
  BY <1>3, <1>4 DEF Arriving
<1>6. ghost' = ghost \/ (ghost' = ghost \cup {"freed"} /\ "cut" \in ghost)
  <2>1. CASE "cut" \in ghost
    BY <1>2, <2>1 DEF Note
  <2>2. CASE "cut" \notin ghost
    <3>1. Len(u) = 1 /\ Head(u).k = "rc" /\ Head(u).req = "REMOVE"
      BY <1>5, <2>2
    <3>2. m \notin KnownAfter(m, Head(u))
      BY <1>1, <1>5, <3>1, KnownAfterFacts
    <3>3. ~(Len(u) > 1)
      BY <3>1
    <3> QED BY <1>2, <3>2, <3>3 DEF Note
  <2> QED BY <2>1, <2>2
<1>7. \A f \in File : fi[f].me # m
  <2>1. Range(s.active) = {} /\ Range(s.idle) = {}
    BY <1>3, <1>5 DEF MasterInv, MasterFits, Range
  <2> QED BY <1>5, <2>1 DEF MasterInv, MasterFits, ActiveOf, IdleOf
<1>8. MasterInv(kind, fi, NoMaster, m, <<>>, known', ghost')
  BY <1>2, <1>7, NoMasterInv
<1>9. <<>> \in Seq(Request \cup Event)
  OBVIOUS
<1>10. up' \in [Ent -> Seq(Request \cup Event)] /\ up'[m] = <<>>
       /\ \A x \in Ent \ {m} : up'[x] = up[x]
  BY <1>1, <1>2, <1>5, <1>9 DEF TypeOK
<1>11. ma' \in [Master -> MasterRec] /\ ma'[m] = NoMaster
       /\ \A k \in Master \ {m} : ma'[k] = ma[k]
  BY <1>1, <1>2, NoMasterType DEF TypeOK
<1>12. TypeOK'
  BY <1>1, <1>2, <1>10, <1>11 DEF TypeOK
<1>13. OnlyMaster(m)
  BY <1>2, <1>10, <1>11 DEF OnlyMaster
<1>14. \A f \in File : FileFits(kind, fi[f])
  BY <1>1 DEF Files
<1>15. present
  BY <1>5, PresentAtDelivery
<1> QED BY <1>2, <1>6, <1>8, <1>10, <1>11, <1>12, <1>13, <1>14, <1>15, MasterStep

\* me_timeout: events for a master that was given up.
LEMMA TimeoutNext ==
  ASSUME IInv, NEW m \in Master, NEW u \in Deliveries(m), me_timeout(m, u)
  PROVE  IInv'
<1>1. TypeOK /\ Files /\ Masters
  BY DEF IInv
<1>2. /\ ma[m].timeout /\ up' = [up EXCEPT ![m] = Tail(u)]
      /\ known' = KnownAfter(m, Head(u))
      /\ kind' = kind /\ present' = present /\ fi' = fi /\ ma' = ma /\ ghost' = ghost
  BY DEF me_timeout
<1>3. PICK s : s = ma[m] /\ s.timeout
  BY <1>2
<1>4. Arriving(m, u, s)
  BY <1>1, <1>3, AtDelivery
<1>5. /\ m \in Ent /\ up[m] # <<>> /\ Tail(u) \in Seq(Request \cup Event)
      /\ s \in MasterRec /\ MasterInv(kind, fi, s, m, up[m], known, ghost)
      /\ s.st \notin {"free", "Idle", "OutOfService", "delayed"}
      /\ s.st = "AssignPending" => Tail(u) = <<>>
  BY <1>4 DEF Arriving
<1>6. Assigns(fi, s, m, Tail(u), known')
  BY <1>5 DEF MasterInv, Assigns
<1>7. MasterInv(kind, fi, s, m, Tail(u), known', ghost)
  BY <1>3, <1>5, <1>6 DEF MasterInv
<1>8. known' \subseteq Ent /\ \A x \in Ent \ {m} : x \in known' <=> x \in known
  BY <1>1, <1>2, <1>5, KnownAfterFacts
<1>9. up' \in [Ent -> Seq(Request \cup Event)] /\ up'[m] = Tail(u)
       /\ \A x \in Ent \ {m} : up'[x] = up[x]
  BY <1>1, <1>2, <1>5 DEF TypeOK
<1>10. TypeOK'
  BY <1>1, <1>2, <1>8, <1>9 DEF TypeOK
<1>11. OnlyMaster(m)
  BY <1>2, <1>8, <1>9 DEF OnlyMaster
<1>12. \A f \in File : FileFits(kind, fi[f])
  BY <1>1 DEF Files
<1>13. present
  BY <1>5, PresentAtDelivery
<1> QED BY <1>2, <1>3, <1>7, <1>9, <1>10, <1>11, <1>12, <1>13, MasterStep

\* xdi_ignores: the ASSIGN of a master is lost.
LEMMA IgnoresNext ==
  ASSUME IInv, NEW m \in Master, xdi_ignores(m)
  PROVE  IInv'
<1>1. TypeOK /\ Files /\ Masters
  BY DEF IInv
<1>2. /\ up[m] # <<>> /\ Head(up[m]).k = "req" /\ Head(up[m]).req = "ASSIGN"
      /\ up' = [up EXCEPT ![m] = Tail(up[m])]
      /\ kind' = kind /\ present' = present /\ fi' = fi /\ ma' = ma /\ ghost' = ghost
      /\ known' = known
  BY DEF xdi_ignores
<1>3. PICK s, v : s = ma[m] /\ v = up[m]
  OBVIOUS
<1>4. /\ m \in Ent /\ v \in Seq(Request \cup Event) /\ v # <<>> /\ Head(v) = v[1]
      /\ s \in MasterRec /\ MasterInv(kind, fi, s, m, v, known, ghost)
  BY <1>1, <1>2, <1>3, MasterIsOne DEF TypeOK, Masters
<1>5. Tail(v) \in Seq(Request \cup Event)
  BY <1>4
<1>6. s.st = "AssignPending" => Tail(v) = <<>>
  <2>1. s.st = "AssignPending" => Len(v) = 1
    BY <1>4 DEF MasterInv, Assigns
  <2> QED BY <1>4, <2>1, TailOfOne
<1>7. Assigns(fi, s, m, Tail(v), known)
  BY <1>4, <1>6 DEF MasterInv, Assigns
<1>8. "cut" \notin ghost => s.timeout \/ Owes(kind, fi, s, Tail(v))
  <2> SUFFICES ASSUME "cut" \notin ghost, ~s.timeout PROVE Owes(kind, fi, s, Tail(v))
    OBVIOUS
  <2>1. Owes(kind, fi, s, v) /\ v[1].k = "req" /\ v[1].req = "ASSIGN"
    BY <1>2, <1>3, <1>4 DEF MasterInv
  <2>2. ~Balanced(kind, v, s.rc_count)
    <3>1. 1 \in DOMAIN v
      BY <1>4
    <3> QED BY <2>1, <3>1 DEF Balanced
  <2>3. s.st \notin {"Assigned", "RemovePending", "ResponsePending", "Cancelled"}
    BY <1>4, <2>1, <2>2 DEF Owes
  <2> QED BY <2>3 DEF Owes
<1>9. MasterInv(kind, fi, s, m, Tail(v), known, ghost)
  BY <1>4, <1>7, <1>8 DEF MasterInv
<1>10. up' \in [Ent -> Seq(Request \cup Event)] /\ up'[m] = Tail(v)
       /\ \A x \in Ent \ {m} : up'[x] = up[x]
  BY <1>1, <1>2, <1>3, <1>4, <1>5 DEF TypeOK
<1>11. TypeOK'
  BY <1>1, <1>2, <1>10 DEF TypeOK
<1>12. OnlyMaster(m)
  BY <1>2, <1>10 DEF OnlyMaster
<1>13. \A f \in File : FileFits(kind, fi[f])
  BY <1>1 DEF Files
<1>14. present
  BY <1>2, <1>4, PresentAtDelivery
<1> QED BY <1>2, <1>3, <1>9, <1>10, <1>11, <1>12, <1>13, <1>14, MasterStep

\* Every callback of a master keeps the invariant.
LEMMA MasterCallback ==
  ASSUME IInv, NEW m \in Master, NEW u \in Deliveries(m),
         \/ me_assign_rc(m, u) \/ me_removed(m, u) \/ me_rc(m, u) \/ me_announced(m, u)
         \/ me_complete(m, u) \/ me_timeout(m, u)
         \/ license_rc(m, u) \/ license_cancelled(m, u) \/ license_ind(m, u)
  PROVE  IInv'
<1>1. TypeOK /\ Masters
  BY DEF IInv
<1>2. CASE \E r, F, G : Done(m, u, r, F, G) /\ Effect(m, u, r, F, G)
  BY <1>2, EffectNext
<1>3. CASE Announce(m, u) /\ ma[m].timeout = FALSE
  BY <1>3, AnnounceNext
<1>4. CASE Piece(m, u) /\ ma[m].timeout = FALSE
  BY <1>4, PieceNext
<1>5. ma[m].timeout \in BOOLEAN
  BY <1>1 DEF TypeOK, MasterRec
<1>6. CASE me_assign_rc(m, u)
  BY <1>1, <1>2, <1>6, AssignRcEffect
<1>7. CASE me_removed(m, u)
  BY <1>7, RemovedNext
<1>8. CASE me_rc(m, u)
  BY <1>1, <1>2, <1>8, RcEffect
<1>9. CASE me_announced(m, u)
  <2>1. ma[m].timeout = FALSE
    BY <1>5, <1>9 DEF me_announced, MasterEvent
  <2> QED BY <1>1, <1>2, <1>3, <1>9, <2>1, AnnouncedEffect
<1>10. CASE me_complete(m, u)
  BY <1>1, <1>2, <1>10, CompleteEffect
<1>11. CASE me_timeout(m, u)
  BY <1>11, TimeoutNext
<1>12. CASE license_rc(m, u)
  <2>1. ma[m].timeout = FALSE
    BY <1>5, <1>12 DEF license_rc, MasterEvent
  <2> QED BY <1>1, <1>2, <1>4, <1>12, <2>1, LicenseRcEffect
<1>13. CASE license_cancelled(m, u)
  BY <1>1, <1>2, <1>13, LicenseCancelledEffect
<1>14. CASE license_ind(m, u)
  <2>1. ma[m].timeout = FALSE
    BY <1>5, <1>14 DEF license_ind, MasterEvent
  <2> QED BY <1>1, <1>2, <1>3, <1>14, <2>1, LicenseIndEffect
<1> QED BY <1>6, <1>7, <1>8, <1>9, <1>10, <1>11, <1>12, <1>13, <1>14
=============================================================================
