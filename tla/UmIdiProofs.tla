---------------------------- MODULE UmIdiProofs ----------------------------
(***************************************************************************)
(* Proofs about the user mode IDI, for every set of files and masters: the *)
(* steps of the files keep the invariant of UmIdiMasterProofs, and what    *)
(* follows from it.                                                        *)
(***************************************************************************)
EXTENDS UmIdiMasterProofs

-----------------------------------------------------------------------------
(***************************************************************************)
(* The steps of a file f, with at most its own master m.                   *)
(***************************************************************************)
FileOnly(f) ==
  /\ \A g \in File \ {f} : fi'[g] = fi[g]
  /\ kind' = kind /\ present' = present

\* The ghosts only grow, and without a chain cut not by what must not happen.
GhostsGrow ==
  /\ ghost \subseteq ghost'
  /\ "wrong" \in ghost' => "wrong" \in ghost \/ "cut" \in ghost'
  /\ "freed" \in ghost' => "freed" \in ghost \/ "cut" \in ghost'

\* A step of a file keeps the invariant when it keeps what is said of the file
\* itself, and of the masters.
LEMMA FileStep ==
  ASSUME IInv, TypeOK', Masters', NEW f \in File, FileOnly(f),
         \A g \in File \ {f} : up'[g] = up[g] /\ (g \in known' <=> g \in known),
         present \/ (\A x \in Ent : Quiet(x)'),
         FileFits(kind, fi'[f]),
         kind = "man" \/ ~present => fi'[f].me = NULL,
         kind # "man" => up'[f] = <<>> /\ f \notin known',
         kind = "man" /\ present =>
           "TIMEOUT" \in fi'[f].status \/ EntityFits(f, fi'[f], up'[f], known'),
         fi'[f].st = "delayed" => "TIMEOUT" \in fi'[f].status /\ present,
         GhostsGrow
  PROVE  IInv'
<1>1. TypeOK /\ Files /\ Masters /\ Entities /\ AnswerToAsker /\ FreedIsQuiet
  BY DEF IInv
<1>2. /\ \A g \in File \ {f} : fi'[g] = fi[g]
      /\ kind' = kind /\ present' = present
  BY DEF FileOnly
<1>3. Files'
  BY <1>1, <1>2 DEF Files
<1>4. Entities'
  <2>1. present' = FALSE => \A g \in File : fi'[g].st # "delayed" /\ fi'[g].me = NULL
    BY <1>1, <1>2 DEF Entities
  <2>2. kind' # "man" => \A g \in File : up'[g] = <<>> /\ g \notin known'
    BY <1>1, <1>2 DEF Entities, Quiet
  <2>3. kind' = "man" => \A g \in File : fi'[g].me = NULL
    BY <1>1, <1>2 DEF Entities
  <2>4. kind' = "man" /\ present' =>
          \A g \in File : "TIMEOUT" \in fi'[g].status \/ EntityFits(g, fi'[g], up'[g], known')
    <3> SUFFICES ASSUME kind = "man", present, NEW g \in File \ {f}
                 PROVE  "TIMEOUT" \in fi[g].status \/ EntityFits(g, fi[g], up[g], known')
      BY <1>2
    <3>1. "TIMEOUT" \in fi[g].status \/ EntityFits(g, fi[g], up[g], known)
      BY <1>1 DEF Entities
    <3> QED BY <3>1 DEF EntityFits
  <2>5. \A g \in File : fi'[g].st = "delayed" => "TIMEOUT" \in fi'[g].status
    BY <1>1, <1>2 DEF Entities
  <2>6. present' \in BOOLEAN /\ (~present' => \A x \in Ent : Quiet(x)')
    BY <1>1, <1>2 DEF TypeOK
  <2> QED BY <2>1, <2>2, <2>3, <2>4, <2>5, <2>6 DEF Entities, Quiet
<1>5. AnswerToAsker' /\ FreedIsQuiet'
  BY <1>1 DEF AnswerToAsker, FreedIsQuiet, GhostsGrow
<1> QED BY <1>3, <1>4, <1>5 DEF IInv

\* The masters when only file f changes, and calmly.
LEMMA MastersCalm ==
  ASSUME TypeOK, TypeOK', Masters, NEW f \in File, FileOnly(f),
         ma' = ma,
         \A m \in Master : up'[m] = up[m] /\ (m \in known' <=> m \in known),
         fi'[f].me = fi[f].me,
         fi[f].me # NULL => Calm(fi'[f], fi[f], ma[fi[f].me]),
         ghost \subseteq ghost'
  PROVE  Masters'
<1> SUFFICES ASSUME NEW m \in Master
             PROVE  MasterInv(kind, fi', ma[m], m, up[m], known', ghost')
  BY DEF Masters, FileOnly
<1>1. MasterInv(kind, fi, ma[m], m, up[m], known, ghost)
  BY DEF Masters
<1>2. fi \in [File -> FileRec] /\ fi' \in [File -> FileRec] /\ ma[m] \in MasterRec
  BY DEF TypeOK
<1>3. \A g \in File : fi[g].me = m \/ fi'[g].me = m => Calm(fi'[g], fi[g], ma[m])
  <2> SUFFICES ASSUME NEW g \in File, fi[g].me = m \/ fi'[g].me = m
               PROVE  Calm(fi'[g], fi[g], ma[m])
    OBVIOUS
  <2>1. CASE g = f
    BY <2>1, MasterIsOne
  <2>2. CASE g # f
    <3>1. fi'[g] = fi[g]
      BY <2>2 DEF FileOnly
    <3> QED BY <3>1 DEF Calm
  <2> QED BY <2>1, <2>2
<1>4. m \in known' => m \in known
  OBVIOUS
<1> QED BY <1>1, <1>2, <1>3, <1>4, MasterCalm

\* The masters when file f and its master m change.
LEMMA MastersBut ==
  ASSUME TypeOK, TypeOK', Masters, NEW f \in File, FileOnly(f), NEW m \in Master,
         \A k \in Master \ {m} : ma'[k] = ma[k] /\ up'[k] = up[k]
                                 /\ (k \in known' <=> k \in known),
         fi[f].me \in {m, NULL}, fi'[f].me \in {m, NULL},
         ghost \subseteq ghost',
         MasterInv(kind, fi', ma'[m], m, up'[m], known', ghost')
  PROVE  Masters'
<1> SUFFICES ASSUME NEW k \in Master \ {m}
             PROVE  MasterInv(kind, fi', ma[k], k, up[k], known', ghost')
  BY DEF Masters, FileOnly
<1>1. MasterInv(kind, fi, ma[k], k, up[k], known, ghost)
  BY DEF Masters
<1>2. fi \in [File -> FileRec] /\ fi' \in [File -> FileRec] /\ ma[k] \in MasterRec
  BY DEF TypeOK
<1>3. \A g \in File : fi[g].me = k \/ fi'[g].me = k => fi'[g] = fi[g]
  <2>1. fi[f].me # k /\ fi'[f].me # k
    BY MasterIsOne
  <2> QED BY <2>1 DEF FileOnly
<1> QED BY <1>1, <1>2, <1>3, MasterAside

\* A step that changes nothing but the file f, to n.
LEMMA LocalStep ==
  ASSUME IInv, NEW f \in File, NEW n \in FileRec, fi' = [fi EXCEPT ![f] = n],
         kind' = kind, present' = present, ma' = ma, up' = up, known' = known,
         ghost' = ghost,
         FileFits(kind, n), n.me = fi[f].me,
         n.me # NULL => Calm(n, fi[f], ma[n.me]),
         kind = "man" /\ present =>
           "TIMEOUT" \in n.status \/ EntityFits(f, n, up[f], known),
         n.st = "delayed" => "TIMEOUT" \in n.status /\ present
  PROVE  IInv'
<1>1. TypeOK /\ Masters /\ Entities
  BY DEF IInv
<1>2. /\ fi' \in [File -> FileRec] /\ fi'[f] = n
      /\ \A g \in File \ {f} : fi'[g] = fi[g]
  BY <1>1 DEF TypeOK
<1>3. TypeOK' /\ FileOnly(f) /\ GhostsGrow
  BY <1>1, <1>2 DEF TypeOK, FileOnly, GhostsGrow
<1>4. Masters'
  BY <1>1, <1>2, <1>3, MastersCalm
<1>5. kind = "man" \/ ~present => n.me = NULL
  BY <1>1 DEF Entities
<1>6. /\ present \/ (\A x \in Ent : Quiet(x)')
      /\ kind # "man" => up'[f] = <<>> /\ f \notin known'
  BY <1>1 DEF Entities, Quiet
<1>7. f \in Ent
  BY DEF Ent
<1> QED BY <1>2, <1>3, <1>4, <1>5, <1>6, <1>7, FileStep

\* diva_um_timer_function: aborted is set outside the lock.
LEMMA TimerNext ==
  ASSUME IInv, NEW f \in File, diva_um_timer_function(f)
  PROVE  IInv'
<1>1. TypeOK /\ Files /\ Entities
  BY DEF IInv
<1>2. PICK e \in FileRec : e = fi[f]
  BY <1>1 DEF TypeOK
<1>3. PICK n : n = [e EXCEPT !.timer = FALSE, !.aborted = TRUE, !.handler = TRUE]
  OBVIOUS
<1>4. n \in FileRec
  BY <1>3 DEF FileRec
<1>5. /\ n.timer = FALSE /\ n.aborted = TRUE /\ n.handler = TRUE
      /\ n.st = e.st /\ n.me = e.me /\ n.on_active_q = e.on_active_q /\ n.Id = e.Id
      /\ n.rc_count = e.rc_count /\ n.status = e.status /\ n.rc = e.rc
      /\ n.buffer = e.buffer /\ n.bit = e.bit
  BY <1>3 DEF FileRec
<1>6. fi' = [fi EXCEPT ![f] = n] /\ e.timer
      /\ kind' = kind /\ present' = present /\ ma' = ma /\ up' = up /\ known' = known
      /\ ghost' = ghost
  BY <1>1, <1>2, <1>3 DEF diva_um_timer_function, TypeOK, FileRec
<1>7. FileFits(kind, e)
  BY <1>1, <1>2 DEF Files
<1>8. FileFits(kind, n)
  BY <1>5, <1>6, <1>7 DEF FileFits
<1>9. n.me # NULL => Calm(n, e, ma[n.me])
  BY <1>5 DEF Calm
<1>10. kind = "man" /\ present => "TIMEOUT" \in n.status \/ EntityFits(f, n, up[f], known)
  <2> SUFFICES ASSUME kind = "man", present, "TIMEOUT" \notin n.status
               PROVE  EntityFits(f, n, up[f], known)
    OBVIOUS
  <2>1. EntityFits(f, e, up[f], known)
    BY <1>1, <1>2, <1>5 DEF Entities
  <2> QED BY <1>5, <2>1 DEF EntityFits
<1>11. n.st = "delayed" => "TIMEOUT" \in n.status /\ present
  BY <1>1, <1>2, <1>5 DEF Entities, TypeOK
<1> QED BY <1>2, <1>4, <1>5, <1>6, <1>8, <1>9, <1>10, <1>11, LocalStep

\* diva_um_idi_read: the return code, or data.
LEMMA ReadNext ==
  ASSUME IInv, NEW f \in File, diva_um_idi_read(f)
  PROVE  IInv'
<1>1. TypeOK /\ Files /\ Entities
  BY DEF IInv
<1>2. PICK e \in FileRec : e = fi[f]
  BY <1>1 DEF TypeOK
<1>3. PICK n : /\ fi' = [fi EXCEPT ![f] = n]
               /\ \/ e.rc /\ n = [e EXCEPT !.rc = FALSE, !.status = @ \ {"RC_PENDING"}]
                  \/ e.data > 0 /\ n = [e EXCEPT !.data = @ - 1]
  BY <1>1, <1>2 DEF diva_um_idi_read, TypeOK, FileRec
<1>4. /\ n \in FileRec
      /\ n.timer = e.timer /\ n.aborted = e.aborted /\ n.handler = e.handler
      /\ n.st = e.st /\ n.me = e.me /\ n.on_active_q = e.on_active_q /\ n.Id = e.Id
      /\ n.rc_count = e.rc_count /\ n.buffer = e.buffer /\ n.bit = e.bit
      /\ \/ e.rc /\ ~n.rc /\ n.status = e.status \ {"RC_PENDING"}
         \/ n.rc = e.rc /\ n.status = e.status
  <2>1. CASE e.rc /\ n = [e EXCEPT !.rc = FALSE, !.status = @ \ {"RC_PENDING"}]
    <3>1. PICK S \in SUBSET StatusBit : S = e.status \ {"RC_PENDING"}
      BY DEF FileRec
    <3>2. n \in FileRec
      BY <2>1, <3>1 DEF FileRec
    <3> QED BY <2>1, <3>2 DEF FileRec
  <2>2. CASE e.data > 0 /\ n = [e EXCEPT !.data = @ - 1]
    <3>1. PICK d \in Nat : d = e.data - 1
      BY <2>2 DEF FileRec
    <3>2. n \in FileRec
      BY <2>2, <3>1 DEF FileRec
    <3> QED BY <2>2, <3>2 DEF FileRec
  <2> QED BY <1>3, <2>1, <2>2
<1>5. e.st = "open" /\ "REMOVE_PENDING" \notin e.status
      /\ kind' = kind /\ present' = present /\ ma' = ma /\ up' = up /\ known' = known
      /\ ghost' = ghost
  BY <1>2 DEF diva_um_idi_read
<1>6. FileFits(kind, e)
  BY <1>1, <1>2 DEF Files
<1>7. FileFits(kind, n)
  BY <1>4, <1>5, <1>6 DEF FileFits
<1>8. n.me # NULL => Calm(n, e, ma[n.me])
  BY <1>4 DEF Calm
<1>9. kind = "man" /\ present => "TIMEOUT" \in n.status \/ EntityFits(f, n, up[f], known)
  <2> SUFFICES ASSUME kind = "man", present, "TIMEOUT" \notin n.status
               PROVE  EntityFits(f, n, up[f], known)
    OBVIOUS
  <2>1. EntityFits(f, e, up[f], known)
    BY <1>1, <1>2, <1>4 DEF Entities
  <2> QED BY <1>4, <1>5, <2>1 DEF EntityFits
<1>10. fi' = [fi EXCEPT ![f] = n] /\ n \in FileRec /\ n.me = fi[f].me /\ n.st # "delayed"
  BY <1>2, <1>3, <1>4, <1>5
<1>11. n.me # NULL => Calm(n, fi[f], ma[n.me])
  BY <1>2, <1>8
<1> QED BY <1>5, <1>7, <1>9, <1>10, <1>11, LocalStep

\* What a logical entity may be asked.
LEMMA RequestType ==
  ASSUME NEW q \in Requests
  PROVE  q[1] \in {"READ", "WRITE"} /\ q[2] \in Nat
<1>1. LicLen \subseteq Nat
  BY UmIdiAssumption DEF UmIdiAssumption
<1>2. CASE kind = "license"
  <2>1. q \in {"WRITE"} \X LicLen
    BY <1>2 DEF Requests
  <2> QED BY <1>1, <2>1
<1>3. CASE kind # "license"
  <2>1. q \in {"READ", "WRITE"} \X {0}
    BY <1>3 DEF Requests
  <2> QED BY <2>1
<1> QED BY <1>2, <1>3

\* A write to a logical entity that waits overwrites its buffer.
LEMMA BusyNext ==
  ASSUME IInv, NEW f \in File, NEW q \in Requests, le_busy(f, q[1], q[2])
  PROVE  IInv'
<1>1. TypeOK /\ Files /\ Entities
  BY DEF IInv
<1>2. PICK e \in FileRec : e = fi[f]
  BY <1>1 DEF TypeOK
<1>3. q[1] \in {"READ", "WRITE"} /\ q[2] \in Nat
  BY RequestType
<1>4. PICK b \in {"READ", "WRITE"}, l \in Nat : b = q[1] /\ l = q[2]
  BY <1>3
<1>5. PICK n : n = [e EXCEPT !.buffer = b, !.len = l]
  OBVIOUS
<1>6. n \in FileRec
  BY <1>5 DEF FileRec
<1>7. /\ n.timer = e.timer /\ n.aborted = e.aborted /\ n.handler = e.handler
      /\ n.st = e.st /\ n.me = e.me /\ n.on_active_q = e.on_active_q /\ n.Id = e.Id
      /\ n.rc_count = e.rc_count /\ n.rc = e.rc /\ n.status = e.status
      /\ n.buffer = b /\ n.bit = e.bit
  BY <1>5 DEF FileRec
<1>8. kind # "man" /\ e.st = "open"
      /\ kind' = kind /\ present' = present /\ ma' = ma /\ up' = up /\ known' = known
      /\ ghost' = ghost
  BY <1>2 DEF le_busy, CanAsk, CanWrite
<1>9. fi' = [fi EXCEPT ![f] = n]
  <2>1. fi' = [fi EXCEPT ![f].buffer = b, ![f].len = l]
    BY <1>4 DEF le_busy
  <2> QED BY <1>1, <1>2, <1>5, <2>1 DEF TypeOK, FileRec
<1>10. FileFits(kind, e)
  BY <1>1, <1>2 DEF Files
<1>11. FileFits(kind, n)
  BY <1>7, <1>8, <1>10 DEF FileFits
<1>12. n.me # NULL => Calm(n, e, ma[n.me])
  BY <1>7 DEF Calm
<1> QED BY <1>2, <1>6, <1>7, <1>8, <1>9, <1>11, <1>12, LocalStep

\* remove_entity: the first half of closing a management entity.
LEMMA RemoveEntityNext ==
  ASSUME IInv, NEW f \in File, remove_entity(f)
  PROVE  IInv'
<1>1. TypeOK /\ Files /\ Entities
  BY DEF IInv
<1>2. PICK e \in FileRec : e = fi[f]
  BY <1>1 DEF TypeOK
<1>3. PICK S \in SUBSET StatusBit :
        S = IF present THEN e.status \cup {"REMOVE_PENDING"} ELSE e.status
  BY DEF FileRec, StatusBit
<1>4. PICK a \in FileRec : a = StopWdog(Marked(e))
                           /\ a = [e EXCEPT !.status = S, !.timer = FALSE]
  <2>1. [e EXCEPT !.status = S, !.timer = FALSE] \in FileRec
    BY DEF FileRec
  <2>2. StopWdog(Marked(e)) = [e EXCEPT !.status = S, !.timer = FALSE]
    BY <1>3 DEF StopWdog, Marked, FileRec
  <2> QED BY <2>1, <2>2
<1>5. /\ a.st = e.st /\ a.me = e.me /\ a.on_active_q = e.on_active_q /\ a.Id = e.Id
      /\ a.rc_count = e.rc_count /\ a.status = S /\ a.rc = e.rc /\ a.bit = e.bit
      /\ a.aborted = e.aborted /\ a.handler = e.handler
  BY <1>4 DEF FileRec
<1>6. PICK n : n = IF ~IsAssigned(a) \/ a.aborted THEN [a EXCEPT !.st = "deleting"]
                   ELSE [a EXCEPT !.st = "removing", !.timer = TRUE]
  OBVIOUS
<1>7. /\ n \in FileRec /\ n.me = a.me /\ n.on_active_q = a.on_active_q /\ n.Id = a.Id
      /\ n.rc_count = a.rc_count /\ n.status = a.status /\ n.rc = a.rc /\ n.bit = a.bit
      /\ n.aborted = a.aborted /\ n.handler = a.handler
      /\ \/ n.st = "deleting" /\ (~IsAssigned(a) \/ a.aborted)
         \/ n.st = "removing" /\ n.timer /\ IsAssigned(a)
  <2>1. CASE ~IsAssigned(a) \/ a.aborted
    <3>1. n = [a EXCEPT !.st = "deleting"]
      BY <1>6, <2>1
    <3>2. n \in FileRec
      BY <3>1 DEF FileRec, FileSt
    <3> QED BY <2>1, <3>1, <3>2 DEF FileRec
  <2>2. CASE ~(~IsAssigned(a) \/ a.aborted)
    <3>1. n = [a EXCEPT !.st = "removing", !.timer = TRUE]
      BY <1>6, <2>2
    <3>2. n \in FileRec
      BY <3>1 DEF FileRec, FileSt
    <3> QED BY <2>2, <3>1, <3>2 DEF FileRec
  <2> QED BY <2>1, <2>2
<1>8. fi' = [fi EXCEPT ![f] = n]
  <2>1. StartWdog([a EXCEPT !.st = "removing"]) = [a EXCEPT !.st = "removing", !.timer = TRUE]
    BY DEF StartWdog, FileRec
  <2> QED BY <1>2, <1>4, <1>6, <2>1 DEF remove_entity
<1>9. kind = "man" /\ e.st = "open"
      /\ kind' = kind /\ present' = present /\ ma' = ma /\ up' = up /\ known' = known
      /\ ghost' = ghost
  BY <1>2 DEF remove_entity
<1>10. n.me = NULL /\ n.me = e.me
  BY <1>1, <1>2, <1>5, <1>7, <1>9 DEF Entities
<1>11. n.st = "removing" => "REMOVE_PENDING" \in n.status /\ n.timer
  BY <1>3, <1>5, <1>7 DEF IsAssigned
<1>12. FileFits(kind, n)
  BY <1>7, <1>9, <1>10, <1>11 DEF FileFits
<1>13. kind = "man" /\ present => "TIMEOUT" \in n.status \/ EntityFits(f, n, up[f], known)
  <2> SUFFICES ASSUME present, "TIMEOUT" \notin n.status
               PROVE  EntityFits(f, n, up[f], known)
    OBVIOUS
  <2>1. n.status = e.status \cup {"REMOVE_PENDING"}
    BY <1>3, <1>5, <1>7
  <2>2. EntityFits(f, e, up[f], known)
    BY <1>1, <1>2, <1>9, <2>1 DEF Entities
  <2>3. n.st = "deleting" => n.handler \/ ~n.Id
    BY <1>5, <1>7, <2>2 DEF IsAssigned, EntityFits
  <2>4. n.Id = e.Id /\ n.rc_count = e.rc_count /\ n.rc = e.rc /\ n.bit = e.bit
        /\ n.aborted = e.aborted /\ n.handler = e.handler /\ n.st # "open"
    BY <1>5, <1>7
  <2> QED BY <2>1, <2>2, <2>3, <2>4 DEF EntityFits
<1>14. n.st # "delayed"
  BY <1>7
<1> QED BY <1>2, <1>7, <1>8, <1>9, <1>10, <1>12, <1>13, <1>14, LocalStep

\* The second half of a close begins to wait for the card.
LEMMA EntityRemovedNext ==
  ASSUME IInv, NEW f \in File, entity_removed(f)
  PROVE  IInv'
<1>1. TypeOK /\ Files /\ Entities
  BY DEF IInv
<1>2. PICK e \in FileRec : e = fi[f]
  BY <1>1 DEF TypeOK
<1>3. PICK S \in SUBSET StatusBit :
        S = IF present THEN e.status \cup {"REMOVE_PENDING"} ELSE e.status
  BY DEF FileRec, StatusBit
<1>4. PICK n : n = [e EXCEPT !.status = S, !.timer = FALSE, !.st = "deleting",
                             !.aborted = FALSE]
  OBVIOUS
<1>5. n \in FileRec
  BY <1>4 DEF FileRec, FileSt
<1>6. /\ n.st = "deleting" /\ n.me = e.me /\ n.on_active_q = e.on_active_q /\ n.Id = e.Id
      /\ n.rc_count = e.rc_count /\ n.status = S /\ n.rc = e.rc /\ n.bit = e.bit
      /\ n.aborted = FALSE /\ n.handler = e.handler
  BY <1>4 DEF FileRec, FileSt
<1>7. fi' = [fi EXCEPT ![f] = n]
  <2>1. [StopWdog(Marked(e)) EXCEPT !.st = "deleting", !.aborted = FALSE] = n
    BY <1>3, <1>4 DEF StopWdog, Marked, FileRec
  <2> QED BY <1>2, <2>1 DEF entity_removed
<1>8. e.st = "waiting" /\ (~IsAssigned(e) \/ e.aborted)
      /\ kind' = kind /\ present' = present /\ ma' = ma /\ up' = up /\ known' = known
      /\ ghost' = ghost
  BY <1>2 DEF entity_removed
<1>9. FileFits(kind, e)
  BY <1>1, <1>2 DEF Files
<1>10. kind = "man" /\ n.me = NULL
  BY <1>6, <1>8, <1>9 DEF FileFits
<1>11. FileFits(kind, n)
  BY <1>6, <1>10 DEF FileFits
<1>12. kind = "man" /\ present => "TIMEOUT" \in n.status \/ EntityFits(f, n, up[f], known)
  <2> SUFFICES ASSUME present, "TIMEOUT" \notin n.status
               PROVE  EntityFits(f, n, up[f], known)
    OBVIOUS
  <2>1. n.status = e.status \cup {"REMOVE_PENDING"}
    BY <1>3, <1>6
  <2>2. EntityFits(f, e, up[f], known)
    BY <1>1, <1>2, <1>10, <2>1 DEF Entities
  <2>3. n.handler \/ ~n.Id
    BY <1>6, <1>8, <2>2 DEF IsAssigned, EntityFits
  <2> QED BY <1>6, <2>1, <2>2, <2>3 DEF EntityFits
<1> QED BY <1>2, <1>5, <1>6, <1>7, <1>8, <1>10, <1>11, <1>12, LocalStep

\* A file that is not open.
LEMMA ClosedFacts ==
  /\ Closed \in FileRec /\ Closed.st = "closed" /\ Closed.me = NULL
  /\ Closed.on_active_q = FALSE /\ Closed.Id = FALSE /\ Closed.rc_count = 0
  /\ Closed.status = {} /\ Closed.rc = FALSE /\ Closed.timer = FALSE
  /\ Closed.aborted = FALSE /\ Closed.handler = FALSE /\ Closed.bit = 0
<1>1. PICK z \in Nat : z = 0
  OBVIOUS
<1>2. PICK b \in {0, 1} : b = 0
  OBVIOUS
<1>3. PICK c : c = [st |-> "closed", me |-> NULL, on_active_q |-> FALSE, Id |-> FALSE,
   rc_count |-> z, status |-> {}, Req |-> "none", buffer |-> "none",
   len |-> z, rc |-> FALSE, data |-> z, bit |-> b,
   timer |-> FALSE, handler |-> FALSE, aborted |-> FALSE]
  OBVIOUS
<1>4. Closed = c
  BY <1>1, <1>2, <1>3, Zenon DEF Closed
<1>5. c \in FileRec
  BY <1>3 DEF FileRec, FileSt
<1>6. /\ c.st = "closed" /\ c.me = NULL /\ c.on_active_q = FALSE
      /\ c.Id = FALSE /\ c.rc_count = 0 /\ c.status = {} /\ c.rc = FALSE
      /\ c.timer = FALSE /\ c.aborted = FALSE /\ c.handler = FALSE /\ c.bit = 0
  BY <1>1, <1>2, <1>3
<1> QED BY <1>4, <1>5, <1>6

\* A freed file.
LEMMA FreedFacts ==
  ASSUME NEW e \in FileRec
  PROVE  LET n == Freed(e) IN
         /\ n \in FileRec /\ n.st = "closed" /\ n.me = NULL /\ n.on_active_q = FALSE
         /\ n.Id = FALSE /\ n.rc_count = 0 /\ n.status = {} /\ n.rc = FALSE
         /\ n.timer = FALSE /\ n.aborted = FALSE /\ n.handler = e.handler /\ n.bit = 0
<1>1. PICK c \in FileRec : c = Closed
  BY ClosedFacts
<1>2. PICK h \in BOOLEAN : h = e.handler
  BY DEF FileRec
<1>3. PICK n : n = [c EXCEPT !.handler = h]
  OBVIOUS
<1>4. Freed(e) = n
  BY <1>1, <1>2, <1>3 DEF Freed
<1>5. n \in FileRec
  BY <1>3 DEF FileRec
<1>6. /\ n.st = c.st /\ n.me = c.me /\ n.on_active_q = c.on_active_q /\ n.Id = c.Id
      /\ n.rc_count = c.rc_count /\ n.status = c.status /\ n.rc = c.rc
      /\ n.timer = c.timer /\ n.aborted = c.aborted /\ n.handler = h /\ n.bit = c.bit
  BY <1>3 DEF FileRec
<1> QED BY <1>1, <1>2, <1>4, <1>5, <1>6, ClosedFacts

\* A file that is not open fits.
LEMMA FreedFits ==
  ASSUME NEW kd, NEW e \in FileRec
  PROVE  FileFits(kd, Freed(e))
BY FreedFacts DEF FileFits

\* divas_um_idi_delete_entity: the entity is kept, or freed.
LEMMA DeleteNext ==
  ASSUME IInv, NEW f \in File, divas_um_idi_delete_entity(f)
  PROVE  IInv'
<1>1. TypeOK /\ Files /\ Masters /\ Entities
  BY DEF IInv
<1>2. PICK e \in FileRec : e = fi[f]
  BY <1>1 DEF TypeOK
<1>3. e.st = "deleting" /\ kind' = kind /\ present' = present /\ ma' = ma
  BY <1>2 DEF divas_um_idi_delete_entity
<1>4. FileFits(kind, e)
  BY <1>1, <1>2 DEF Files
<1>5. kind = "man" /\ e.me = NULL
  BY <1>3, <1>4 DEF FileFits
<1>6. CASE /\ Late(e)
           /\ fi' = [fi EXCEPT ![f] = [StopWdog(e) EXCEPT !.st = "delayed"]]
           /\ UNCHANGED <<up, known, ghost>>
  <2>1. PICK n : n = [e EXCEPT !.timer = FALSE, !.st = "delayed"]
    OBVIOUS
  <2>2. n \in FileRec /\ n = [StopWdog(e) EXCEPT !.st = "delayed"]
    BY <2>1 DEF FileRec, FileSt, StopWdog
  <2>3. n.st = "delayed" /\ n.me = NULL /\ n.status = e.status
    BY <2>1, <1>5 DEF FileRec, FileSt
  <2>4. "TIMEOUT" \in n.status /\ present
    BY <1>6, <2>3 DEF Late
  <2>5. FileFits(kind, n)
    BY <1>5, <2>3 DEF FileFits
  <2> QED BY <1>2, <1>3, <1>5, <1>6, <2>2, <2>3, <2>4, <2>5, LocalStep
<1>7. CASE /\ ~Late(e)
           /\ fi' = [fi EXCEPT ![f] = Freed(e)]
           /\ up' = [up EXCEPT ![f] = <<>>]
           /\ known' = known \ {f}
           /\ ghost' = ghost \cup Note(~Quiet(f), IF e.handler THEN "race" ELSE "freed")
  <2>1. PICK n : n = Freed(e)
    OBVIOUS
  <2>2. n \in FileRec /\ n.st = "closed" /\ n.me = NULL /\ n.Id = FALSE /\ n.rc = FALSE
        /\ n.aborted = FALSE /\ n.status = {}
    BY <2>1, FreedFacts
  <2>3. <<>> \in Seq(Request \cup Event) /\ f \in Ent
    BY DEF Ent
  <2>4. /\ up' \in [Ent -> Seq(Request \cup Event)] /\ up'[f] = <<>>
        /\ \A x \in Ent \ {f} : up'[x] = up[x]
    BY <1>1, <1>7, <2>3 DEF TypeOK
  <2>5. fi' \in [File -> FileRec] /\ fi'[f] = n /\ \A g \in File \ {f} : fi'[g] = fi[g]
    BY <1>1, <1>7, <2>1, <2>2 DEF TypeOK
  <2>6. TypeOK' /\ FileOnly(f)
    BY <1>1, <1>3, <1>7, <2>4, <2>5 DEF TypeOK, FileOnly
  <2>7. \A x \in Ent \ {f} : up'[x] = up[x] /\ (x \in known' <=> x \in known)
    BY <1>7, <2>4
  <2>8. \A m \in Master : m \in Ent \ {f}
    BY MasterIsOne
  <2>9. GhostsGrow
    <3>1. e.handler = TRUE \/ Quiet(f)
      <4>1. CASE present
        <5>1. "TIMEOUT" \notin e.status
          BY <1>7, <4>1 DEF Late
        <5>2. EntityFits(f, e, up[f], known)
          BY <1>1, <1>2, <1>5, <4>1, <5>1 DEF Entities
        <5> QED BY <1>3, <5>2 DEF EntityFits, Quiet, FileRec
      <4>2. CASE ~present
        BY <1>1, <2>3, <4>2 DEF Entities
      <4> QED BY <4>1, <4>2
    <3>2. ghost' = ghost \/ ghost' = ghost \cup {"race"}
      <4>1. CASE e.handler = TRUE
        BY <1>7, <4>1 DEF Note
      <4>2. CASE Quiet(f)
        BY <1>7, <4>2 DEF Note
      <4> QED BY <3>1, <4>1, <4>2
    <3> QED BY <3>2 DEF GhostsGrow
  <2>10. ghost \subseteq ghost'
    BY <2>9 DEF GhostsGrow
  <2>11. Masters'
    BY <1>1, <1>2, <1>3, <1>5, <2>2, <2>5, <2>6, <2>7, <2>8, <2>10, MastersCalm
  <2>12. present \/ (\A x \in Ent : Quiet(x)')
    <3>1. up'[f] = <<>> /\ f \notin known'
      BY <1>7, <2>4
    <3> QED BY <1>1, <2>7, <3>1 DEF Entities, Quiet
  <2>13. FileFits(kind, n)
    BY <2>1, FreedFits
  <2>14. EntityFits(f, n, <<>>, known')
    BY <1>7, <2>2 DEF EntityFits, Owed
  <2>15. \A g \in File \ {f} : up'[g] = up[g] /\ (g \in known' <=> g \in known)
    BY <2>7 DEF Ent
  <2>16. EntityFits(f, fi'[f], up'[f], known')
    BY <2>4, <2>5, <2>14
  <2>17. fi'[f].me = NULL /\ FileFits(kind, fi'[f]) /\ fi'[f].st # "delayed"
    BY <2>2, <2>5, <2>13
  <2> QED BY <1>5, <2>6, <2>9, <2>11, <2>12, <2>15, <2>16, <2>17, FileStep
<1> QED BY <1>2, <1>6, <1>7 DEF divas_um_idi_delete_entity

\* divas_um_notify_timeout: the second half of the watchdog.
LEMMA NotifyNext ==
  ASSUME IInv, NEW f \in File, divas_um_notify_timeout(f)
  PROVE  IInv'
<1>1. TypeOK /\ Files /\ Masters /\ Entities
  BY DEF IInv
<1>2. PICK e \in FileRec : e = fi[f]
  BY <1>1 DEF TypeOK
<1> DEFINE man == kind = "man" /\ present /\ e.st \in {"open", "removing", "waiting", "deleting"}
           log == kind = "idi" /\ e.me # NULL
<1>3. PICK S \in SUBSET StatusBit : S = IF man THEN e.status \cup {"TIMEOUT"} ELSE e.status
  BY DEF FileRec, StatusBit
<1>4. PICK n : n = [e EXCEPT !.handler = FALSE, !.status = S]
  OBVIOUS
<1>5. n \in FileRec
  BY <1>4 DEF FileRec
<1>6. /\ n.timer = e.timer /\ n.aborted = e.aborted /\ n.handler = FALSE
      /\ n.st = e.st /\ n.me = e.me /\ n.on_active_q = e.on_active_q /\ n.Id = e.Id
      /\ n.rc_count = e.rc_count /\ n.rc = e.rc /\ n.status = S
      /\ n.buffer = e.buffer /\ n.bit = e.bit
  BY <1>4 DEF FileRec
<1>7. fi' = [fi EXCEPT ![f] = n]
  <2>1. fi' = [fi EXCEPT ![f].handler = FALSE,
                 ![f].status = IF man THEN @ \cup {"TIMEOUT"} ELSE @]
    BY <1>2 DEF divas_um_notify_timeout
  <2> QED BY <1>1, <1>2, <1>3, <1>4, <2>1 DEF TypeOK, FileRec
<1>8. /\ ma' = IF log THEN [ma EXCEPT ![e.me].timeout = TRUE] ELSE ma
      /\ kind' = kind /\ present' = present /\ up' = up /\ known' = known /\ ghost' = ghost
  BY <1>2 DEF divas_um_notify_timeout
<1>9. FileFits(kind, e)
  BY <1>1, <1>2 DEF Files
<1>10. e.me # NULL => S = e.status
  BY <1>3, <1>9 DEF FileFits
<1>11. FileFits(kind, n)
  <2>1. CASE e.me # NULL
    BY <1>6, <1>9, <1>10, <2>1 DEF FileFits
  <2>2. CASE e.me = NULL
    <3>1. e.st = "closed" => S = e.status
      BY <1>3
    <3>2. e.status \subseteq S
      BY <1>3
    <3> QED BY <1>6, <1>9, <2>2, <3>1, <3>2 DEF FileFits
  <2> QED BY <2>1, <2>2
<1>12. n.me # NULL => Calm(n, e, ma[n.me])
  BY <1>6, <1>10 DEF Calm
<1>13. n.st = "delayed" => "TIMEOUT" \in n.status /\ present
  BY <1>1, <1>2, <1>3, <1>6 DEF Entities, TypeOK
<1>14. kind = "man" /\ present => "TIMEOUT" \in n.status \/ EntityFits(f, n, up[f], known)
  <2> SUFFICES ASSUME kind = "man", present, "TIMEOUT" \notin n.status
               PROVE  EntityFits(f, n, up[f], known)
    OBVIOUS
  <2>1. ~man /\ S = e.status
    BY <1>3, <1>6
  <2>2. e.st = "closed"
    BY <1>13, <1>6, <2>1 DEF FileRec, FileSt
  <2>3. EntityFits(f, e, up[f], known) /\ ~e.aborted
    BY <1>1, <1>2, <1>6, <1>9, <2>1, <2>2 DEF Entities, FileFits
  <2> QED BY <1>6, <2>1, <2>2, <2>3 DEF EntityFits
<1> HIDE DEF man
<1>15. CASE ~log
  <2>1. ma' = ma
    BY <1>8, <1>15
  <2> QED BY <1>2, <1>5, <1>6, <1>7, <1>8, <1>11, <1>12, <1>13, <1>14, <2>1, LocalStep
<1>16. CASE log
  <2>1. PICK m \in Master : m = e.me
    BY <1>16 DEF FileRec
  <2>2. PICK r \in MasterRec : r = ma[m]
    BY <1>1 DEF TypeOK
  <2>3. PICK t : t = [r EXCEPT !.timeout = TRUE]
    OBVIOUS
  <2>4. t \in MasterRec
    BY <2>3 DEF MasterRec
  <2>5. ma' \in [Master -> MasterRec] /\ ma'[m] = t /\ \A k \in Master \ {m} : ma'[k] = ma[k]
    BY <1>1, <1>8, <1>16, <2>1, <2>2, <2>3, <2>4 DEF TypeOK
  <2>6. fi' \in [File -> FileRec] /\ fi'[f] = n /\ \A g \in File \ {f} : fi'[g] = fi[g]
    BY <1>1, <1>5, <1>7 DEF TypeOK
  <2>7. TypeOK' /\ FileOnly(f) /\ GhostsGrow
    BY <1>1, <1>8, <2>5, <2>6 DEF TypeOK, FileOnly, GhostsGrow
  <2>8. MasterInv(kind, fi, r, m, up[m], known, ghost)
    BY <1>1, <2>2 DEF Masters
  <2>9. \A g \in File : fi[g].me = m \/ fi'[g].me = m => Calm(fi'[g], fi[g], r)
    BY <1>2, <1>6, <1>12, <2>1, <2>2, <2>6, MasterIsOne DEF Calm
  <2>10. MasterInv(kind, fi', r, m, up[m], known, ghost)
    BY <1>1, <2>6, <2>8, <2>9, MasterCalm DEF TypeOK
  <2>11. MasterInv(kind, fi', t, m, up[m], known, ghost)
    BY <2>3, <2>4, <2>10, MasterGivenUp
  <2>12. Masters'
    BY <1>1, <1>2, <1>6, <1>8, <2>1, <2>5, <2>6, <2>7, <2>11, MastersBut
  <2>13. kind = "idi" /\ present
    BY <1>1, <1>2, <1>16 DEF Entities
  <2>14. up'[f] = <<>> /\ f \notin known'
    BY <1>1, <1>8, <2>13 DEF Entities, Quiet
  <2> QED BY <1>8, <1>11, <1>13, <2>6, <2>7, <2>12, <2>13, <2>14, FileStep
<1> QED BY <1>15, <1>16

\* A file that joins a master m, which is in use or new.
LEMMA JoinInv ==
  ASSUME NEW kd, NEW F \in [File -> FileRec], NEW E \in [File -> FileRec],
         NEW f \in File, NEW m \in Master,
         NEW r \in MasterRec, NEW t \in MasterRec, NEW v, NEW K, NEW G,
         MasterInv(kd, F, r, m, v, K, G), kd # "man",
         r.st \in {"free", "Idle", "AssignPending", "Assigned", "ResponsePending", "Cancelled"},
         t.st = IF r.st = "free" THEN "Idle" ELSE r.st,
         t.idle = Append(r.idle, f), t.active = r.active, t.timeout = r.timeout,
         t.rc_count = r.rc_count, t.license_state = r.license_state,
         F[f].me # m, E[f].me = m, E[f].on_active_q = FALSE, E[f].Id = FALSE,
         \A g \in File \ {f} : E[g] = F[g]
  PROVE  MasterInv(kd, E, t, m, v, K, G)
<1>1. /\ Once(r.active) /\ Once(r.idle)
      /\ Range(r.active) = ActiveOf(F, m) /\ Range(r.idle) = IdleOf(F, m)
      /\ r.idle \in Seq(File) /\ r.active \in Seq(File)
      /\ f \notin ActiveOf(F, m) /\ f \notin IdleOf(F, m)
  BY DEF MasterInv, MasterFits, MasterRec, ActiveOf, IdleOf
<1>2. /\ Once(t.idle) /\ Range(t.idle) = IdleOf(F, m) \cup {f} /\ t.idle # <<>>
  BY <1>1, OnceAppend
<1>3. ActiveOf(E, m) = ActiveOf(F, m)
  BY DEF ActiveOf
<1>4. IdleOf(E, m) = IdleOf(F, m) \cup {f}
  BY DEF IdleOf
<1>5. t.st \notin {"free", "delayed", "RemovePending", "OutOfService"}
      /\ (t.st # "Idle" => t.st = r.st) /\ (t.st = "Idle" => r.st \in {"free", "Idle"})
  OBVIOUS
<1>6. MasterFits(E, t, m)
  BY <1>1, <1>2, <1>3, <1>4, <1>5 DEF MasterInv, MasterFits
<1>7. Used(t)
  BY <1>2 DEF Used
<1>8. Rests(kd, t, G)
  BY <1>5 DEF MasterInv, Rests
<1>9. \A g \in ActiveOf(F, m) : g \in File /\ E[g] = F[g]
  BY <1>1 DEF ActiveOf
<1>10. Assigns(E, t, m, v, K)
  <2>1. t.st \in {"free", "Idle", "OutOfService", "delayed"} => v = <<>> /\ m \notin K
    BY <1>5 DEF MasterInv, Assigns
  <2>2. t.st = "AssignPending" =>
         \/ v = <<>>
         \/ Len(v) = 1 /\ v[1].k = "req" /\ v[1].req = "ASSIGN" /\ m \notin K
    BY <1>5 DEF MasterInv, Assigns
  <2>3. t.st \in {"free", "Idle", "AssignPending"} => t.license_state = "Idle"
    BY <1>5 DEF MasterInv, Assigns
  <2>4. t.st = "Idle" => t.active = <<>>
    BY <1>5 DEF MasterInv, Assigns, MasterFits
  <2>5. t.st = "AssignPending" =>
          \A g \in ActiveOf(E, m) : "ASSIGN_PENDING" \in E[g].status
    BY <1>3, <1>5, <1>9 DEF MasterInv, Assigns
  <2>6. t.st # "AssignPending" => \A g \in ActiveOf(E, m) : E[g].buffer # "none"
    <3> SUFFICES ASSUME t.st # "AssignPending", NEW g \in ActiveOf(F, m)
                 PROVE  F[g].buffer # "none"
      BY <1>3, <1>9
    <3>1. r.st # "AssignPending"
      OBVIOUS
    <3> QED BY <3>1 DEF MasterInv, Assigns
  <2>7. \A g \in File : E[g].me = m /\ E[g].Id =>
          t.st \in {"Assigned", "ResponsePending", "Cancelled"}
    <3> SUFFICES ASSUME NEW g \in File, E[g].me = m, E[g].Id
                 PROVE  t.st \in {"Assigned", "ResponsePending", "Cancelled"}
      OBVIOUS
    <3>1. F[g].me = m /\ F[g].Id
      OBVIOUS
    <3>2. r.st \in {"Assigned", "ResponsePending", "Cancelled"}
      BY <3>1 DEF MasterInv, Assigns
    <3> QED BY <3>2
  <2> QED BY <2>1, <2>2, <2>3, <2>4, <2>5, <2>6, <2>7 DEF Assigns
<1>11. ASSUME Owes(kd, F, r, v) PROVE Owes(kd, E, t, v)
  <2>1. CASE t.st = "ResponsePending"
    <3>1. r.st = "ResponsePending" /\ r.active # <<>>
      BY <2>1, <1>5 DEF MasterInv, MasterFits
    <3>2. Head(r.active) \in ActiveOf(F, m)
      BY <1>1, <3>1 DEF Range
    <3>3. E[Head(t.active)].bit = F[Head(r.active)].bit /\ t.active = r.active
      BY <1>9, <3>2
    <3> QED BY <1>11, <2>1, <3>1, <3>3 DEF Owes
  <2>2. CASE t.st # "ResponsePending"
    BY <1>5, <1>11, <2>2 DEF Owes
  <2> QED BY <2>1, <2>2
<1> QED BY <1>6, <1>7, <1>8, <1>10, <1>11 DEF MasterInv

\* um_idi_open_adapter.
LEMMA OpenNext ==
  ASSUME IInv, NEW f \in File, um_idi_open_adapter(f)
  PROVE  IInv'
<1>1. TypeOK /\ Files /\ Masters /\ Entities
  BY DEF IInv
<1>2. PICK e \in FileRec : e = fi[f]
  BY <1>1 DEF TypeOK
<1>3. /\ e.st = "closed" /\ present
      /\ kind' = kind /\ present' = present /\ up' = up /\ known' = known /\ ghost' = ghost
  BY <1>2 DEF um_idi_open_adapter
<1>4. /\ e.me = NULL /\ ~e.on_active_q /\ ~e.Id /\ e.status = {}
      /\ e.rc_count = 0 /\ ~e.rc /\ ~e.timer /\ ~e.aborted
  BY <1>1, <1>2, <1>3 DEF Files, FileFits
<1>5. CASE kind = "man" /\ fi' = [fi EXCEPT ![f].st = "open"] /\ ma' = ma
  <2>1. PICK n : n = [e EXCEPT !.st = "open"]
    OBVIOUS
  <2>2. n \in FileRec
    BY <2>1 DEF FileRec, FileSt
  <2>3. /\ n.st = "open" /\ n.me = NULL /\ n.on_active_q = e.on_active_q /\ n.Id = e.Id
        /\ n.rc_count = e.rc_count /\ n.status = e.status /\ n.rc = e.rc /\ n.bit = e.bit
        /\ n.aborted = e.aborted /\ n.handler = e.handler
    BY <1>4, <2>1 DEF FileRec, FileSt
  <2>4. fi' = [fi EXCEPT ![f] = n]
    BY <1>2, <1>5, <2>1
  <2>5. FileFits(kind, n)
    BY <1>4, <2>3 DEF FileFits
  <2>6. EntityFits(f, e, up[f], known)
    BY <1>1, <1>2, <1>3, <1>4, <1>5 DEF Entities
  <2>7. EntityFits(f, n, up[f], known)
    <3>1. up[f] = <<>> /\ f \notin known
      BY <1>4, <2>6 DEF EntityFits
    <3>2. Owed(up[f]) = {}
      BY <3>1 DEF Owed
    <3> QED BY <1>4, <2>3, <3>1, <3>2 DEF EntityFits
  <2> QED BY <1>2, <1>3, <1>4, <1>5, <2>2, <2>3, <2>4, <2>5, <2>7, LocalStep, ZenonT(30)
<1>6. ASSUME kind # "man", NEW m \in Master,
             m \in Joinable \/ (ma[m].st = "free" /\ Quiet(m)),
             fi' = [fi EXCEPT ![f].st = "open", ![f].me = m],
             ma' = [ma EXCEPT ![m].idle = Append(@, f),
                              ![m].st = IF @ = "free" THEN "Idle" ELSE @]
      PROVE  IInv'
  <2>1. PICK n : n = [e EXCEPT !.st = "open", !.me = m]
    OBVIOUS
  <2>2. n \in FileRec
    BY <2>1 DEF FileRec, FileSt
  <2>3. /\ n.st = "open" /\ n.me = m /\ n.on_active_q = e.on_active_q /\ n.Id = e.Id
        /\ n.status = e.status /\ n.timer = e.timer
    BY <2>1 DEF FileRec, FileSt
  <2>4. fi' = [fi EXCEPT ![f] = n]
    BY <1>2, <1>6, <2>1
  <2>5. fi' \in [File -> FileRec] /\ fi'[f] = n /\ \A g \in File \ {f} : fi'[g] = fi[g]
    BY <1>1, <2>2, <2>4 DEF TypeOK
  <2>6. PICK r \in MasterRec : r = ma[m]
    BY <1>1 DEF TypeOK
  <2>7. PICK i, s : i = Append(r.idle, f) /\ s = IF r.st = "free" THEN "Idle" ELSE r.st
    OBVIOUS
  <2>8. i \in Seq(File) /\ s \in MasterSt
    <3>1. r.idle \in Seq(File) /\ r.st \in MasterSt
      BY DEF MasterRec
    <3>2. "Idle" \in MasterSt
      BY DEF MasterSt
    <3>3. i \in Seq(File)
      BY <2>7, <3>1
    <3> QED BY <2>7, <3>1, <3>2, <3>3
  <2>9. PICK t : t = [r EXCEPT !.idle = i, !.st = s]
    OBVIOUS
  <2>10. t \in MasterRec
    BY <2>8, <2>9 DEF MasterRec
  <2>11. /\ t.st = s /\ t.idle = i /\ t.active = r.active /\ t.timeout = r.timeout
         /\ t.rc_count = r.rc_count /\ t.license_state = r.license_state
    BY <2>9 DEF MasterRec
  <2>12. ma' = [ma EXCEPT ![m] = t]
    BY <1>6, <2>6, <2>7, <2>9
  <2>13. ma' \in [Master -> MasterRec] /\ ma'[m] = t /\ \A k \in Master \ {m} : ma'[k] = ma[k]
    BY <1>1, <2>10, <2>12 DEF TypeOK
  <2>14. r.st \in {"free", "Idle", "AssignPending", "Assigned", "ResponsePending", "Cancelled"}
    BY <1>6, <2>6 DEF Joinable
  <2>15. MasterInv(kind, fi, r, m, up[m], known, ghost)
    BY <1>1, <2>6 DEF Masters
  <2>16. fi \in [File -> FileRec] /\ fi[f].me # m /\ n.on_active_q = FALSE /\ n.Id = FALSE
    BY <1>1, <1>2, <1>4, <2>3, MasterIsOne DEF TypeOK, FileRec
  <2>c. PICK E, D : E = fi' /\ D = fi
    OBVIOUS
  <2>a. /\ E \in [File -> FileRec] /\ D \in [File -> FileRec]
        /\ \A g \in File \ {f} : E[g] = D[g]
        /\ E[f].me = m /\ E[f].on_active_q = FALSE /\ E[f].Id = FALSE /\ D[f].me # m
    BY <2>3, <2>5, <2>16, <2>c
  <2>d. MasterInv(kind, D, r, m, up[m], known, ghost)
    BY <2>15, <2>c
  <2>b. /\ t.st = IF r.st = "free" THEN "Idle" ELSE r.st
        /\ t.idle = Append(r.idle, f)
    BY <2>7, <2>11, Zenon
  <2>17. MasterInv(kind, fi', t, m, up[m], known, ghost)
    <3>1. MasterInv(kind, E, t, m, up[m], known, ghost)
      <4>1. kind # "man"
        BY <1>6
      <4> QED BY <4>1, <2>10, <2>11, <2>14, <2>a, <2>b, <2>d, JoinInv
    <3> QED BY <3>1, <2>c
  <2>18. TypeOK' /\ FileOnly(f) /\ GhostsGrow
    BY <1>1, <1>3, <2>5, <2>13 DEF TypeOK, FileOnly, GhostsGrow
  <2>19. Masters'
    BY <1>1, <1>2, <1>3, <1>4, <2>3, <2>5, <2>13, <2>17, <2>18, MastersBut
  <2>20. FileFits(kind, n)
    BY <1>4, <1>6, <2>3 DEF FileFits
  <2>21. up'[f] = <<>> /\ f \notin known'
    BY <1>1, <1>3, <1>6 DEF Entities, Quiet
  <2> QED BY <1>3, <1>6, <2>3, <2>5, <2>18, <2>19, <2>20, <2>21, FileStep
<1>7. \/ kind = "man" /\ fi' = [fi EXCEPT ![f].st = "open"] /\ ma' = ma
      \/ /\ kind # "man"
         /\ \E m \in Master :
              /\ m \in Joinable \/ (ma[m].st = "free" /\ Quiet(m))
              /\ fi' = [fi EXCEPT ![f].st = "open", ![f].me = m]
              /\ ma' = [ma EXCEPT ![m].idle = Append(@, f),
                                  ![m].st = IF @ = "free" THEN "Idle" ELSE @]
  <2>1. CASE Joinable # {}
    BY <2>1 DEF um_idi_open_adapter, Joinable
  <2>2. CASE Joinable = {}
    BY <2>2 DEF um_idi_open_adapter
  <2> QED BY <2>1, <2>2
<1> QED BY <1>5, <1>6, <1>7

\* A file f of master m moves to the end of the active queue.
Asks(F, E, f, m, r, t) ==
  /\ F \in [File -> FileRec] /\ E \in [File -> FileRec]
  /\ F[f].me = m /\ F[f].on_active_q = FALSE
  /\ E[f].me = m /\ E[f].on_active_q = TRUE
  /\ \A g \in File \ {f} : E[g] = F[g]
  /\ r \in MasterRec /\ t \in MasterRec
  /\ t.active = Append(r.active, f) /\ t.idle = RemoveFirst(r.idle, f)
  /\ t.timeout = r.timeout

\* The queues afterwards.
LEMMA AskFits ==
  ASSUME NEW F, NEW E, NEW f \in File, NEW m \in Master, NEW r, NEW t,
         Asks(F, E, f, m, r, t), MasterFits(F, r, m),
         t.st \notin {"free", "delayed", "RemovePending"}
  PROVE  /\ MasterFits(E, t, m)
         /\ ActiveOf(E, m) = ActiveOf(F, m) \cup {f}
         /\ f \notin ActiveOf(F, m) /\ f \in File
         /\ t.active # <<>>
         /\ r.active # <<>> => /\ Head(t.active) = Head(r.active)
                               /\ Head(r.active) \in ActiveOf(F, m)
         /\ r.active = <<>> => Head(t.active) = f
<1>1. /\ Once(r.active) /\ Once(r.idle)
      /\ Range(r.active) = ActiveOf(F, m) /\ Range(r.idle) = IdleOf(F, m)
      /\ r.idle \in Seq(File) /\ r.active \in Seq(File)
      /\ f \notin ActiveOf(F, m) /\ f \in IdleOf(F, m)
  BY DEF Asks, MasterFits, MasterRec, ActiveOf, IdleOf
<1>2. t.active = Append(r.active, f) /\ t.idle = RemoveFirst(r.idle, f)
  BY DEF Asks
<1>3. /\ Once(t.active) /\ Range(t.active) = ActiveOf(F, m) \cup {f} /\ t.active # <<>>
      /\ r.active # <<>> => Head(t.active) = Head(r.active)
      /\ r.active = <<>> => Head(t.active) = f
  BY <1>1, <1>2, OnceAppend
<1>4. Once(t.idle) /\ Range(t.idle) = IdleOf(F, m) \ {f}
  BY <1>1, <1>2, OnceRemove
<1>5. ActiveOf(E, m) = ActiveOf(F, m) \cup {f}
  BY DEF Asks, ActiveOf
<1>6. IdleOf(E, m) = IdleOf(F, m) \ {f}
  BY DEF Asks, IdleOf
<1>7. MasterFits(E, t, m)
  BY <1>3, <1>4, <1>5, <1>6 DEF MasterFits
<1>8. r.active # <<>> => Head(r.active) \in ActiveOf(F, m)
  BY <1>1 DEF Range
<1> QED BY <1>1, <1>3, <1>5, <1>7, <1>8

\* The first request of a file: the master is assigned, or being assigned.
LEMMA AssignInv ==
  ASSUME NEW kd, NEW F, NEW E, NEW f \in File, NEW m \in Master, NEW r, NEW t,
         Asks(F, E, f, m, r, t),
         NEW v \in Seq(Request \cup Event), NEW w, NEW K, NEW G,
         MasterInv(kd, F, r, m, v, K, G),
         r.st \in {"Idle", "AssignPending"}, t.st = "AssignPending",
         t.license_state = r.license_state,
         E[f].Id = FALSE, "ASSIGN_PENDING" \in E[f].status,
         r.st = "AssignPending" => w = v,
         r.st = "Idle" => \E q : /\ w = Append(v, q)
                                 /\ q.k = "req" /\ q.req = "ASSIGN"
  PROVE  MasterInv(kd, E, t, m, w, K, G)
<1>1. /\ MasterFits(E, t, m)
      /\ ActiveOf(E, m) = ActiveOf(F, m) \cup {f}
      /\ f \notin ActiveOf(F, m)
  BY AskFits DEF MasterInv
<1>2. /\ \A g \in File \ {f} : E[g] = F[g]
      /\ t.timeout = r.timeout
  BY DEF Asks
<1>3. Used(t) /\ Owes(kd, E, t, w)
  BY DEF Used, Owes
<1>4. kd # "man" /\ Rests(kd, t, G)
  BY DEF MasterInv, Rests
<1>5. \/ w = <<>>
      \/ Len(w) = 1 /\ w[1].k = "req" /\ w[1].req = "ASSIGN" /\ m \notin K
  <2>1. CASE r.st = "AssignPending"
    BY <2>1 DEF MasterInv, Assigns
  <2>2. CASE r.st = "Idle"
    <3>1. v = <<>> /\ m \notin K
      BY <2>2 DEF MasterInv, Assigns
    <3>2. PICK q : w = Append(v, q) /\ q.k = "req" /\ q.req = "ASSIGN"
      BY <2>2
    <3>3. PICK z : z = Append(<<>>, q)
      OBVIOUS
    <3>4. z \in Seq({q}) /\ Len(z) = 1 /\ z[1] = q
      BY <3>3
    <3>5. w = z
      BY <3>1, <3>2, <3>3
    <3> QED BY <3>1, <3>2, <3>4, <3>5
  <2> QED BY <2>1, <2>2
<1>6. \A g \in ActiveOf(E, m) : "ASSIGN_PENDING" \in E[g].status
  <2>1. \A g \in ActiveOf(F, m) : "ASSIGN_PENDING" \in F[g].status
    <3>1. CASE r.st = "AssignPending"
      BY <3>1 DEF MasterInv, Assigns
    <3>2. CASE r.st = "Idle"
      <4>1. r.active = <<>> /\ Range(r.active) = ActiveOf(F, m)
        BY <3>2 DEF MasterInv, Assigns, MasterFits
      <4>2. ActiveOf(F, m) = {}
        BY <4>1 DEF Range
      <4> QED BY <4>2
    <3> QED BY <3>1, <3>2
  <2>2. \A g \in ActiveOf(F, m) : g \in File \ {f}
    BY <1>1 DEF ActiveOf
  <2> QED BY <1>1, <1>2, <2>1, <2>2
<1>7. \A g \in File : E[g].me = m => ~E[g].Id
  <2>1. \A g \in File : F[g].me = m => ~F[g].Id
    BY DEF MasterInv, Assigns
  <2> QED BY <1>2, <2>1
<1>8. t.license_state = "Idle"
  BY DEF MasterInv, Assigns
<1>9. Assigns(E, t, m, w, K)
  BY <1>5, <1>6, <1>7, <1>8 DEF Assigns
<1> QED BY <1>1, <1>3, <1>4, <1>9 DEF MasterInv

\* A further request, which is not sent now.
LEMMA WaitsInv ==
  ASSUME NEW kd, NEW F, NEW E, NEW f \in File, NEW m \in Master, NEW r, NEW t,
         Asks(F, E, f, m, r, t), NEW v, NEW K, NEW G,
         MasterInv(kd, F, r, m, v, K, G),
         r.st \in {"Assigned", "ResponsePending", "Cancelled"}, t.st = r.st,
         t.rc_count = r.rc_count, t.license_state = r.license_state,
         ~(r.st = "Assigned" /\ (kd = "license" => r.license_state = "Idle")),
         E[f].buffer # "none"
  PROVE  MasterInv(kd, E, t, m, v, K, G)
<1>1. /\ MasterFits(E, t, m)
      /\ ActiveOf(E, m) = ActiveOf(F, m) \cup {f}
      /\ f \notin ActiveOf(F, m) /\ t.active # <<>>
      /\ r.active # <<>> => /\ Head(t.active) = Head(r.active)
                            /\ Head(r.active) \in ActiveOf(F, m)
  BY AskFits, SMTT(30) DEF MasterInv
<1>2. /\ \A g \in File \ {f} : E[g] = F[g]
      /\ t.timeout = r.timeout
  BY DEF Asks
<1>3. \A g \in ActiveOf(F, m) : g \in File /\ E[g] = F[g]
  BY <1>1, <1>2 DEF ActiveOf
<1>4. Used(t)
  BY <1>1 DEF Used
<1>5. Rests(kd, t, G)
  BY DEF MasterInv, Rests
<1>6. Assigns(E, t, m, v, K)
  <2>1. \A g \in ActiveOf(E, m) : E[g].buffer # "none"
    <3>1. \A g \in ActiveOf(F, m) : F[g].buffer # "none"
      BY DEF MasterInv, Assigns
    <3> QED BY <1>1, <1>3, <3>1
  <2> QED BY <2>1 DEF Assigns
<1>7. ASSUME Owes(kd, F, r, v) PROVE Owes(kd, E, t, v)
  <2>1. CASE t.st = "ResponsePending"
    <3>1. r.st = "ResponsePending" /\ r.active # <<>>
      BY <2>1 DEF MasterInv, MasterFits
    <3>2. E[Head(t.active)].bit = F[Head(r.active)].bit /\ Head(t.active) = Head(r.active)
      BY <1>1, <1>3, <3>1
    <3> QED BY <1>7, <2>1, <3>1, <3>2 DEF Owes
  <2>2. CASE t.st # "ResponsePending"
    BY <1>7, <2>2 DEF Owes
  <2> QED BY <2>1, <2>2
<1> QED BY <1>1, <1>2, <1>4, <1>5, <1>6, <1>7 DEF MasterInv

\* A further request: the one at the head of the queue is sent.
LEMMA SendsInv ==
  ASSUME NEW kd, NEW F, NEW E, NEW f \in File, NEW m \in Master, NEW r, NEW t,
         Asks(F, E, f, m, r, t),
         NEW v \in Seq(Request \cup Event), NEW w, NEW K, NEW G,
         MasterInv(kd, F, r, m, v, K, G),
         r.st = "Assigned", t.st = "ResponsePending",
         NEW q, w = Append(v, q), q.k = "req",
         q.tag = <<Head(t.active), E[Head(t.active)].bit>>,
         q.req \in {"READ", "WRITE", "EXECUTE"}, t.rc_count = Weight(q.req),
         E[f].buffer # "none"
  PROVE  MasterInv(kd, E, t, m, w, K, G)
<1>1. /\ MasterFits(E, t, m)
      /\ ActiveOf(E, m) = ActiveOf(F, m) \cup {f}
      /\ f \notin ActiveOf(F, m) /\ t.active # <<>>
  <2>1. MasterFits(F, r, m) /\ t.st \notin {"free", "delayed", "RemovePending"}
    BY DEF MasterInv
  <2> QED BY <2>1, AskFits, ZenonT(30)
<1>2. /\ \A g \in File \ {f} : E[g] = F[g]
      /\ t.timeout = r.timeout
  BY DEF Asks
<1>3. \A g \in ActiveOf(F, m) : g \in File /\ E[g] = F[g]
  BY <1>1, <1>2 DEF ActiveOf
<1>4. Used(t)
  BY <1>1 DEF Used
<1>5. Rests(kd, t, G)
  BY DEF MasterInv, Rests
<1>6. Assigns(E, t, m, w, K)
  <2>1. \A g \in ActiveOf(E, m) : E[g].buffer # "none"
    <3>1. \A g \in ActiveOf(F, m) : F[g].buffer # "none"
      BY DEF MasterInv, Assigns
    <3> QED BY <1>1, <1>3, <3>1
  <2> QED BY <2>1 DEF Assigns
<1>7. ASSUME Owes(kd, F, r, v) PROVE Owes(kd, E, t, w)
  <2>1. v = <<>>
    BY <1>7 DEF Owes
  <2>a. PICK z : z = Append(<<>>, q)
    OBVIOUS
  <2>2. z \in Seq({q}) /\ Len(z) = 1 /\ z[1] = q /\ DOMAIN z = {1}
    BY <2>a
  <2>3. w = z
    BY <2>1, <2>a
  <2>4. Balanced(kd, w, t.rc_count)
    BY <2>2, <2>3 DEF Balanced
  <2>5. \A i \in DOMAIN w : w[i].tag = <<Head(t.active), E[Head(t.active)].bit>>
    BY <2>2, <2>3
  <2> QED BY <2>4, <2>5 DEF Owes
<1> QED BY <1>1, <1>2, <1>4, <1>5, <1>6, <1>7 DEF MasterInv

\* A file that asks has a master and no removal pending.
LEMMA AskerFacts ==
  ASSUME TypeOK, Files, Entities, NEW f \in File, CanAsk(f)
  PROVE  /\ kind # "man" /\ present /\ fi[f] \in FileRec /\ fi[f].st = "open"
         /\ fi[f].me \in Master
         /\ {"REMOVE_PENDING", "TIMEOUT", "RC_PENDING"} \cap fi[f].status = {}
         /\ FileFits(kind, fi[f])
         /\ f \in Ent /\ up[f] = <<>> /\ f \notin known
<1>1. /\ kind # "man" /\ present /\ fi[f].st = "open" /\ fi[f].me # NULL
      /\ "RC_PENDING" \notin fi[f].status
  BY DEF CanAsk, CanWrite
<1>2. FileFits(kind, fi[f]) /\ fi[f] \in FileRec
  BY DEF Files, TypeOK
<1>3. fi[f].me \in Master
  BY <1>1, <1>2 DEF FileRec
<1>4. {"REMOVE_PENDING", "TIMEOUT"} \cap fi[f].status = {}
  BY <1>1, <1>2 DEF FileFits
<1>5. up[f] = <<>> /\ f \notin known
  BY <1>1 DEF Entities, Quiet
<1> QED BY <1>1, <1>2, <1>3, <1>4, <1>5 DEF Ent

\* The first request of a logical entity.
LEMMA LeAssignNext ==
  ASSUME IInv, NEW f \in File, le_assign(f)
  PROVE  IInv'
<1>1. TypeOK /\ Files /\ Masters /\ Entities
  BY DEF IInv
<1>2. CanAsk(f)
  BY DEF le_assign
<1>3. PICK e \in FileRec, m \in Master : e = fi[f] /\ m = e.me
  BY <1>1, <1>2, AskerFacts
<1>4. /\ kind # "man" /\ present /\ e.st = "open"
      /\ {"REMOVE_PENDING", "TIMEOUT", "RC_PENDING"} \cap e.status = {}
      /\ FileFits(kind, e) /\ f \in Ent /\ up[f] = <<>> /\ f \notin known
  BY <1>1, <1>2, <1>3, AskerFacts
<1>5. e.me # NULL /\ m \in Ent /\ m \notin File
  BY <1>3, MasterIsOne
<1>6. PICK r \in MasterRec : r = ma[m]
  BY <1>1 DEF TypeOK
<1>7. MasterInv(kind, fi, r, m, up[m], known, ghost)
  BY <1>1, <1>6 DEF Masters
<1>8. PICK c \in Nat, S \in SUBSET StatusBit :
        c = 1 /\ S = e.status \cup {"RC_PENDING", "ASSIGN_PENDING"}
  BY DEF FileRec, StatusBit
<1>9. PICK a : a = [e EXCEPT !.rc_count = c, !.status = S]
  OBVIOUS
<1>10. a \in FileRec
  BY <1>9 DEF FileRec
<1>11. /\ a.st = e.st /\ a.me = e.me /\ a.on_active_q = e.on_active_q /\ a.Id = e.Id
       /\ a.status = S /\ a.timer = e.timer /\ a.aborted = e.aborted /\ a.bit = e.bit
       /\ a.buffer = e.buffer
  BY <1>9 DEF FileRec
<1>12. /\ ~e.Id /\ ~e.on_active_q
       /\ kind' = kind /\ present' = present /\ known' = known /\ ghost' = ghost
       /\ \/ /\ r.st \in {"RemovePending", "OutOfService"}
             /\ fi' = [fi EXCEPT ![f] = XdiCallbackRc(a, FALSE)]
             /\ UNCHANGED <<ma, up>>
          \/ /\ r.st \in {"Assigned", "ResponsePending", "Cancelled"}
             /\ fi' = [fi EXCEPT ![f] = XdiCallbackRc([a EXCEPT !.Id = TRUE], TRUE)]
             /\ UNCHANGED <<ma, up>>
          \/ /\ r.st \in {"Idle", "AssignPending"}
             /\ fi' = [fi EXCEPT ![f] = StartWdog([a EXCEPT !.on_active_q = TRUE])]
             /\ ma' = [ma EXCEPT ![m] =
                  IF r.st = "Idle"
                  THEN [OnActive(r, f) EXCEPT !.st = "AssignPending", !.rc_count = 1]
                  ELSE OnActive(r, f)]
             /\ Send(up, m, IF r.st = "Idle" THEN "ASSIGN" ELSE "none", NoTag)
  BY <1>3, <1>6, <1>8, <1>9 DEF le_assign
<1>13. {"REMOVE_PENDING", "TIMEOUT"} \cap S = {}
       /\ "RC_PENDING" \in S /\ "ASSIGN_PENDING" \in S
  BY <1>4, <1>8
<1>14. ASSUME NEW n \in FileRec, fi' = [fi EXCEPT ![f] = n], UNCHANGED <<ma, up>>,
              n.st = e.st, n.me = e.me, n.on_active_q = e.on_active_q, n.bit = e.bit,
              n.status \subseteq S, n.timer = FALSE,
              n.Id => r.st \in {"Assigned", "ResponsePending", "Cancelled"}
       PROVE  IInv'
  <2>1. FileFits(kind, n)
    BY <1>4, <1>12, <1>13, <1>14 DEF FileFits
  <2>2. Calm(n, e, r)
    BY <1>12, <1>14 DEF Calm
  <2>3. n.me # NULL => Calm(n, fi[f], ma[n.me])
    BY <1>3, <1>6, <1>14, <2>2
  <2> QED BY <1>3, <1>4, <1>12, <1>14, <2>1, <2>3, LocalStep
<1>15. CASE /\ r.st \in {"RemovePending", "OutOfService"}
            /\ fi' = [fi EXCEPT ![f] = XdiCallbackRc(a, FALSE)]
            /\ UNCHANGED <<ma, up>>
  <2>1. PICK n : n = XdiCallbackRc(a, FALSE)
    OBVIOUS
  <2>2. AfterRc(n, a, FALSE)
    BY <1>10, <2>1, CallbackRcFacts
  <2>3. /\ n \in FileRec /\ n.st = e.st /\ n.me = e.me /\ n.on_active_q = e.on_active_q
        /\ n.bit = e.bit /\ n.status \subseteq S /\ n.timer = FALSE /\ n.Id = FALSE
    BY <1>11, <1>13, <2>2 DEF AfterRc
  <2> QED BY <1>14, <1>15, <2>1, <2>3
<1>16. CASE /\ r.st \in {"Assigned", "ResponsePending", "Cancelled"}
            /\ fi' = [fi EXCEPT ![f] = XdiCallbackRc([a EXCEPT !.Id = TRUE], TRUE)]
            /\ UNCHANGED <<ma, up>>
  <2>1. PICK b : b = [a EXCEPT !.Id = TRUE]
    OBVIOUS
  <2>2. /\ b \in FileRec /\ b.st = a.st /\ b.me = a.me /\ b.on_active_q = a.on_active_q
        /\ b.bit = a.bit /\ b.status = a.status
    <3>1. b \in FileRec
      BY <1>10, <2>1 DEF FileRec
    <3> QED BY <1>10, <2>1, <3>1 DEF FileRec
  <2>3. PICK n : n = XdiCallbackRc(b, TRUE)
    OBVIOUS
  <2>4. AfterRc(n, b, TRUE)
    BY <2>2, <2>3, CallbackRcFacts
  <2>5. /\ n \in FileRec /\ n.st = e.st /\ n.me = e.me /\ n.on_active_q = e.on_active_q
        /\ n.bit = e.bit /\ n.status \subseteq S /\ n.timer = FALSE
    BY <1>11, <1>13, <2>2, <2>4 DEF AfterRc
  <2> QED BY <1>14, <1>16, <2>1, <2>3, <2>5
<1>17. CASE /\ r.st \in {"Idle", "AssignPending"}
            /\ fi' = [fi EXCEPT ![f] = StartWdog([a EXCEPT !.on_active_q = TRUE])]
            /\ ma' = [ma EXCEPT ![m] =
                 IF r.st = "Idle"
                 THEN [OnActive(r, f) EXCEPT !.st = "AssignPending", !.rc_count = 1]
                 ELSE OnActive(r, f)]
            /\ Send(up, m, IF r.st = "Idle" THEN "ASSIGN" ELSE "none", NoTag)
  <2>1. PICK n : n = [a EXCEPT !.on_active_q = TRUE, !.timer = TRUE]
    OBVIOUS
  <2>2. n \in FileRec /\ n = StartWdog([a EXCEPT !.on_active_q = TRUE])
    BY <1>10, <2>1 DEF FileRec, StartWdog
  <2>3. /\ n.st = "open" /\ n.me = m /\ n.on_active_q = TRUE /\ n.timer = TRUE
        /\ n.Id = FALSE /\ n.status = S
    BY <1>3, <1>4, <1>10, <1>11, <1>12, <2>1 DEF FileRec
  <2>4. fi' \in [File -> FileRec] /\ fi'[f] = n /\ \A g \in File \ {f} : fi'[g] = fi[g]
    BY <1>1, <1>17, <2>2 DEF TypeOK
  <2>5. PICK p : p = OnActive(r, f)
    OBVIOUS
  <2>6. Once(r.idle)
    BY <1>7 DEF MasterInv, MasterFits
  <2>7. /\ p \in MasterRec /\ p.active = Append(r.active, f) /\ p.idle = RemoveFirst(r.idle, f)
        /\ p.st = r.st /\ p.timeout = r.timeout /\ p.license_state = r.license_state
    BY <2>5, <2>6, OnActiveFacts
  <2>8. PICK d \in Int : d = 1
    OBVIOUS
  <2>9. PICK t : t = IF r.st = "Idle" THEN [p EXCEPT !.st = "AssignPending", !.rc_count = d]
                     ELSE p
    OBVIOUS
  <2>10. /\ t \in MasterRec /\ t.st = "AssignPending"
         /\ t.active = p.active /\ t.idle = p.idle /\ t.timeout = p.timeout
         /\ t.license_state = p.license_state
    <3>1. CASE r.st = "Idle"
      <4>1. t = [p EXCEPT !.st = "AssignPending", !.rc_count = d]
        BY <2>9, <3>1
      <4>2. t \in MasterRec
        BY <2>7, <4>1 DEF MasterRec, MasterSt
      <4> QED BY <2>7, <4>1, <4>2 DEF MasterRec
    <3>2. CASE r.st = "AssignPending"
      BY <2>7, <2>9, <3>2
    <3> QED BY <1>17, <3>1, <3>2
  <2>11. ma' = [ma EXCEPT ![m] = t]
    BY <1>17, <2>5, <2>8, <2>9
  <2>12. ma' \in [Master -> MasterRec] /\ ma'[m] = t /\ \A k \in Master \ {m} : ma'[k] = ma[k]
    BY <1>1, <2>10, <2>11 DEF TypeOK
  <2>13. PICK req \in {"ASSIGN", "none"} : req = IF r.st = "Idle" THEN "ASSIGN" ELSE "none"
    OBVIOUS
  <2>14. /\ up' \in [Ent -> Seq(Request \cup Event)]
         /\ req = "none" => up' = up
         /\ req # "none" => up'[m] = Append(up[m], [k |-> "req", req |-> req, tag |-> NoTag])
         /\ \A y \in Ent \ {m} : up'[y] = up[y]
    <3>1. Send(up, m, req, NoTag) /\ NoTag \in AnyTag /\ req \in ReqName \cup {"none"}
      BY <1>17, <2>13 DEF AnyTag, ReqName
    <3>2. up \in [Ent -> Seq(Request \cup Event)]
      BY <1>1 DEF TypeOK
    <3> QED BY <1>5, <3>1, <3>2, SendFacts
  <2>15. TypeOK' /\ FileOnly(f) /\ GhostsGrow
    BY <1>1, <1>12, <2>4, <2>12, <2>14 DEF TypeOK, FileOnly, GhostsGrow
  <2>16. PICK D, E : D = fi /\ E = fi'
    OBVIOUS
  <2>17. Asks(D, E, f, m, r, t)
    BY <1>1, <1>3, <1>12, <2>3, <2>4, <2>7, <2>10, <2>16 DEF Asks, TypeOK, FileRec
  <2>18. PICK v, w : v = up[m] /\ w = up'[m]
    OBVIOUS
  <2>19. /\ v \in Seq(Request \cup Event)
         /\ r.st = "AssignPending" => w = v
         /\ r.st = "Idle" => \E q : w = Append(v, q) /\ q.k = "req" /\ q.req = "ASSIGN"
    <3>1. v \in Seq(Request \cup Event)
      BY <1>1, <1>5, <2>18 DEF TypeOK
    <3>2. r.st = "AssignPending" => w = v
      BY <2>13, <2>14, <2>18
    <3>3. ASSUME r.st = "Idle" PROVE \E q : w = Append(v, q) /\ q.k = "req" /\ q.req = "ASSIGN"
      <4>1. PICK q : q = [k |-> "req", req |-> req, tag |-> NoTag]
        OBVIOUS
      <4>2. req = "ASSIGN"
        BY <2>13, <3>3
      <4>3. w = Append(v, q)
        BY <2>14, <2>18, <4>1, <4>2
      <4>4. q.k = "req" /\ q.req = "ASSIGN"
        BY <4>1, <4>2
      <4> QED BY <4>3, <4>4
    <3> QED BY <3>1, <3>2, <3>3
  <2>20. MasterInv(kind, D, r, m, v, known, ghost)
    BY <1>7, <2>16, <2>18
  <2>21. E[f].Id = FALSE /\ "ASSIGN_PENDING" \in E[f].status
    BY <1>13, <2>3, <2>4, <2>16
  <2>22. MasterInv(kind, E, t, m, w, known, ghost)
    BY <1>17, <2>7, <2>10, <2>17, <2>19, <2>20, <2>21, AssignInv
  <2>23. MasterInv(kind, fi', ma'[m], m, up'[m], known', ghost')
    BY <1>12, <2>12, <2>16, <2>18, <2>22
  <2>24. \A k \in Master \ {m} : ma'[k] = ma[k] /\ up'[k] = up[k] /\ (k \in known' <=> k \in known)
    BY <1>12, <2>12, <2>14, MasterIsOne
  <2>25. ghost \subseteq ghost' /\ fi[f].me \in {m, NULL} /\ fi'[f].me \in {m, NULL}
    BY <1>3, <1>12, <2>3, <2>4
  <2>26. Masters'
    BY <1>1, <2>15, <2>23, <2>24, <2>25, MastersBut
  <2>27. FileFits(kind, n)
    BY <1>4, <1>13, <2>3 DEF FileFits
  <2>28. \A g \in File : up'[g] = up[g] /\ (g \in known' <=> g \in known)
    BY <1>5, <1>12, <2>14 DEF Ent
  <2> QED BY <1>4, <1>12, <2>3, <2>4, <2>15, <2>26, <2>27, <2>28, FileStep
<1> QED BY <1>12, <1>15, <1>16, <1>17

\* A further request of a logical entity.
LEMMA LeRequestNext ==
  ASSUME IInv, NEW f \in File, NEW y \in Requests, le_request(f, y[1], y[2])
  PROVE  IInv'
<1>1. TypeOK /\ Files /\ Masters /\ Entities
  BY DEF IInv
<1>2. CanAsk(f)
  BY DEF le_request
<1>3. PICK e \in FileRec, m \in Master : e = fi[f] /\ m = e.me
  BY <1>1, <1>2, AskerFacts
<1>4. /\ kind # "man" /\ present /\ e.st = "open"
      /\ {"REMOVE_PENDING", "TIMEOUT", "RC_PENDING"} \cap e.status = {}
      /\ FileFits(kind, e) /\ f \in Ent /\ up[f] = <<>> /\ f \notin known
  BY <1>1, <1>2, <1>3, AskerFacts
<1>5. e.me # NULL /\ m \in Ent /\ m \notin File
  BY <1>3, MasterIsOne
<1>6. PICK r \in MasterRec : r = ma[m]
  BY <1>1 DEF TypeOK
<1>7. MasterInv(kind, fi, r, m, up[m], known, ghost)
  BY <1>1, <1>6 DEF Masters
<1>8. PICK x \in {"READ", "WRITE"}, l \in Nat, z \in {0, 1} :
        x = y[1] /\ l = y[2] /\ z = NewBit(f)
  <2>1. NewBit(f) \in {0, 1}
    BY DEF NewBit
  <2> QED BY <2>1, RequestType
<1>9. PICK a : a = [e EXCEPT !.on_active_q = TRUE, !.buffer = x, !.len = l, !.bit = z]
  OBVIOUS
<1>10. PICK n : n = [e EXCEPT !.on_active_q = TRUE, !.buffer = x, !.len = l, !.bit = z,
                              !.timer = TRUE]
  OBVIOUS
<1>11. n \in FileRec /\ a \in FileRec
  BY <1>9, <1>10 DEF FileRec
<1>12. /\ n = StartWdog(a) /\ n.st = "open" /\ n.me = m /\ n.on_active_q = TRUE /\ n.timer = TRUE
       /\ n.status = e.status /\ n.buffer = x /\ n.bit = z /\ a.buffer = x /\ a.bit = z
  <2>1. n = StartWdog(a)
    BY <1>9, <1>10 DEF FileRec, StartWdog
  <2>2. n.st = e.st /\ n.me = e.me /\ n.on_active_q = TRUE /\ n.timer = TRUE
        /\ n.status = e.status /\ n.buffer = x /\ n.bit = z
    BY <1>10 DEF FileRec
  <2>3. a.buffer = x /\ a.bit = z
    BY <1>9 DEF FileRec
  <2> QED BY <1>3, <1>4, <2>1, <2>2, <2>3
<1>13. PICK p : p = OnActive(r, f)
  OBVIOUS
<1>14. Once(r.idle)
  BY <1>7 DEF MasterInv, MasterFits
<1>15. /\ p \in MasterRec /\ p.active = Append(r.active, f) /\ p.idle = RemoveFirst(r.idle, f)
       /\ p.st = r.st /\ p.timeout = r.timeout /\ p.license_state = r.license_state
       /\ p.rc_count = r.rc_count
  BY <1>13, <1>14, OnActiveFacts
<1>16. PICK g, h : g = Head(p.active) /\ h = IF g = f THEN a ELSE fi[g]
  OBVIOUS
<1>17. e.Id /\ ~e.on_active_q
       /\ fi' = [fi EXCEPT ![f] = n]
       /\ kind' = kind /\ present' = present /\ known' = known /\ ghost' = ghost
  BY <1>3, <1>8, <1>9, <1>12 DEF le_request
<1> DEFINE sends == p.st = "Assigned" /\ (kind = "license" => p.license_state = "Idle")
<1>18. /\ ma' = [ma EXCEPT ![m] = IF ~sends THEN p
                                  ELSE IF kind = "idi" THEN Ask(p, h.buffer)
                                  ELSE InitLicense(p)]
       /\ Send(up, m, IF ~sends THEN "none" ELSE IF kind = "idi" THEN h.buffer
                      ELSE "EXECUTE", <<g, h.bit>>)
  <2> DEFINE A == [fi[f] EXCEPT !.on_active_q = TRUE, !.buffer = y[1], !.len = y[2],
                                !.bit = NewBit(f)]
             P == OnActive(ma[fi[f].me], f)
             g1 == Head(P.active)
             h1 == IF g1 = f THEN A ELSE fi[g1]
             s1 == P.st = "Assigned" /\ (kind = "license" => P.license_state = "Idle")
  <2>1. /\ ma' = [ma EXCEPT ![fi[f].me] = IF ~s1 THEN P
                                  ELSE IF kind = "idi" THEN Ask(P, h1.buffer)
                                  ELSE InitLicense(P)]
        /\ Send(up, fi[f].me, IF ~s1 THEN "none" ELSE IF kind = "idi" THEN h1.buffer
                      ELSE "EXECUTE", <<g1, h1.bit>>)
    BY DEF le_request
  <2>2. a = A /\ p = P /\ m = fi[f].me
    BY <1>3, <1>6, <1>8, <1>9, <1>13
  <2> HIDE DEF A, P
  <2>3. g = g1 /\ (sends <=> s1)
    BY <1>16, <2>2
  <2>4. h = h1
    BY <1>16, <2>2, <2>3
  <2> HIDE DEF g1, h1, s1, sends
  <2>5. CASE sends
    BY <2>1, <2>2, <2>3, <2>4, <2>5
  <2>6. CASE ~sends
    BY <2>1, <2>2, <2>3, <2>4, <2>6
  <2> QED BY <2>5, <2>6
<1> HIDE DEF sends
<1>19. fi' \in [File -> FileRec] /\ fi'[f] = n /\ \A k \in File \ {f} : fi'[k] = fi[k]
  BY <1>1, <1>11, <1>17 DEF TypeOK
<1>20. r.st \in {"Assigned", "ResponsePending", "Cancelled"}
  BY <1>3, <1>7, <1>17 DEF MasterInv, Assigns
<1>21. FileFits(kind, n)
  BY <1>4, <1>12 DEF FileFits
<1>22. ASSUME NEW t \in MasterRec, ma' = [ma EXCEPT ![m] = t],
              up' \in [Ent -> Seq(Request \cup Event)],
              \A k \in Ent \ {m} : up'[k] = up[k],
              MasterInv(kind, fi', t, m, up'[m], known, ghost)
       PROVE  IInv'
  <2>1. ma' \in [Master -> MasterRec] /\ ma'[m] = t /\ \A k \in Master \ {m} : ma'[k] = ma[k]
    BY <1>1, <1>22 DEF TypeOK
  <2>2. TypeOK' /\ FileOnly(f) /\ GhostsGrow
    BY <1>1, <1>17, <1>19, <1>22, <2>1 DEF TypeOK, FileOnly, GhostsGrow
  <2>3. MasterInv(kind, fi', ma'[m], m, up'[m], known', ghost')
    BY <1>17, <1>22, <2>1
  <2>4. \A k \in Master \ {m} : ma'[k] = ma[k] /\ up'[k] = up[k] /\ (k \in known' <=> k \in known)
    BY <1>17, <1>22, <2>1, MasterIsOne
  <2>5. ghost \subseteq ghost' /\ fi[f].me \in {m, NULL} /\ fi'[f].me \in {m, NULL}
    BY <1>3, <1>12, <1>17, <1>19
  <2>6. Masters'
    BY <1>1, <2>2, <2>3, <2>4, <2>5, MastersBut
  <2>7. \A k \in File : up'[k] = up[k] /\ (k \in known' <=> k \in known)
    BY <1>5, <1>17, <1>22 DEF Ent
  <2> QED BY <1>4, <1>12, <1>17, <1>19, <1>21, <2>2, <2>6, <2>7, FileStep
<1>23. PICK D, E, v, w : D = fi /\ E = fi' /\ v = up[m] /\ w = up'[m]
  OBVIOUS
<1>24. v \in Seq(Request \cup Event) /\ MasterInv(kind, D, r, m, v, known, ghost)
       /\ E[f].buffer # "none"
  BY <1>1, <1>5, <1>7, <1>12, <1>19, <1>23 DEF TypeOK
<1>25. ASSUME NEW t \in MasterRec, t.active = p.active, t.idle = p.idle, t.timeout = p.timeout
       PROVE  Asks(D, E, f, m, r, t)
  BY <1>1, <1>3, <1>12, <1>15, <1>17, <1>19, <1>23, <1>25 DEF Asks, TypeOK, FileRec
<1>26. g \in File /\ p.active # <<>> /\ h = IF g = f THEN a ELSE fi[g]
  <2>1. r.active \in Seq(File)
    BY DEF MasterRec
  <2>2. p.active \in Seq(File) /\ p.active # <<>>
    BY <1>15, <2>1, AppendProperties
  <2> QED BY <1>16, <2>2
<1>27. h.bit = E[g].bit /\ h.bit \in {0, 1} /\ <<g, h.bit>> \in AnyTag
  <2>1. h.bit = E[g].bit
    BY <1>12, <1>19, <1>23, <1>26
  <2>2. h.bit \in {0, 1}
    BY <1>19, <1>23, <1>26, <2>1 DEF FileRec
  <2> QED BY <1>26, <2>1, <2>2 DEF AnyTag, Tag
<1>28. up \in [Ent -> Seq(Request \cup Event)]
  BY <1>1 DEF TypeOK
<1>29. CASE ~sends
  <2>1. ma' = [ma EXCEPT ![m] = p] /\ Send(up, m, "none", <<g, h.bit>>)
    BY <1>18, <1>29
  <2>2. up' = up
    BY <2>1 DEF Send
  <2>3. ~(r.st = "Assigned" /\ (kind = "license" => r.license_state = "Idle"))
    BY <1>15, <1>29 DEF sends
  <2>4. Asks(D, E, f, m, r, p)
    BY <1>15, <1>25
  <2>5. MasterInv(kind, E, p, m, v, known, ghost)
    BY <1>15, <1>20, <1>24, <2>3, <2>4, WaitsInv
  <2> QED BY <1>15, <1>22, <1>23, <1>28, <2>1, <2>2, <2>5
<1>30. ASSUME sends, NEW t \in MasterRec, NEW req \in {"READ", "WRITE", "EXECUTE"},
              ma' = [ma EXCEPT ![m] = t], Send(up, m, req, <<g, h.bit>>),
              t.active = p.active, t.idle = p.idle, t.timeout = p.timeout,
              t.st = "ResponsePending", t.rc_count = Weight(req)
       PROVE  IInv'
  <2>1. Asks(D, E, f, m, r, t)
    BY <1>25, <1>30
  <2>2. PICK q : q = [k |-> "req", req |-> req, tag |-> <<g, h.bit>>]
    OBVIOUS
  <2>3. /\ up' \in [Ent -> Seq(Request \cup Event)]
        /\ w = Append(v, q)
        /\ \A k \in Ent \ {m} : up'[k] = up[k]
    <3>1. req \in ReqName \cup {"none"} /\ req # "none"
      BY DEF ReqName
    <3> QED BY <1>5, <1>23, <1>27, <1>28, <1>30, <2>2, <3>1, SendFacts
  <2>4. q.k = "req" /\ q.req = req /\ q.tag = <<g, h.bit>>
    BY <2>2
  <2>5. g = Head(t.active) /\ h.bit = E[Head(t.active)].bit
    BY <1>16, <1>27, <1>30
  <2>6. r.st = "Assigned"
    BY <1>15, <1>30 DEF sends
  <2>7. q.tag = <<Head(t.active), E[Head(t.active)].bit>> /\ t.rc_count = Weight(q.req)
        /\ q.req \in {"READ", "WRITE", "EXECUTE"}
    BY <1>30, <2>4, <2>5
  <2>a. w = Append(v, q) /\ q.k = "req" /\ t.st = "ResponsePending" /\ E[f].buffer # "none"
    BY <1>24, <1>30, <2>3, <2>4
  <2>b. v \in Seq(Request \cup Event) /\ MasterInv(kind, D, r, m, v, known, ghost)
    BY <1>24
  <2>8. MasterInv(kind, E, t, m, w, known, ghost)
    BY <2>1, <2>6, <2>7, <2>a, <2>b, SendsInv
  <2> QED BY <1>22, <1>23, <1>30, <2>3, <2>8
<1>31. PICK c \in Int, o \in Int : c = 1 /\ o = 2
  OBVIOUS
<1>32. CASE sends /\ kind = "idi"
  <2>1. h.buffer \in {"READ", "WRITE"}
    <3>1. r.active = <<>>
      BY <1>7, <1>15, <1>32 DEF MasterInv, Rests, sends
    <3>2. g = f
      BY <1>15, <1>16, <3>1
    <3> QED BY <1>12, <1>26, <3>2
  <2>2. PICK i \in Int : i = Weight(h.buffer) /\ i = IF h.buffer = "READ" THEN o ELSE c
    BY <1>31 DEF Weight
  <2>3. PICK t : t = [p EXCEPT !.st = "ResponsePending", !.rc_count = i]
    OBVIOUS
  <2>4. t = Ask(p, h.buffer)
    BY <1>31, <2>2, <2>3 DEF Ask
  <2>5. t \in MasterRec
    BY <1>15, <2>3 DEF MasterRec, MasterSt
  <2>6. t.active = p.active /\ t.idle = p.idle /\ t.timeout = p.timeout
        /\ t.st = "ResponsePending" /\ t.rc_count = i
    BY <1>15, <2>3 DEF MasterRec
  <2>7. ma' = [ma EXCEPT ![m] = t] /\ Send(up, m, h.buffer, <<g, h.bit>>)
    BY <1>18, <1>32, <2>4
  <2> QED BY <1>30, <1>32, <2>1, <2>2, <2>5, <2>6, <2>7
<1>33. CASE sends /\ kind # "idi"
  <2>1. PICK t : t = [p EXCEPT !.st = "ResponsePending", !.rc_count = c,
                               !.license_state = "Init", !.cbuffer = NoTag]
    OBVIOUS
  <2>2. t = InitLicense(p)
    BY <1>31, <2>1 DEF InitLicense
  <2>3. t \in MasterRec
    <3>1. NoTag \in AnyTag
      BY DEF AnyTag
    <3> QED BY <1>15, <2>1, <3>1 DEF MasterRec, MasterSt
  <2>4. t.active = p.active /\ t.idle = p.idle /\ t.timeout = p.timeout
        /\ t.st = "ResponsePending" /\ t.rc_count = c
    BY <1>15, <2>1 DEF MasterRec
  <2>5. ma' = [ma EXCEPT ![m] = t] /\ Send(up, m, "EXECUTE", <<g, h.bit>>)
    BY <1>18, <1>33, <2>2
  <2>6. Weight("EXECUTE") = c
    BY <1>31 DEF Weight
  <2> QED BY <1>30, <1>33, <2>3, <2>4, <2>5, <2>6
<1> QED BY <1>29, <1>32, <1>33

\* A file f of master m leaves its queue.
Leaves(F, E, f, m, r, s) ==
  /\ F \in [File -> FileRec] /\ E \in [File -> FileRec]
  /\ F[f].me = m /\ E[f].me # m
  /\ \A g \in File \ {f} : E[g] = F[g]
  /\ r \in MasterRec /\ s \in MasterRec
  /\ s.active = IF F[f].on_active_q THEN RemoveFirst(r.active, f) ELSE r.active
  /\ s.idle = IF F[f].on_active_q THEN r.idle ELSE RemoveFirst(r.idle, f)
  /\ s.timeout = r.timeout /\ s.rc_count = r.rc_count
  /\ s.license_state = r.license_state
  /\ s.st = IF F[f].on_active_q /\ r.st = "ResponsePending" /\ Head(r.active) = f
            THEN "Cancelled" ELSE r.st

\* The queues afterwards.
LEMMA LeaveFits ==
  ASSUME NEW F, NEW E, NEW f \in File, NEW m \in Master, NEW r, NEW s,
         Leaves(F, E, f, m, r, s), MasterFits(F, r, m)
  PROVE  /\ MasterFits(E, s, m)
         /\ ActiveOf(E, m) \subseteq ActiveOf(F, m) \ {f}
         /\ r.active = <<>> => s.active = <<>>
         /\ s.st = "ResponsePending" => /\ s.active # <<>> /\ Head(s.active) = Head(r.active)
                                        /\ Head(s.active) \in ActiveOf(E, m)
<1>1. /\ Once(r.active) /\ Once(r.idle)
      /\ Range(r.active) = ActiveOf(F, m) /\ Range(r.idle) = IdleOf(F, m)
      /\ r.idle \in Seq(File) /\ r.active \in Seq(File)
  BY DEF Leaves, MasterFits, MasterRec
<1>2. ActiveOf(E, m) = ActiveOf(F, m) \ {f} /\ IdleOf(E, m) = IdleOf(F, m) \ {f}
  BY DEF Leaves, ActiveOf, IdleOf
<1>3. /\ s.active \in Seq(File) /\ Once(s.active) /\ Range(s.active) = ActiveOf(E, m)
      /\ r.active = <<>> => s.active = <<>>
      /\ r.active # <<>> /\ ~(F[f].on_active_q /\ Head(r.active) = f)
           => s.active # <<>> /\ Head(s.active) = Head(r.active)
  <2>1. CASE F[f].on_active_q
    <3>1. s.active = RemoveFirst(r.active, f)
      BY <2>1 DEF Leaves
    <3>2. f \in ActiveOf(F, m)
      BY <2>1 DEF Leaves, ActiveOf
    <3>3. r.active # <<>>
      BY <1>1, <3>2 DEF Range
    <3> QED BY <1>1, <1>2, <2>1, <3>1, <3>3, OnceRemove
  <2>2. CASE ~F[f].on_active_q
    <3>1. s.active = r.active
      BY <2>2 DEF Leaves
    <3>2. f \notin ActiveOf(F, m)
      BY <2>2 DEF ActiveOf
    <3> QED BY <1>1, <1>2, <2>2, <3>1, <3>2
  <2> QED BY <2>1, <2>2
<1>4. /\ s.idle \in Seq(File) /\ Once(s.idle) /\ Range(s.idle) = IdleOf(E, m)
      /\ r.idle # <<>> \/ s.idle = <<>>
  <2>1. CASE F[f].on_active_q
    <3>1. s.idle = r.idle
      BY <2>1 DEF Leaves
    <3>2. f \notin IdleOf(F, m)
      BY <2>1 DEF IdleOf
    <3> QED BY <1>1, <1>2, <2>1, <3>1, <3>2
  <2>2. CASE ~F[f].on_active_q
    <3>1. s.idle = RemoveFirst(r.idle, f)
      BY <2>2 DEF Leaves
    <3>2. f \in IdleOf(F, m)
      BY <2>2 DEF Leaves, IdleOf
    <3>3. r.idle # <<>>
      BY <1>1, <3>2 DEF Range
    <3> QED BY <1>1, <1>2, <2>2, <3>1, <3>3, OnceRemove
  <2> QED BY <2>1, <2>2
<1>5. s.st = "ResponsePending" =>
        /\ r.st = "ResponsePending" /\ ~(F[f].on_active_q /\ Head(r.active) = f)
  BY DEF Leaves
<1>6. s.st = "ResponsePending" => s.active # <<>> /\ Head(s.active) = Head(r.active)
  BY <1>3, <1>5 DEF MasterFits
<1>7. s.st \in {"free", "delayed", "RemovePending"} => s.active = <<>> /\ s.idle = <<>>
  BY <1>3, <1>4 DEF MasterFits, Leaves
<1>8. MasterFits(E, s, m)
  BY <1>3, <1>4, <1>6, <1>7 DEF MasterFits
<1>9. s.st = "ResponsePending" => Head(s.active) \in ActiveOf(E, m)
  BY <1>3, <1>6 DEF Range
<1> QED BY <1>2, <1>3, <1>6, <1>8, <1>9

\* The master stays, with other files or until the card has answered.
LEMMA LeaveInv ==
  ASSUME NEW kd, NEW F, NEW E, NEW f \in File, NEW m \in Master, NEW r, NEW s,
         Leaves(F, E, f, m, r, s), NEW v, NEW K, NEW G,
         MasterInv(kd, F, r, m, v, K, G),
         s.st \in {"Idle", "Assigned"} => s.active # <<>> \/ s.idle # <<>>
  PROVE  MasterInv(kd, E, s, m, v, K, G)
<1>1. /\ MasterFits(E, s, m)
      /\ ActiveOf(E, m) \subseteq ActiveOf(F, m) \ {f}
      /\ r.active = <<>> => s.active = <<>>
      /\ s.st = "ResponsePending" => /\ s.active # <<>> /\ Head(s.active) = Head(r.active)
                                     /\ Head(s.active) \in ActiveOf(E, m)
  BY LeaveFits DEF MasterInv
<1>2. /\ \A g \in File \ {f} : E[g] = F[g]
      /\ s.timeout = r.timeout /\ s.rc_count = r.rc_count
      /\ s.license_state = r.license_state /\ E[f].me # m
      /\ \/ s.st = r.st
         \/ s.st = "Cancelled" /\ r.st = "ResponsePending"
  BY DEF Leaves
<1>3. \A g \in ActiveOf(E, m) : g \in File /\ g \in ActiveOf(F, m) /\ E[g] = F[g]
  BY <1>1, <1>2 DEF ActiveOf
<1>4. Used(s)
  BY DEF Used
<1>5. Rests(kd, s, G)
  BY <1>1, <1>2 DEF MasterInv, Rests
<1>6. Assigns(E, s, m, v, K)
  <2>1. s.st = "AssignPending" => \A g \in ActiveOf(E, m) : "ASSIGN_PENDING" \in E[g].status
    BY <1>2, <1>3 DEF MasterInv, Assigns
  <2>2. s.st # "AssignPending" => \A g \in ActiveOf(E, m) : E[g].buffer # "none"
    <3>1. s.st # "AssignPending" => r.st # "AssignPending"
      BY <1>2
    <3> QED BY <1>3, <3>1 DEF MasterInv, Assigns
  <2>3. ASSUME NEW g \in File, E[g].me = m, E[g].Id
        PROVE  s.st \in {"Assigned", "ResponsePending", "Cancelled"}
    <3>1. F[g].me = m /\ F[g].Id
      BY <1>2, <2>3
    <3>2. r.st \in {"Assigned", "ResponsePending", "Cancelled"}
      BY <3>1 DEF MasterInv, Assigns
    <3> QED BY <1>2, <3>2
  <2>4. s.st \in {"free", "Idle", "OutOfService", "delayed"} => v = <<>> /\ m \notin K
    BY <1>2 DEF MasterInv, Assigns
  <2>5. s.st = "AssignPending" =>
         \/ v = <<>>
         \/ Len(v) = 1 /\ v[1].k = "req" /\ v[1].req = "ASSIGN" /\ m \notin K
    BY <1>2 DEF MasterInv, Assigns
  <2>6. s.st \in {"free", "Idle", "AssignPending"} => s.license_state = "Idle"
    BY <1>2 DEF MasterInv, Assigns
  <2>7. s.st = "Idle" => s.active = <<>>
    BY <1>1, <1>2 DEF MasterInv, Assigns
  <2> QED BY <2>1, <2>2, <2>3, <2>4, <2>5, <2>6, <2>7 DEF Assigns
<1>7. ASSUME Owes(kd, F, r, v) PROVE Owes(kd, E, s, v)
  <2>1. CASE s.st = "ResponsePending"
    <3>1. r.st = "ResponsePending"
      BY <1>2, <2>1
    <3>2. E[Head(s.active)].bit = F[Head(r.active)].bit /\ Head(s.active) = Head(r.active)
      BY <1>1, <1>3, <2>1
    <3> QED BY <1>2, <1>7, <2>1, <3>1, <3>2 DEF Owes
  <2>2. CASE s.st # "ResponsePending"
    BY <1>2, <1>7, <2>2 DEF Owes
  <2> QED BY <2>1, <2>2
<1> QED BY <1>1, <1>2, <1>4, <1>5, <1>6, <1>7 DEF MasterInv

\* The last file leaves an assigned master, which is removed, or one that the
\* card does not have, which is kept when its watchdog had given it up.
LEMMA LastLeavesInv ==
  ASSUME NEW kd, NEW F, NEW E, NEW f \in File, NEW m \in Master, NEW r, NEW s, NEW t,
         Leaves(F, E, f, m, r, s),
         NEW v \in Seq(Request \cup Event), NEW w, NEW K, NEW G,
         MasterInv(kd, F, r, m, v, K, G),
         s.active = <<>>, s.idle = <<>>, t.active = <<>>, t.idle = <<>>,
         t.timeout = s.timeout,
         \/ /\ s.st = "Assigned" /\ t.st = "RemovePending"
            /\ \E q : w = Append(v, q) /\ q.k = "req" /\ q.req = "REMOVE"
         \/ s.st \in {"Idle", "OutOfService"} /\ t.st = "delayed" /\ w = v
  PROVE  MasterInv(kd, E, t, m, w, K, G)
<1>1. MasterFits(E, s, m)
  BY LeaveFits DEF MasterInv
<1>2. ActiveOf(E, m) = {} /\ IdleOf(E, m) = {}
  BY <1>1 DEF MasterFits, Range
<1>3. MasterFits(E, t, m)
  BY <1>1, <1>2 DEF MasterFits
<1>4. \A g \in File : E[g].me # m
  BY <1>2 DEF ActiveOf, IdleOf
<1>5. s.st = r.st \/ s.st = "Cancelled"
  BY DEF Leaves
<1>6. Used(t)
  BY DEF Used
<1>7. Rests(kd, t, G)
  BY <1>5 DEF MasterInv, Rests
<1>8. t.st = "delayed" => w = <<>> /\ m \notin K
  BY <1>5 DEF MasterInv, Assigns
<1>9. Assigns(E, t, m, w, K)
  BY <1>2, <1>4, <1>8 DEF Assigns
<1>10. ASSUME Owes(kd, F, r, v) PROVE Owes(kd, E, t, w)
  <2>1. CASE t.st = "delayed"
    BY <2>1 DEF Owes
  <2>2. CASE t.st = "RemovePending"
    <3>1. s.st = "Assigned" /\ r.st = "Assigned"
      BY <1>5, <2>2
    <3>2. v = <<>>
      BY <1>10, <3>1 DEF Owes
    <3>3. PICK q : w = Append(v, q) /\ q.k = "req" /\ q.req = "REMOVE"
      BY <2>2
    <3>4. PICK z : z = Append(<<>>, q)
      OBVIOUS
    <3>5. z \in Seq({q}) /\ Len(z) = 1 /\ z[1] = q
      BY <3>4
    <3>6. w = z
      BY <3>2, <3>3, <3>4
    <3> QED BY <2>2, <3>3, <3>5, <3>6 DEF Owes
  <2> QED BY <2>1, <2>2
<1>11. t.timeout = r.timeout
  BY DEF Leaves
<1> QED BY <1>3, <1>6, <1>7, <1>9, <1>10, <1>11 DEF MasterInv

\* divas_um_idi_delete_entity of a logical entity.
LEMMA ReleaseNext ==
  ASSUME IInv, NEW f \in File, um_idi_release(f)
  PROVE  IInv'
<1>1. TypeOK /\ Files /\ Masters /\ Entities
  BY DEF IInv
<1>2. PICK e \in FileRec : e = fi[f]
  BY <1>1 DEF TypeOK
<1>3. /\ e.st = "open" /\ kind # "man"
      /\ fi' = [fi EXCEPT ![f] = Freed(e)]
      /\ kind' = kind /\ present' = present /\ known' = known
  BY <1>2 DEF um_idi_release
<1>4. PICK n : n = Freed(e)
  OBVIOUS
<1>5. n \in FileRec /\ n.st = "closed" /\ n.me = NULL /\ FileFits(kind, n)
  BY <1>4, FreedFacts, FreedFits
<1>6. fi' \in [File -> FileRec] /\ fi'[f] = n /\ \A k \in File \ {f} : fi'[k] = fi[k]
  BY <1>1, <1>3, <1>4, <1>5 DEF TypeOK
<1>7. f \in Ent /\ up[f] = <<>> /\ f \notin known
  BY <1>1, <1>3 DEF Entities, Quiet, Ent
<1>8. CASE e.me = NULL
  <2>1. UNCHANGED <<ma, up, ghost, nr_delayed_cleanup_entities>>
    BY <1>2, <1>8 DEF um_idi_release
  <2> QED BY <1>2, <1>3, <1>4, <1>5, <1>8, <2>1, LocalStep
<1>9. CASE e.me # NULL
  <2>1. PICK m \in Master : m = e.me
    BY <1>9 DEF FileRec
  <2>2. m \in Ent /\ m \notin File /\ m # NULL
    BY MasterIsOne
  <2>3. PICK r \in MasterRec : r = ma[m]
    BY <1>1 DEF TypeOK
  <2>4. present
    BY <1>1, <1>2, <1>9 DEF Entities
  <2>5. MasterInv(kind, fi, r, m, up[m], known, ghost)
    BY <1>1, <2>3 DEF Masters
  <2>6. PICK a, i, c : /\ a = IF e.on_active_q THEN RemoveFirst(r.active, f) ELSE r.active
                       /\ i = IF e.on_active_q THEN r.idle ELSE RemoveFirst(r.idle, f)
                       /\ c = IF e.on_active_q /\ r.st = "ResponsePending" /\ Head(r.active) = f
                              THEN "Cancelled" ELSE r.st
    OBVIOUS
  <2>7. a \in Seq(File) /\ i \in Seq(File) /\ c \in MasterSt
    <3>1. r.active \in Seq(File) /\ r.idle \in Seq(File) /\ r.st \in MasterSt
          /\ "Cancelled" \in MasterSt
      BY DEF MasterRec, MasterSt
    <3>2. Once(r.active) /\ Once(r.idle)
      BY <2>5 DEF MasterInv, MasterFits
    <3>3. RemoveFirst(r.active, f) \in Seq(File) /\ RemoveFirst(r.idle, f) \in Seq(File)
      BY <3>1, <3>2, OnceRemove
    <3> QED BY <2>6, <3>1, <3>3
  <2>8. PICK s : s = [r EXCEPT !.active = a, !.idle = i, !.st = c]
    OBVIOUS
  <2>9. s \in MasterRec
    BY <2>7, <2>8 DEF MasterRec
  <2>10. /\ s.active = a /\ s.idle = i /\ s.st = c /\ s.timeout = r.timeout
         /\ s.rc_count = r.rc_count /\ s.license_state = r.license_state
    BY <2>8 DEF MasterRec
  <2> DEFINE last == s.active = <<>> /\ s.idle = <<>>
  <2>11. \/ /\ last /\ s.st = "Assigned"
            /\ ma' = [ma EXCEPT ![m] = [s EXCEPT !.st = "RemovePending", !.rc_count = 1]]
            /\ Send(up, m, "REMOVE", NoTag)
            /\ ghost' = ghost
         \/ /\ last /\ s.st \in {"Idle", "OutOfService"}
            /\ ma' = [ma EXCEPT ![m] = IF s.timeout THEN [s EXCEPT !.st = "delayed"]
                                       ELSE NoMaster]
            /\ ghost' = ghost \cup Note(~s.timeout /\ ~Quiet(m), "freed")
            /\ up' = up
         \/ /\ ~(last /\ s.st \in {"Assigned", "Idle", "OutOfService"})
            /\ ma' = [ma EXCEPT ![m] = s]
            /\ up' = up /\ ghost' = ghost
    <3> DEFINE R == ma[fi[f].me]
               S == [R EXCEPT !.active = IF fi[f].on_active_q THEN RemoveFirst(@, f) ELSE @,
                     !.idle = IF fi[f].on_active_q THEN @ ELSE RemoveFirst(@, f),
                     !.st = IF Cancels(R, f) THEN "Cancelled" ELSE @]
               l1 == S.active = <<>> /\ S.idle = <<>>
               M == fi[f].me
    <3>1. M # NULL
      BY <1>2, <1>9
    <3>2. \/ /\ l1 /\ S.st = "Assigned"
             /\ ma' = [ma EXCEPT ![M] = [S EXCEPT !.st = "RemovePending", !.rc_count = 1]]
             /\ Send(up, M, "REMOVE", NoTag)
             /\ ghost' = ghost
          \/ /\ l1 /\ S.st \in {"Idle", "OutOfService"}
             /\ ma' = [ma EXCEPT ![M] = IF S.timeout THEN [S EXCEPT !.st = "delayed"]
                                        ELSE NoMaster]
             /\ ghost' = ghost \cup Note(~S.timeout /\ ~Quiet(M), "freed")
             /\ up' = up
          \/ /\ ~(l1 /\ S.st \in {"Assigned", "Idle", "OutOfService"})
             /\ ma' = [ma EXCEPT ![M] = S]
             /\ up' = up /\ ghost' = ghost
      BY <3>1 DEF um_idi_release
    <3>3. M = m
      BY <1>2, <2>1
    <3>4. S = s
      <4>1. R = r /\ fi[f].on_active_q = e.on_active_q
        BY <1>2, <2>1, <2>3
      <4>2. Cancels(R, f) <=> e.on_active_q /\ r.st = "ResponsePending" /\ Head(r.active) = f
        BY <4>1 DEF Cancels
      <4> HIDE DEF R
      <4>3. (IF fi[f].on_active_q THEN RemoveFirst(R.active, f) ELSE R.active) = a
        BY <2>6, <4>1
      <4>4. (IF fi[f].on_active_q THEN R.idle ELSE RemoveFirst(R.idle, f)) = i
        BY <2>6, <4>1
      <4>5. (IF Cancels(R, f) THEN "Cancelled" ELSE R.st) = c
        BY <2>6, <4>1, <4>2
      <4> QED BY <2>8, <4>1, <4>3, <4>4, <4>5
    <3> HIDE DEF S, M
    <3> QED BY <3>2, <3>3, <3>4
  <2> HIDE DEF last
  <2>12. ASSUME NEW t \in MasterRec, ma' = [ma EXCEPT ![m] = t],
                up' \in [Ent -> Seq(Request \cup Event)],
                \A k \in Ent \ {m} : up'[k] = up[k],
                ghost' = ghost,
                MasterInv(kind, fi', t, m, up'[m], known, ghost)
         PROVE  IInv'
    <3>1. ma' \in [Master -> MasterRec] /\ ma'[m] = t /\ \A k \in Master \ {m} : ma'[k] = ma[k]
      BY <1>1, <2>12 DEF TypeOK
    <3>2. TypeOK' /\ FileOnly(f) /\ GhostsGrow
      BY <1>1, <1>3, <1>6, <2>12, <3>1 DEF TypeOK, FileOnly, GhostsGrow
    <3>3. MasterInv(kind, fi', ma'[m], m, up'[m], known', ghost')
      BY <1>3, <2>12, <3>1
    <3>4. \A k \in Master \ {m} : ma'[k] = ma[k] /\ up'[k] = up[k] /\ (k \in known' <=> k \in known)
      BY <1>3, <2>12, <3>1, MasterIsOne
    <3>5. ghost \subseteq ghost' /\ fi[f].me \in {m, NULL} /\ fi'[f].me \in {m, NULL}
      BY <1>2, <1>5, <1>6, <2>1, <2>12
    <3>6. Masters'
      BY <1>1, <3>2, <3>3, <3>4, <3>5, MastersBut
    <3>7. \A k \in File : up'[k] = up[k] /\ (k \in known' <=> k \in known)
      BY <1>3, <2>2, <2>12 DEF Ent
    <3> QED BY <1>3, <1>5, <1>6, <1>7, <2>4, <3>2, <3>6, <3>7, FileStep
  <2>13. PICK D, E, v, w : D = fi /\ E = fi' /\ v = up[m] /\ w = up'[m]
    OBVIOUS
  <2>14. v \in Seq(Request \cup Event) /\ MasterInv(kind, D, r, m, v, known, ghost)
    BY <1>1, <2>2, <2>5, <2>13 DEF TypeOK
  <2>15. Leaves(D, E, f, m, r, s)
    BY <1>1, <1>2, <1>5, <1>6, <2>1, <2>2, <2>6, <2>9, <2>10, <2>13 DEF Leaves, TypeOK
  <2>16. up \in [Ent -> Seq(Request \cup Event)]
    BY <1>1 DEF TypeOK
  <2>17. CASE /\ last /\ s.st = "Assigned"
              /\ ma' = [ma EXCEPT ![m] = [s EXCEPT !.st = "RemovePending", !.rc_count = 1]]
              /\ Send(up, m, "REMOVE", NoTag)
              /\ ghost' = ghost
    <3>1. PICK d \in Int : d = 1
      OBVIOUS
    <3>2. PICK t : t = [s EXCEPT !.st = "RemovePending", !.rc_count = d]
      OBVIOUS
    <3>3. t \in MasterRec
      BY <2>9, <3>2 DEF MasterRec, MasterSt
    <3>4. t.st = "RemovePending" /\ t.active = s.active /\ t.idle = s.idle
          /\ t.timeout = s.timeout
      BY <2>9, <3>2 DEF MasterRec
    <3>5. PICK q : q = [k |-> "req", req |-> "REMOVE", tag |-> NoTag]
      OBVIOUS
    <3>6. /\ up' \in [Ent -> Seq(Request \cup Event)]
          /\ w = Append(v, q)
          /\ \A k \in Ent \ {m} : up'[k] = up[k]
      <4>1. "REMOVE" \in ReqName \cup {"none"} /\ NoTag \in AnyTag
        BY DEF ReqName, AnyTag
      <4> QED BY <2>2, <2>13, <2>16, <2>17, <3>5, <4>1, SendFacts, ZenonT(30)
    <3>7. q.k = "req" /\ q.req = "REMOVE"
      BY <3>5
    <3>a. s.active = <<>> /\ s.idle = <<>> /\ t.active = <<>> /\ t.idle = <<>>
          /\ t.timeout = s.timeout /\ s.st = "Assigned" /\ t.st = "RemovePending"
      BY <2>17, <3>4 DEF last
    <3>b. \E p : w = Append(v, p) /\ p.k = "req" /\ p.req = "REMOVE"
      BY <3>6, <3>7
    <3>8. MasterInv(kind, E, t, m, w, known, ghost)
      BY <2>14, <2>15, <3>a, <3>b, LastLeavesInv
    <3> QED BY <2>12, <2>13, <2>17, <3>1, <3>2, <3>3, <3>6, <3>8
  <2>18. CASE /\ last /\ s.st \in {"Idle", "OutOfService"}
              /\ ma' = [ma EXCEPT ![m] = IF s.timeout THEN [s EXCEPT !.st = "delayed"]
                                         ELSE NoMaster]
              /\ ghost' = ghost \cup Note(~s.timeout /\ ~Quiet(m), "freed")
              /\ up' = up
    <3>1. r.st \in {"Idle", "OutOfService"}
      BY <2>6, <2>10, <2>18
    <3>2. v = <<>> /\ m \notin known
      BY <2>14, <3>1 DEF MasterInv, Assigns
    <3>3. ghost' = ghost
      BY <2>13, <2>18, <3>2 DEF Quiet, Note
    <3>4. CASE s.timeout
      <4>1. PICK t : t = [s EXCEPT !.st = "delayed"]
        OBVIOUS
      <4>2. t \in MasterRec
        BY <2>9, <4>1 DEF MasterRec, MasterSt
      <4>3. t.st = "delayed" /\ t.active = s.active /\ t.idle = s.idle
            /\ t.timeout = s.timeout
        BY <2>9, <4>1 DEF MasterRec
      <4>4. w = v
        BY <2>13, <2>18
      <4>5. MasterInv(kind, E, t, m, w, known, ghost)
        BY <2>14, <2>15, <2>18, <4>3, <4>4, LastLeavesInv DEF last
      <4> QED BY <2>12, <2>13, <2>16, <2>18, <3>3, <3>4, <4>1, <4>2, <4>5
    <3>5. CASE ~s.timeout
      <4>1. MasterFits(E, s, m)
        BY <2>14, <2>15, LeaveFits DEF MasterInv
      <4>2. \A g \in File : E[g].me # m
        BY <2>18, <4>1 DEF last, MasterFits, Range, ActiveOf, IdleOf
      <4>3. MasterInv(kind, E, NoMaster, m, <<>>, known, ghost)
        BY <3>2, <4>2, NoMasterInv
      <4>4. w = <<>>
        BY <2>13, <2>18, <3>2
      <4> QED BY <2>12, <2>13, <2>16, <2>18, <3>3, <3>5, <4>3, <4>4, NoMasterType
    <3> QED BY <3>4, <3>5
  <2>19. CASE /\ ~(last /\ s.st \in {"Assigned", "Idle", "OutOfService"})
              /\ ma' = [ma EXCEPT ![m] = s]
              /\ up' = up /\ ghost' = ghost
    <3>1. s.st \in {"Idle", "Assigned"} => s.active # <<>> \/ s.idle # <<>>
      BY <2>19 DEF last
    <3>2. MasterInv(kind, E, s, m, v, known, ghost)
      BY <2>14, <2>15, <3>1, LeaveInv
    <3> QED BY <2>9, <2>12, <2>13, <2>16, <2>19, <3>2
  <2> QED BY <2>11, <2>17, <2>18, <2>19
<1> QED BY <1>8, <1>9

\* A management entity of which nothing is outstanding sends a request q.
LEMMA EntityAsks ==
  ASSUME NEW f, NEW e, NEW n, NEW v \in Seq(Request \cup Event), NEW q, NEW w, NEW K,
         EntityFits(f, e, v, K), Owed(v) = {}, w = Append(v, q), q.k = "req",
         n.Id, ~n.rc, n.aborted => n.handler, n.st # "deleting", n.rc_count > 0,
         n.st = "open" => "RC_PENDING" \in n.status,
         q.req # "REMOVE" => q.tag = <<f, n.bit>>,
         q.req = "ASSIGN" => "ASSIGN_PENDING" \in n.status,
         "ASSIGN_PENDING" \in n.status => q.req = "ASSIGN" /\ ~e.Id
  PROVE  EntityFits(f, n, w, K)
<1>1. /\ Len(w) = Len(v) + 1 /\ Len(v) \in Nat /\ w[Len(w)] = q
      /\ DOMAIN w = 1 .. Len(w) /\ DOMAIN v = 1 .. Len(v)
      /\ \A i \in 1 .. Len(v) : w[i] = v[i]
  OBVIOUS
<1>2. \A i \in DOMAIN v : v[i].k \notin {"req", "rc"}
  BY DEF Owed
<1>3. \A i \in Owed(w) : i = Len(w)
  <2> SUFFICES ASSUME NEW i \in DOMAIN w, w[i].k \in {"req", "rc"} PROVE i = Len(w)
    BY DEF Owed
  <2>1. i \in 1 .. Len(v) \/ i = Len(w)
    BY <1>1
  <2> QED BY <1>1, <1>2, <2>1
<1>4. ASSUME "ASSIGN_PENDING" \in n.status
      PROVE  Len(w) = 1 /\ w[1].k = "req" /\ w[1].req = "ASSIGN" /\ f \notin K
  <2>1. v = <<>> /\ f \notin K
    BY <1>4 DEF EntityFits
  <2>2. Len(w) = 1
    BY <1>1, <2>1
  <2> QED BY <1>1, <1>4, <2>1, <2>2
<1> QED BY <1>1, <1>3, <1>4 DEF EntityFits

\* A step that changes a management entity and what the card has for it.
LEMMA EntityStep ==
  ASSUME IInv, NEW f \in File, kind = "man", present,
         NEW n \in FileRec, fi' = [fi EXCEPT ![f] = n],
         kind' = kind, present' = present, ma' = ma,
         NEW w \in Seq(Request \cup Event), up' = [up EXCEPT ![f] = w],
         known' \subseteq Ent, \A x \in Ent \ {f} : x \in known' <=> x \in known,
         ghost' = ghost,
         n.me = NULL, FileFits(kind, n), n.st # "delayed" \/ "TIMEOUT" \in n.status,
         "TIMEOUT" \in n.status \/ EntityFits(f, n, w, known')
  PROVE  IInv'
<1>1. TypeOK /\ Masters /\ Entities
  BY DEF IInv
<1>2. fi[f].me = NULL /\ f \in Ent
  BY <1>1 DEF Entities, Ent
<1>3. fi' \in [File -> FileRec] /\ fi'[f] = n /\ \A k \in File \ {f} : fi'[k] = fi[k]
  BY <1>1 DEF TypeOK
<1>4. up' \in [Ent -> Seq(Request \cup Event)] /\ up'[f] = w
      /\ \A x \in Ent \ {f} : up'[x] = up[x]
  BY <1>1, <1>2 DEF TypeOK
<1>5. TypeOK' /\ FileOnly(f) /\ GhostsGrow
  BY <1>1, <1>3, <1>4 DEF TypeOK, FileOnly, GhostsGrow
<1>6. \A m \in Master : m \in Ent \ {f}
  BY MasterIsOne
<1>7. Masters'
  BY <1>1, <1>2, <1>3, <1>4, <1>5, <1>6, MastersCalm
<1>8. \A g \in File \ {f} : up'[g] = up[g] /\ (g \in known' <=> g \in known)
  BY <1>4 DEF Ent
<1>9. "TIMEOUT" \in fi'[f].status \/ EntityFits(f, fi'[f], up'[f], known')
  BY <1>3, <1>4
<1>10. fi'[f].me = NULL /\ FileFits(kind, fi'[f])
       /\ (fi'[f].st = "delayed" => "TIMEOUT" \in fi'[f].status /\ present)
  BY <1>3
<1> QED BY <1>5, <1>7, <1>8, <1>9, <1>10, FileStep

\* process_idi_request.
LEMMA ProcessIdiRequestNext ==
  ASSUME IInv, NEW f \in File, NEW req \in ManReq, process_idi_request(f, req)
  PROVE  IInv'
<1>1. TypeOK /\ Files /\ Entities
  BY DEF IInv
<1>2. PICK e \in FileRec : e = fi[f]
  BY <1>1 DEF TypeOK
<1>3. /\ kind = "man" /\ e.st = "open" /\ present /\ (req = "ASSIGN") = ~e.Id
      /\ "RC_PENDING" \notin e.status
      /\ kind' = kind /\ present' = present /\ ma' = ma /\ known' = known /\ ghost' = ghost
  BY <1>2 DEF process_idi_request, CanWrite
<1>4. PICK z \in {0, 1} : z = NewBit(f)
  BY DEF NewBit
<1>5. PICK S \in SUBSET StatusBit, A \in SUBSET StatusBit, c \in Nat :
        /\ S = e.status \cup {"RC_PENDING"} /\ A = S \cup {"ASSIGN_PENDING"}
        /\ c = e.rc_count + 1
  <2>1. e.status \in SUBSET StatusBit /\ e.rc_count \in Nat
    BY DEF FileRec
  <2>2. "RC_PENDING" \in StatusBit /\ "ASSIGN_PENDING" \in StatusBit
    BY DEF StatusBit
  <2>3. PICK S \in SUBSET StatusBit : S = e.status \cup {"RC_PENDING"}
    BY <2>1, <2>2
  <2>4. PICK A \in SUBSET StatusBit : A = S \cup {"ASSIGN_PENDING"}
    BY <2>2
  <2>5. PICK c \in Nat : c = e.rc_count + 1
    BY <2>1
  <2> QED BY <2>3, <2>4, <2>5
<1>6. req \in ReqName
  BY DEF ManReq, ReqName
<1>7. PICK t : t = [e EXCEPT !.Id = TRUE, !.Req = req, !.bit = z, !.status = S,
                             !.rc_count = c, !.timer = TRUE]
  OBVIOUS
<1>8. t \in FileRec
  BY <1>6, <1>7 DEF FileRec
<1>9. /\ t.st = e.st /\ t.me = e.me /\ t.Id = TRUE /\ t.bit = z /\ t.status = S
      /\ t.rc_count = c /\ t.rc = e.rc /\ t.aborted = e.aborted /\ t.handler = e.handler
  BY <1>7 DEF FileRec
<1>10. t = StartWdog([e EXCEPT !.Id = TRUE, !.Req = req, !.bit = NewBit(f),
             !.status = @ \cup {"RC_PENDING"}, !.rc_count = @ + 1])
  BY <1>4, <1>5, <1>6, <1>7 DEF FileRec, StartWdog
<1>11. \/ /\ fi' = [fi EXCEPT ![f] = IF req = "ASSIGN"
                  THEN [t EXCEPT !.status = @ \cup {"ASSIGN_PENDING"}] ELSE t]
          /\ Send(up, f, req, <<f, t.bit>>)
       \/ /\ req = "ASSIGN"
          /\ fi' = [fi EXCEPT ![f] = WriteRc([t EXCEPT !.Id = FALSE])]
          /\ up' = up
  BY <1>2, <1>10 DEF process_idi_request
<1>12. e.me = NULL /\ f \in Ent
  BY <1>1, <1>2, <1>3 DEF Entities, Ent
<1>13. "TIMEOUT" \notin e.status => EntityFits(f, e, up[f], known)
  BY <1>1, <1>2, <1>3 DEF Entities
<1>14. PICK v \in Seq(Request \cup Event) : v = up[f]
  BY <1>1, <1>12 DEF TypeOK
<1>15. "TIMEOUT" \notin e.status =>
         Owed(v) = {} /\ ~e.rc /\ "ASSIGN_PENDING" \notin e.status
  <2> SUFFICES ASSUME "TIMEOUT" \notin e.status
               PROVE  Owed(v) = {} /\ ~e.rc /\ "ASSIGN_PENDING" \notin e.status
    OBVIOUS
  <2>1. Owed(v) = {} /\ ~e.rc
    BY <1>3, <1>13, <1>14 DEF EntityFits
  <2>2. "ASSIGN_PENDING" \in e.status => 1 \in Owed(v)
    BY <1>13, <1>14 DEF EntityFits, Owed
  <2> QED BY <2>1, <2>2
<1>16. CASE /\ fi' = [fi EXCEPT ![f] = IF req = "ASSIGN"
                 THEN [t EXCEPT !.status = @ \cup {"ASSIGN_PENDING"}] ELSE t]
            /\ Send(up, f, req, <<f, t.bit>>)
  <2>1. PICK n : n = IF req = "ASSIGN" THEN [t EXCEPT !.status = A] ELSE t
    OBVIOUS
  <2>2. /\ n \in FileRec /\ n.st = e.st /\ n.me = NULL /\ n.Id = TRUE /\ n.bit = z
        /\ n.rc_count = c /\ n.rc = e.rc /\ n.aborted = e.aborted /\ n.handler = e.handler
        /\ n.status = IF req = "ASSIGN" THEN A ELSE S
    <3>1. CASE req = "ASSIGN"
      <4>1. n = [t EXCEPT !.status = A]
        BY <2>1, <3>1
      <4>2. n \in FileRec
        BY <1>8, <4>1 DEF FileRec
      <4> QED BY <1>8, <1>9, <1>12, <3>1, <4>1, <4>2 DEF FileRec
    <3>2. CASE req # "ASSIGN"
      BY <1>8, <1>9, <1>12, <2>1, <3>2
    <3> QED BY <3>1, <3>2
  <2>3. fi' = [fi EXCEPT ![f] = n]
    BY <1>5, <1>9, <1>16, <2>1
  <2>4. PICK q : q = [k |-> "req", req |-> req, tag |-> <<f, z>>]
    OBVIOUS
  <2>5. <<f, z>> \in AnyTag
    BY DEF AnyTag, Tag
  <2>6. q \in Request
    BY <1>6, <2>4, <2>5 DEF Request
  <2>a. q \in Request \cup Event
    BY <2>6
  <2>b. Append(v, q) \in Seq(Request \cup Event)
    BY <2>a
  <2>7. PICK w \in Seq(Request \cup Event) : w = Append(v, q)
    BY <2>b
  <2>8. up' = [up EXCEPT ![f] = w]
    BY <1>6, <1>9, <1>14, <1>16, <2>4, <2>7 DEF Send, ReqName
  <2>9. "RC_PENDING" \in n.status /\ e.status \subseteq n.status
        /\ ("ASSIGN_PENDING" \in n.status => req = "ASSIGN" \/ "ASSIGN_PENDING" \in e.status)
        /\ (req = "ASSIGN" => "ASSIGN_PENDING" \in n.status)
    BY <1>5, <2>2
  <2>10. "TIMEOUT" \in n.status \/ EntityFits(f, n, w, known)
    <3> SUFFICES ASSUME "TIMEOUT" \notin e.status PROVE EntityFits(f, n, w, known)
      BY <2>9
    <3>1. EntityFits(f, e, v, known) /\ Owed(v) = {}
      BY <1>13, <1>14, <1>15
    <3>2. n.Id /\ ~n.rc /\ n.st # "deleting" /\ (n.aborted => n.handler)
      BY <1>3, <1>15, <2>2, <3>1 DEF EntityFits
    <3>3. n.rc_count > 0
      BY <1>5, <2>2 DEF FileRec
    <3>4. /\ q.k = "req" /\ q.req = req /\ q.tag = <<f, n.bit>>
      BY <2>2, <2>4
    <3>5. "ASSIGN_PENDING" \in n.status => req = "ASSIGN" /\ ~e.Id
      BY <1>3, <1>15, <2>9
    <3> QED BY <2>7, <2>9, <3>1, <3>2, <3>3, <3>4, <3>5, EntityAsks
  <2>11. FileFits(kind, n) /\ n.st # "delayed"
    BY <1>3, <2>2 DEF FileFits
  <2>12. known' \subseteq Ent
    BY <1>1, <1>3 DEF TypeOK
  <2> QED BY <1>3, <2>2, <2>3, <2>8, <2>10, <2>11, <2>12, EntityStep
<1>17. CASE /\ req = "ASSIGN"
            /\ fi' = [fi EXCEPT ![f] = WriteRc([t EXCEPT !.Id = FALSE])]
            /\ up' = up
  <2>1. PICK n : n = [t EXCEPT !.Id = FALSE, !.rc = TRUE]
    OBVIOUS
  <2>2. n \in FileRec
    BY <1>8, <2>1 DEF FileRec
  <2>3. n = WriteRc([t EXCEPT !.Id = FALSE])
    <3>1. "RC_PENDING" \in t.status
      BY <1>5, <1>9
    <3>2. PICK b : b = [t EXCEPT !.Id = FALSE]
      OBVIOUS
    <3>3. b \in FileRec /\ b.status = t.status
      BY <1>8, <3>2 DEF FileRec
    <3>4. WriteRc(b) = [b EXCEPT !.rc = TRUE]
      BY <3>1, <3>3 DEF WriteRc
    <3> QED BY <1>8, <2>1, <3>2, <3>4 DEF FileRec
  <2>4. /\ n.st = e.st /\ n.me = NULL /\ n.Id = FALSE /\ n.status = S /\ n.rc = TRUE
        /\ n.aborted = e.aborted /\ n.handler = e.handler
    BY <1>8, <1>9, <1>12, <2>1 DEF FileRec
  <2>5. FileFits(kind, n) /\ n.st # "delayed"
    BY <1>3, <2>4 DEF FileFits
  <2>6. "TIMEOUT" \in n.status \/ EntityFits(f, n, up[f], known)
    <3> SUFFICES ASSUME "TIMEOUT" \notin e.status PROVE EntityFits(f, n, v, known)
      BY <1>5, <1>14, <2>4
    <3>1. EntityFits(f, e, v, known) /\ Owed(v) = {}
      BY <1>13, <1>14, <1>15
    <3>2. v = <<>> /\ f \notin known
      BY <1>3, <1>17, <3>1 DEF EntityFits
    <3>3. "RC_PENDING" \in n.status /\ "ASSIGN_PENDING" \notin n.status
      BY <1>5, <1>15, <2>4
    <3> QED BY <1>3, <2>4, <3>1, <3>2, <3>3 DEF EntityFits
  <2>7. fi' = [fi EXCEPT ![f] = n]
    BY <1>17, <2>3
  <2> QED BY <1>2, <1>3, <1>12, <1>17, <2>2, <2>4, <2>5, <2>6, <2>7, LocalStep
<1> QED BY <1>11, <1>16, <1>17

\* entity_start_remove: REMOVE is sent when nothing is outstanding.
LEMMA StartRemoveNext ==
  ASSUME IInv, NEW f \in File, entity_start_remove(f)
  PROVE  IInv'
<1>1. TypeOK /\ Files /\ Entities
  BY DEF IInv
<1>2. PICK e \in FileRec : e = fi[f]
  BY <1>1 DEF TypeOK
<1> DEFINE sends == present /\ e.rc_count = 0 /\ e.Id
<1>3. /\ e.st = "removing"
      /\ fi' = [fi EXCEPT ![f] =
           IF sends THEN [e EXCEPT !.st = "waiting", !.Req = "REMOVE",
                                   !.rc_count = @ + 1]
           ELSE [e EXCEPT !.st = "waiting"]]
      /\ Send(up, f, IF sends THEN "REMOVE" ELSE "none", <<f, e.bit>>)
      /\ kind' = kind /\ present' = present /\ ma' = ma /\ known' = known /\ ghost' = ghost
  BY <1>2 DEF entity_start_remove, TagOf
<1>4. FileFits(kind, e)
  BY <1>1, <1>2 DEF Files
<1>5. kind = "man" /\ e.me = NULL /\ "REMOVE_PENDING" \in e.status /\ (e.timer \/ e.aborted)
  BY <1>3, <1>4 DEF FileFits
<1>6. f \in Ent
  BY DEF Ent
<1>7. PICK v \in Seq(Request \cup Event) : v = up[f]
  BY <1>1, <1>6 DEF TypeOK
<1>8. CASE sends
  <2>1. PICK c \in Nat : c = e.rc_count + 1
    BY DEF FileRec
  <2>2. PICK n : n = [e EXCEPT !.st = "waiting", !.Req = "REMOVE", !.rc_count = c]
    OBVIOUS
  <2>3. n \in FileRec
    BY <2>2 DEF FileRec, FileSt, ReqName
  <2>4. /\ n.st = "waiting" /\ n.me = e.me /\ n.Id = e.Id /\ n.status = e.status
        /\ n.rc_count = c /\ n.rc = e.rc /\ n.bit = e.bit /\ n.timer = e.timer
        /\ n.aborted = e.aborted /\ n.handler = e.handler
    BY <2>2 DEF FileRec, FileSt, ReqName
  <2>5. PICK q : q = [k |-> "req", req |-> "REMOVE", tag |-> <<f, e.bit>>]
    OBVIOUS
  <2>6. <<f, e.bit>> \in AnyTag
    BY DEF AnyTag, Tag, FileRec
  <2>7. q \in Request
    BY <2>5, <2>6 DEF Request, ReqName
  <2>8. q \in Request \cup Event
    BY <2>7
  <2>9. Append(v, q) \in Seq(Request \cup Event)
    BY <2>8
  <2>10. PICK w \in Seq(Request \cup Event) : w = Append(v, q)
    BY <2>9
  <2>11. up' = [up EXCEPT ![f] = w]
    BY <1>3, <1>7, <1>8, <2>5, <2>10 DEF Send
  <2>12. fi' = [fi EXCEPT ![f] = n]
    BY <1>3, <1>8, <2>1, <2>2
  <2>13. FileFits(kind, n) /\ n.st # "delayed" /\ n.me = NULL
    BY <1>5, <2>4 DEF FileFits
  <2>14. "TIMEOUT" \in n.status \/ EntityFits(f, n, w, known)
    <3> SUFFICES ASSUME "TIMEOUT" \notin e.status PROVE EntityFits(f, n, w, known)
      BY <2>4
    <3>1. EntityFits(f, e, v, known)
      BY <1>1, <1>2, <1>5, <1>7, <1>8 DEF Entities
    <3>2. Owed(v) = {}
      BY <1>8, <3>1 DEF EntityFits
    <3>3. "ASSIGN_PENDING" \notin e.status
      <4>1. "ASSIGN_PENDING" \in e.status => 1 \in Owed(v)
        BY <3>1 DEF EntityFits, Owed
      <4> QED BY <3>2, <4>1
    <3>4. q.k = "req" /\ q.req = "REMOVE"
      BY <2>5
    <3>5. /\ Len(w) = Len(v) + 1 /\ Len(v) \in Nat /\ w[Len(w)] = q
          /\ DOMAIN w = 1 .. Len(w) /\ DOMAIN v = 1 .. Len(v)
          /\ \A i \in 1 .. Len(v) : w[i] = v[i]
      BY <2>10, <2>8
    <3>6. \A i \in Owed(w) : i = Len(w)
      <4> SUFFICES ASSUME NEW i \in DOMAIN w, w[i].k \in {"req", "rc"} PROVE i = Len(w)
        BY DEF Owed
      <4>1. i \in 1 .. Len(v) \/ i = Len(w)
        BY <3>5
      <4> QED BY <3>2, <3>5, <4>1 DEF Owed
    <3>7. n.rc_count > 0
      BY <2>1, <2>4 DEF FileRec
    <3> QED BY <1>8, <2>4, <3>1, <3>3, <3>4, <3>5, <3>6, <3>7 DEF EntityFits
  <2>15. known' \subseteq Ent
    BY <1>1, <1>3 DEF TypeOK
  <2> QED BY <1>3, <1>5, <1>8, <2>3, <2>11, <2>12, <2>13, <2>14, <2>15, EntityStep
<1>9. CASE ~sends
  <2>1. PICK n : n = [e EXCEPT !.st = "waiting"]
    OBVIOUS
  <2>2. n \in FileRec
    BY <2>1 DEF FileRec, FileSt
  <2>3. /\ n.st = "waiting" /\ n.me = e.me /\ n.Id = e.Id /\ n.status = e.status
        /\ n.rc_count = e.rc_count /\ n.rc = e.rc /\ n.bit = e.bit /\ n.timer = e.timer
        /\ n.aborted = e.aborted /\ n.handler = e.handler
    BY <2>1 DEF FileRec, FileSt
  <2>4. FileFits(kind, n) /\ n.st # "delayed" /\ n.me = NULL
    BY <1>5, <2>3 DEF FileFits
  <2>5. present => "TIMEOUT" \in n.status \/ EntityFits(f, n, v, known)
    <3> SUFFICES ASSUME present, "TIMEOUT" \notin e.status PROVE EntityFits(f, n, v, known)
      BY <2>3
    <3>1. EntityFits(f, e, v, known)
      BY <1>1, <1>2, <1>5, <1>7 DEF Entities
    <3> QED BY <2>3, <3>1 DEF EntityFits
  <2>6. up' = up /\ fi' = [fi EXCEPT ![f] = n]
    BY <1>3, <1>9, <2>1 DEF Send
  <2> QED BY <1>2, <1>3, <1>5, <1>7, <2>2, <2>3, <2>4, <2>5, <2>6, LocalStep
<1> QED BY <1>8, <1>9

\* What is owed once the first event is consumed.
LEMMA OwedTail ==
  ASSUME NEW u \in Seq(Request \cup Event), u # <<>>
  PROVE  \A i \in Owed(Tail(u)) : /\ i + 1 \in Owed(u) /\ i \in Nat
                                  /\ Tail(u)[i] = u[i + 1] /\ (i + 1 = Len(u) => i = Len(Tail(u)))
<1>1. /\ Tail(u) \in Seq(Request \cup Event) /\ Len(Tail(u)) = Len(u) - 1 /\ Len(u) \in Nat
      /\ \A i \in 1 .. Len(Tail(u)) : Tail(u)[i] = u[i + 1]
      /\ DOMAIN u = 1 .. Len(u)
  OBVIOUS
<1>2. PICK w : w = Tail(u)
  OBVIOUS
<1>3. w \in Seq(Request \cup Event) /\ Len(w) = Len(u) - 1 /\ DOMAIN w = 1 .. Len(w)
      /\ \A i \in 1 .. Len(w) : w[i] = u[i + 1]
  BY <1>1, <1>2
<1> SUFFICES ASSUME NEW i \in DOMAIN w, w[i].k \in {"req", "rc"}
             PROVE  i + 1 \in Owed(u) /\ i \in Nat
                    /\ w[i] = u[i + 1] /\ (i + 1 = Len(u) => i = Len(w))
  BY <1>2 DEF Owed
<1>4. i \in Nat /\ i + 1 \in DOMAIN u /\ w[i] = u[i + 1] /\ (i + 1 = Len(u) => i = Len(w))
  BY <1>1, <1>3
<1> QED BY <1>4 DEF Owed

\* Without chains a request is answered by at most two events, one of them the
\* return code.
LEMMA BriefAnswer ==
  ASSUME kind # "idi", NEW b \in Request, NEW a \in Answers(b)
  PROVE  \/ Len(a) = 1 /\ a[1].k = "rc"
         \/ Len(a) = 2 /\ b.req = "READ" /\ a[1].k = "rc" /\ a[2].k = "ind"
         \/ Len(a) = 2 /\ b.req = "READ" /\ a[1].k = "ind" /\ a[2].k = "rc"
<1>1. CASE Len(a) = 1 /\ a[1].k = "rc"
  BY <1>1
<1>2. CASE ~(Len(a) = 1 /\ a[1].k = "rc")
  <2>1. /\ b.req = "READ"
        /\ \E n \in Nat, i, j \in {1, 2} :
             /\ i # j /\ Len(a) = n + 2 /\ (kind # "idi" => n = 0)
             /\ a[i].k = "rc" /\ a[i].ok /\ a[i].n = 0
             /\ a[j].k = "ind" /\ a[j].n = n
             /\ \A h \in DOMAIN a \ {1, 2} : a[h].k = "ind" /\ a[h].n = 0
    BY <1>2, AnswerShape
  <2>2. PICK n \in Nat, i \in {1, 2}, j \in {1, 2} :
             /\ i # j /\ Len(a) = n + 2 /\ (kind # "idi" => n = 0)
             /\ a[i].k = "rc" /\ a[i].ok /\ a[i].n = 0
             /\ a[j].k = "ind" /\ a[j].n = n
             /\ \A h \in DOMAIN a \ {1, 2} : a[h].k = "ind" /\ a[h].n = 0
    BY <2>1
  <2>3. n = 0 /\ Len(a) = 2
    BY <2>2
  <2> QED BY <2>1, <2>2, <2>3
<1> QED BY <1>1, <1>2

\* What a delivery to a management entity is: the answer that is owed, or an
\* indication.
LEMMA FileDelivery ==
  ASSUME TypeOK, kind = "man", NEW f \in File, NEW u \in Deliveries(f), NEW e, NEW K,
         EntityFits(f, e, up[f], K)
  PROVE  /\ Head(u).k # "rc" => EntityFits(f, e, u, K)
         /\ Head(u).k = "rc" =>
              /\ Owed(Tail(u)) = {}
              /\ Head(u).req # "REMOVE" => Head(u).tag = <<f, e.bit>>
              /\ Head(u).req = "REMOVE" => Tail(u) = <<>>
              /\ Head(u).req = "ASSIGN" => "ASSIGN_PENDING" \in e.status
              /\ "ASSIGN_PENDING" \in e.status =>
                   Head(u).req = "ASSIGN" /\ Tail(u) = <<>> /\ f \notin K
<1>1. f \in Ent
  BY DEF Ent
<1>2. PICK v : v = up[f]
  OBVIOUS
<1>3. /\ u \in Seq(Request \cup Event) /\ u # <<>> /\ Head(u) \in Event
      /\ Tail(u) \in Seq(Request \cup Event)
      /\ v # <<>> /\ v \in Seq(Request \cup Event)
      /\ \/ v[1].k # "req" /\ u = v
         \/ /\ v[1].k = "req" /\ v[1] \in Request
            /\ \E a \in Answers(v[1]) : u = a \o Tail(v)
  BY <1>1, <1>2, DeliveryShape
<1>4. EntityFits(f, e, v, K)
  BY <1>2
<1>5. Head(u) = u[1] /\ 1 \in DOMAIN v
  BY <1>3
<1>6. \A i, j \in Owed(v) : i = j
  BY <1>4 DEF EntityFits
<1>7. 1 \in Owed(v) => Owed(Tail(v)) = {}
  <2> SUFFICES ASSUME 1 \in Owed(v), NEW i \in Owed(Tail(v)) PROVE FALSE
    OBVIOUS
  <2>1. i + 1 \in Owed(v) /\ i \in DOMAIN Tail(v)
    BY <1>3, OwedTail DEF Owed
  <2>2. i + 1 = 1 /\ i \in 1 .. Len(Tail(v))
    BY <1>3, <1>6, <2>1
  <2> QED BY <2>2
<1>8. CASE v[1].k # "req" /\ u = v
  <2>1. Head(u).k # "rc" => EntityFits(f, e, u, K)
    BY <1>4, <1>8
  <2>2. ASSUME Head(u).k = "rc"
        PROVE  /\ 1 \in Owed(v) /\ Head(u).req \notin {"REMOVE", "ASSIGN"}
               /\ Head(u).tag = <<f, e.bit>> /\ "ASSIGN_PENDING" \notin e.status
    <3>1. v[1].k = "rc" /\ Head(u) = v[1]
      BY <1>5, <1>8, <2>2
    <3>2. 1 \in Owed(v)
      BY <1>5, <3>1 DEF Owed
    <3>3. "ASSIGN_PENDING" \notin e.status
      BY <1>4, <3>1 DEF EntityFits
    <3>4. v[1].req # "REMOVE" /\ v[1].req # "ASSIGN"
      BY <1>4, <3>1, <3>2, <3>3 DEF EntityFits
    <3>5. v[1].tag = <<f, e.bit>>
      BY <1>4, <3>2, <3>4 DEF EntityFits
    <3> QED BY <3>1, <3>2, <3>3, <3>4, <3>5
  <2> QED BY <1>7, <1>8, <2>1, <2>2
<1>9. ASSUME v[1].k = "req", v[1] \in Request, NEW a \in Answers(v[1]), u = a \o Tail(v)
      PROVE  /\ Head(u).k # "rc" => EntityFits(f, e, u, K)
             /\ Head(u).k = "rc" =>
                  /\ Owed(Tail(u)) = {}
                  /\ Head(u).req # "REMOVE" => Head(u).tag = <<f, e.bit>>
                  /\ Head(u).req = "REMOVE" => Tail(u) = <<>>
                  /\ Head(u).req = "ASSIGN" => "ASSIGN_PENDING" \in e.status
                  /\ "ASSIGN_PENDING" \in e.status =>
                       Head(u).req = "ASSIGN" /\ Tail(u) = <<>> /\ f \notin K
  <2>1. 1 \in Owed(v)
    BY <1>5, <1>9 DEF Owed
  <2>2. PICK w : w = Tail(v)
    OBVIOUS
  <2>3. w \in Seq(Request \cup Event) /\ Owed(w) = {} /\ (Len(v) = 1 => w = <<>>)
        /\ u = a \o w
    BY <1>3, <1>7, <1>9, <2>1, <2>2, TailOfOne
  <2>4. \A i \in DOMAIN w : w[i].k \notin {"req", "rc"}
    BY <2>3 DEF Owed
  <2>5. /\ v[1].req # "REMOVE" => v[1].tag = <<f, e.bit>>
        /\ v[1].req = "REMOVE" => Len(v) = 1
        /\ v[1].req = "ASSIGN" => "ASSIGN_PENDING" \in e.status
        /\ "ASSIGN_PENDING" \in e.status => Len(v) = 1 /\ v[1].req = "ASSIGN" /\ f \notin K
        /\ e.rc_count > 0
        /\ e.st = "open" => "RC_PENDING" \in e.status /\ ~e.rc
    BY <1>4, <2>1 DEF EntityFits
  <2>6. /\ a \in Seq(Event) /\ a # <<>>
        /\ \A i \in DOMAIN a : a[i].tag = v[1].tag /\ a[i].req = v[1].req
    BY <1>9, AnswerShape
  <2>7. \/ Len(a) = 1 /\ a[1].k = "rc"
        \/ Len(a) = 2 /\ v[1].req = "READ" /\ a[1].k = "rc" /\ a[2].k = "ind"
        \/ Len(a) = 2 /\ v[1].req = "READ" /\ a[1].k = "ind" /\ a[2].k = "rc"
    <3>1. PICK b : b = v[1]
      OBVIOUS
    <3>2. b \in Request /\ a \in Answers(b) /\ kind # "idi"
      BY <1>9, <3>1
    <3> QED BY <3>1, <3>2, BriefAnswer
  <2>8. /\ Len(u) = Len(a) + Len(w) /\ Len(a) \in Nat /\ Len(w) \in Nat
        /\ DOMAIN u = 1 .. Len(u) /\ DOMAIN w = 1 .. Len(w) /\ DOMAIN a = 1 .. Len(a)
        /\ \A i \in 1 .. Len(a) : u[i] = a[i]
        /\ \A i \in 1 .. Len(w) : u[Len(a) + i] = w[i]
    <3>1. a \in Seq(Event) /\ w \in Seq(Request \cup Event)
      BY <2>3, <2>6
    <3> QED BY <2>3, <3>1
  <2>9. \A i \in DOMAIN u : i > Len(a) => i \notin Owed(u)
    <3> SUFFICES ASSUME NEW i \in DOMAIN u, i > Len(a) PROVE u[i].k \notin {"req", "rc"}
      BY DEF Owed
    <3>1. PICK j \in 1 .. Len(w) : j = i - Len(a) /\ i = Len(a) + j
      BY <2>8
    <3>2. u[i] = w[j]
      BY <2>8, <3>1
    <3> QED BY <2>4, <2>8, <3>1, <3>2
  <2>10. Head(u).req = v[1].req /\ Head(u).tag = v[1].tag /\ Head(u).k = a[1].k
    <3>1. 1 \in DOMAIN a
      BY <2>6
    <3>2. u[1] = a[1]
      BY <2>8, <3>1
    <3> QED BY <1>5, <2>6, <3>1, <3>2
  <2>11. \A i \in Owed(Tail(u)) : i + 1 \in Owed(u) /\ i \in Nat /\ i > 0
    <3>1. \A i \in Owed(Tail(u)) : i + 1 \in Owed(u) /\ i \in Nat
      BY <1>3, OwedTail
    <3>2. \A i \in Owed(Tail(u)) : i \in 1 .. Len(Tail(u))
      BY <1>3 DEF Owed
    <3> QED BY <3>1, <3>2
  <2>12. Len(v) = 1 /\ Len(a) = 1 => Tail(u) = <<>>
    <3> SUFFICES ASSUME Len(v) = 1, Len(a) = 1 PROVE Tail(u) = <<>>
      OBVIOUS
    <3>1. Len(w) = 0
      BY <2>3
    <3>2. Len(u) = 1
      BY <2>8, <3>1
    <3> QED BY <1>3, <3>2, TailOfOne
  <2>13. CASE a[1].k = "rc"
    <3>1. Len(a) = 1 \/ v[1].req = "READ"
      BY <2>7
    <3>2. Owed(Tail(u)) = {}
      <4> SUFFICES ASSUME NEW i \in Owed(Tail(u)) PROVE FALSE
        OBVIOUS
      <4>1. i + 1 \in Owed(u) /\ i + 1 > 1 /\ i \in Nat
        BY <2>11
      <4>2. i + 1 \in DOMAIN u /\ u[i + 1].k \in {"req", "rc"}
        BY <4>1 DEF Owed
      <4>a. ~(i + 1 > Len(a))
        BY <2>9, <4>1, <4>2
      <4>3. i + 1 <= Len(a)
        BY <2>8, <4>1, <4>a
      <4>4. i + 1 = 2 /\ Len(a) = 2 /\ a[2].k = "ind"
        <5>1. Len(a) # 1
          <6> SUFFICES ASSUME Len(a) = 1 PROVE FALSE
            OBVIOUS
          <6>1. i + 1 <= 1
            BY <4>3, Zenon
          <6> QED BY <4>1, <6>1
        <5>2. Len(a) = 2 /\ a[2].k = "ind"
          BY <2>7, <2>13, <5>1
        <5>3. i + 1 <= 2 /\ i + 1 > 1 /\ i \in Nat
          BY <4>1, <4>3, <5>2
        <5> QED BY <5>2, <5>3
      <4>5. u[2] = a[2]
        BY <2>8, <4>4
      <4> QED BY <4>2, <4>4, <4>5
    <3>3. Head(u).req \in {"REMOVE", "ASSIGN"} => Len(v) = 1 /\ Len(a) = 1
      BY <2>5, <2>10, <3>1
    <3> QED BY <2>5, <2>10, <2>12, <2>13, <3>2, <3>3
  <2>14. CASE a[1].k # "rc"
    <3>1. Len(a) = 2 /\ v[1].req = "READ" /\ a[1].k = "ind" /\ a[2].k = "rc"
      BY <2>7, <2>14
    <3>2. u[1] = a[1] /\ u[2] = a[2]
      BY <2>8, <3>1
    <3>3. \A i \in Owed(u) : i = 2
      <4> SUFFICES ASSUME NEW i \in Owed(u) PROVE i = 2
        OBVIOUS
      <4>1. i \in DOMAIN u /\ u[i].k \in {"req", "rc"}
        BY DEF Owed
      <4>2. i <= Len(a)
        BY <2>8, <2>9, <4>1
      <4>3. i = 1 \/ i = 2
        BY <2>8, <3>1, <4>1, <4>2
      <4> QED BY <3>1, <3>2, <4>1, <4>3
    <3>4. 2 \in DOMAIN a /\ u[2].req = "READ" /\ u[2].tag = <<f, e.bit>>
      BY <2>5, <2>6, <2>8, <3>1, <3>2
    <3>5. e.Id
      BY <1>3, <1>4 DEF EntityFits
    <3>6. "ASSIGN_PENDING" \notin e.status
      BY <2>5, <3>1
    <3>7. EntityFits(f, e, u, K)
      BY <1>4, <2>5, <3>3, <3>4, <3>5, <3>6 DEF EntityFits
    <3> QED BY <2>10, <2>14, <3>7
  <2> QED BY <2>13, <2>14
<1> QED BY <1>3, <1>8, <1>9

\* A file that the card has something for is in use.
LEMMA InUse ==
  ASSUME IInv, NEW f \in File, up[f] # <<>>, kind = "man"
  PROVE  present /\ fi[f].st # "closed" /\ fi[f].me = NULL /\ f \in Ent
         /\ ("TIMEOUT" \in fi[f].status \/ (fi[f].Id /\ EntityFits(f, fi[f], up[f], known)))
<1>1. TypeOK /\ Files /\ Entities /\ f \in Ent
  BY DEF IInv, Ent
<1>2. present /\ fi[f].me = NULL
  BY <1>1 DEF Entities, Quiet
<1>3. "TIMEOUT" \in fi[f].status \/ EntityFits(f, fi[f], up[f], known)
  BY <1>1, <1>2 DEF Entities
<1>4. "TIMEOUT" \in fi[f].status \/ fi[f].Id
  BY <1>3 DEF EntityFits
<1>5. FileFits(kind, fi[f])
  BY <1>1 DEF Files
<1>6. fi[f].st # "closed"
  BY <1>4, <1>5 DEF FileFits
<1> QED BY <1>1, <1>2, <1>3, <1>4, <1>6

\* The return code of a management entity.
LEMMA FileRcNext ==
  ASSUME IInv, NEW f \in File, NEW u \in Deliveries(f), file_rc(f, u)
  PROVE  IInv'
<1>1. TypeOK /\ Files /\ f \in Ent
  BY DEF IInv, Ent
<1>2. PICK e \in FileRec : e = fi[f]
  BY <1>1 DEF TypeOK
<1>3. PICK v : v = up[f]
  OBVIOUS
<1>4. /\ u \in Seq(Request \cup Event) /\ u # <<>> /\ Head(u) \in Event
      /\ Tail(u) \in Seq(Request \cup Event) /\ v # <<>>
  BY <1>1, <1>3, DeliveryShape
<1>5. PICK ev \in Event : ev = Head(u)
  BY <1>4
<1>6. PICK w \in Seq(Request \cup Event) : w = Tail(u)
  BY <1>4
<1>7. PICK s : s = IF ev.req = "REMOVE" THEN [e EXCEPT !.Id = FALSE] ELSE e
  OBVIOUS
<1>8. /\ kind = "man" /\ ev.k = "rc"
      /\ fi' = [fi EXCEPT ![f] = XdiCallbackRc(s, ev.ok)]
      /\ up' = [up EXCEPT ![f] = w]
      /\ ghost' = ghost \cup Note("TIMEOUT" \notin s.status /\ ev.req # "REMOVE"
                                  /\ ev.tag # <<f, e.bit>>, "wrong")
      /\ known' = KnownAfter(f, ev)
      /\ kind' = kind /\ present' = present /\ ma' = ma
  BY <1>2, <1>5, <1>6, <1>7 DEF file_rc, TagOf
<1>9. /\ s \in FileRec /\ s.st = e.st /\ s.me = e.me /\ s.on_active_q = e.on_active_q
      /\ s.handler = e.handler /\ s.aborted = e.aborted /\ s.timer = e.timer
      /\ s.status = e.status /\ s.rc = e.rc /\ s.bit = e.bit
      /\ (ev.req = "REMOVE" => s.Id = FALSE) /\ (ev.req # "REMOVE" => s.Id = e.Id)
  <2>1. CASE ev.req = "REMOVE"
    <3>1. s = [e EXCEPT !.Id = FALSE]
      BY <1>7, <2>1
    <3> QED BY <2>1, <3>1 DEF FileRec
  <2>2. CASE ev.req # "REMOVE"
    BY <1>7, <2>2
  <2> QED BY <2>1, <2>2
<1>10. PICK n : n = XdiCallbackRc(s, ev.ok)
  OBVIOUS
<1>11. AfterRc(n, s, ev.ok)
  BY <1>9, <1>10, CallbackRcFacts
<1>12. /\ present /\ e.st # "closed" /\ e.me = NULL
       /\ ("TIMEOUT" \in e.status \/ (e.Id /\ EntityFits(f, e, v, known)))
  BY <1>2, <1>3, <1>4, <1>8, InUse
<1>13. /\ n \in FileRec /\ n.st = e.st /\ n.me = NULL /\ n.handler = e.handler
       /\ n.aborted = e.aborted
       /\ \A x \in {"RC_PENDING", "REMOVE_PENDING", "TIMEOUT"} :
            x \in n.status <=> x \in e.status
       /\ "REMOVE_PENDING" \in e.status => n.timer = e.timer
  BY <1>9, <1>11, <1>12 DEF AfterRc
<1>14. FileFits(kind, n)
  <2>1. FileFits(kind, e)
    BY <1>1, <1>2 DEF Files
  <2> QED BY <1>8, <1>12, <1>13, <2>1 DEF FileFits
<1>15. known' \subseteq Ent /\ \A x \in Ent \ {f} : x \in known' <=> x \in known
  BY <1>1, <1>8 DEF KnownAfter, TypeOK
<1>16. ASSUME "TIMEOUT" \notin e.status
       PROVE  /\ EntityFits(f, n, w, known')
              /\ ev.req # "REMOVE" => ev.tag = <<f, e.bit>>
  <2>1. EntityFits(f, e, v, known) /\ e.Id
    BY <1>12, <1>16
  <2>2. /\ Owed(w) = {}
        /\ ev.req # "REMOVE" => ev.tag = <<f, e.bit>>
        /\ ev.req = "REMOVE" => w = <<>>
        /\ ev.req = "ASSIGN" => "ASSIGN_PENDING" \in e.status
        /\ "ASSIGN_PENDING" \in e.status => ev.req = "ASSIGN" /\ w = <<>> /\ f \notin known
    BY <1>1, <1>3, <1>5, <1>6, <1>8, <2>1, FileDelivery
  <2>3. /\ n.status = e.status \ {"ASSIGN_PENDING"}
        /\ "ASSIGN_PENDING" \in e.status /\ ~ev.ok => n.Id = FALSE
        /\ ~("ASSIGN_PENDING" \in e.status /\ ~ev.ok) => n.Id = s.Id
        /\ n.rc => e.rc \/ "RC_PENDING" \in e.status
    BY <1>9, <1>11, <1>16 DEF AfterRc
  <2>4. ASSUME ~n.Id PROVE w = <<>> /\ f \notin known'
    <3>1. CASE "ASSIGN_PENDING" \in e.status /\ ~ev.ok
      BY <1>8, <2>2, <3>1 DEF KnownAfter
    <3>2. CASE ~("ASSIGN_PENDING" \in e.status /\ ~ev.ok)
      <4>1. ev.req = "REMOVE"
        BY <1>9, <2>1, <2>3, <2>4, <3>2
      <4> QED BY <1>8, <2>2, <4>1 DEF KnownAfter
    <3> QED BY <3>1, <3>2
  <2>5. n.rc => "RC_PENDING" \in n.status
    BY <2>1, <2>3 DEF EntityFits
  <2>6. (n.aborted => n.handler) /\ (n.st = "deleting" => n.handler \/ ~n.Id)
    <3>1. (e.aborted => e.handler) /\ (e.st = "deleting" => e.handler)
      BY <2>1 DEF EntityFits
    <3> QED BY <1>13, <3>1
  <2>7. "ASSIGN_PENDING" \notin n.status
    BY <2>3
  <2> QED BY <2>2, <2>4, <2>5, <2>6, <2>7 DEF EntityFits
<1>17. ghost' = ghost
  BY <1>8, <1>9, <1>16 DEF Note
<1>18. "TIMEOUT" \in n.status \/ EntityFits(f, n, w, known')
  BY <1>13, <1>16
<1>19. n.st # "delayed" \/ "TIMEOUT" \in n.status
  BY <1>1, <1>2, <1>13 DEF IInv, Entities
<1>20. fi' = [fi EXCEPT ![f] = n]
  BY <1>8, <1>10
<1> QED BY <1>8, <1>12, <1>13, <1>14, <1>15, <1>17, <1>18, <1>19, <1>20, EntityStep

\* An indication that is consumed leaves what is owed.
LEMMA TailFits ==
  ASSUME NEW f, NEW e, NEW K, NEW u \in Seq(Request \cup Event), u # <<>>,
         EntityFits(f, e, u, K), Head(u).k \in {"ind", "data"}
  PROVE  EntityFits(f, e, Tail(u), K)
<1>1. PICK w : w = Tail(u)
  OBVIOUS
<1>2. Head(u) = u[1]
  OBVIOUS
<1>3. \A i \in Owed(w) : i + 1 \in Owed(u) /\ i \in Nat /\ w[i] = u[i + 1]
                         /\ (i + 1 = Len(u) => i = Len(w))
  BY <1>1, OwedTail
<1>4. \A i, j \in Owed(w) : i = j
  <2> SUFFICES ASSUME NEW i \in Owed(w), NEW j \in Owed(w) PROVE i = j
    OBVIOUS
  <2>1. i + 1 = j + 1
    BY <1>3 DEF EntityFits
  <2> QED BY <1>3, <2>1
<1>5. ~e.Id => FALSE
  BY DEF EntityFits
<1>6. "ASSIGN_PENDING" \notin e.status
  BY <1>2 DEF EntityFits
<1>7. \A i \in Owed(w) :
       /\ e.rc_count > 0
       /\ e.st = "open" => "RC_PENDING" \in e.status /\ ~e.rc
       /\ w[i].req # "REMOVE" => w[i].tag = <<f, e.bit>>
       /\ w[i].req = "REMOVE" => i = Len(w) /\ w[i].k = "req"
       /\ w[i].req = "ASSIGN" => "ASSIGN_PENDING" \in e.status
  <2> SUFFICES ASSUME NEW i \in Owed(w)
               PROVE  /\ e.rc_count > 0
                      /\ e.st = "open" => "RC_PENDING" \in e.status /\ ~e.rc
                      /\ w[i].req # "REMOVE" => w[i].tag = <<f, e.bit>>
                      /\ w[i].req = "REMOVE" => i = Len(w) /\ w[i].k = "req"
                      /\ w[i].req = "ASSIGN" => "ASSIGN_PENDING" \in e.status
    OBVIOUS
  <2>1. PICK j \in Owed(u) : j = i + 1
    BY <1>3
  <2>2. w[i] = u[j] /\ (j = Len(u) => i = Len(w))
    BY <1>3, <2>1
  <2> QED BY <2>2 DEF EntityFits
<1>8. EntityFits(f, e, w, K)
  BY <1>4, <1>5, <1>6, <1>7 DEF EntityFits
<1> QED BY <1>1, <1>8

\* An indication that is announced leaves what is owed.
LEMMA DataFits ==
  ASSUME NEW f, NEW e, NEW K, NEW u \in Seq(Request \cup Event), u # <<>>,
         EntityFits(f, e, u, K), Head(u).k = "ind", Head(u) \in Event
  PROVE  LET w == [u EXCEPT ![1].k = "data"] IN
         w \in Seq(Request \cup Event) /\ EntityFits(f, e, w, K)
<1>1. PICK h \in Event : h = u[1]
  OBVIOUS
<1>2. PICK d : d = [h EXCEPT !.k = "data"]
  OBVIOUS
<1>3. d \in Event /\ d.k = "data"
  BY <1>2 DEF Event
<1>4. d \in Request \cup Event
  BY <1>3
<1>5. PICK w : w = [u EXCEPT ![1].k = "data"]
  OBVIOUS
<1>6. w = [u EXCEPT ![1] = d] /\ h.k = "ind"
  BY <1>1, <1>2, <1>5
<1>7. /\ w \in Seq(Request \cup Event) /\ Len(w) = Len(u) /\ DOMAIN w = DOMAIN u
      /\ w[1] = d /\ \A i \in DOMAIN u \ {1} : w[i] = u[i]
  BY <1>4, <1>6
<1>8. Owed(w) = Owed(u) /\ 1 \notin Owed(u)
  BY <1>1, <1>3, <1>6, <1>7 DEF Owed
<1>9. \A i \in Owed(u) : w[i] = u[i]
  BY <1>7, <1>8 DEF Owed
<1>10. "ASSIGN_PENDING" \notin e.status
  BY <1>1, <1>6 DEF EntityFits
<1>11. e.Id
  BY DEF EntityFits
<1>12. EntityFits(f, e, w, K)
  BY <1>7, <1>8, <1>9, <1>10, <1>11 DEF EntityFits
<1> QED BY <1>5, <1>7, <1>12

\* An indication for a management entity.
LEMMA FileIndNext ==
  ASSUME IInv, NEW f \in File, NEW u \in Deliveries(f), file_ind(f, u)
  PROVE  IInv'
<1>1. TypeOK /\ Files /\ f \in Ent
  BY DEF IInv, Ent
<1>2. PICK e \in FileRec : e = fi[f]
  BY <1>1 DEF TypeOK
<1>3. PICK v : v = up[f]
  OBVIOUS
<1>4. /\ u \in Seq(Request \cup Event) /\ u # <<>> /\ Head(u) \in Event
      /\ Tail(u) \in Seq(Request \cup Event) /\ v # <<>>
  BY <1>1, <1>3, DeliveryShape
<1>5. kind = "man" /\ kind' = kind /\ present' = present /\ ma' = ma /\ known' = known
      /\ ghost' = ghost
  BY DEF file_ind
<1>6. /\ present /\ e.st # "closed" /\ e.me = NULL
      /\ ("TIMEOUT" \in e.status \/ (e.Id /\ EntityFits(f, e, v, known)))
  BY <1>2, <1>3, <1>4, <1>5, InUse
<1>7. PICK n \in FileRec : n = fi'[f] /\ fi' = [fi EXCEPT ![f] = n]
           /\ n.st = e.st /\ n.me = e.me /\ n.on_active_q = e.on_active_q
           /\ n.timer = e.timer /\ n.handler = e.handler /\ n.aborted = e.aborted
           /\ n.bit = e.bit /\ n.status = e.status /\ n.Id = e.Id /\ n.rc = e.rc
           /\ n.rc_count = e.rc_count
  <2>1. CASE fi' = fi
    BY <1>1, <1>2, <2>1 DEF TypeOK
  <2>2. CASE fi' = [fi EXCEPT ![f] = TakeInd(e)]
    <3>1. PICK n : n = TakeInd(e)
      OBVIOUS
    <3>2. /\ n \in FileRec
          /\ n.st = e.st /\ n.me = e.me /\ n.on_active_q = e.on_active_q
          /\ n.timer = e.timer /\ n.handler = e.handler /\ n.aborted = e.aborted
          /\ n.bit = e.bit /\ n.status = e.status /\ n.Id = e.Id /\ n.rc = e.rc
          /\ n.rc_count = e.rc_count
      BY <3>1, TakeIndFacts
    <3>3. fi' = [fi EXCEPT ![f] = n] /\ fi'[f] = n
      BY <1>1, <2>2, <3>1 DEF TypeOK
    <3> QED BY <3>2, <3>3
  <2> QED BY <1>2, <2>1, <2>2 DEF file_ind
<1>8. PICK w \in Seq(Request \cup Event) :
           /\ up' = [up EXCEPT ![f] = w]
           /\ \/ Head(u).k = "ind" /\ w = [u EXCEPT ![1].k = "data"]
              \/ Head(u).k \in {"ind", "data"} /\ w = Tail(u)
  <2>1. CASE Head(u).k = "ind" /\ up' = [up EXCEPT ![f] = [u EXCEPT ![1].k = "data"]]
    <3>1. PICK w : w = [u EXCEPT ![1].k = "data"]
      OBVIOUS
    <3>2. w \in Seq(Request \cup Event)
      <4>1. PICK h \in Event : h = u[1]
        BY <1>4
      <4>2. PICK d : d = [h EXCEPT !.k = "data"]
        OBVIOUS
      <4>3. d \in Event
        BY <4>2 DEF Event
      <4>4. d \in Request \cup Event
        BY <4>3
      <4>5. w = [u EXCEPT ![1] = d]
        BY <3>1, <4>1, <4>2
      <4> QED BY <1>4, <4>4, <4>5
    <3> QED BY <2>1, <3>1, <3>2
  <2>2. CASE Head(u).k \in {"ind", "data"} /\ up' = [up EXCEPT ![f] = Tail(u)]
    BY <1>4, <2>2
  <2> QED BY <2>1, <2>2 DEF file_ind
<1>9. FileFits(kind, n)
  <2>1. FileFits(kind, e)
    BY <1>1, <1>2 DEF Files
  <2> QED BY <1>6, <1>7, <2>1 DEF FileFits
<1>10. ASSUME "TIMEOUT" \notin n.status PROVE EntityFits(f, n, w, known)
  <2>1. EntityFits(f, e, v, known) /\ Head(u).k # "rc"
    BY <1>6, <1>7, <1>8, <1>10
  <2>2. EntityFits(f, e, u, known)
    BY <1>1, <1>3, <1>5, <2>1, FileDelivery
  <2>3. EntityFits(f, e, w, known)
    <3>1. CASE Head(u).k = "ind" /\ w = [u EXCEPT ![1].k = "data"]
      BY <1>4, <2>2, <3>1, DataFits
    <3>2. CASE Head(u).k \in {"ind", "data"} /\ w = Tail(u)
      BY <1>4, <2>2, <3>2, TailFits
    <3> QED BY <1>8, <3>1, <3>2
  <2> QED BY <1>7, <2>3 DEF EntityFits
<1>11. n.st # "delayed" \/ "TIMEOUT" \in n.status
  BY <1>1, <1>2, <1>7 DEF IInv, Entities
<1>12. n.me = NULL /\ known' \subseteq Ent /\ (\A x \in Ent \ {f} : x \in known' <=> x \in known)
  BY <1>1, <1>5, <1>6, <1>7 DEF TypeOK
<1>13. "TIMEOUT" \in n.status \/ EntityFits(f, n, w, known')
  BY <1>5, <1>10
<1>14. fi' = [fi EXCEPT ![f] = n] /\ up' = [up EXCEPT ![f] = w]
  BY <1>7, <1>8
<1> QED BY <1>5, <1>6, <1>9, <1>11, <1>12, <1>13, <1>14, EntityStep

\* diva_user_mode_idi_remove_adapter: the files lose the adapter and their
\* masters, the masters are freed.
LEMMA RemoveAdapterNext ==
  ASSUME IInv, diva_user_mode_idi_remove_adapter
  PROVE  IInv'
<1>1. TypeOK /\ Files /\ Entities /\ AnswerToAsker /\ FreedIsQuiet
  BY DEF IInv
<1>2. /\ present /\ present' = FALSE /\ kind' = kind /\ ghost' = ghost /\ known' = {}
      /\ ma' = [m \in Master |-> NoMaster] /\ up' = [x \in Ent |-> <<>>]
  BY DEF diva_user_mode_idi_remove_adapter
<1>3. ASSUME NEW f \in File
      PROVE  /\ fi'[f] \in FileRec /\ fi'[f].me = NULL /\ fi'[f].st # "delayed"
             /\ FileFits(kind, fi'[f])
  <2>1. PICK e \in FileRec : e = fi[f]
    BY <1>1 DEF TypeOK
  <2>2. FileFits(kind, e)
    BY <1>1, <2>1 DEF Files
  <2>3. CASE e.st = "closed"
    <3>1. fi'[f] = e
      BY <2>1, <2>3 DEF diva_user_mode_idi_remove_adapter
    <3> QED BY <2>2, <2>3, <3>1 DEF FileFits
  <2>4. CASE e.st = "delayed"
    <3>1. PICK n : n = Freed(e)
      OBVIOUS
    <3>2. fi'[f] = n
      BY <2>1, <2>4, <3>1 DEF diva_user_mode_idi_remove_adapter
    <3>3. n \in FileRec /\ n.me = NULL /\ n.st = "closed"
      BY <3>1, FreedFacts
    <3>4. FileFits(kind, n)
      BY <3>1, FreedFits
    <3> QED BY <3>2, <3>3, <3>4
  <2>5. CASE e.st \notin {"closed", "delayed"}
    <3>1. PICK c \in Nat : c = 0
      OBVIOUS
    <3>2. PICK S \in SUBSET StatusBit : S = {"REMOVED", "REMOVE_PENDING"}
      BY DEF StatusBit
    <3>3. PICK n : n = [e EXCEPT !.status = S, !.Id = FALSE, !.rc_count = c, !.me = NULL]
      OBVIOUS
    <3>4. fi'[f] = n
      BY <2>1, <2>5, <3>1, <3>2, <3>3 DEF diva_user_mode_idi_remove_adapter
    <3>5. n \in FileRec
      BY <3>3 DEF FileRec
    <3>6. /\ n.st = e.st /\ n.me = NULL /\ n.status = S /\ n.timer = e.timer
          /\ n.aborted = e.aborted
      BY <3>3 DEF FileRec
    <3>7. FileFits(kind, n)
      BY <2>2, <2>5, <3>2, <3>6 DEF FileFits
    <3> QED BY <2>5, <3>4, <3>5, <3>6, <3>7
  <2> QED BY <2>3, <2>4, <2>5
<1>4. fi' \in [File -> FileRec]
  <2>1. DOMAIN fi' = File /\ fi' = [f \in DOMAIN fi' |-> fi'[f]]
    BY DEF diva_user_mode_idi_remove_adapter
  <2> QED BY <1>3, <2>1
<1>5. ma' \in [Master -> MasterRec]
  BY <1>2, NoMasterType
<1>6. up' \in [Ent -> Seq(Request \cup Event)]
  BY <1>2
<1>7. TypeOK'
  BY <1>1, <1>2, <1>4, <1>5, <1>6 DEF TypeOK
<1>8. Files'
  BY <1>2, <1>3 DEF Files
<1>9. Masters'
  <2> SUFFICES ASSUME NEW m \in Master
               PROVE  MasterInv(kind, fi', NoMaster, m, <<>>, {}, ghost)
    BY <1>2 DEF Masters, Ent
  <2>1. \A f \in File : fi'[f].me # m
    BY <1>3, MasterIsOne
  <2>2. m \notin {}
    OBVIOUS
  <2> QED BY <2>1, <2>2, NoMasterInv
<1>10. \A x \in Ent : Quiet(x)'
  BY <1>2 DEF Quiet
<1>11. Entities'
  <2>1. \A f \in File : f \in Ent
    BY DEF Ent
  <2> QED BY <1>2, <1>3, <1>10, <2>1 DEF Entities
<1>12. AnswerToAsker' /\ FreedIsQuiet'
  BY <1>1, <1>2 DEF AnswerToAsker, FreedIsQuiet
<1> QED BY <1>7, <1>8, <1>9, <1>11, <1>12 DEF IInv

-----------------------------------------------------------------------------
(***************************************************************************)
(* The invariant is inductive.                                             *)
(***************************************************************************)
\* It holds of the driver that nobody has opened.
LEMMA InitInv == Init => IInv
<1> SUFFICES ASSUME Init PROVE IInv
  OBVIOUS
<1>1. /\ kind \in Kinds /\ present = TRUE
      /\ fi = [f \in File |-> Closed] /\ ma = [m \in Master |-> NoMaster]
      /\ up = [x \in Ent |-> <<>>] /\ known = {} /\ ghost = {}
  BY DEF Init
<1>2. TypeOK
  <2>1. kind \in {"man", "idi", "license"}
    BY <1>1, UmIdiAssumption DEF UmIdiAssumption
  <2>2. fi \in [File -> FileRec]
    BY <1>1, ClosedFacts
  <2>3. ma \in [Master -> MasterRec]
    BY <1>1, NoMasterType
  <2> QED BY <1>1, <2>1, <2>2, <2>3 DEF TypeOK
<1>3. Files
  BY <1>1, ClosedFacts DEF Files, FileFits
<1>4. Masters
  <2> SUFFICES ASSUME NEW m \in Master
               PROVE  MasterInv(kind, fi, NoMaster, m, <<>>, {}, {})
    BY <1>1 DEF Masters, Ent
  <2>1. \A f \in File : fi[f].me # m
    BY <1>1, ClosedFacts, MasterIsOne
  <2> QED BY <2>1, NoMasterInv
<1>5. Entities
  <2>1. \A f \in File : f \in Ent /\ fi[f] = Closed
    BY <1>1 DEF Ent
  <2>2. \A f \in File : EntityFits(f, Closed, <<>>, {})
    BY ClosedFacts DEF EntityFits, Owed
  <2>3. \A x \in Ent : up[x] = <<>> /\ x \notin known
    BY <1>1
  <2>4. \A f \in File : EntityFits(f, fi[f], up[f], known)
    BY <1>1, <2>1, <2>2, <2>3
  <2> QED BY <1>1, <2>1, <2>3, <2>4, ClosedFacts DEF Entities, Quiet
<1> QED BY <1>1, <1>2, <1>3, <1>4, <1>5 DEF IInv, AnswerToAsker, FreedIsQuiet

\* Nothing in the invariant is about the count of delayed entities.
LEMMA StutterInv ==
  ASSUME IInv, UNCHANGED vars
  PROVE  IInv'
<1>1. /\ kind' = kind /\ present' = present /\ fi' = fi /\ ma' = ma /\ up' = up
      /\ known' = known /\ ghost' = ghost
  BY DEF vars
<1>2. TypeOK'
  BY <1>1 DEF IInv, TypeOK
<1>3. Files'
  BY <1>1 DEF IInv, Files
<1>4. Masters'
  BY <1>1 DEF IInv, Masters
<1>5. Entities'
  BY <1>1 DEF IInv, Entities, Quiet
<1>6. AnswerToAsker' /\ FreedIsQuiet'
  BY <1>1 DEF IInv, AnswerToAsker, FreedIsQuiet
<1> QED BY <1>2, <1>3, <1>4, <1>5, <1>6 DEF IInv

\* Every step keeps it.
LEMMA NextInv == IInv /\ [Next]_vars => IInv'
<1> SUFFICES ASSUME IInv, [Next]_vars PROVE IInv'
  OBVIOUS
<1>1. CASE UNCHANGED vars
  BY <1>1, StutterInv
<1>2. ASSUME NEW f \in File,
             \/ um_idi_open_adapter(f) \/ le_assign(f) \/ diva_um_idi_read(f)
             \/ \E req \in ManReq : process_idi_request(f, req)
             \/ \E q \in Requests : le_request(f, q[1], q[2]) \/ le_busy(f, q[1], q[2])
             \/ um_idi_release(f) \/ remove_entity(f) \/ closing(f)
             \/ diva_um_timer_function(f) \/ divas_um_notify_timeout(f)
      PROVE  IInv'
  <2>1. CASE um_idi_open_adapter(f)
    BY <2>1, OpenNext
  <2>2. CASE le_assign(f)
    BY <2>2, LeAssignNext
  <2>3. CASE diva_um_idi_read(f)
    BY <2>3, ReadNext
  <2>4. CASE \E req \in ManReq : process_idi_request(f, req)
    BY <2>4, ProcessIdiRequestNext
  <2>5. CASE \E q \in Requests : le_request(f, q[1], q[2]) \/ le_busy(f, q[1], q[2])
    <3>1. PICK q \in Requests : le_request(f, q[1], q[2]) \/ le_busy(f, q[1], q[2])
      BY <2>5
    <3> QED BY <3>1, LeRequestNext, BusyNext
  <2>6. CASE um_idi_release(f)
    BY <2>6, ReleaseNext
  <2>7. CASE remove_entity(f)
    BY <2>7, RemoveEntityNext
  <2>8. CASE closing(f)
    BY <2>8, StartRemoveNext, EntityRemovedNext, DeleteNext DEF closing
  <2>9. CASE diva_um_timer_function(f)
    BY <2>9, TimerNext
  <2>10. CASE divas_um_notify_timeout(f)
    BY <2>10, NotifyNext
  <2> QED BY <1>2, <2>1, <2>2, <2>3, <2>4, <2>5, <2>6, <2>7, <2>8, <2>9, <2>10
<1>3. ASSUME NEW x \in Ent, callback(x) PROVE IInv'
  <2>1. PICK u \in Deliveries(x) :
          \/ /\ x \in Master
             /\ \/ me_assign_rc(x, u) \/ me_removed(x, u) \/ me_rc(x, u)
                \/ me_announced(x, u) \/ me_complete(x, u) \/ me_timeout(x, u)
                \/ license_rc(x, u) \/ license_cancelled(x, u) \/ license_ind(x, u)
          \/ x \in File /\ (file_rc(x, u) \/ file_ind(x, u))
    BY <1>3, Zenon DEF callback
  <2>2. CASE x \in Master
    <3>1. x \notin File
      BY <2>2, MasterIsOne
    <3> QED BY <2>1, <2>2, <3>1, MasterCallback
  <2>3. CASE x \in File
    <3>1. x \notin Master
      BY <2>3, MasterIsOne
    <3> QED BY <2>1, <2>3, <3>1, FileRcNext, FileIndNext
  <2> QED BY <2>2, <2>3 DEF Ent
<1>4. ASSUME NEW m \in Master, xdi_ignores(m) PROVE IInv'
  BY <1>4, IgnoresNext
<1>5. CASE diva_user_mode_idi_remove_adapter
  BY <1>5, RemoveAdapterNext
<1>6. CASE Next
  BY <1>2, <1>3, <1>4, <1>5, <1>6, Zenon DEF Next
<1> QED BY <1>1, <1>6

\* Every reachable state fits.
LEMMA Reachable == Spec => []IInv
<1>1. Init => IInv
  BY InitInv
<1>2. IInv /\ [Next]_vars => IInv'
  BY NextInv
<1> QED BY <1>1, <1>2, PTL DEF Spec

-----------------------------------------------------------------------------
(***************************************************************************)
(* What follows from it.                                                   *)
(***************************************************************************)
\* Who is on a queue of different entities is there one time.
LEMMA TimesOnce ==
  ASSUME NEW S, NEW q \in Seq(S), Once(q), NEW f
  PROVE  Times(f, q) = IF f \in Range(q) THEN 1 ELSE 0
<1> DEFINE at == {i \in DOMAIN q : q[i] = f}
<1>1. CASE f \in Range(q)
  <2>1. PICK k \in DOMAIN q : q[k] = f
    BY <1>1 DEF Range
  <2>2. at = {k}
    BY <2>1 DEF Once
  <2>3. Cardinality({k}) = 1
    BY FS_Singleton
  <2> QED BY <1>1, <2>2, <2>3 DEF Times
<1>2. CASE f \notin Range(q)
  <2>1. at = {}
    BY <1>2 DEF Range
  <2>2. Cardinality({}) = 0
    BY FS_EmptySet
  <2> QED BY <1>2, <2>1, <2>2 DEF Times
<1> QED BY <1>1, <1>2

\* Of any number of logical entities each is on the queue of its master that
\* on_active_q names, once, and on no other.
THEOREM QueuesSoundTheorem == Spec => []QueuesSound
<1>1. IInv => QueuesSound
  <2> SUFFICES ASSUME IInv, NEW f \in File, NEW m \in Master
               PROVE  /\ Times(f, ma[m].active) =
                           IF fi[f].me = m /\ fi[f].on_active_q THEN 1 ELSE 0
                      /\ Times(f, ma[m].idle) =
                           IF fi[f].me = m /\ ~fi[f].on_active_q THEN 1 ELSE 0
    BY DEF QueuesSound
  <2>1. TypeOK /\ MasterFits(fi, ma[m], m)
    BY DEF IInv, Masters, MasterInv
  <2>2. PICK a \in Seq(File), b \in Seq(File) : a = ma[m].active /\ b = ma[m].idle
    BY <2>1 DEF TypeOK, MasterRec
  <2>3. Once(a) /\ Once(b) /\ Range(a) = ActiveOf(fi, m) /\ Range(b) = IdleOf(fi, m)
    BY <2>1, <2>2 DEF MasterFits
  <2>4. /\ f \in Range(a) <=> fi[f].me = m /\ fi[f].on_active_q
        /\ f \in Range(b) <=> fi[f].me = m /\ ~fi[f].on_active_q
    BY <2>3 DEF ActiveOf, IdleOf
  <2>5. /\ Times(f, a) = IF f \in Range(a) THEN 1 ELSE 0
        /\ Times(f, b) = IF f \in Range(b) THEN 1 ELSE 0
    BY <2>3, TimesOnce
  <2> QED BY <2>2, <2>4, <2>5
<1> QED BY <1>1, Reachable, PTL

\* Who waits is watched: a logical entity for its master, a close for the card.
THEOREM WatchedTheorem == Spec => []Watched
<1>1. IInv => Watched
  <2> SUFFICES ASSUME IInv, NEW f \in File
               PROVE  LET e == fi[f] IN
                      /\ e.me # NULL /\ e.on_active_q => e.timer \/ e.aborted
                      /\ e.st \in {"removing", "waiting"} => e.timer \/ e.aborted
                      /\ kind = "idi" /\ e.me # NULL /\ e.timer => e.on_active_q
    BY DEF Watched
  <2>1. FileFits(kind, fi[f])
    BY DEF IInv, Files
  <2> QED BY <2>1 DEF FileFits
<1> QED BY <1>1, Reachable, PTL

\* No callback and no request leaves a file waiting on a master that could
\* send, but after a license answer was cancelled half way.
THEOREM NoStallTheorem == Spec => []NoStall
<1>1. IInv => NoStall
  <2> SUFFICES ASSUME IInv, NEW m \in Master, ma[m].st \in {"Idle", "Assigned"},
                      ma[m].active # <<>>
               PROVE  "stall" \in ghost
    BY DEF NoStall
  <2>1. Assigns(fi, ma[m], m, up[m], known) /\ Rests(kind, ma[m], ghost)
    BY DEF IInv, Masters, MasterInv
  <2> QED BY <2>1 DEF Assigns, Rests
<1> QED BY <1>1, Reachable, PTL

\* An answer reaches the file that asked, for its latest request, unless a
\* chain was cut.
THEOREM AnswerTheorem == Spec => []AnswerToAsker
<1>1. IInv => AnswerToAsker
  BY DEF IInv
<1> QED BY <1>1, Reachable, PTL

\* Nothing is freed that the card may still call back, but between the halves
\* of the watchdog's handler and after a chain was cut.
THEOREM FreedTheorem == Spec => []FreedIsQuiet
<1>1. IInv => FreedIsQuiet
  BY DEF IInv
<1> QED BY <1>1, Reachable, PTL

\* Until a chain is cut, a master without files is on its way out: it is freed
\* or given up, or the card still has to answer it.
THEOREM LeavesTheorem == Spec => []("cut" \notin ghost => MasterLeaves)
<1>1. IInv => ("cut" \notin ghost => MasterLeaves)
  <2> SUFFICES ASSUME IInv, "cut" \notin ghost, NEW m \in Master,
                      ma[m].active \o ma[m].idle = <<>>
               PROVE  \/ ma[m].st \in {"free", "delayed", "AssignPending", "OutOfService"}
                      \/ ma[m].timeout
                      \/ up[m] # <<>>
    BY DEF MasterLeaves
  <2>1. PICK r \in MasterRec : r = ma[m]
    BY DEF IInv, TypeOK
  <2>2. r.active = <<>> /\ r.idle = <<>>
    <3>1. r.active \in Seq(File) /\ r.idle \in Seq(File)
      BY DEF MasterRec
    <3> QED BY <2>1, <3>1, ConcatEqualIffEmpty
  <2>3. /\ MasterFits(fi, r, m) /\ Used(r)
        /\ r.timeout \/ Owes(kind, fi, r, up[m])
    BY <2>1 DEF IInv, Masters, MasterInv
  <2>4. r.st \notin {"Idle", "Assigned", "ResponsePending"}
    BY <2>2, <2>3 DEF MasterFits, Used
  <2>5. r.st \in MasterSt
    BY DEF MasterRec
  <2>6. CASE r.st = "Cancelled" /\ ~r.timeout
    <3>1. Balanced(kind, up[m], r.rc_count)
      BY <2>3, <2>6 DEF Owes
    <3>2. up[m] # <<>>
      BY <3>1 DEF Balanced
    <3> QED BY <3>2
  <2>7. CASE r.st = "RemovePending" /\ ~r.timeout
    <3>1. Len(up[m]) = 1
      BY <2>3, <2>7 DEF Owes
    <3> QED BY <3>1
  <2> QED BY <2>1, <2>4, <2>5, <2>6, <2>7 DEF MasterSt
<1> QED BY <1>1, Reachable, PTL
=============================================================================
