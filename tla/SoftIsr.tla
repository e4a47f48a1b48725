------------------------------ MODULE SoftIsr ------------------------------
(***************************************************************************)
(* The DPC framework: diva_os_dpc_proc and diva_os_schedule_soft_isr       *)
(* (kernel/divasmain.c in its work queue form, the same code as in         *)
(* kernel/capimain.c) around DIDpcRoutine (kernel/io.c).                   *)
(*                                                                         *)
(* The kernel may run a work item that is scheduled again while it runs on *)
(* a second CPU.  soft_isr_count makes one of the instances the one that   *)
(* calls the DPC routine and makes it run again for the others.  The DPC   *)
(* routine counts again in in_dpc, but with the increment and decrement of *)
(* platform.h, which are a load and a store: "fake because covered by os   *)
(* abstraction layer".                                                     *)
(***************************************************************************)
EXTENDS Integers

CONSTANTS Cpu,        \* the CPUs that run work items
          MaxCount    \* bound: schedulings that are counted while a DPC runs

ASSUME MaxCountAssumption == MaxCount \in Nat

VARIABLES pending,         \* the work item is scheduled
          soft_isr_count,  \* starts at -1
          in_dpc,
          pc, tmp,         \* place and register of each CPU
          work             \* something for the DPC to look at

vars == <<pending, soft_isr_count, in_dpc, pc, tmp, work>>

Init ==
  /\ pending = FALSE /\ soft_isr_count = -1 /\ in_dpc = 0
  /\ pc = [c \in Cpu |-> "idle"] /\ tmp = [c \in Cpu |-> 0]
  /\ work = FALSE

Goto(c, l) == pc' = [pc EXCEPT ![c] = l]

\* Fault: nothing is scheduled while a DPC is active, as it will look anyway.
diva_os_schedule_soft_isr_Skip ==
  /\ work' = TRUE /\ pending' = (pending \/ soft_isr_count = -1)
  /\ UNCHANGED <<soft_isr_count, in_dpc, pc, tmp>>

\* request() queued an entity, or the interrupt handler saw the card's irq.
diva_os_schedule_soft_isr ==
  /\ work' = TRUE /\ pending' = TRUE
  /\ UNCHANGED <<soft_isr_count, in_dpc, pc, tmp>>

\* The kernel starts the work item on a CPU.
RunWork(c) ==
  /\ pc[c] = "idle" /\ pending
  /\ soft_isr_count < MaxCount
  /\ pending' = FALSE
  /\ Goto(c, "enter")
  /\ UNCHANGED <<soft_isr_count, in_dpc, tmp, work>>

\* Fault: every instance goes on.
diva_os_dpc_proc_All(c) ==
  /\ pc[c] = "enter"
  /\ soft_isr_count' = soft_isr_count + 1
  /\ Goto(c, "call")
  /\ UNCHANGED <<pending, in_dpc, tmp, work>>

\* atomic_inc_and_test: only the instance that finds -1 goes on.
diva_os_dpc_proc(c) ==
  /\ pc[c] = "enter"
  /\ soft_isr_count' = soft_isr_count + 1
  /\ Goto(c, IF soft_isr_count + 1 = 0 THEN "call" ELSE "idle")
  /\ UNCHANGED <<pending, in_dpc, tmp, work>>

\* DIDpcRoutine: increment in_dpc, a load and a store.
IncLoad(c) ==
  /\ pc[c] = "call"
  /\ tmp' = [tmp EXCEPT ![c] = in_dpc]
  /\ Goto(c, "inc")
  /\ UNCHANGED <<pending, soft_isr_count, in_dpc, work>>

IncStore(c) ==
  /\ pc[c] = "inc"
  /\ in_dpc' = tmp[c] + 1
  /\ Goto(c, IF tmp[c] + 1 = 1 THEN "body" ELSE "leave")
  /\ UNCHANGED <<pending, soft_isr_count, tmp, work>>

\* The body of its loop: dpc and out look at all there is to do.
Body(c) ==
  /\ pc[c] = "body"
  /\ work' = FALSE
  /\ Goto(c, "dec")
  /\ UNCHANGED <<pending, soft_isr_count, in_dpc, tmp>>

DecLoad(c) ==
  /\ pc[c] = "dec"
  /\ tmp' = [tmp EXCEPT ![c] = in_dpc]
  /\ Goto(c, "decst")
  /\ UNCHANGED <<pending, soft_isr_count, in_dpc, work>>

DecStore(c) ==
  /\ pc[c] = "decst"
  /\ in_dpc' = tmp[c] - 1
  /\ Goto(c, IF tmp[c] - 1 > 0 THEN "body" ELSE "leave")
  /\ UNCHANGED <<pending, soft_isr_count, tmp, work>>

\* Fault: the instances that were counted are forgotten.
Leave_Once(c) ==
  /\ pc[c] = "leave"
  /\ soft_isr_count' = soft_isr_count - 1
  /\ Goto(c, "idle")
  /\ UNCHANGED <<pending, in_dpc, tmp, work>>

\* atomic_add_negative(-1): run again for the instances that were counted.
Leave(c) ==
  /\ pc[c] = "leave"
  /\ soft_isr_count' = soft_isr_count - 1
  /\ Goto(c, IF soft_isr_count - 1 < 0 THEN "idle" ELSE "call")
  /\ UNCHANGED <<pending, in_dpc, tmp, work>>

CpuNext(c) ==
  \/ RunWork(c) \/ diva_os_dpc_proc(c) \/ IncLoad(c) \/ IncStore(c) \/ Body(c)
  \/ DecLoad(c) \/ DecStore(c) \/ Leave(c)

Next == diva_os_schedule_soft_isr \/ \E c \in Cpu : CpuNext(c)

Spec == Init /\ [][Next]_vars

\* The kernel runs scheduled work and no CPU stops for ever.
FairSpec == Spec /\ \A c \in Cpu : WF_vars(CpuNext(c))

-----------------------------------------------------------------------------
Active == {"call", "inc", "body", "dec", "decst", "leave"}

TypeOK ==
  /\ pending \in BOOLEAN /\ work \in BOOLEAN
  /\ soft_isr_count \in Int /\ in_dpc \in {0, 1}
  /\ pc \in [Cpu -> Active \cup {"idle", "enter"}]
  /\ tmp \in [Cpu -> Int]

\* One instance at a time is inside the DPC routine, although scheduling it
\* again may start another.
OneDpc == \A c, d \in Cpu : pc[c] \in Active /\ pc[d] \in Active => c = d

\* The loads and stores of in_dpc never see each other's halves: it is 1 in
\* the loop and 0 outside, as an atomic counter would be.
InDpcExact ==
  in_dpc = IF \E c \in Cpu : pc[c] \in {"body", "dec", "decst"} THEN 1 ELSE 0

\* No wake-up is lost: while there is work, the item is scheduled, or an
\* instance will look at it, or is counted and makes the active one do so.
NoLostWakeup ==
  work => \/ pending
          \/ \E c \in Cpu : pc[c] \in {"enter", "call", "inc", "body"}
          \/ soft_isr_count > 0

\* soft_isr_count tells whether an instance is active.
CountIsActive ==
  /\ soft_isr_count >= -1
  /\ soft_isr_count = -1 <=> \A c \in Cpu : pc[c] \notin Active

\* What the load of in_dpc found.
Loaded ==
  \A c \in Cpu : /\ pc[c] = "inc" => tmp[c] = 0
                 /\ pc[c] = "decst" => tmp[c] = 1

IInv == TypeOK /\ OneDpc /\ InDpcExact /\ NoLostWakeup /\ CountIsActive /\ Loaded

\* Work is looked at.
WorkDone == work ~> ~work
=============================================================================
