--------------------------- MODULE SoftIsrProofs ---------------------------
(***************************************************************************)
(* Proofs about module SoftIsr, for any set of CPUs and any bound.  The    *)
(* inductive invariant is IInv: mutual exclusion alone is not inductive,   *)
(* it needs CountIsActive (the counter is -1 exactly while nobody is       *)
(* inside), and the value of in_dpc needs what the loads found (Loaded).   *)
(***************************************************************************)
EXTENDS SoftIsr, TLAPS

\* One step keeps the invariant: the actions that leave the set of active
\* CPUs alone, those by which an instance enters or leaves, in turn.
LEMMA StepInvariant == IInv /\ [Next]_vars => IInv'
<1>. SUFFICES ASSUME IInv, [Next]_vars PROVE IInv'
  OBVIOUS
<1>. USE DEF IInv
<1>1. CASE diva_os_schedule_soft_isr
  BY <1>1 DEF diva_os_schedule_soft_isr, TypeOK, OneDpc, InDpcExact, NoLostWakeup,
              CountIsActive, Loaded
<1>2. ASSUME NEW c \in Cpu, RunWork(c) PROVE IInv'
  BY <1>2 DEF RunWork, Goto, TypeOK, OneDpc, InDpcExact, NoLostWakeup,
              CountIsActive, Loaded, Active
<1>3. ASSUME NEW c \in Cpu, diva_os_dpc_proc(c) PROVE IInv'
  BY <1>3 DEF diva_os_dpc_proc, Goto, TypeOK, OneDpc, InDpcExact, NoLostWakeup,
              CountIsActive, Loaded, Active
<1>4. ASSUME NEW c \in Cpu, IncLoad(c) PROVE IInv'
  BY <1>4 DEF IncLoad, Goto, TypeOK, OneDpc, InDpcExact, NoLostWakeup,
              CountIsActive, Loaded, Active
<1>5. ASSUME NEW c \in Cpu, IncStore(c) PROVE IInv'
  BY <1>5 DEF IncStore, Goto, TypeOK, OneDpc, InDpcExact, NoLostWakeup,
              CountIsActive, Loaded, Active
<1>6. ASSUME NEW c \in Cpu, Body(c) PROVE IInv'
  BY <1>6 DEF Body, Goto, TypeOK, OneDpc, InDpcExact, NoLostWakeup,
              CountIsActive, Loaded, Active
<1>7. ASSUME NEW c \in Cpu, DecLoad(c) PROVE IInv'
  BY <1>7 DEF DecLoad, Goto, TypeOK, OneDpc, InDpcExact, NoLostWakeup,
              CountIsActive, Loaded, Active
<1>8. ASSUME NEW c \in Cpu, DecStore(c) PROVE IInv'
  BY <1>8 DEF DecStore, Goto, TypeOK, OneDpc, InDpcExact, NoLostWakeup,
              CountIsActive, Loaded, Active
<1>9. ASSUME NEW c \in Cpu, Leave(c) PROVE IInv'
  BY <1>9 DEF Leave, Goto, TypeOK, OneDpc, InDpcExact, NoLostWakeup,
              CountIsActive, Loaded, Active
<1>10. CASE UNCHANGED vars
  BY <1>10 DEF vars, TypeOK, OneDpc, InDpcExact, NoLostWakeup, CountIsActive, Loaded
<1>. QED
  BY <1>1, <1>2, <1>3, <1>4, <1>5, <1>6, <1>7, <1>8, <1>9, <1>10 DEF Next, CpuNext

\* IInv holds in every reachable state.
LEMMA DpcInvariant == Spec => []IInv
<1>1. Init => IInv
  <2>. SUFFICES ASSUME Init PROVE IInv
    OBVIOUS
  <2>1. \A c \in Cpu : pc[c] = "idle"
    BY DEF Init
  <2>2. TypeOK
    <3>1. pending \in BOOLEAN /\ work \in BOOLEAN
      BY DEF Init
    <3>2. soft_isr_count \in Int /\ in_dpc \in {0, 1} /\ tmp \in [Cpu -> Int]
      BY DEF Init
    <3>3. pc \in [Cpu -> Active \cup {"idle", "enter"}]
      BY DEF Init
    <3>. QED
      BY <3>1, <3>2, <3>3 DEF TypeOK
  <2>3. OneDpc /\ InDpcExact /\ CountIsActive /\ Loaded
    BY <2>1 DEF Init, OneDpc, InDpcExact, CountIsActive, Loaded, Active
  <2>4. NoLostWakeup
    BY DEF Init, NoLostWakeup
  <2>. QED
    BY <2>2, <2>3, <2>4 DEF IInv
<1>. QED
  BY <1>1, StepInvariant, PTL DEF Spec

\* At most one instance of the DPC routine runs, on any number of CPUs: what
\* DIDpcRoutine, pr_dpc and pr_out take for granted.
THEOREM MutualExclusion == Spec => []OneDpc
<1>1. IInv => OneDpc
  BY DEF IInv
<1>. QED
  BY <1>1, DpcInvariant, PTL

\* The increments of platform.h may be a load and a store.
THEOREM FakeAtomicsSuffice == Spec => []InDpcExact
<1>1. IInv => InDpcExact
  BY DEF IInv
<1>. QED
  BY <1>1, DpcInvariant, PTL

\* Work never waits for an instance that nobody will start.
THEOREM WakeupsKept == Spec => []NoLostWakeup
<1>1. IInv => NoLostWakeup
  BY DEF IInv
<1>. QED
  BY <1>1, DpcInvariant, PTL
=============================================================================
