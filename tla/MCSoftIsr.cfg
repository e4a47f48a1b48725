CONSTANTS
  P1 = P1
  P2 = P2
  P3 = P3
  Cpu <- Cpus
  MaxCount = 2
SPECIFICATION FairSpec
INVARIANTS OneDpc InDpcExact NoLostWakeup
PROPERTY WorkDone
