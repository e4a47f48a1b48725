----------------------------- MODULE MCSoftIsr -----------------------------
EXTENDS SoftIsr
CONSTANTS P1, P2, P3
Cpus == {P1, P2, P3}
=============================================================================
