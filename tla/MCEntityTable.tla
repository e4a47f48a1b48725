--------------------------- MODULE MCEntityTable ---------------------------
EXTENDS EntityTable, TLC

CONSTANTS E1, E2, E3, E4, R1, R2, R3

Clients == {E1, E2, E3, E4}
TwoClients == {E1, E2}
RefSet == {R1, R2, R3}
Sym == Permutations(Clients) \cup Permutations(RefSet)
=============================================================================
