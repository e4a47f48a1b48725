------------------------------- MODULE MCDidd -------------------------------
EXTENDS Didd, TLC

CONSTANTS D1, D2, M, C1, C2

Drivers == {D1, D2, M}
OneDriver == {D1}
Clients == {C1, C2}
Sym == Permutations({D1, D2}) \cup Permutations(Clients)
=============================================================================
