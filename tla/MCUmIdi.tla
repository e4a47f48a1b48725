------------------------------ MODULE MCUmIdi ------------------------------
EXTENDS UmIdi, TLC

CONSTANTS F1, F2, M1, M2

Files == {F1, F2}
Masters == {M1, M2}
AllKinds == {"man", "idi", "license"}
Lengths == {101}
Sym == Permutations(Files) \cup Permutations(Masters)

\* A behaviour is followed until the announcement of a chain is dropped, or a
\* watchdog expires while there are two masters.
Followed ==
  /\ "cut" \notin ghost
  /\ Cardinality({m \in Master : ma[m].st # "free"}) > 1 => \A f \in File : ~fi[f].aborted
=============================================================================
