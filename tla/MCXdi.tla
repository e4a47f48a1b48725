------------------------------- MODULE MCXdi -------------------------------
EXTENDS Xdi, TLC

CONSTANTS E1, E2, I1, I2

One == {E1}
Two == {E1, E2}
OneId == {I1}
TwoIds == {I1, I2}
Sym == Permutations(TwoIds)

\* A card that does not label its return codes, and clients that wait for the
\* release of a channel; a card that does, and clients that do not care.
Plain == [ext |-> FALSE, wait |-> TRUE]
Labelled == [ext |-> TRUE, wait |-> FALSE]
PlainOnly == {Plain}
Both == {Plain, Labelled}
=============================================================================
