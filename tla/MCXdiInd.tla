----------------------------- MODULE MCXdiInd -----------------------------
EXTENDS XdiInd, TLC

CONSTANTS E1, E2

Two == {E1, E2}
Sym == Permutations(Two)

\* A chain with an empty buffer in it, and one that ends with an empty buffer.
Chains == {<<2, 0, 1>>, <<1, 0>>}
\* One buffer for all of the short chain, or two of which it fills the first and
\* the long one both.
Lists == {<<1>>, <<1, 2>>}
=============================================================================
