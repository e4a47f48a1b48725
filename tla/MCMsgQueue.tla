----------------------------- MODULE MCMsgQueue -----------------------------
EXTENDS MsgQueue

\* Payloads that round to the smallest message, that need the next word, that
\* fill the ring exactly and that never fit.
PayloadSizes == {0, 1, 4, 5, 9, 20, 21}
=============================================================================
