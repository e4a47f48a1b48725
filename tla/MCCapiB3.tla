------------------------------ MODULE MCCapiB3 ------------------------------
EXTENDS CapiB3, TLC

CONSTANTS C1, C2, B1, B2

TwoCh == {C1, C2}
Bufs == {B1, B2}
Sym == Permutations(TwoCh) \cup Permutations(Bufs)

\* What the instances make use of.  On a transparent connection everything but
\* INFO_REQ with data confirmed by its return code, then the data confirmed by
\* N_DATA_ACK, then both with room in the queue for one of each; with two
\* channels the data and one other concern at a time.
Case(b3, use, room) == [use |-> use, room |-> room, prot |-> b3]
Dial == {"CONNECT_B3_REQ", "CONNECT_B3_ACTIVE_RESP"}
Plain == {"DATA_B3_REQ", "N_DATA_RC"}
Acked == {"DATA_B3_REQ", "N_DATA_ACK"}
Clear == {"DISCONNECT_B3_REQ", "DISCONNECT_B3_RESP"}
Called == {"N_CONNECT", "CONNECT_B3_RESP", "CONNECT_B3_REJECT"}
Everything == NcciMsg \cup PlciMsg
                \cup {"CapiRelease", "HANGUP", "N_CONNECT", "N_DATA_RC", "N_DATA_ACK", "N_RESET"}

MCCases ==
  {Case("TRANSPARENT", Everything \ {"INFO_REQ", "N_DATA_ACK"}, 1),
   Case("TRANSPARENT", Dial \cup Clear \cup Acked
                         \cup {"INFO_REQ", "RESET_B3_REQ", "HANGUP", "CapiRelease"}, 2),
   Case("TRANSPARENT", Dial \cup Clear \cup Plain \cup Acked
                         \cup {"RESET_B3_REQ", "INFO_REQ", "HANGUP"}, 2),
   Case("ISO8208", {"CONNECT_B3_REQ"} \cup Clear \cup Plain
                     \cup {"DISCONNECT_REQ", "DISCONNECT_RESP"}, 1),
   Case("ISO8208", Dial \cup Clear \cup Plain \cup {"INFO_REQ"}, 1),
   Case("ISO8208", Dial \cup Clear \cup Plain \cup Called, 1),
   Case("ISO8208", Dial \cup Plain \cup {"RESET_B3_REQ"}, 1),
   Case("ISO8208", Dial \cup Plain \cup {"N_RESET", "RESET_B3_RESP"}, 1)}
=============================================================================
