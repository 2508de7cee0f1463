----------------------------- MODULE MCChatPage -----------------------------
(* Messages are alike; so are the ones the user writes.                      *)
EXTENDS ChatPage, TLC

Symm == Permutations(Msgs) \cup Permutations(Sends)
=============================================================================
