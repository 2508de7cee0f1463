----------------------------- MODULE MCFriends -----------------------------
(* Instances of Friends for TLC. *)
EXTENDS Friends, TLC

\* Names are interchangeable, and so are slots.
Symm == Permutations(Names) \cup Permutations(Slots)
=============================================================================
