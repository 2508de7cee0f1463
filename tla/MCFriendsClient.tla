-------------------------- MODULE MCFriendsClient --------------------------
(* Instances of FriendsClient for TLC. *)
EXTENDS FriendsClient, TLC

\* The other users are interchangeable.
Symm == Permutations(Peers)
=============================================================================
