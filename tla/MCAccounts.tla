----------------------------- MODULE MCAccounts -----------------------------
(* Instances of Accounts for TLC. *)
EXTENDS Accounts, TLC

\* Requests and session identifiers are interchangeable.
Symm == Permutations(Reqs) \cup Permutations(Sids)
=============================================================================
