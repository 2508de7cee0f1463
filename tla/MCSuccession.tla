---------------------------- MODULE MCSuccession ----------------------------
(* Instances of Succession for TLC. *)
EXTENDS Succession, TLC

OnlyOk == {"ok"}

\* Connections and drains are interchangeable.
Symm == Permutations(Conns) \cup Permutations(Drains)
=============================================================================
