----------------------------- MODULE MCDelivery -----------------------------
(* Instances of Delivery for TLC. *)
EXTENDS Delivery, TLC

OnlyOk == {"ok"}
AnyStatus == {"ok", "error"}

\* Connections and drains are interchangeable (safety runs only).
Symm == Permutations(Conns) \cup Permutations(Drains)
=============================================================================
