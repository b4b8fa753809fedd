--------------------------- MODULE MCCoordinator ---------------------------
(* Small instances of the coordinator. *)
EXTENDS Coordinator, TLC

(* Callers and targets are interchangeable. *)
Symmetry == Permutations(Caller) \cup Permutations(Target)
=============================================================================
