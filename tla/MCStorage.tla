----------------------------- MODULE MCStorage -----------------------------
(* Storage for TLC. *)
EXTENDS Storage

(* Clients are interchangeable. *)
StorageSymmetry == Permutations(Clients)
=============================================================================
