--------------------------- MODULE MCLocalStorage ---------------------------
(***************************************************************************)
(* Small instances of LocalStorage for TLC.                                *)
(***************************************************************************)
EXTENDS LocalStorage, TLC

(* Hashes of one shard, uploads and callers are interchangeable. *)
MCSymmetry == Permutations(Hashes) \cup Permutations(Sources)
                \cup Permutations(Callers)
=============================================================================
