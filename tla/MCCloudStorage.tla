--------------------------- MODULE MCCloudStorage ---------------------------
(***************************************************************************)
(* Small instances of CloudStorage for TLC.                                *)
(***************************************************************************)
EXTENDS CloudStorage, TLC

(* Hashes, and callers, are interchangeable. *)
MCSymmetry == Permutations(Hashes) \cup Permutations(Callers)
=============================================================================
