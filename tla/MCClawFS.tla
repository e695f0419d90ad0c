------------------------------ MODULE MCClawFS ------------------------------
(***************************************************************************)
(* Small instances of ClawFS for TLC: contents of different sizes, quotas  *)
(* that admit the one and not both.                                        *)
(***************************************************************************)
EXTENDS ClawFS, TLC

CONSTANTS default, alice, h1, h2

MCSize == h1 :> 1 @@ h2 :> 2

(* Callers of put_ref are interchangeable. *)
MCSymmetry == Permutations(Writers)
=============================================================================
