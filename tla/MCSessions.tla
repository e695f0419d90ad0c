----------------------------- MODULE MCSessions -----------------------------
(***************************************************************************)
(* Small instances of Sessions for TLC.                                    *)
(***************************************************************************)
EXTENDS Sessions, TLC

CONSTANTS default, alice, h1, h2

MCSize == [h \in Hashes |-> IF h = h1 THEN 1 ELSE 2]

(* Callers of one kind are interchangeable, and so are paths. *)
MCSymmetry == Permutations(Writers) \cup Permutations(Threads)
                \cup Permutations(Paths)
=============================================================================
