------------------------------- MODULE MCAuth -------------------------------
(***************************************************************************)
(* Small instances of Auth for TLC.                                        *)
(***************************************************************************)
EXTENDS Auth, TLC

CONSTANTS default, alice

(* Tokens, requests, uploads and the named tenants are interchangeable. *)
MCSymmetry == Permutations(Tokens) \cup Permutations(Requests)
                \cup Permutations(Uploads) \cup Permutations(Tenants \ {default})
=============================================================================
