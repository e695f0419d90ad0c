---------------------------- MODULE MCMultipart ----------------------------
(***************************************************************************)
(* Small instances of Multipart for TLC.                                   *)
(***************************************************************************)
EXTENDS Multipart, TLC

CONSTANTS u1, u2, a, b

(* Two uploads that may come to the same content, for u1 may be completed   *)
(* with its first part alone: u1 of two parts, u2 of one.                   *)
MCSends == u1 :> <<{<<a>>}, {<<b>>}>> @@ u2 :> <<{<<a>>}, {}>>

(* One upload of one part, which may be sent again changed *)
MCSendsOne == u1 :> <<{<<a>>, <<b>>}>>

(* Threads and coroutines are interchangeable. *)
MCSymmetry == Permutations(Writers) \cup Permutations(Completers)
=============================================================================
