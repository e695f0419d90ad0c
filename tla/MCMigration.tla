---------------------------- MODULE MCMigration -----------------------------
(***************************************************************************)
(* Small instances of Migration for TLC.                                   *)
(***************************************************************************)
EXTENDS Migration

CONSTANTS default, DEFAULT, alice, a

(* A plain legacy path, the same under a tenant's name and under default in *)
(* two spellings: with `a`, `default/a` is a path the rewrite collides with. *)
MCLegacy   == {<<a>>, <<alice, a>>, <<default, a>>, <<DEFAULT, a>>}
MCNewPaths == {<<a>>}
=============================================================================
