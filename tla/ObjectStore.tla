---------------------------- MODULE ObjectStore -----------------------------
(***************************************************************************)
(* What a Storage backend promises the rest of ClawFS.  A call takes       *)
(* effect in one step between its start and its end, or it fails with or   *)
(* without its effect; nothing but a put stores a hash and nothing but a   *)
(* delete of that hash removes it.                                         *)
(***************************************************************************)
EXTENDS FiniteSets

CONSTANTS Hashes, Callers, None

VARIABLES stored,       \* the hashes whose objects are there, whole
          active,       \* the call each caller is in: None, or its operation
                        \* and hash
          kept          \* history: hashes a put has answered for and no
                        \* delete has been called on since

vars == <<stored, active, kept>>

Puts == {"put", "put_path"}
Operations == Puts \cup {"get", "delete"}

In(c, ops) == active[c] # None /\ active[c].op \in ops
Deletes(h) == {c \in Callers : In(c, {"delete"}) /\ active[c].hash = h}

Init == /\ stored = {}
        /\ active = [c \in Callers |-> None]
        /\ kept = {}

Start(c, op, h) ==
  /\ active[c] = None
  /\ active' = [active EXCEPT ![c] = [op |-> op, hash |-> h]]
  /\ kept' = IF op = "delete" THEN kept \ {h} ELSE kept
  /\ UNCHANGED stored

(* put and put_path answer: the object is there, if it was not before.      *)
Put(c) ==
  /\ In(c, Puts)
  /\ stored' = stored \cup {active[c].hash}
  /\ kept' = IF Deletes(active[c].hash) = {} THEN kept \cup {active[c].hash}
             ELSE kept
  /\ active' = [active EXCEPT ![c] = None]

(* The object gets there, and the put has yet to answer or raise. *)
Store(c) ==
  /\ In(c, Puts)
  /\ stored' = stored \cup {active[c].hash}
  /\ UNCHANGED <<active, kept>>

Remove(c) ==
  /\ In(c, {"delete"})
  /\ stored' = stored \ {active[c].hash}
  /\ UNCHANGED <<active, kept>>

(* A get or a delete returns, or any call raises. *)
Return(c) ==
  /\ active[c] # None
  /\ active' = [active EXCEPT ![c] = None]
  /\ UNCHANGED <<stored, kept>>

Crash(dead) ==
  /\ active' = [c \in Callers |-> IF c \in dead THEN None ELSE active[c]]
  /\ UNCHANGED <<stored, kept>>

Next ==
  \/ \E c \in Callers :
       \/ \E op \in Operations, h \in Hashes : Start(c, op, h)
       \/ Put(c) \/ Store(c) \/ Remove(c) \/ Return(c)
  \/ \E dead \in SUBSET Callers : Crash(dead)

Spec == Init /\ [][Next]_vars

(* What has been answered for is there. *)
KeptIsStored == kept \subseteq stored
=============================================================================
