------------------------- MODULE ObjectStoreProofs --------------------------
(***************************************************************************)
(* What follows from an ObjectStore's promise, whatever keeps it           *)
(***************************************************************************)
EXTENDS ObjectStore, TLAPS

(* A hash somebody is deleting is never counted on.                        *)
KeptInv ==
  /\ active = [c \in Callers |-> active[c]]
  /\ kept \subseteq stored
  /\ \A h \in kept : Deletes(h) = {}

LEMMA KeptInit == Init => KeptInv
BY DEF Init, KeptInv, Deletes, In

(* Calls that end, and put calls that begin, delete nothing.               *)
LEMMA NoNewDelete ==
  ASSUME KeptInv,
         active' = [c \in Callers |-> active'[c]],
         \A c \in Callers : In(c, {"delete"})' => active'[c] = active[c],
         kept' \subseteq stored',
         \A h \in kept' : h \in kept \/ Deletes(h) = {}
  PROVE  KeptInv'
<1>1. \A h \in kept' : Deletes(h)' = {}
  BY DEF KeptInv, Deletes, In
<1> QED
  BY <1>1 DEF KeptInv

LEMMA KeptNext == KeptInv /\ [Next]_vars => KeptInv'
<1> SUFFICES ASSUME KeptInv, [Next]_vars PROVE KeptInv'
  OBVIOUS
<1>1. ASSUME NEW c \in Callers, NEW op \in Operations, NEW h \in Hashes,
             Start(c, op, h)
      PROVE  KeptInv'
  <2>1. /\ active' = [active EXCEPT ![c] = [op |-> op, hash |-> h]]
        /\ stored' = stored
        /\ kept' = IF op = "delete" THEN kept \ {h} ELSE kept
    BY <1>1 DEF Start
  <2>2. /\ active' = [d \in Callers |-> active'[d]]
        /\ active'[c] = [op |-> op, hash |-> h]
        /\ \A d \in Callers : d # c => active'[d] = active[d]
    BY <2>1 DEF KeptInv
  <2>3. \A g \in kept' : g \in kept /\ (op = "delete" => g # h)
    BY <2>1
  <2>4. ASSUME NEW g \in kept' PROVE Deletes(g)' = {}
    <3>1. Deletes(g) = {}
      BY <2>3 DEF KeptInv
    <3>2. ~(active'[c].op \in {"delete"} /\ active'[c].hash = g)
      BY <2>2, <2>3
    <3>3. \A d \in Callers \ {c} : ~(In(d, {"delete"})' /\ active'[d].hash = g)
      BY <2>2, <3>1 DEF Deletes, In
    <3> QED
      BY <3>2, <3>3 DEF Deletes, In
  <2> QED
    BY <2>1, <2>2, <2>4 DEF KeptInv
<1>2. ASSUME NEW c \in Callers, Put(c) \/ Store(c) \/ Return(c) PROVE KeptInv'
  <2>1. /\ active' = [active EXCEPT ![c] = None] \/ active' = active
        /\ kept' \subseteq stored'
        /\ \A h \in kept' : h \in kept \/ Deletes(h) = {}
    BY <1>2 DEF Put, Store, Return, KeptInv
  <2>2. /\ active' = [d \in Callers |-> active'[d]]
        /\ \A d \in Callers : In(d, {"delete"})' => active'[d] = active[d]
    BY <2>1 DEF KeptInv, In
  <2> QED
    BY <2>1, <2>2, NoNewDelete
<1>3. ASSUME NEW c \in Callers, Remove(c) PROVE KeptInv'
  <2>1. active[c].hash \notin kept
    BY <1>3 DEF Remove, KeptInv, Deletes
  <2> QED
    BY <1>3, <2>1, NoNewDelete DEF Remove, KeptInv
<1>4. ASSUME NEW dead \in SUBSET Callers, Crash(dead) PROVE KeptInv'
  <2>1. /\ active' = [c \in Callers |-> IF c \in dead THEN None ELSE active[c]]
        /\ stored' = stored /\ kept' = kept
    BY <1>4 DEF Crash
  <2>2. /\ active' = [c \in Callers |-> active'[c]]
        /\ \A c \in Callers : In(c, {"delete"})' => active'[c] = active[c]
    BY <2>1 DEF In
  <2> QED
    BY <2>1, <2>2, NoNewDelete DEF KeptInv
<1>5. CASE UNCHANGED vars
  BY <1>5 DEF vars, KeptInv, Deletes, In
<1> QED
  BY <1>1, <1>2, <1>3, <1>4, <1>5 DEF Next

(* What put has answered for is there until somebody calls delete on it:   *)
(* true of every backend that is an ObjectStore.                           *)
THEOREM KeptIsStoredCorrect == Spec => []KeptIsStored
<1>1. KeptInv => KeptIsStored
  BY DEF KeptInv, KeptIsStored
<1> QED
  BY <1>1, KeptInit, KeptNext, PTL DEF Spec
=============================================================================
