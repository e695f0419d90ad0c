------------------------- MODULE CloudStorageProofs -------------------------
(***************************************************************************)
(* Theorems about CloudStorage                                             *)
(***************************************************************************)
EXTENDS CloudStorage, TLAPS

Typed ==
  /\ calls \in [Callers -> CallStates \cup {None}]
  /\ backend \in {"azure", "s3", "gcs"}

(* The two moments at which put could be refused: what it did not find is  *)
(* there by now only because another put stored it meanwhile.              *)
CloudInv ==
  /\ Typed
  /\ \A c \in Callers :
       At(c, Puts, "upload") /\ calls[c].hash \in bucket => calls[c].raced
  /\ RaisesOnlyFailed

LEMMA CloudInit == Init => CloudInv
BY DEF Init, CloudInv, Typed, At, RaisesOnlyFailed

(* How a call goes on: `next` in the place of calls[c], the others left    *)
(* alone.                                                                  *)
LEMMA OneCall ==
  ASSUME CloudInv, NEW c \in Callers, NEW next \in CallStates \cup {None},
         calls' = [calls EXCEPT ![c] = next],
         backend' = backend, bucket' \subseteq bucket,
         next # None /\ next.op \in Puts /\ next.step = "upload"
           /\ next.hash \in bucket => next.raced,
         next # None /\ next.op \in Puts /\ next.step = "raised"
           => next.failed \/ (next.raced /\ backend = "azure")
  PROVE  CloudInv'
<1>1. Typed'
  BY DEF CloudInv, Typed
<1>2. /\ calls'[c] = next
      /\ \A d \in Callers : d # c => calls'[d] = calls[d]
  BY DEF CloudInv, Typed
<1> QED
  BY <1>1, <1>2 DEF CloudInv, At, RaisesOnlyFailed

LEMMA Returns ==
  ASSUME CloudInv, NEW c \in Callers, Return(c), backend' = backend,
         bucket' \subseteq bucket
  PROVE  CloudInv'
BY OneCall DEF Return

LEMMA GoesOn ==
  ASSUME CloudInv, NEW c \in Callers, calls[c] # None,
         NEW step \in {"source", "exists", "upload", "request",
                       "found", "missing", "done"},
         GoTo(c, step), backend' = backend, bucket' \subseteq bucket,
         step = "upload" => calls[c].hash \notin bucket
  PROVE  CloudInv'
<1> DEFINE next == [calls[c] EXCEPT !.step = step]
<1>1. calls[c] \in CallStates
  BY DEF CloudInv, Typed
<1>2. /\ calls' = [calls EXCEPT ![c] = next]
      /\ next \in CallStates
      /\ next.hash = calls[c].hash /\ next.step = step
  BY <1>1 DEF GoTo, CallStates
<1> HIDE DEF next
<1> QED
  BY <1>2, OneCall

LEMMA RaisedBy ==
  ASSUME CloudInv, NEW c \in Callers, calls[c] # None,
         NEW failed \in BOOLEAN,
         Raises(c, failed)
  PROVE  \E next \in CallStates :
            /\ calls' = [calls EXCEPT ![c] = next]
            /\ next.op = calls[c].op
            /\ next.hash = calls[c].hash /\ next.step = "raised"
            /\ next.raced = calls[c].raced /\ next.failed = failed
<1> DEFINE next == [calls[c] EXCEPT !.step = "raised", !.failed = failed]
<1>1. calls[c] \in CallStates
  BY DEF CloudInv, Typed
<1>2. calls' = [calls EXCEPT ![c] = next]
  BY DEF Raises
<1>3. next \in CallStates
  BY <1>1 DEF CallStates
<1>4. /\ next.op = calls[c].op /\ next.hash = calls[c].hash
      /\ next.step = "raised" /\ next.raced = calls[c].raced
  BY <1>1 DEF CallStates
<1>5. next.failed = failed
  BY <1>1, Zenon DEF CallStates
<1> QED
  BY <1>2, <1>3, <1>4, <1>5

(* The object of h is there now: those about to upload it have been raced. *)
LEMMA StoredBy ==
  ASSUME CloudInv, NEW c \in Callers, calls[c] # None,
         NEW next \in CallStates \cup {None},
         calls' = [Raced(calls[c].hash) EXCEPT ![c] = next],
         backend' = backend, bucket' = bucket \cup {calls[c].hash},
         next # None => next.step = "raised" /\ next.failed
  PROVE  CloudInv'
<1> DEFINE h == calls[c].hash
<1>1. ASSUME NEW d \in Callers, calls[d] # None
      PROVE  LET r == [calls[d] EXCEPT !.raced = TRUE]
             IN  /\ r \in CallStates /\ r.op = calls[d].op /\ r.hash = calls[d].hash
                 /\ r.step = calls[d].step
                 /\ r.raced
  <2>1. calls[d] \in CallStates
    BY <1>1 DEF CloudInv, Typed
  <2>2. [calls[d] EXCEPT !.raced = TRUE].raced
    BY <2>1, Zenon DEF CallStates
  <2> QED
    BY <2>1, <2>2 DEF CallStates
<1>2. Raced(h) \in [Callers -> CallStates \cup {None}]
  BY <1>1 DEF Raced, At, CloudInv, Typed
<1>3. /\ calls'[c] = next
      /\ \A d \in Callers : d # c => calls'[d] = Raced(h)[d]
  BY <1>2
<1>4. Typed'
  BY <1>2 DEF CloudInv, Typed
<1>5. ASSUME NEW d \in Callers, d # c
      PROVE  /\ At(d, Puts, "upload")' /\ calls'[d].hash \in bucket'
                  => calls'[d].raced
             /\ At(d, Puts, "raised")' => calls'[d] = calls[d]
  <2>1. CASE At(d, Puts, "upload") /\ calls[d].hash = h
    <3>1. calls'[d] = [calls[d] EXCEPT !.raced = TRUE]
      BY <1>3, <1>5, <2>1 DEF Raced
    <3>2. calls'[d].raced /\ calls'[d].step = "upload"
      BY <1>1, <2>1, <3>1 DEF At
    <3> QED
      BY <3>2 DEF At
  <2>2. CASE ~(At(d, Puts, "upload") /\ calls[d].hash = h)
    <3>1. calls'[d] = calls[d]
      BY <1>3, <1>5, <2>2 DEF Raced
    <3> QED
      BY <2>2, <3>1 DEF At, CloudInv
  <2> QED
    BY <2>1, <2>2
<1>6. \A d \in Callers :
        At(d, Puts, "upload")' /\ calls'[d].hash \in bucket' => calls'[d].raced
  BY <1>3, <1>5 DEF At
<1>7. RaisesOnlyFailed'
  BY <1>3, <1>5 DEF At, RaisesOnlyFailed, CloudInv
<1> QED
  BY <1>4, <1>6, <1>7 DEF CloudInv

LEMMA CloudNext == CloudInv /\ [Next]_vars => CloudInv'
<1> SUFFICES ASSUME CloudInv, [Next]_vars PROVE CloudInv'
  OBVIOUS
<1>t. \A c \in Callers : calls[c] # None => calls[c] \in CallStates
  BY DEF CloudInv, Typed
<1>1. ASSUME NEW c \in Callers, NEW op \in Ops, NEW h \in Hashes, Start(c, op, h)
      PROVE  CloudInv'
  <2>1. PICK next : next = Call(op, h)
    OBVIOUS
  <2>2. next \in CallStates
    <3>1. CASE op = "put_path"
      BY <2>1, <3>1, Zenon DEF Call, CallStates
    <3>2. CASE op = "put"
      BY <2>1, <3>2, Zenon DEF Call, CallStates
    <3>3. CASE op \in {"get", "delete"}
      BY <2>1, <3>3, Zenon DEF Call, CallStates
    <3> QED
      BY <3>1, <3>2, <3>3 DEF Ops
  <2>3. next.step \in {"source", "exists", "request"}
    BY <2>1 DEF Call
  <2> QED
    BY <1>1, <2>1, <2>2, <2>3, OneCall DEF Start
<1>2. ASSUME NEW c \in Callers, PutPathReads(c) PROVE CloudInv'
  BY <1>2, GoesOn DEF PutPathReads, At
<1>3. ASSUME NEW c \in Callers, PutExists(c) PROVE CloudInv'
  <2>1. /\ calls[c] # None /\ bucket' = bucket /\ backend' = backend
        /\ \/ Return(c)
           \/ GoTo(c, "upload") /\ calls[c].hash \notin bucket
    BY <1>3 DEF PutExists, At
  <2>2. CASE Return(c)
    BY <2>1, <2>2, Returns
  <2>3. CASE GoTo(c, "upload") /\ calls[c].hash \notin bucket
    BY <2>1, <2>3, GoesOn
  <2> QED
    BY <2>1, <2>2, <2>3
<1>4. ASSUME NEW c \in Callers, PutExistsFails(c) \/ GetFails(c) PROVE CloudInv'
  <2>1. /\ calls[c] # None /\ bucket' = bucket /\ backend' = backend
        /\ Raises(c, TRUE)
    BY <1>4 DEF PutExistsFails, GetFails, At
  <2> QED
    BY <2>1, RaisedBy, OneCall
<1>5. ASSUME NEW c \in Callers, PutUpload(c) PROVE CloudInv'
  BY <1>5, StoredBy DEF PutUpload, At
<1>6. ASSUME NEW c \in Callers, PutRefused(c) PROVE CloudInv'
  <2>1. /\ calls[c] # None /\ bucket' = bucket /\ backend' = backend
        /\ Raises(c, FALSE)
        /\ calls[c].raced /\ backend = "azure"
    BY <1>6 DEF PutRefused, At, Refused, CloudInv
  <2> QED
    BY <2>1, RaisedBy, OneCall
<1>7. ASSUME NEW c \in Callers, PutUploadFails(c) PROVE CloudInv'
  <2>1. calls[c] # None /\ backend' = backend
    BY <1>7 DEF PutUploadFails, At
  <2>2. CASE bucket' = bucket /\ Raises(c, TRUE)
    BY <2>1, <2>2, RaisedBy, OneCall
  <2>3. CASE /\ bucket' = bucket \cup {calls[c].hash}
             /\ calls' = [Raced(calls[c].hash) EXCEPT ![c].step = "raised",
                                                    ![c].failed = TRUE]
    <3> DEFINE r == Raced(calls[c].hash)
    <3>1. r \in [Callers -> CallStates \cup {None}] /\ r[c] # None
      <4>1. ASSUME NEW d \in Callers, calls[d] # None
            PROVE  [calls[d] EXCEPT !.raced = TRUE] \in CallStates
        BY <1>t, <4>1 DEF CallStates
      <4> QED
        BY <2>1, <4>1, NoneIsNothing DEF Raced, At, CloudInv, Typed
    <3> HIDE DEF r
    <3>2. PICK next : next = [r[c] EXCEPT !.step = "raised", !.failed = TRUE]
      OBVIOUS
    <3>3. calls' = [r EXCEPT ![c] = next]
      BY <2>3, <3>2 DEF r
    <3>4. r[c] \in CallStates
      BY <3>1
    <3>5. next \in CallStates
      BY <3>2, <3>4 DEF CallStates
    <3>6. next.step = "raised" /\ next.failed
      BY <3>2, <3>4, Zenon DEF CallStates
    <3> QED
      BY <2>1, <2>3, <3>3, <3>5, <3>6, StoredBy DEF r
  <2> QED
    BY <1>7, <2>2, <2>3 DEF PutUploadFails
<1>8. ASSUME NEW c \in Callers, PutRaises(c) \/ GetReturns(c) \/ DeleteReturns(c)
      PROVE  CloudInv'
  BY <1>8, Returns DEF PutRaises, GetReturns, DeleteReturns
<1>9. ASSUME NEW c \in Callers, Get(c) PROVE CloudInv'
  <2>1. /\ calls[c] # None /\ bucket' = bucket /\ backend' = backend
        /\ GoTo(c, "found") \/ GoTo(c, "missing")
    BY <1>9 DEF Get, At
  <2> QED
    BY <2>1, GoesOn
<1>10. ASSUME NEW c \in Callers, Delete(c) PROVE CloudInv'
  <2>1. /\ calls[c] # None /\ bucket' \subseteq bucket /\ backend' = backend
        /\ GoTo(c, "done")
    BY <1>10 DEF Delete, At
  <2> QED
    BY <2>1, GoesOn
<1>11. ASSUME NEW dead \in SUBSET Callers, Crash(dead) PROVE CloudInv'
  BY <1>11 DEF Crash, CloudInv, Typed, At, RaisesOnlyFailed
<1>12. CASE UNCHANGED vars
  BY <1>12 DEF vars, CloudInv, Typed, At, RaisesOnlyFailed
<1> QED
  BY <1>1, <1>2, <1>3, <1>4, <1>5, <1>6, <1>7, <1>8, <1>9, <1>10, <1>11, <1>12
  DEF Next, Proceed

(* put raises only if the service failed it, or if another put stored the  *)
(* content under its eyes and the service is Azure.                        *)
THEOREM RaisesOnlyFailedCorrect == Spec => []RaisesOnlyFailed
<1>1. CloudInv => RaisesOnlyFailed
  BY DEF CloudInv
<1> QED
  BY <1>1, CloudInit, CloudNext, PTL DEF Spec

(* ------------------------------------------------------------------------ *)
(* The three services are an ObjectStore                                    *)
(* ------------------------------------------------------------------------ *)

(* Two calls are one to an ObjectStore if they differ in how far they are. *)
Alike(x, y) == (x = None /\ y = None) \/ (/\ x # None /\ y # None
                                         /\ x.op = y.op /\ x.hash = y.hash)

LEMMA ActiveIs ==
  ASSUME Typed, NEW c \in Callers
  PROVE  /\ Active[c] = None <=> calls[c] = None
         /\ calls[c] # None => /\ Active[c].op = calls[c].op
                               /\ Active[c].hash = calls[c].hash
                               /\ calls[c].op \in Ops /\ calls[c].hash \in Hashes
BY NoneIsNothing DEF Typed, Active, CallStates

LEMMA ActiveKept ==
  ASSUME \A c \in Callers : Alike(calls[c], calls'[c])
  PROVE  Active' = Active
BY DEF Alike, Active

LEMMA ActiveReturns ==
  ASSUME NEW c \in Callers, calls'[c] = None,
         \A d \in Callers : d # c => Alike(calls[d], calls'[d])
  PROVE  Active' = [Active EXCEPT ![c] = None]
BY DEF Alike, Active

LEMMA DeletesAre ==
  ASSUME Typed, NEW h
  PROVE  Store!Deletes(h) = CallsOn("delete", h)
BY ActiveIs DEF Store!Deletes, Store!In, CallsOn

LEMMA InPuts ==
  ASSUME Typed, NEW c \in Callers, calls[c] # None, calls[c].op \in Puts
  PROVE  Store!In(c, Store!Puts) /\ Active[c].hash = calls[c].hash
BY ActiveIs DEF Store!In, Store!Puts, Puts

LEMMA RacedAlike ==
  ASSUME Typed, NEW h, NEW c \in Callers
  PROVE  Alike(calls[c], Raced(h)[c])
<1>1. CASE At(c, Puts, "upload") /\ calls[c].hash = h
  <2>1. /\ calls[c] # None /\ calls[c] \in CallStates
        /\ Raced(h)[c] = [calls[c] EXCEPT !.raced = TRUE]
    BY <1>1 DEF Raced, At, Typed
  <2>2. Raced(h)[c] \in CallStates
    BY <2>1 DEF CallStates
  <2> QED
    BY <2>1, <2>2, NoneIsNothing DEF Alike, CallStates
<1>2. CASE ~(At(c, Puts, "upload") /\ calls[c].hash = h)
  BY <1>2 DEF Raced, Alike
<1> QED
  BY <1>1, <1>2

(* A step that ends or takes on one call and changes nothing else: the     *)
(* store does not see it, or sees the call return.                         *)
LEMMA Unseen ==
  ASSUME Typed, NEW c \in Callers, calls[c] # None,
         \/ \E step \in {"exists", "upload", "found", "missing", "done"} :
                GoTo(c, step)
         \/ \E failed \in BOOLEAN : Raises(c, failed),
         bucket' = bucket, kept' = kept
  PROVE  UNCHANGED Store!vars
<1>1. calls[c] \in CallStates
  BY DEF Typed
<1>2. \A d \in Callers : d # c => calls'[d] = calls[d]
  BY DEF GoTo, Raises, Typed
<1>4. calls'[c] \in CallStates /\ calls'[c].op = calls[c].op
      /\ calls'[c].hash = calls[c].hash
  <2>1. CASE \E step \in {"exists", "upload", "found", "missing", "done"} :
                GoTo(c, step)
    BY <1>1, <2>1 DEF GoTo, Typed, CallStates
  <2>2. CASE \E failed \in BOOLEAN : Raises(c, failed)
    <3>1. PICK failed \in BOOLEAN : Raises(c, failed)
      BY <2>2
    <3> DEFINE next == [calls[c] EXCEPT !.step = "raised", !.failed = failed]
    <3>2. calls'[c] = next
      BY <3>1 DEF Raises, Typed
    <3>3. next \in CallStates /\ next.op = calls[c].op /\ next.hash = calls[c].hash
      BY <1>1 DEF CallStates
    <3> QED
      BY <3>2, <3>3
  <2> QED
    BY <2>1, <2>2
<1>5. Alike(calls[c], calls'[c])
  BY <1>1, <1>4, NoneIsNothing DEF Alike
<1>3. \A d \in Callers : Alike(calls[d], calls'[d])
  BY <1>2, <1>5 DEF Alike
<1> QED
  BY <1>3, ActiveKept DEF Store!vars

LEMMA StoreNext == CloudInv /\ [Next]_vars => [Store!Next]_Store!vars
<1> SUFFICES ASSUME CloudInv, [Next]_vars PROVE [Store!Next]_Store!vars
  OBVIOUS
<1>t. /\ Typed
      /\ \A c \in Callers : calls[c] # None => calls[c] \in CallStates
  BY DEF CloudInv, Typed
<1>r. ASSUME NEW c \in Callers, calls[c] # None, Return(c),
             bucket' = bucket, kept' = kept
      PROVE  Store!Return(c)
  <2>1. Active' = [Active EXCEPT ![c] = None]
    BY <1>r, <1>t, ActiveReturns DEF Return, Typed, Alike
  <2> QED
    BY <1>r, <1>t, <2>1, ActiveIs DEF Store!Return
<1>p. ASSUME NEW c \in Callers, calls[c] # None, calls[c].op \in Puts,
             Answer(calls[c].hash), calls'[c] = None,
             \A d \in Callers : d # c => Alike(calls[d], calls'[d]),
             bucket' = bucket \cup {calls[c].hash}
      PROVE  Store!Put(c)
  <2>1. Active' = [Active EXCEPT ![c] = None]
    BY <1>p, ActiveReturns
  <2> QED
    BY <1>p, <1>t, <2>1, InPuts, DeletesAre DEF Store!Put, Answer
<1>1. ASSUME NEW c \in Callers, NEW op \in Ops, NEW h \in Hashes, Start(c, op, h)
      PROVE  Store!Next
  <2>1. PICK next : next = Call(op, h)
    OBVIOUS
  <2>2. next \in CallStates /\ next.op = op /\ next.hash = h
    <3>1. CASE op = "put_path"
      BY <2>1, <3>1, Zenon DEF Call, CallStates
    <3>2. CASE op = "put"
      BY <2>1, <3>2, Zenon DEF Call, CallStates
    <3>3. CASE op \in {"get", "delete"}
      BY <2>1, <3>3, Zenon DEF Call, CallStates
    <3> QED
      BY <3>1, <3>2, <3>3 DEF Ops
  <2>3. /\ calls[c] = None /\ bucket' = bucket
        /\ calls' = [calls EXCEPT ![c] = next]
        /\ kept' = IF op = "delete" THEN kept \ {h} ELSE kept
    BY <1>1, <2>1 DEF Start
  <2>4. Active' = [Active EXCEPT ![c] = [op |-> op, hash |-> h]]
    BY <1>t, <2>2, <2>3, NoneIsNothing DEF Active, Typed
  <2>5. Store!Start(c, op, h)
    BY <1>t, <2>3, <2>4, ActiveIs DEF Store!Start
  <2> QED
    BY <2>5 DEF Store!Next, Store!Operations, Store!Puts, Ops
<1>2. ASSUME NEW c \in Callers,
             \/ PutPathReads(c) \/ PutExistsFails(c) \/ PutRefused(c)
             \/ Get(c) \/ GetFails(c)
      PROVE  UNCHANGED Store!vars
  <2>1. /\ calls[c] # None /\ bucket' = bucket /\ kept' = kept
        /\ \/ \E step \in {"exists", "upload", "found", "missing", "done"} :
                GoTo(c, step)
           \/ \E failed \in BOOLEAN : Raises(c, failed)
    BY <1>2 DEF PutPathReads, PutExistsFails, PutRefused, Get, GetFails, At
  <2> QED
    BY <1>t, <2>1, Unseen
<1>3. ASSUME NEW c \in Callers, PutExists(c) PROVE [Store!Next]_Store!vars
  <2>0. calls[c] # None /\ calls[c].op \in Puts /\ bucket' = bucket
    BY <1>3 DEF PutExists, At
  <2>1. CASE calls[c].hash \in bucket
    <3>1. /\ Answer(calls[c].hash) /\ bucket' = bucket \cup {calls[c].hash}
          /\ calls'[c] = None
          /\ \A d \in Callers : d # c => Alike(calls[d], calls'[d])
      BY <1>3, <1>t, <2>1 DEF PutExists, Return, Typed, Alike
    <3> QED
      BY <1>p, <2>0, <3>1 DEF Store!Next
  <2>2. CASE calls[c].hash \notin bucket
    <3>1. GoTo(c, "upload") /\ kept' = kept
      BY <1>3, <2>2 DEF PutExists
    <3> QED
      BY <1>t, <2>0, <3>1, Unseen
  <2> QED
    BY <2>1, <2>2
<1>4. ASSUME NEW c \in Callers, PutUpload(c) PROVE Store!Next
  <2>0. /\ calls[c] # None /\ calls[c].op \in Puts
        /\ calls' = [Raced(calls[c].hash) EXCEPT ![c] = None]
        /\ Answer(calls[c].hash) /\ bucket' = bucket \cup {calls[c].hash}
    BY <1>4 DEF PutUpload, At
  <2>1. /\ calls'[c] = None
        /\ \A d \in Callers : d # c => calls'[d] = Raced(calls[c].hash)[d]
    BY <2>0 DEF Raced
  <2>2. \A d \in Callers : d # c => Alike(calls[d], calls'[d])
    BY <1>t, <2>1, RacedAlike
  <2> QED
    BY <1>p, <2>0, <2>1, <2>2 DEF Store!Next
<1>5. ASSUME NEW c \in Callers, PutUploadFails(c) PROVE [Store!Next]_Store!vars
  <2>0. calls[c] # None /\ calls[c].op \in Puts /\ kept' = kept
    BY <1>5 DEF PutUploadFails, At
  <2>1. CASE bucket' = bucket /\ Raises(c, TRUE)
    BY <1>t, <2>0, <2>1, Unseen
  <2>2. CASE /\ bucket' = bucket \cup {calls[c].hash}
             /\ calls' = [Raced(calls[c].hash) EXCEPT ![c].step = "raised",
                                                    ![c].failed = TRUE]
    <3> DEFINE r == Raced(calls[c].hash)
    <3>1. \A d \in Callers : Alike(calls[d], r[d])
      BY <1>t, RacedAlike
    <3>2. r[c] \in CallStates
      BY <1>t, <2>0 DEF Raced, At, CallStates
    <3>3. DOMAIN r = Callers /\ r = [d \in Callers |-> r[d]]
      BY DEF Raced
    <3> HIDE DEF r
    <3>4. calls' = [r EXCEPT ![c].step = "raised", ![c].failed = TRUE]
      BY <2>2 DEF r
    <3>5. \A d \in Callers : d # c => calls'[d] = r[d]
      BY <3>3, <3>4
    <3>6. /\ calls'[c] \in CallStates
          /\ calls'[c].op = r[c].op /\ calls'[c].hash = r[c].hash
      BY <3>2, <3>3, <3>4 DEF CallStates
    <3>7. \A d \in Callers : Alike(calls[d], calls'[d])
      BY <2>0, <3>1, <3>5, <3>6, NoneIsNothing DEF Alike
    <3>8. Active' = Active
      BY <3>7, ActiveKept
    <3>9. Store!Store(c)
      BY <1>t, <2>0, <2>2, <3>8, InPuts DEF Store!Store
    <3> QED
      BY <3>9 DEF Store!Next
  <2> QED
    BY <1>5, <2>1, <2>2 DEF PutUploadFails
<1>6. ASSUME NEW c \in Callers, PutRaises(c) \/ GetReturns(c) \/ DeleteReturns(c)
      PROVE  Store!Next
  <2>1. calls[c] # None /\ Return(c) /\ bucket' = bucket /\ kept' = kept
    BY <1>6 DEF PutRaises, GetReturns, DeleteReturns, At
  <2> QED
    BY <1>r, <2>1 DEF Store!Next
<1>7. ASSUME NEW c \in Callers, Delete(c) PROVE [Store!Next]_Store!vars
  <2>1. /\ calls[c] # None /\ calls[c].op = "delete" /\ kept' = kept
        /\ GoTo(c, "done")
        /\ bucket' = bucket \/ bucket' = bucket \ {calls[c].hash}
    BY <1>7 DEF Delete, At
  <2>2. CASE bucket' = bucket
    BY <1>t, <2>1, <2>2, Unseen
  <2>3. CASE bucket' = bucket \ {calls[c].hash}
    <3>1. /\ calls'[c] \in CallStates
          /\ calls'[c].op = calls[c].op /\ calls'[c].hash = calls[c].hash
          /\ \A d \in Callers : d # c => calls'[d] = calls[d]
      BY <1>t, <2>1 DEF GoTo, Typed, CallStates
    <3>2. \A d \in Callers : Alike(calls[d], calls'[d])
      BY <2>1, <3>1, NoneIsNothing DEF Alike
    <3>3. Active' = Active
      BY <3>2, ActiveKept
    <3>4. Store!Remove(c)
      BY <1>t, <2>1, <2>3, <3>3, ActiveIs DEF Store!Remove, Store!In
    <3> QED
      BY <3>4 DEF Store!Next
  <2> QED
    BY <2>1, <2>2, <2>3
<1>8. ASSUME NEW dead \in SUBSET Callers, Crash(dead) PROVE Store!Next
  <2>1. Store!Crash(dead)
    BY <1>8 DEF Crash, Store!Crash, Active
  <2> QED
    BY <2>1 DEF Store!Next
<1>9. CASE UNCHANGED vars
  BY <1>9 DEF vars, Store!vars, Active
<1> QED
  BY <1>1, <1>2, <1>3, <1>4, <1>5, <1>6, <1>7, <1>8, <1>9 DEF Next, Proceed

(* Azure, S3 and GCS keep the promise of an ObjectStore, whichever requests *)
(* fail and whenever a process dies.                                        *)
THEOREM CloudIsObjectStore == Spec => StoreSpec
<1>1. Init => Store!Init
  BY DEF Init, Store!Init, Active
<1> QED
  BY <1>1, CloudInit, CloudNext, StoreNext, PTL DEF Spec, StoreSpec, Store!Spec

(* What follows from the promise holds of the three services. *)
Promise == INSTANCE ObjectStoreProofs WITH stored <- bucket, active <- Active

LEMMA KeptIsStored == Spec => [](kept \subseteq bucket)
<1>1. Store!Init => Promise!Init
  BY DEF Store!Init, Promise!Init
<1>2. [Store!Next]_Store!vars => [Promise!Next]_Promise!vars
  BY DEF Store!Next, Store!vars, Promise!Next, Promise!vars, Store!Start, Promise!Start,
    Store!Put, Promise!Put, Store!Store, Promise!Store, Store!Remove, Promise!Remove,
    Store!Return, Promise!Return, Store!Crash, Promise!Crash, Store!In, Promise!In,
    Store!Puts, Promise!Puts, Store!Operations, Promise!Operations,
    Store!Deletes, Promise!Deletes
<1>3. Promise!KeptIsStored <=> kept \subseteq bucket
  BY DEF Promise!KeptIsStored
<1> QED
  BY <1>1, <1>2, <1>3, CloudIsObjectStore, Promise!KeptIsStoredCorrect, PTL
  DEF StoreSpec, Store!Spec, Promise!Spec

(* Only a get that did not find its object comes to say so. *)
LEMMA OnlyGetMisses ==
  ASSUME Typed, [Next]_vars, NEW c \in Callers,
         ~At(c, {"get"}, "missing"), At(c, {"get"}, "missing")'
  PROVE  calls[c].hash \notin bucket
<1>t. \A d \in Callers : calls[d] # None => calls[d] \in CallStates
  BY DEF Typed
<1>n. calls'[c] # None /\ calls'[c].step = "missing" /\ calls'[c] # calls[c]
  BY DEF At
<1>1. ASSUME NEW d \in Callers, NEW op \in Ops, NEW h \in Hashes, Start(d, op, h)
      PROVE  FALSE
  <2>1. /\ calls'[c] = Call(op, h) \/ calls'[c] = calls[c]
        /\ Call(op, h).step # "missing"
    BY <1>1 DEF Start, Typed, Call
  <2> QED
    BY <1>n, <2>1
<1>g. ASSUME NEW d \in Callers, calls[d] # None,
             NEW step \in {"exists", "upload", "done", "raised"},
             NEW next, next = [calls[d] EXCEPT !.step = step]
                       \/ \E f \in BOOLEAN :
                            next = [calls[d] EXCEPT !.step = step, !.failed = f],
             calls' = [calls EXCEPT ![d] = next]
      PROVE  FALSE
  <2>1. next.step = step
    BY <1>g, <1>t DEF CallStates
  <2>2. calls'[c] = next \/ calls'[c] = calls[c]
    BY <1>g DEF Typed
  <2> QED
    BY <1>n, <2>1, <2>2
<1>2. ASSUME NEW d \in Callers,
             PutPathReads(d) \/ (PutExists(d) /\ ~Return(d)) \/ Delete(d)
      PROVE  FALSE
  BY <1>2, <1>g DEF PutPathReads, PutExists, Delete, GoTo, At
<1>3. ASSUME NEW d \in Callers,
             PutExistsFails(d) \/ PutRefused(d) \/ GetFails(d)
               \/ (PutUploadFails(d) /\ Raises(d, TRUE))
      PROVE  FALSE
  <2>1. PICK f \in BOOLEAN : Raises(d, f) /\ calls[d] # None
    BY <1>3 DEF PutExistsFails, PutRefused, GetFails, PutUploadFails, At
  <2>2. PICK next : next = [calls[d] EXCEPT !.step = "raised", !.failed = f]
    OBVIOUS
  <2>3. calls' = [calls EXCEPT ![d] = next]
    BY <2>1, <2>2 DEF Raises
  <2> QED
    BY <1>g, <2>1, <2>2, <2>3
<1>4. ASSUME NEW d \in Callers, Return(d) PROVE FALSE
  BY <1>4, <1>n DEF Return, Typed
<1>5. ASSUME NEW d \in Callers, calls[d] # None,
             NEW next \in CallStates \cup {None},
             calls' = [Raced(calls[d].hash) EXCEPT ![d] = next],
             next # None => next.step = "raised"
      PROVE  FALSE
  <2>1. calls'[c] = next \/ calls'[c] = Raced(calls[d].hash)[c]
    BY <1>5 DEF Raced
  <2>2. calls'[c] = [calls[c] EXCEPT !.raced = TRUE] /\ At(c, Puts, "upload")
    BY <1>5, <1>n, <2>1 DEF Raced
  <2>3. calls'[c].step = "upload"
    BY <1>t, <2>2 DEF At, CallStates
  <2> QED
    BY <1>n, <2>3
<1>6. ASSUME NEW d \in Callers, PutUpload(d) PROVE FALSE
  BY <1>5, <1>6 DEF PutUpload, At
<1>7. ASSUME NEW d \in Callers, PutUploadFails(d), ~Raises(d, TRUE) PROVE FALSE
  <2> DEFINE r == Raced(calls[d].hash)
  <2>1. /\ calls[d] # None
        /\ calls' = [r EXCEPT ![d].step = "raised", ![d].failed = TRUE]
    BY <1>7 DEF PutUploadFails, At
  <2>2. r[d] \in CallStates /\ DOMAIN r = Callers
    BY <1>t, <2>1 DEF Raced, At, CallStates
  <2> HIDE DEF r
  <2>3. PICK next : next = [r[d] EXCEPT !.step = "raised", !.failed = TRUE]
    OBVIOUS
  <2>4. next \in CallStates /\ next.step = "raised"
    BY <2>2, <2>3 DEF CallStates
  <2>5. calls' = [r EXCEPT ![d] = next]
    BY <2>1, <2>2, <2>3
  <2> QED
    BY <1>5, <2>1, <2>4, <2>5 DEF r
<1>8. ASSUME NEW d \in Callers, Get(d) PROVE calls[c].hash \notin bucket
  <2>1. c = d
    BY <1>8, <1>n DEF Get, GoTo, Typed
  <2>2. CASE calls[c].hash \in bucket
    <3>1. calls'[c] = [calls[c] EXCEPT !.step = "found"] /\ calls[c] # None
      BY <1>8, <2>1, <2>2 DEF Get, GoTo, Typed, At
    <3> QED
      BY <1>t, <1>n, <3>1 DEF CallStates
  <2> QED
    BY <2>2
<1>9. ASSUME NEW dead \in SUBSET Callers, Crash(dead) PROVE FALSE
  BY <1>9, <1>n DEF Crash
<1>10. CASE UNCHANGED vars
  BY <1>10, <1>n DEF vars
<1> QED
  BY <1>1, <1>2, <1>3, <1>4, <1>6, <1>7, <1>8, <1>9, <1>10
  DEF Next, Proceed, PutRaises, GetReturns, DeleteReturns

(* A get says "not found", which the API passes on as 404, only of what no *)
(* put has answered for or a delete has been called on.                    *)
THEOREM MissingIsNotKeptCorrect == Spec => MissingIsNotKept
<1>1. CloudInv /\ kept \subseteq bucket /\ [Next]_vars =>
        [\A c \in Callers :
           ~At(c, {"get"}, "missing") /\ At(c, {"get"}, "missing")'
             => calls[c].hash \notin kept]_vars
  BY OnlyGetMisses DEF CloudInv
<1> QED
  BY <1>1, CloudInit, CloudNext, KeptIsStored, PTL DEF Spec, MissingIsNotKept
=============================================================================
