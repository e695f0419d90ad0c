---------------------------- MODULE CloudStorage ----------------------------
(***************************************************************************)
(* AzureBlobStorage, S3Storage and GCSStorage: put, put_path, get and      *)
(* delete as the requests they send to the service.                        *)
(*                                                                         *)
(* The service carries out a request in one step and may fail: before or   *)
(* after it has done what was asked, so that the caller learns of an error *)
(* and nothing else.  A request that has been given up is not carried out  *)
(* later.                                                                  *)
(***************************************************************************)
EXTENDS FiniteSets

CONSTANTS Hashes, Callers, None

VARIABLES backend,      \* "azure", "s3" or "gcs"
          bucket,       \* hashes the container or bucket has objects of
          calls,        \* calls under way
          kept          \* history: hashes a put has answered for and no
                        \* delete has been called on since

vars == <<backend, bucket, calls, kept>>

Ops == {"put", "put_path", "get", "delete"}

(* `failed` and `raced` are history: the service has failed the call, and   *)
(* another put has stored its hash since the call looked for it.            *)
Call(op, h) ==
  [op |-> op, hash |-> h, failed |-> FALSE, raced |-> FALSE,
   step |-> CASE op = "put_path" -> "source" [] op = "put" -> "exists"
              [] OTHER -> "request"]

CallStates == [op: Ops, hash: Hashes, failed: BOOLEAN, raced: BOOLEAN,
               step: {"source", "exists", "upload", "request", "raised",
                      "found", "missing", "done"}]

ASSUME NoneIsNothing == None \notin CallStates \cup [op: Ops, hash: Hashes]

At(c, ops, step) == calls[c] # None /\ calls[c].op \in ops /\ calls[c].step = step
Puts == {"put", "put_path"}

Init ==
  /\ backend \in {"azure", "s3", "gcs"}
  /\ bucket = {}
  /\ calls = [c \in Callers |-> None]
  /\ kept = {}

GoTo(c, step) == calls' = [calls EXCEPT ![c].step = step]
Return(c)     == calls' = [calls EXCEPT ![c] = None]

(* The caller gets an exception, if the operation lets it through. *)
Raises(c, failed) ==
  calls' = [calls EXCEPT ![c].step = "raised", ![c].failed = failed]

CallsOn(op, h) == {c \in Callers : /\ calls[c] # None
                                   /\ calls[c].op = op
                                   /\ calls[c].hash = h}
Answer(h) == kept' = IF CallsOn("delete", h) = {} THEN kept \cup {h} ELSE kept

Start(c, op, h) ==
  /\ calls[c] = None
  /\ calls' = [calls EXCEPT ![c] = Call(op, h)]
  /\ kept' = IF op = "delete" THEN kept \ {h} ELSE kept
  /\ UNCHANGED <<backend, bucket>>

(* ------------------------------------------------------------------------ *)
(* put and put_path                                                         *)
(* ------------------------------------------------------------------------ *)

(* Storage.put_path reads the whole file and calls put. *)
PutPathReads(c) ==
  /\ At(c, {"put_path"}, "source")
  /\ GoTo(c, "exists")
  /\ UNCHANGED <<backend, bucket, kept>>

PutExists(c) ==
  /\ At(c, Puts, "exists")
  /\ IF calls[c].hash \in bucket THEN Return(c) /\ Answer(calls[c].hash)
                                 ELSE GoTo(c, "upload") /\ UNCHANGED kept
  /\ UNCHANGED <<backend, bucket>>

(* An answer other than yes and 404 is raised. *)
PutExistsFails(c) ==
  /\ At(c, Puts, "exists")
  /\ Raises(c, TRUE)
  /\ UNCHANGED <<backend, bucket, kept>>

(* FAULT: no service overwrites *)
RefusedByAll(h) == h \in bucket

(* Azure is told not to overwrite. *)
Refused(h) == backend = "azure" /\ h \in bucket

(* Those who have not found h, and will now. *)
Raced(h) == [d \in Callers |->
  IF At(d, Puts, "upload") /\ calls[d].hash = h
  THEN [calls[d] EXCEPT !.raced = TRUE] ELSE calls[d]]

PutUpload(c) ==
  LET h == calls[c].hash IN
  /\ At(c, Puts, "upload")
  /\ ~Refused(h)
  /\ bucket' = bucket \cup {h}
  /\ calls' = [Raced(h) EXCEPT ![c] = None]
  /\ Answer(h)
  /\ UNCHANGED backend

PutRefused(c) ==
  /\ At(c, Puts, "upload")
  /\ Refused(calls[c].hash)
  /\ Raises(c, FALSE)
  /\ UNCHANGED <<backend, bucket, kept>>

(* FAULT: swallows the error, as delete does *)
PutUploadSwallows(c) ==
  /\ At(c, Puts, "upload")
  /\ Return(c)
  /\ Answer(calls[c].hash)
  /\ UNCHANGED <<backend, bucket>>

PutUploadFails(c) ==
  LET h == calls[c].hash IN
  /\ At(c, Puts, "upload")
  /\ \/ bucket' = bucket /\ Raises(c, TRUE)
     \/ /\ bucket' = bucket \cup {h}
        /\ calls' = [Raced(h) EXCEPT ![c].step = "raised", ![c].failed = TRUE]
  /\ UNCHANGED <<backend, kept>>

PutRaises(c) ==
  /\ At(c, Puts, "raised")
  /\ Return(c)
  /\ UNCHANGED <<backend, bucket, kept>>

(* ------------------------------------------------------------------------ *)
(* get and delete                                                           *)
(* ------------------------------------------------------------------------ *)

(* Each service's "not found" becomes FileNotFoundError; other errors stay. *)
Get(c) ==
  /\ At(c, {"get"}, "request")
  /\ GoTo(c, IF calls[c].hash \in bucket THEN "found" ELSE "missing")
  /\ UNCHANGED <<backend, bucket, kept>>

(* FAULT: every error becomes FileNotFoundError *)
GetFailsAsMissing(c) ==
  /\ At(c, {"get"}, "request")
  /\ GoTo(c, "missing")
  /\ UNCHANGED <<backend, bucket, kept>>

GetFails(c) ==
  /\ At(c, {"get"}, "request")
  /\ Raises(c, TRUE)
  /\ UNCHANGED <<backend, bucket, kept>>

GetReturns(c) ==
  /\ \E step \in {"found", "missing", "raised"} : At(c, {"get"}, step)
  /\ Return(c)
  /\ UNCHANGED <<backend, bucket, kept>>

(* Whatever the service says, delete returns. *)
Delete(c) ==
  /\ At(c, {"delete"}, "request")
  /\ bucket' \in {bucket, bucket \ {calls[c].hash}}
  /\ GoTo(c, "done")
  /\ UNCHANGED <<backend, kept>>

DeleteReturns(c) ==
  /\ At(c, {"delete"}, "done")
  /\ Return(c)
  /\ UNCHANGED <<backend, bucket, kept>>

(* A process dies, with all of its callers. *)
Crash(dead) ==
  /\ calls' = [c \in Callers |-> IF c \in dead THEN None ELSE calls[c]]
  /\ UNCHANGED <<backend, bucket, kept>>

Proceed(c) ==
  \/ PutPathReads(c) \/ PutExists(c) \/ PutExistsFails(c) \/ PutUpload(c)
  \/ PutRefused(c) \/ PutUploadFails(c) \/ PutRaises(c)
  \/ Get(c) \/ GetFails(c) \/ GetReturns(c) \/ Delete(c) \/ DeleteReturns(c)

Next ==
  \/ \E c \in Callers :
       \/ \E op \in Ops, h \in Hashes : Start(c, op, h)
       \/ Proceed(c)
  \/ \E dead \in SUBSET Callers : Crash(dead)

Spec == Init /\ [][Next]_vars

(* ------------------------------------------------------------------------ *)
(* Properties                                                               *)
(* ------------------------------------------------------------------------ *)

(* The three services, with everything that may fail, are an ObjectStore.   *)
Active == [c \in Callers |->
  IF calls[c] = None THEN None ELSE [op |-> calls[c].op, hash |-> calls[c].hash]]
Store == INSTANCE ObjectStore WITH stored <- bucket, active <- Active
StoreSpec == Store!Spec

(* put raises only if the service failed it, or if another put stored the   *)
(* content under its eyes; that only Azure minds.                           *)
RaisesOnlyFailed ==
  \A c \in Callers : At(c, Puts, "raised") =>
     calls[c].failed \/ (calls[c].raced /\ backend = "azure")

(* A get says "not found", which the API passes on as 404, only of what no  *)
(* put has answered for or a delete has been called on.                     *)
MissingIsNotKept ==
  [][\A c \in Callers :
       ~At(c, {"get"}, "missing") /\ At(c, {"get"}, "missing")'
         => calls[c].hash \notin kept]_vars
=============================================================================
