---------------------------- MODULE LocalStorage ----------------------------
(***************************************************************************)
(* LocalStorage of clawfs/storage.py: put, put_path, get and delete as the *)
(* file operations they are, for the objects of one shard directory        *)
(* <root>/objects/<aa>, which put makes and delete removes when it is      *)
(* empty.  put stages its bytes in <hash>.tmp, one name for every caller.  *)
(* put_path renames the file it is given, an upload's merged.bin; when the *)
(* rename fails, for whatever reason, it copies over the object in place.  *)
(*                                                                         *)
(* A handle follows its file through a rename and outlives its unlinking.  *)
(* A file is partial from the moment it is truncated until the bytes have  *)
(* been written.  Uploads and objects are on one file system, so a rename  *)
(* fails only for want of its source or of its directory.                  *)
(***************************************************************************)
EXTENDS FiniteSets

CONSTANTS Hashes,         \* hashes with the same first two digits
          Sources,        \* uploads, each with its merged.bin
          Callers,        \* threads and processes
          None

VARIABLES shard,          \* the shard directory exists
          object,         \* the file of a hash: None, "partial" or "whole"
          tmp,            \* its .tmp file
          source,         \* merged.bin of an upload: the hash of what it
                          \* holds, or None
          calls,          \* calls under way
          kept            \* history: hashes a put has answered for and no
                          \* delete has been called on since

vars == <<shard, object, tmp, source, calls, kept>>

Ops == {"put", "put_path", "get", "delete"}
FileStates == {None, "partial", "whole"}
Steps == {"check", "mkdir", "open", "write", "rename", "copy", "onto", "fill",
          "read", "unlink", "rmdir"}
CallStates == [op: Ops, hash: Hashes, src: Sources \cup {None}, step: Steps,
               at: {None, "tmp", "source", "object"}, disturbed: BOOLEAN]

ASSUME NoneIsNothing ==
  /\ None \notin {"partial", "whole", "tmp", "source", "object"}
  /\ None \notin Hashes \cup Sources \cup CallStates
  /\ None \notin [op: Ops, hash: Hashes]

At(c, op, step) == /\ calls[c] # None
                   /\ calls[c].op = op
                   /\ calls[c].step = step
GoTo(c, step) == calls' = [calls EXCEPT ![c].step = step]
Return(c)     == calls' = [calls EXCEPT ![c] = None]

Init ==
  /\ shard = FALSE
  /\ object = [h \in Hashes |-> None]
  /\ tmp = [h \in Hashes |-> None]
  /\ source = [s \in Sources |-> None]
  /\ calls = [c \in Callers |-> None]
  /\ kept = {}

(* The handles of `who` that lead to `from` leading to `to` instead *)
Moved(cs, who, from, to) ==
  [c \in Callers |-> IF c \in who /\ cs[c] # None /\ cs[c].at = from
                     THEN [cs[c] EXCEPT !.at = to] ELSE cs[c]]

Calling(field, x) == {c \in Callers : calls[c] # None /\ calls[c][field] = x}

(* The file handles of `who` lead to takes the place of the object of h. *)
Replaced(h, who, from) ==
  Moved(Moved(calls, Calling("hash", h), "object", None), who, from, "object")

(* put and put_path return: the caller counts on the object, unless some    *)
(* delete may be about to take it.                                          *)
Answer(h) == kept' = IF Calling("op", "delete") \cap Calling("hash", h) = {}
                     THEN kept \cup {h} ELSE kept

(* What put_path may be given: an upload's merged.bin, written for this     *)
(* content, though it may be gone by now.  Every complete of the upload     *)
(* that is under way gives the same.                                        *)
SourcesFor(op, h) ==
  IF op # "put_path" THEN {None}
  ELSE {s \in Sources : /\ source[s] \in {h, None}
                        /\ Calling("src", s) \subseteq Calling("hash", h)}

Start(c, op, h) ==
  /\ calls[c] = None
  /\ \E s \in SourcesFor(op, h) :
        calls' = [calls EXCEPT
                    ![c] = [op |-> op, hash |-> h, src |-> s, step |-> "check",
                            at |-> None, disturbed |-> FALSE]]
  /\ kept' = IF op = "delete" THEN kept \ {h} ELSE kept
  /\ UNCHANGED <<shard, object, tmp, source>>

(* complete has written merged.bin, with no other complete of the upload in *)
(* put_path: those that merge over one another are Multipart's.             *)
Merge(s, h) ==
  /\ source[s] = None
  /\ Calling("src", s) = {}
  /\ source' = [source EXCEPT ![s] = h]
  /\ UNCHANGED <<shard, object, tmp, calls, kept>>

(* abort removes the upload's directory, whatever its completes are at. *)
SourceGone(s) ==
  /\ source[s] # None
  /\ source' = [source EXCEPT ![s] = None]
  /\ UNCHANGED <<shard, object, tmp, calls, kept>>

(* ------------------------------------------------------------------------ *)
(* put and put_path                                                         *)
(* ------------------------------------------------------------------------ *)

(* The object is there already: nothing is written, and put_path's source   *)
(* is dropped.                                                              *)
PutKnown(c) ==
  /\ At(c, "put", "check") \/ At(c, "put_path", "check")
  /\ object[calls[c].hash] # None
  /\ source' = IF calls[c].op = "put_path"
               THEN [source EXCEPT ![calls[c].src] = None] ELSE source
  /\ Return(c)
  /\ Answer(calls[c].hash)
  /\ UNCHANGED <<shard, object, tmp>>

PutUnknown(c) ==
  /\ At(c, "put", "check") \/ At(c, "put_path", "check")
  /\ object[calls[c].hash] = None
  /\ GoTo(c, "mkdir")
  /\ UNCHANGED <<shard, object, tmp, source, kept>>

(* FAULT: put_path takes the directory to be there *)
PutMkdirOnlyPut(c) ==
  /\ At(c, "put", "mkdir") \/ At(c, "put_path", "mkdir")
  /\ shard' = (shard \/ calls[c].op = "put")
  /\ calls' = [calls EXCEPT
                 ![c].step = IF calls[c].op = "put" THEN "open" ELSE "rename",
                 ![c].disturbed = FALSE]
  /\ UNCHANGED <<object, tmp, source, kept>>

PutMkdir(c) ==
  /\ At(c, "put", "mkdir") \/ At(c, "put_path", "mkdir")
  /\ shard' = TRUE
  /\ calls' = [calls EXCEPT
                 ![c].step = IF calls[c].op = "put" THEN "open" ELSE "rename",
                 ![c].disturbed = FALSE]
  /\ UNCHANGED <<object, tmp, source, kept>>

(* FAULT: writes the object in place, without the .tmp file *)
PutOpenInPlace(c) ==
  /\ At(c, "put", "open")
  /\ shard
  /\ object' = [object EXCEPT ![calls[c].hash] = "partial"]
  /\ calls' = [calls EXCEPT ![c].step = "write", ![c].at = "object"]
  /\ UNCHANGED <<shard, tmp, source, kept>>

(* FAULT: takes the directory to be there *)
PutOpenNoDir(c) ==
  /\ At(c, "put", "open")
  /\ tmp' = [tmp EXCEPT ![calls[c].hash] = "partial"]
  /\ calls' = [calls EXCEPT ![c].step = "write", ![c].at = "tmp"]
  /\ UNCHANGED <<shard, object, source, kept>>

(* write_bytes: open for writing, which truncates what another put has      *)
(* staged under the same name, *)
PutOpen(c) ==
  /\ At(c, "put", "open")
  /\ shard
  /\ tmp' = [tmp EXCEPT ![calls[c].hash] = "partial"]
  /\ calls' = [calls EXCEPT ![c].step = "write", ![c].at = "tmp"]
  /\ UNCHANGED <<shard, object, source, kept>>

(* and write, wherever the handle now leads; the disk may be full. *)
PutWrite(c) ==
  /\ At(c, "put", "write")
  /\ LET h == calls[c].hash
     IN  /\ tmp' = IF calls[c].at = "tmp" THEN [tmp EXCEPT ![h] = "whole"] ELSE tmp
         /\ object' = IF calls[c].at = "object"
                      THEN [object EXCEPT ![h] = "whole"] ELSE object
  /\ calls' = [calls EXCEPT ![c].step = "rename", ![c].at = None]
  /\ UNCHANGED <<shard, source, kept>>

PutWriteFails(c) ==
  /\ At(c, "put", "write")
  /\ Return(c)
  /\ UNCHANGED <<shard, object, tmp, source, kept>>

PutRename(c) ==
  /\ At(c, "put", "rename")
  /\ LET h == calls[c].hash
     IN  /\ tmp[h] # None
         /\ object' = [object EXCEPT ![h] = tmp[h]]
         /\ tmp' = [tmp EXCEPT ![h] = None]
         /\ calls' = [Replaced(h, Calling("hash", h), "tmp") EXCEPT ![c] = None]
         /\ Answer(h)
  /\ UNCHANGED <<shard, source>>

(* os.replace moves the source, which is whole, into place, *)
PutPathRename(c) ==
  /\ At(c, "put_path", "rename")
  /\ shard
  /\ LET h == calls[c].hash
         s == calls[c].src
     IN  /\ source[s] # None
         /\ object' = [object EXCEPT ![h] = "whole"]
         /\ source' = [source EXCEPT ![s] = None]
         /\ calls' = [Replaced(h, Calling("src", s), "source") EXCEPT ![c] = None]
         /\ Answer(h)
  /\ UNCHANGED <<shard, tmp>>

(* or finds the source or the directory gone; `except OSError` takes either *)
(* for a rename between file systems.                                       *)
PutPathFallsBack(c) ==
  /\ At(c, "put_path", "rename")
  /\ ~shard \/ source[calls[c].src] = None
  /\ GoTo(c, "copy")
  /\ UNCHANGED <<shard, object, tmp, source, kept>>

(* copyfile: opens the source, *)
PutPathCopy(c) ==
  /\ At(c, "put_path", "copy")
  /\ source[calls[c].src] # None
  /\ calls' = [calls EXCEPT ![c].step = "onto", ![c].at = "source"]
  /\ UNCHANGED <<shard, object, tmp, source, kept>>

(* the object, whose content is lost here, the source's if it is the object *)
(* by now,                                                                  *)
PutPathOnto(c) ==
  /\ At(c, "put_path", "onto")
  /\ shard
  /\ object' = [object EXCEPT ![calls[c].hash] = "partial"]
  /\ calls' = [calls EXCEPT ![c].step = "fill",
                            ![c].at = IF @ = "object" THEN None ELSE "object"]
  /\ UNCHANGED <<shard, tmp, source, kept>>

(* and writes, wherever the handle now leads; then the source is dropped. *)
PutPathFill(c) ==
  /\ At(c, "put_path", "fill")
  /\ object' = IF calls[c].at = "object"
               THEN [object EXCEPT ![calls[c].hash] = "whole"] ELSE object
  /\ source' = [source EXCEPT ![calls[c].src] = None]
  /\ Return(c)
  /\ Answer(calls[c].hash)
  /\ UNCHANGED <<shard, tmp>>

(* The disk is full. *)
PutPathFillFails(c) ==
  /\ At(c, "put_path", "fill")
  /\ Return(c)
  /\ UNCHANGED <<shard, object, tmp, source, kept>>

(* The directory, the .tmp file or the source is gone: FileNotFoundError *)
PutStranded(c) ==
  \/ At(c, "put", "open") /\ ~shard
  \/ At(c, "put", "rename") /\ tmp[calls[c].hash] = None
  \/ At(c, "put_path", "copy") /\ source[calls[c].src] = None
  \/ At(c, "put_path", "onto") /\ ~shard
PutRaises(c) ==
  /\ PutStranded(c)
  /\ Return(c)
  /\ UNCHANGED <<shard, object, tmp, source, kept>>

(* ------------------------------------------------------------------------ *)
(* get and delete                                                           *)
(* ------------------------------------------------------------------------ *)
GetCheck(c) ==
  /\ At(c, "get", "check")
  /\ IF object[calls[c].hash] = None THEN Return(c) ELSE GoTo(c, "read")
  /\ UNCHANGED <<shard, object, tmp, source, kept>>

GetRead(c) ==
  /\ At(c, "get", "read")
  /\ Return(c)
  /\ UNCHANGED <<shard, object, tmp, source, kept>>

DeleteCheck(c) ==
  /\ At(c, "delete", "check")
  /\ IF object[calls[c].hash] = None THEN Return(c) ELSE GoTo(c, "unlink")
  /\ UNCHANGED <<shard, object, tmp, source, kept>>

(* Another delete may have been faster: FileNotFoundError. *)
DeleteUnlink(c) ==
  /\ At(c, "delete", "unlink")
  /\ LET h == calls[c].hash
     IN  IF object[h] = None
         THEN Return(c) /\ UNCHANGED object
         ELSE /\ object' = [object EXCEPT ![h] = None]
              /\ calls' = [Moved(calls, Calling("hash", h), "object", None)
                          EXCEPT ![c].step = "rmdir"]
  /\ UNCHANGED <<shard, tmp, source, kept>>

Empty == \A h \in Hashes : object[h] = None /\ tmp[h] = None

(* The calls that are shown a directory vanishing under them *)
Disturb(cs) == [c \in Callers |-> IF cs[c] = None THEN None
                                  ELSE [cs[c] EXCEPT !.disturbed = TRUE]]

(* FAULT: removes the directory with what is in it *)
DeleteRmtree(c) ==
  /\ At(c, "delete", "rmdir")
  /\ shard' = FALSE
  /\ object' = [h \in Hashes |-> None]
  /\ tmp' = [h \in Hashes |-> None]
  /\ calls' = [Disturb(calls) EXCEPT ![c] = None]
  /\ UNCHANGED <<source, kept>>

(* FAULT: takes leftover .tmp files along *)
DeleteSweeps(c) ==
  /\ At(c, "delete", "rmdir")
  /\ tmp' = [h \in Hashes |-> None]
  /\ shard' = (shard /\ \E h \in Hashes : object[h] # None)
  /\ calls' = [(IF shard' = shard THEN calls ELSE Disturb(calls))
                 EXCEPT ![c] = None]
  /\ UNCHANGED <<object, source, kept>>

DeleteRmdir(c) ==
  /\ At(c, "delete", "rmdir")
  /\ shard' = (shard /\ ~Empty)
  /\ calls' = [(IF shard' = shard THEN calls ELSE Disturb(calls))
                 EXCEPT ![c] = None]
  /\ UNCHANGED <<object, tmp, source, kept>>

(* A process dies, with all of its callers. *)
Crash(dead) ==
  /\ calls' = [c \in Callers |-> IF c \in dead THEN None ELSE calls[c]]
  /\ UNCHANGED <<shard, object, tmp, source, kept>>

(* ------------------------------------------------------------------------ *)
(* Specifications                                                           *)
(* ------------------------------------------------------------------------ *)
Proceed(c) ==
  \/ PutKnown(c) \/ PutUnknown(c) \/ PutMkdir(c) \/ PutOpen(c) \/ PutWrite(c)
  \/ PutWriteFails(c) \/ PutRename(c)
  \/ PutPathRename(c) \/ PutPathFallsBack(c) \/ PutRaises(c)
  \/ GetCheck(c) \/ GetRead(c)
  \/ DeleteCheck(c) \/ DeleteUnlink(c) \/ DeleteRmdir(c)

(* put_path goes on to the copy. *)
CopyInPlace(c) == \/ PutPathCopy(c) \/ PutPathOnto(c)
                  \/ PutPathFill(c) \/ PutPathFillFails(c)

UploadNext == \E s \in Sources : SourceGone(s) \/ \E h \in Hashes : Merge(s, h)

(* One server: put runs on its event loop, one call at a time, the rest in  *)
(* threads.                                                                 *)
OnePut(op) == op = "put" => Calling("op", "put") = {}
ServerNext ==
  \/ \E c \in Callers, h \in Hashes : \E op \in Ops : OnePut(op) /\ Start(c, op, h)
  \/ \E c \in Callers : Proceed(c) \/ CopyInPlace(c)
  \/ UploadNext
  \/ Crash(Callers)
ServerSpec == Init /\ [][ServerNext]_vars

(* Its gc is not run while a complete is in put_path, so that no directory  *)
(* goes between put_path's mkdir and its rename.  CopiesNothing says that   *)
(* CopyInPlace, which is left out here, is never possible then.             *)
Apart(op) == /\ op = "put_path" => Calling("op", "delete") = {}
             /\ op = "delete" => Calling("op", "put_path") = {}
ApartNext ==
  \/ \E c \in Callers, h \in Hashes : \E op \in Ops :
        OnePut(op) /\ Apart(op) /\ Start(c, op, h)
  \/ \E c \in Callers : Proceed(c)
  \/ UploadNext
  \/ Crash(Callers)
ApartSpec == Init /\ [][ApartNext]_vars

(* A server and command lines on one store: each caller is a process. *)
SharedNext ==
  \/ \E c \in Callers, h \in Hashes : \E op \in Ops : Start(c, op, h)
  \/ \E c \in Callers : Proceed(c) \/ CopyInPlace(c) \/ Crash({c})
  \/ UploadNext
SharedSpec == Init /\ [][SharedNext]_vars

(* ------------------------------------------------------------------------ *)
(* Properties                                                               *)
(* ------------------------------------------------------------------------ *)
(* Files lie in a directory that exists. *)
TypeOK ==
  /\ shard \in BOOLEAN
  /\ object \in [Hashes -> FileStates]
  /\ tmp \in [Hashes -> FileStates]
  /\ source \in [Sources -> Hashes \cup {None}]
  /\ calls \in [Callers -> CallStates \cup {None}]
  /\ kept \in SUBSET Hashes
  /\ ~Empty => shard

(* What get returns is the content, all of it, though puts and put_paths of *)
(* the same hash, deletes and crashes are in the middle of their work.      *)
ReadsAreWhole ==
  \A c \in Callers :
     At(c, "get", "read") => object[calls[c].hash] \in {None, "whole"}

(* An answered put stays in the store until a delete of its own hash, not   *)
(* of another that shares its directory.                                    *)
AnsweredIsStored == \A h \in kept : object[h] = "whole"

(* put raises FileNotFoundError only where a delete has removed the         *)
(* directory since it made it: not for leftovers of a crash, nor for other  *)
(* puts and put_paths, nor for other hashes of the shard.                   *)
RaisesOnlyDisturbed ==
  \A c \in Callers : PutStranded(c) /\ calls[c].op = "put" => calls[c].disturbed

(* "Atomic rename when on the same filesystem" (storage.py:80): the rename  *)
(* of put_path fails only for want of its source, so the copy it falls back *)
(* to finds nothing and never writes over an object in place, where readers *)
(* and other completes would meet it.                                       *)
CopiesNothing ==
  \A c \in Callers : At(c, "put_path", "copy") => source[calls[c].src] = None

(* The files of one server are an ObjectStore, whatever threads, crashes    *)
(* and full disks do to the .tmp files and the directory.                   *)
Whole  == {h \in Hashes : object[h] = "whole"}
Active == [c \in Callers |->
  IF calls[c] = None THEN None ELSE [op |-> calls[c].op, hash |-> calls[c].hash]]
Store == INSTANCE ObjectStore WITH stored <- Whole, active <- Active
StoreSpec == Store!Spec

(* docs/SPEC.md: the bytes read back have the hash they were stored under.  *)
(* When no call is under way every object is whole, whichever processes     *)
(* stored it.                                                               *)
SettledWhole ==
  (\A c \in Callers : calls[c] = None) =>
     \A h \in Hashes : object[h] \in {None, "whole"}
=============================================================================
