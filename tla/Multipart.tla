----------------------------- MODULE Multipart -----------------------------
(***************************************************************************)
(* clawfs/uploads.py over LocalStorage: multipart uploads, at the level of *)
(* files.  write_part runs on the event loop and waits for its client in   *)
(* the middle; complete and abort run in threads, side by side with it and *)
(* with one another, and share the scratch directory of the upload: every  *)
(* complete of an upload merges into the same merged.bin, which put_path   *)
(* then renames into the object store.                                     *)
(*                                                                         *)
(* A handle follows its file: renaming the file redirects the writes made  *)
(* through handles that are open on it, unlinking it makes them vanish.    *)
(*                                                                         *)
(* A chunk is the unit of data; the body of a part is one chunk or empty.  *)
(* A content is a sequence of chunks and its own sha256.  The tables that  *)
(* complete shares with the core are those of ClawFS; here they are the    *)
(* set of Blob rows, and a commit that may fail.                           *)
(***************************************************************************)
EXTENDS Integers, Sequences, FiniteSets

CONSTANTS Uploads,        \* upload ids; one is never used twice
          MaxPart,        \* bound of the model: the largest part number
          Chunks,
          Sends,          \* bound of the model: Sends[u][n], the bodies that
                          \* clients of u send as part n
          Writers,        \* write_part coroutines
          Completers,     \* threads that run complete
          None, Merged, Unlinked, Unacked, Hole


PartNos  == 1..MaxPart
Bodies   == {<<>>} \cup {<<ch>> : ch \in Chunks}
Contents == UNION {[1..n -> Chunks] : n \in 0..MaxPart}
Files    == UNION {[1..n -> Chunks \cup {Hole}] : n \in 0..MaxPart}

ASSUME MaxPartIsPos == MaxPart \in Nat \ {0}
ASSUME SendsBodies  == Sends \in [Uploads -> [PartNos -> SUBSET Bodies]]

(* The locals of a write_part and of a complete under way *)
WriteCalls    == [upload: Uploads, n: PartNos, body: Bodies,
                  opened: BOOLEAN, linked: BOOLEAN]
CompleteCalls == [upload: Uploads, step: {"list", "open", "copy", "commit",
                                          "cleanup"},
                  parts: SUBSET PartNos, left: SUBSET PartNos, out: Contents,
                  at: Contents \cup {None, Merged, Unlinked},
                  created: BOOLEAN, seen: BOOLEAN]

ASSUME MarkersMarkNothing ==
  /\ {None, Merged, Unlinked, Unacked} \cap Files = {}
  /\ None \notin {Merged, Unlinked, Unacked} /\ Merged # Unlinked
  /\ None \notin WriteCalls \cup CompleteCalls

VARIABLES row,            \* Upload rows
          receipt,        \* Upload.final_hash
          dir,            \* the scratch directories that exist
          part,           \* part[u][n]: the file <u>/<n>.part
          merged,         \* merged[u]: the file <u>/merged.bin
          object,         \* the object store: the file stored under a hash
          blobs,          \* hashes with a Blob row
          writing,        \* write_part calls
          completing,     \* complete calls
          aborting,       \* aborts between their commit and rmtree
          sent,           \* history: what the client of an upload knows of
                          \* its parts, until it is aborted
          refused         \* history: uploads a quota has refused, likewise

files   == <<dir, part, merged, object>>
tables  == <<row, receipt, blobs>>
calls   == <<writing, completing, aborting>>
history == <<sent, refused>>
vars == <<row, receipt, dir, part, merged, object, blobs,
          writing, completing, aborting, sent, refused>>

Exists(u)     == row[u] \in {"open", "completed"}
PartsOf(u)    == {n \in PartNos : part[u][n] # None}
Least(ns)     == CHOOSE n \in ns : \A m \in ns : n <= m
WritersOf(u)  == {w \in Writers : writing[w] # None /\ writing[w].upload = u}
CallsOf(u)    == {c \in Completers :
                    completing[c] # None /\ completing[c].upload = u}

(* ------------------------------------------------------------------------ *)
(* Files                                                                    *)
(* ------------------------------------------------------------------------ *)

(* File f after x is written at offset k; a gap reads as zeros. *)
WriteAt(f, k, x) ==
  IF x = <<>> THEN f
  ELSE [i \in 1..(IF Len(f) > k + Len(x) THEN Len(f) ELSE k + Len(x)) |->
          IF i \in k + 1 .. k + Len(x) THEN x[i - k]
          ELSE IF i <= Len(f) THEN f[i] ELSE Hole]

(* The complete calls on u, their handles on merged.bin moved elsewhere *)
Redirect(u, to) ==
  [c \in Completers |->
     IF c \in CallsOf(u) /\ completing[c].at = Merged
     THEN [completing[c] EXCEPT !.at = to] ELSE completing[c]]

(* The write_part calls, once the part files ns of u are unlinked *)
Detach(u, ns) ==
  [w \in Writers |->
     IF w \in WritersOf(u) /\ writing[w].n \in ns
     THEN [writing[w] EXCEPT !.linked = FALSE] ELSE writing[w]]

(* ------------------------------------------------------------------------ *)
(* create and abort                                                         *)
(* ------------------------------------------------------------------------ *)
Init ==
  /\ row = [u \in Uploads |-> "unused"]
  /\ receipt = [u \in Uploads |-> None]
  /\ dir = {}
  /\ part = [u \in Uploads |-> [n \in PartNos |-> None]]
  /\ merged = [u \in Uploads |-> None]
  /\ object = [h \in Contents |-> None]
  /\ blobs = {}
  /\ writing = [w \in Writers |-> None]
  /\ completing = [c \in Completers |-> None]
  /\ aborting = {}
  /\ sent = [u \in Uploads |-> [n \in PartNos |-> None]]
  /\ refused = {}

(* create makes the directory, then commits the row. *)
Create(u) ==
  /\ row[u] = "unused"
  /\ u \notin dir
  /\ dir' = dir \cup {u}
  /\ row' = [row EXCEPT ![u] = "open"]
  /\ UNCHANGED <<receipt, part, merged, object, blobs, calls, history>>

CreateFails(u) ==
  /\ row[u] = "unused"
  /\ u \notin dir
  /\ dir' = dir \cup {u}
  /\ UNCHANGED <<tables, part, merged, object, calls, history>>

(* abort deletes the row, of a completed upload too, *)
AbortRow(u) ==
  /\ Exists(u)
  /\ row' = [row EXCEPT ![u] = "deleted"]
  /\ receipt' = [receipt EXCEPT ![u] = None]
  /\ aborting' = aborting \cup {u}
  /\ sent' = [sent EXCEPT ![u] = [n \in PartNos |-> None]]
  /\ refused' = refused \ {u}
  /\ UNCHANGED <<files, blobs, writing, completing>>

(* and then the directory with what is in it. *)
AbortFiles(u) ==
  /\ u \in aborting
  /\ aborting' = aborting \ {u}
  /\ dir' = dir \ {u}
  /\ part' = [part EXCEPT ![u] = [n \in PartNos |-> None]]
  /\ merged' = [merged EXCEPT ![u] = None]
  /\ writing' = Detach(u, PartNos)
  /\ completing' = Redirect(u, Unlinked)
  /\ UNCHANGED <<tables, object, history>>

(* ------------------------------------------------------------------------ *)
(* write_part                                                               *)
(* ------------------------------------------------------------------------ *)

(* Nothing on the event loop comes between the test of the row and the open *)
(* of the file; the threads of abort and complete may.                      *)
WritePartCheck(w, u, n, body) ==
  /\ writing[w] = None
  /\ \A x \in Writers : writing[x] # None => writing[x].opened
  /\ row[u] = "open"
  /\ writing' = [writing EXCEPT ![w] =
       [upload |-> u, n |-> n, body |-> body, opened |-> FALSE, linked |-> FALSE]]
  /\ sent' = [sent EXCEPT ![u][n] = Unacked]
  /\ UNCHANGED <<tables, files, completing, aborting, refused>>

(* FAULT: the directory is taken to be there *)
WritePartOpenNoMkdir(w) ==
  /\ writing[w] # None
  /\ ~writing[w].opened
  /\ writing' = [writing EXCEPT ![w].opened = TRUE, ![w].linked = TRUE]
  /\ part' = [part EXCEPT ![writing[w].upload][writing[w].n] = <<>>]
  /\ UNCHANGED <<dir, tables, merged, object, completing, aborting, history>>

(* mkdir, and open for writing, which truncates what an earlier call wrote *)
WritePartOpen(w) ==
  /\ writing[w] # None
  /\ ~writing[w].opened
  /\ writing' = [writing EXCEPT ![w].opened = TRUE, ![w].linked = TRUE]
  /\ dir' = dir \cup {writing[w].upload}
  /\ part' = [part EXCEPT ![writing[w].upload][writing[w].n] = <<>>]
  /\ UNCHANGED <<tables, merged, object, completing, aborting, history>>

(* The body has arrived: it is written and its size and hash are answered. *)
WritePartEnd(w) ==
  /\ writing[w] # None
  /\ writing[w].opened
  /\ LET u == writing[w].upload
         n == writing[w].n
     IN  /\ part' = IF writing[w].linked
                    THEN [part EXCEPT ![u][n] = WriteAt(@, 0, writing[w].body)]
                    ELSE part
         /\ sent' = IF Exists(u) THEN [sent EXCEPT ![u][n] = writing[w].body]
                                 ELSE sent
  /\ writing' = [writing EXCEPT ![w] = None]
  /\ UNCHANGED <<tables, dir, merged, object, completing, aborting, refused>>

(* The client goes away: the file keeps as much as has arrived. *)
WritePartBreaks(w) ==
  /\ writing[w] # None
  /\ writing[w].opened
  /\ \E arrived \in {<<>>, writing[w].body} :
        part' = IF writing[w].linked
                THEN [part EXCEPT ![writing[w].upload][writing[w].n] =
                        WriteAt(@, 0, arrived)]
                ELSE part
  /\ writing' = [writing EXCEPT ![w] = None]
  /\ UNCHANGED <<tables, dir, merged, object, completing, aborting, history>>

(* ------------------------------------------------------------------------ *)
(* complete                                                                 *)
(* ------------------------------------------------------------------------ *)
Call(c)    == completing[c]
At(c, step) == completing[c] # None /\ completing[c].step = step
Return(c)  == completing' = [completing EXCEPT ![c] = None]

NewCall(u) == [upload |-> u, step |-> "list", parts |-> {}, left |-> {},
               out |-> <<>>, at |-> None, created |-> FALSE, seen |-> TRUE]

(* FAULT: a completed upload is completed again *)
CompleteCheckOnce(c, u) ==
  /\ completing[c] = None
  /\ Exists(u)
  /\ completing' = [completing EXCEPT ![c] = NewCall(u)]
  /\ UNCHANGED <<tables, files, writing, aborting, history>>

CompleteCheck(c, u) ==
  /\ completing[c] = None
  /\ row[u] = "open"
  /\ completing' = [completing EXCEPT ![c] = NewCall(u)]
  /\ UNCHANGED <<tables, files, writing, aborting, history>>

CompleteList(c) ==
  /\ At(c, "list")
  /\ LET u == Call(c).upload
     IN  IF u \in dir /\ PartsOf(u) # {}
         THEN completing' = [completing EXCEPT ![c].step = "open",
                                               ![c].parts = PartsOf(u),
                                               ![c].left = PartsOf(u)]
         ELSE Return(c)
  /\ UNCHANGED <<tables, files, writing, aborting, history>>

(* FAULT: opens merged.bin without truncating it *)
CompleteOpenKeeps(c) ==
  /\ At(c, "open")
  /\ LET u == Call(c).upload
     IN  IF u \in dir
         THEN /\ completing' = [completing EXCEPT ![c].step = "copy",
                                                  ![c].at = Merged]
              /\ merged' = [merged EXCEPT ![u] = IF @ = None THEN <<>> ELSE @]
         ELSE Return(c) /\ UNCHANGED merged
  /\ UNCHANGED <<tables, dir, part, object, writing, aborting, history>>

(* open(merged, "wb") *)
CompleteOpen(c) ==
  /\ At(c, "open")
  /\ LET u == Call(c).upload
     IN  IF u \in dir
         THEN /\ completing' = [completing EXCEPT ![c].step = "copy",
                                                  ![c].at = Merged]
              /\ merged' = [merged EXCEPT ![u] = <<>>]
         ELSE Return(c) /\ UNCHANGED merged
  /\ UNCHANGED <<tables, dir, part, object, writing, aborting, history>>

(* The next part is hashed, and written where the handle now leads. *)
CompleteCopy(c) ==
  /\ At(c, "copy")
  /\ Call(c).left # {}
  /\ LET u == Call(c).upload
         n == Least(Call(c).left)
         x == part[u][n]
         k == Len(Call(c).out)
     IN  IF x = None
         THEN Return(c) /\ UNCHANGED <<merged, object>>
         ELSE /\ completing' = [completing EXCEPT ![c].left = @ \ {n},
                                                  ![c].out = @ \o x]
              /\ merged' = IF Call(c).at = Merged
                           THEN [merged EXCEPT ![u] = WriteAt(@, k, x)]
                           ELSE merged
              /\ object' = IF Call(c).at \in Contents
                           THEN [object EXCEPT ![Call(c).at] = WriteAt(@, k, x)]
                           ELSE object
  /\ UNCHANGED <<tables, dir, part, writing, aborting, history>>

Copied(c) == At(c, "copy") /\ Call(c).left = {}

(* The tenant's quota has no room: the parts go, the row stays open. *)
CompleteRefused(c) ==
  /\ Copied(c)
  /\ completing' = [completing EXCEPT ![c].step = "cleanup", ![c].at = None,
                                      ![c].left = Call(c).parts]
  /\ refused' = refused \cup {Call(c).upload}
  /\ UNCHANGED <<tables, files, writing, aborting, sent>>

(* The handle is closed; what the session has found out is kept. *)
Committing(c, cs) ==
  [cs EXCEPT ![c].step = "commit", ![c].at = None,
             ![c].created = Call(c).out \notin blobs,
             ![c].seen = Exists(Call(c).upload)]

(* FAULT: put_path passes over every OSError *)
CompleteStoreIgnores(c) ==
  /\ Copied(c)
  /\ LET u == Call(c).upload
         h == Call(c).out
         renamed == h \notin blobs /\ object[h] = None /\ merged[u] # None
     IN  /\ object' = IF renamed THEN [object EXCEPT ![h] = merged[u]] ELSE object
         /\ merged' = [merged EXCEPT ![u] = None]
         /\ completing' = Committing(c, Redirect(u, IF renamed THEN h
                                                    ELSE Unlinked))
  /\ UNCHANGED <<tables, dir, part, writing, aborting, history>>

(* The staged file is dropped if the content is known (a Blob row, or else  *)
(* an object) and renamed into the store if not; it may be gone by then.    *)
CompleteStore(c) ==
  /\ Copied(c)
  /\ LET u == Call(c).upload
         h == Call(c).out
     IN  \/ /\ h \in blobs \/ object[h] # None
            /\ merged' = [merged EXCEPT ![u] = None]
            /\ completing' = Committing(c, Redirect(u, Unlinked))
            /\ UNCHANGED object
         \/ /\ h \notin blobs /\ object[h] = None /\ merged[u] # None
            /\ object' = [object EXCEPT ![h] = merged[u]]
            /\ merged' = [merged EXCEPT ![u] = None]
            /\ completing' = Committing(c, Redirect(u, h))
         \/ /\ h \notin blobs /\ object[h] = None /\ merged[u] = None
            /\ Return(c)
            /\ UNCHANGED <<merged, object>>
  /\ UNCHANGED <<tables, dir, part, writing, aborting, history>>

(* The commit needs the key of a new Blob row free, and the Upload row it   *)
(* has read still there.  An upload aborted before it was read is stored    *)
(* without one, for the default tenant.                                     *)
CompleteCommit(c) ==
  /\ At(c, "commit")
  /\ LET u == Call(c).upload
         h == Call(c).out
     IN  /\ Call(c).created => h \notin blobs
         /\ Call(c).seen => Exists(u)
         /\ blobs' = blobs \cup {h}
         /\ row' = IF Exists(u) THEN [row EXCEPT ![u] = "completed"] ELSE row
         /\ receipt' = IF Exists(u) THEN [receipt EXCEPT ![u] = h] ELSE receipt
         /\ completing' = [completing EXCEPT ![c].step = "cleanup",
                                             ![c].left = Call(c).parts]
  /\ UNCHANGED <<files, writing, aborting, history>>

(* FAULT: cleans up whether or not the commit has succeeded *)
CompleteFailsCleans(c) ==
  /\ At(c, "commit")
  /\ completing' = [completing EXCEPT ![c].step = "cleanup",
                                      ![c].left = Call(c).parts]
  /\ UNCHANGED <<tables, files, writing, aborting, history>>

(* The commit fails, for those reasons or on a locked database. *)
CompleteFails(c) ==
  /\ At(c, "commit")
  /\ Return(c)
  /\ UNCHANGED <<tables, files, writing, aborting, history>>

(* The parts are unlinked one at a time, *)
CompleteUnlink(c) ==
  /\ At(c, "cleanup")
  /\ Call(c).left # {}
  /\ LET u == Call(c).upload
         n == Least(Call(c).left)
     IN  /\ part' = [part EXCEPT ![u][n] = None]
         /\ writing' = Detach(u, {n})
  /\ completing' = [completing EXCEPT ![c].left = @ \ {Least(@)}]
  /\ UNCHANGED <<tables, dir, merged, object, aborting, history>>

(* then merged.bin, and the directory if that leaves it empty. *)
CompleteEnd(c) ==
  /\ At(c, "cleanup")
  /\ Call(c).left = {}
  /\ LET u == Call(c).upload
     IN  /\ merged' = [merged EXCEPT ![u] = None]
         /\ dir' = IF PartsOf(u) = {} THEN dir \ {u} ELSE dir
         /\ completing' = [Redirect(u, Unlinked) EXCEPT ![c] = None]
  /\ UNCHANGED <<tables, part, object, writing, aborting, history>>

(* The server dies; nothing looks at the scratch directories afterwards. *)
Crash ==
  /\ writing' = [w \in Writers |-> None]
  /\ completing' = [c \in Completers |-> None]
  /\ aborting' = {}
  /\ UNCHANGED <<tables, files, history>>

(* ------------------------------------------------------------------------ *)
(* Specifications                                                           *)
(* ------------------------------------------------------------------------ *)
Proceed ==
  \/ \E u \in Uploads : \/ Create(u) \/ CreateFails(u)
                        \/ AbortRow(u) \/ AbortFiles(u)
  \/ \E w \in Writers : \/ WritePartOpen(w) \/ WritePartEnd(w)
                        \/ WritePartBreaks(w)
  \/ \E c \in Completers :
        \/ CompleteList(c) \/ CompleteOpen(c) \/ CompleteCopy(c)
        \/ CompleteRefused(c) \/ CompleteStore(c) \/ CompleteCommit(c)
        \/ CompleteFails(c) \/ CompleteUnlink(c) \/ CompleteEnd(c)
  \/ Crash

(* Any client, any call at any time *)
Next ==
  \/ Proceed
  \/ \E w \in Writers, u \in Uploads, n \in PartNos :
        \E body \in Sends[u][n] : WritePartCheck(w, u, n, body)
  \/ \E c \in Completers, u \in Uploads : CompleteCheck(c, u)

Spec == Init /\ [][Next]_vars

(* A client that has one call on its upload at a time, as putLarge of the   *)
(* TypeScript SDK, but for the abort it sends when a part fails, and asks   *)
(* for completion when every part it sent was acknowledged.                 *)
Quiescent(u) == WritersOf(u) = {} /\ CallsOf(u) = {}

OneCallNext ==
  \/ Proceed
  \/ \E w \in Writers, u \in Uploads, n \in PartNos :
        \E body \in Sends[u][n] : Quiescent(u) /\ WritePartCheck(w, u, n, body)
  \/ \E c \in Completers, u \in Uploads :
        /\ Quiescent(u)
        /\ \A n \in PartNos : sent[u][n] # Unacked
        /\ CompleteCheck(c, u)

OneCallSpec == Init /\ [][OneCallNext]_vars

(* ------------------------------------------------------------------------ *)
(* Properties                                                               *)
(* ------------------------------------------------------------------------ *)

(* Rows, files and calls are what the code makes of them, and a file of the *)
(* scratch area lies in a directory that exists.                            *)
TypeOK ==
  /\ row \in [Uploads -> {"unused", "open", "completed", "deleted"}]
  /\ receipt \in [Uploads -> Contents \cup {None}]
  /\ dir \in SUBSET Uploads
  /\ part \in [Uploads -> [PartNos -> Bodies \cup {None}]]
  /\ merged \in [Uploads -> Files \cup {None}]
  /\ object \in [Contents -> Files \cup {None}]
  /\ blobs \in SUBSET Contents
  /\ writing \in [Writers -> WriteCalls \cup {None}]
  /\ completing \in [Completers -> CompleteCalls \cup {None}]
  /\ aborting \in SUBSET Uploads
  /\ sent \in [Uploads -> [PartNos -> Bodies \cup {None, Unacked}]]
  /\ refused \in SUBSET Uploads
  /\ \A u \in Uploads : PartsOf(u) # {} \/ merged[u] # None => u \in dir

(* The store never holds other bytes than a hash says, not even while a     *)
(* complete is under way, though aborts, crashes, failed commits and other  *)
(* uploads of the same content interleave with it.                          *)
ContentMatchesHash == \A h \in Contents : object[h] # None => object[h] = h

(* A receipt is honoured: the content of a completed upload has its Blob    *)
(* row and its object, whatever became of merged.bin on the way.            *)
ReceiptIsStored ==
  \A u \in Uploads : row[u] = "completed" =>
     /\ receipt[u] \in blobs
     /\ object[receipt[u]] # None

(* The parts of upload u the client knows accepted, one after the other *)
Whole(u) ==
  LET upTo[n \in 0..MaxPart] ==
        IF n = 0 THEN <<>>
        ELSE upTo[n - 1] \o (IF sent[u][n] \in Bodies THEN sent[u][n] ELSE <<>>)
  IN  upTo[MaxPart]

(* A completed upload is all of its acknowledged parts in their order, also *)
(* when complete had to be called again after a crash or a failed commit.   *)
(* A refused quota takes parts away and is left out.                        *)
ReceiptIsWhole ==
  \A u \in Uploads : row[u] = "completed" /\ u \notin refused =>
     receipt[u] = Whole(u)

(* Until then an acknowledged part stays: a complete that fails, at any     *)
(* point and for any reason but the quota, can be tried again.              *)
AckedPartsKept ==
  \A u \in Uploads : row[u] = "open" /\ u \notin refused =>
     \A n \in PartNos : sent[u][n] \in Bodies => part[u][n] = sent[u][n]

(* docs/SPEC.md: the bytes read back have the hash that was answered.  When *)
(* no call is under way, every completed upload has its content in the      *)
(* store, whatever its clients called, a retried complete included.         *)
SettledContent ==
  (\A u \in Uploads : Quiescent(u)) =>
     \A u \in Uploads : row[u] = "completed" => object[receipt[u]] = receipt[u]
=============================================================================
