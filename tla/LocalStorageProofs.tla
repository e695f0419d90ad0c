------------------------- MODULE LocalStorageProofs -------------------------
(***************************************************************************)
(* Theorems about LocalStorage in one server process, whose gc is not run  *)
(* while a complete is in put_path.                                        *)
(***************************************************************************)
EXTENDS LocalStorage, TLAPS

Typed ==
  /\ object \in [Hashes -> FileStates]
  /\ tmp \in [Hashes -> FileStates]
  /\ calls \in [Callers -> CallStates \cup {None}]

Putting(c) == calls[c] # None /\ calls[c].op = "put"

(* The handle a call holds: a put's on its .tmp file while it writes.       *)
Handle(c) == IF calls[c].op = "put" /\ calls[c].step = "write" THEN "tmp" ELSE None

(* One put at a time, so nobody truncates its .tmp file between its write   *)
(* and its rename, and no handle ever leads into an object.                 *)

PutInv ==
  /\ Typed
  /\ \A h \in Hashes : object[h] \in {None, "whole"}
  /\ \A c, d \in Callers : Putting(c) /\ Putting(d) => c = d
  /\ \A c \in Callers : calls[c] # None => calls[c].at = Handle(c)
  /\ \A c \in Callers : At(c, "put", "rename") => tmp[calls[c].hash] = "whole"

LEMMA PutInit == Init => PutInv
<1> SUFFICES ASSUME Init PROVE PutInv
  OBVIOUS
<1>1. /\ object = [h \in Hashes |-> None] /\ tmp = [h \in Hashes |-> None]
      /\ calls = [c \in Callers |-> None]
  BY DEF Init
<1> QED
  BY <1>1 DEF PutInv, Typed, FileStates, Putting, At

(* What a step does to one call: it may be moved, disturbed, or ended, and  *)
(* only Start and its own steps change it otherwise.                        *)
LEMMA CallGoesOn ==
  ASSUME Typed, NEW c \in Callers, calls[c] # None,
         NEW step \in Steps,
         GoTo(c, step)
  PROVE  /\ calls' \in [Callers -> CallStates \cup {None}]
         /\ calls'[c].step = step /\ calls'[c].op = calls[c].op
         /\ calls'[c].hash = calls[c].hash /\ calls'[c].at = calls[c].at
         /\ calls'[c].src = calls[c].src
         /\ \A d \in Callers : d # c => calls'[d] = calls[d]
         /\ \A d \in Callers : calls'[d] # None <=> calls[d] # None
<1>1. calls[c] \in CallStates
  BY DEF Typed
<1>2. [calls[c] EXCEPT !.step = step] \in CallStates
  BY <1>1 DEF CallStates
<1> QED
  BY <1>1, <1>2, NoneIsNothing DEF GoTo, Typed, CallStates

LEMMA CallReturns ==
  ASSUME Typed, NEW c \in Callers, Return(c)
  PROVE  /\ calls' \in [Callers -> CallStates \cup {None}]
         /\ calls'[c] = None
         /\ \A d \in Callers : d # c => calls'[d] = calls[d]
  BY DEF Return, Typed

(* Steps that end calls, or take them on to anything but a put's write and  *)
(* rename, and that leave the .tmp files alone                              *)
GoesOn(c) ==
  /\ calls[c] # None
  /\ calls'[c].op = calls[c].op
  /\ calls'[c].hash = calls[c].hash
  /\ calls'[c].at = calls[c].at
  /\ \/ calls'[c].step = calls[c].step
     \/ calls[c].step # "write" /\ calls'[c].step \notin {"write", "rename"}
     \/ calls[c].op # "put"

LEMMA QuietStep ==
  ASSUME PutInv,
         tmp' = tmp,
         object' \in [Hashes -> {None, "whole"}],
         calls' \in [Callers -> CallStates \cup {None}],
         \A c \in Callers : calls'[c] # None => GoesOn(c)
  PROVE  PutInv'
<1>1. Typed'
  BY DEF PutInv, Typed, FileStates
<1>2. \A c \in Callers : Putting(c)' => Putting(c)
  BY DEF Putting, GoesOn
<1>3. \A c, d \in Callers : Putting(c)' /\ Putting(d)' => c = d
  BY <1>2 DEF PutInv
<1>4. \A c \in Callers : calls'[c] # None => calls'[c].at = Handle(c)'
  BY DEF PutInv, GoesOn, Handle
<1>6. \A c \in Callers :
         At(c, "put", "rename")' => tmp'[calls'[c].hash] = "whole"
  BY DEF PutInv, GoesOn, At
<1> QED
  BY <1>1, <1>3, <1>4, <1>6 DEF PutInv

(* No handle leads into an object or into put_path's source, so replacing   *)
(* or unlinking an object moves none.                                       *)
LEMMA NoneMoved ==
  ASSUME PutInv, NEW who
  PROVE  /\ Moved(calls, who, "object", None) = calls
         /\ \A h \in Hashes : Replaced(h, who, "source") = calls
<1>1. \A c \in Callers : calls[c] # None => calls[c].at \in {None, "tmp"}
  BY DEF PutInv, Handle
<1>2. calls \in [Callers -> CallStates \cup {None}]
  BY DEF PutInv, Typed
<1>3. ASSUME NEW any PROVE Moved(calls, any, "object", None) = calls
  BY <1>1, <1>2, NoneIsNothing DEF Moved
<1>4. "source" \notin {None, "tmp"}
  BY NoneIsNothing
<1>5. Moved(calls, who, "source", "object") = calls
  BY <1>1, <1>2, <1>4 DEF Moved
<1> QED
  BY <1>3, <1>5 DEF Replaced

(* The record of a call that begins                                         *)
Called(op, h, s) == [op |-> op, hash |-> h, src |-> s, step |-> "check",
                     at |-> None, disturbed |-> FALSE]

LEMMA CallStarts ==
  ASSUME Typed, NEW c \in Callers, NEW op \in Ops, NEW h \in Hashes,
         Start(c, op, h)
  PROVE  \E s \in SourcesFor(op, h), next \in CallStates :
            /\ next # None /\ next.op = op /\ next.hash = h /\ next.src = s
            /\ next.step = "check" /\ next.at = None /\ ~next.disturbed
            /\ calls' = [calls EXCEPT ![c] = next]
            /\ calls' \in [Callers -> CallStates \cup {None}]
            /\ calls'[c] = next
            /\ \A d \in Callers : d # c => calls'[d] = calls[d]
<1>1. PICK s \in SourcesFor(op, h) : calls' = [calls EXCEPT ![c] = Called(op, h, s)]
  BY DEF Start, Called
<1>2. s \in Sources \cup {None}
  BY DEF SourcesFor
<1>3. PICK next : next = Called(op, h, s)
  OBVIOUS
<1>4. next \in CallStates
  BY <1>2, <1>3, Zenon DEF Called, CallStates, Steps
<1>5. /\ next.op = op /\ next.hash = h /\ next.src = s
      /\ next.step = "check" /\ next.at = None /\ ~next.disturbed
  BY <1>3 DEF Called
<1> QED
  BY <1>1, <1>3, <1>4, <1>5, NoneIsNothing DEF Typed

LEMMA PutStep ==
  ASSUME PutInv, [ApartNext]_vars
  PROVE  PutInv'
<1>t. /\ Typed
      /\ object \in [Hashes -> {None, "whole"}]
      /\ \A c \in Callers : calls[c] # None => calls[c] \in CallStates
  BY DEF PutInv, Typed
<1>1. ASSUME NEW c \in Callers, NEW h \in Hashes, NEW op \in Ops,
             OnePut(op), Start(c, op, h)
      PROVE  PutInv'
  <2>1. object' = object /\ tmp' = tmp
    BY <1>1 DEF Start
  <2>2. PICK next \in CallStates :
           /\ next.op = op /\ next.step = "check" /\ next.at = None
           /\ calls' \in [Callers -> CallStates \cup {None}]
           /\ calls'[c] = next
           /\ \A d \in Callers : d # c => calls'[d] = calls[d]
    BY <1>1, <1>t, CallStarts
  <2>4. op = "put" => \A d \in Callers : ~Putting(d)
    BY <1>1 DEF OnePut, Calling, Putting
  <2>5. \A d, e \in Callers : Putting(d)' /\ Putting(e)' => d = e
    BY <2>2, <2>4 DEF PutInv, Putting
  <2>6. Typed'
    BY <1>t, <2>1, <2>2 DEF Typed
  <2>7. \A d \in Callers :
           /\ calls'[d] # None => calls'[d].at = Handle(d)'
           /\ At(d, "put", "rename")' => tmp'[calls'[d].hash] = "whole"
    BY <2>1, <2>2 DEF PutInv, At, Handle
  <2> QED
    BY <2>1, <2>5, <2>6, <2>7 DEF PutInv
<1>2. ASSUME NEW c \in Callers, PutKnown(c) PROVE PutInv'
  <2>1. Return(c) /\ object' = object /\ tmp' = tmp
    BY <1>2 DEF PutKnown
  <2> QED
    BY <1>t, <2>1, CallReturns, QuietStep DEF GoesOn
<1>3. ASSUME NEW c \in Callers, PutUnknown(c) PROVE PutInv'
  <2>1. /\ GoTo(c, "mkdir") /\ object' = object /\ tmp' = tmp
        /\ calls[c] # None /\ calls[c].step = "check"
    BY <1>3 DEF PutUnknown, At
  <2> QED
    BY <1>t, <2>1, CallGoesOn, QuietStep DEF GoesOn, Steps
<1>4. ASSUME NEW c \in Callers, PutMkdir(c) PROVE PutInv'
  <2> DEFINE next == [calls[c] EXCEPT
                        !.step = IF calls[c].op = "put" THEN "open" ELSE "rename",
                        !.disturbed = FALSE]
  <2>1. /\ calls[c] \in CallStates
        /\ calls' = [calls EXCEPT ![c] = next]
        /\ object' = object /\ tmp' = tmp
    BY <1>4, <1>t DEF PutMkdir, At
  <2>2. /\ next \in CallStates /\ next.op = calls[c].op
        /\ next.hash = calls[c].hash /\ next.at = calls[c].at
        /\ calls[c].op = "put" => next.step = "open"
    BY <2>1 DEF CallStates, Steps
  <2> HIDE DEF next
  <2>3. \A d \in Callers : calls'[d] # None => GoesOn(d)
    BY <1>4, <1>t, <2>1, <2>2 DEF GoesOn, Typed, PutMkdir, At
  <2>4. calls' \in [Callers -> CallStates \cup {None}]
    BY <1>t, <2>1, <2>2 DEF Typed
  <2> QED
    BY <1>t, <2>1, <2>3, <2>4, QuietStep
<1>5. ASSUME NEW c \in Callers, PutOpen(c) PROVE PutInv'
  <2> DEFINE h == calls[c].hash
             next == [calls[c] EXCEPT !.step = "write", !.at = "tmp"]
  <2>1. /\ calls[c] # None /\ Putting(c)
        /\ calls[c] \in CallStates
        /\ h \in Hashes
        /\ calls' = [calls EXCEPT ![c] = next]
        /\ object' = object /\ tmp' = [tmp EXCEPT ![h] = "partial"]
    BY <1>5, <1>t DEF PutOpen, At, Putting, CallStates
  <2>2. /\ next \in CallStates /\ next.op = calls[c].op
        /\ next.step = "write" /\ next.at = "tmp"
    BY <2>1 DEF CallStates, Steps
  <2> HIDE DEF next, h
  <2>3. /\ calls' \in [Callers -> CallStates \cup {None}]
        /\ calls'[c] = next
        /\ \A d \in Callers : d # c => calls'[d] = calls[d]
    BY <1>t, <2>1, <2>2 DEF Typed
  <2>4. Typed'
    BY <1>t, <2>1, <2>3 DEF Typed, FileStates
  <2>5. \A d \in Callers : d # c => ~Putting(d)' /\ ~Putting(d)
    BY <2>1, <2>3 DEF PutInv, Putting
  <2>6. \A d \in Callers :
           /\ calls'[d] # None => calls'[d].at = Handle(d)'
           /\ ~At(d, "put", "rename")'
    BY <2>1, <2>2, <2>3, <2>5 DEF PutInv, At, Putting, Handle
  <2> QED
    BY <2>1, <2>4, <2>5, <2>6 DEF PutInv
<1>6. ASSUME NEW c \in Callers, PutWrite(c) PROVE PutInv'
  <2> DEFINE h == calls[c].hash
             next == [calls[c] EXCEPT !.step = "rename", !.at = None]
  <2>1. /\ calls[c] # None /\ Putting(c) /\ calls[c].at = "tmp"
        /\ calls[c] \in CallStates
        /\ h \in Hashes
        /\ calls' = [calls EXCEPT ![c] = next]
        /\ object' = object /\ tmp' = [tmp EXCEPT ![h] = "whole"]
    BY <1>6, <1>t, NoneIsNothing DEF PutInv, PutWrite, At, Putting, Handle, CallStates
  <2>2. /\ next \in CallStates /\ next.op = calls[c].op
        /\ next.step = "rename" /\ next.at = None /\ next.hash = h
    BY <2>1 DEF CallStates, Steps
  <2> HIDE DEF next, h
  <2>3. /\ calls' \in [Callers -> CallStates \cup {None}]
        /\ calls'[c] = next
        /\ \A d \in Callers : d # c => calls'[d] = calls[d]
    BY <1>t, <2>1, <2>2 DEF Typed
  <2>4. Typed' /\ tmp'[h] = "whole"
    BY <1>t, <2>1, <2>3 DEF Typed, FileStates
  <2>5. \A d \in Callers : d # c => ~Putting(d)' /\ ~Putting(d)
    BY <2>1, <2>3 DEF PutInv, Putting
  <2>6. \A d \in Callers :
           /\ calls'[d] # None => calls'[d].at = Handle(d)'
           /\ At(d, "put", "rename")' => d = c
    BY <2>1, <2>2, <2>3, <2>5 DEF PutInv, At, Putting, Handle
  <2>7. \A d \in Callers :
           At(d, "put", "rename")' => tmp'[calls'[d].hash] = "whole"
    BY <2>2, <2>3, <2>4, <2>6
  <2> QED
    BY <2>1, <2>4, <2>5, <2>6, <2>7 DEF PutInv
<1>7. ASSUME NEW c \in Callers, PutWriteFails(c) PROVE PutInv'
  <2>1. Return(c) /\ object' = object /\ tmp' = tmp
    BY <1>7 DEF PutWriteFails
  <2> QED
    BY <1>t, <2>1, CallReturns, QuietStep DEF GoesOn
<1>8. ASSUME NEW c \in Callers, PutRename(c) PROVE PutInv'
  <2> DEFINE h == calls[c].hash
  <2>1. /\ calls[c] # None /\ Putting(c)
        /\ h \in Hashes
        /\ tmp[h] = "whole"
        /\ object' = [object EXCEPT ![h] = "whole"]
        /\ tmp' = [tmp EXCEPT ![h] = None]
    BY <1>8, <1>t DEF PutInv, PutRename, At, Putting, CallStates
  <2>2. \A d \in Callers : calls[d] # None => calls[d].at = None
    BY <1>8, <2>1 DEF PutInv, PutRename, At, Putting, Handle
  <2>3. Replaced(h, Calling("hash", h), "tmp") = calls
    <3>1. calls \in [Callers -> CallStates \cup {None}]
      BY <1>t DEF Typed
    <3>2. Moved(calls, Calling("hash", h), "object", None) = calls
      BY <2>2, <3>1, NoneIsNothing DEF Moved
    <3>3. Moved(calls, Calling("hash", h), "tmp", "object") = calls
      BY <2>2, <3>1, NoneIsNothing DEF Moved
    <3> QED
      BY <3>2, <3>3 DEF Replaced
  <2>4. Return(c)
    BY <1>8, <2>3 DEF PutRename, Return
  <2>5. /\ calls' \in [Callers -> CallStates \cup {None}]
        /\ calls'[c] = None
        /\ \A d \in Callers : d # c => calls'[d] = calls[d]
    BY <1>t, <2>4, CallReturns
  <2> HIDE DEF h
  <2>6. \A d \in Callers : ~Putting(d)'
    BY <2>1, <2>5 DEF PutInv, Putting
  <2>7. Typed'
    BY <1>t, <2>1, <2>5 DEF Typed, FileStates
  <2>8. \A g \in Hashes : object'[g] \in {None, "whole"}
    BY <1>t, <2>1
  <2>9. \A d \in Callers : /\ calls'[d] # None => calls'[d].at = Handle(d)'
                           /\ ~At(d, "put", "rename")'
    BY <2>5, <2>6 DEF PutInv, Putting, At, Handle
  <2> QED
    BY <2>6, <2>7, <2>8, <2>9 DEF PutInv
<1>9. ASSUME NEW c \in Callers, PutPathRename(c) PROVE PutInv'
  <2>1. calls[c] # None /\ calls[c].hash \in Hashes
    BY <1>9, <1>t DEF PutPathRename, At, CallStates
  <2>2. Return(c) /\ tmp' = tmp
    BY <1>9, <2>1, NoneMoved DEF PutPathRename, Return
  <2>3. object' \in [Hashes -> {None, "whole"}]
    BY <1>9, <1>t, <2>1 DEF PutPathRename
  <2> QED
    BY <1>t, <2>2, <2>3, CallReturns, QuietStep DEF GoesOn
<1>10. ASSUME NEW c \in Callers, PutRaises(c) PROVE PutInv'
  <2>1. Return(c) /\ object' = object /\ tmp' = tmp
    BY <1>10 DEF PutRaises
  <2> QED
    BY <1>t, <2>1, CallReturns, QuietStep DEF GoesOn
<1>11. ASSUME NEW c \in Callers, GetCheck(c) \/ GetRead(c) PROVE PutInv'
  <2>1. /\ calls[c] # None /\ calls[c].op = "get"
        /\ Return(c) \/ GoTo(c, "read")
        /\ object' = object /\ tmp' = tmp
    BY <1>11 DEF GetCheck, GetRead, At
  <2>2. CASE Return(c)
    BY <1>t, <2>1, <2>2, CallReturns, QuietStep DEF GoesOn
  <2>3. CASE GoTo(c, "read")
    BY <1>t, <2>1, <2>3, CallGoesOn, QuietStep DEF GoesOn, Steps
  <2> QED
    BY <2>1, <2>2, <2>3
<1>12. ASSUME NEW c \in Callers, DeleteCheck(c) \/ DeleteUnlink(c) PROVE PutInv'
  <2>1. /\ calls[c] # None /\ calls[c].op = "delete"
        /\ calls[c].hash \in Hashes
        /\ tmp' = tmp
    BY <1>12, <1>t DEF DeleteCheck, DeleteUnlink, At, CallStates
  <2>2. /\ Return(c) \/ GoTo(c, "unlink") \/ GoTo(c, "rmdir")
        /\ object' \in [Hashes -> {None, "whole"}]
    BY <1>12, <1>t, <2>1, NoneMoved DEF DeleteCheck, DeleteUnlink, GoTo
  <2>3. CASE Return(c)
    BY <1>t, <2>1, <2>2, <2>3, CallReturns, QuietStep DEF GoesOn
  <2>4. CASE GoTo(c, "unlink") \/ GoTo(c, "rmdir")
    BY <1>t, <2>1, <2>2, <2>4, CallGoesOn, QuietStep DEF GoesOn, Steps
  <2> QED
    BY <2>2, <2>3, <2>4
<1>13. ASSUME NEW c \in Callers, DeleteRmdir(c) PROVE PutInv'
  <2>1. /\ object' = object /\ tmp' = tmp
        /\ \/ calls' = [calls EXCEPT ![c] = None]
           \/ calls' = [Disturb(calls) EXCEPT ![c] = None]
    BY <1>13 DEF DeleteRmdir
  <2>2. \A d \in Callers : calls[d] # None =>
           LET next == [calls[d] EXCEPT !.disturbed = TRUE]
           IN  /\ next \in CallStates /\ next # None
               /\ next.op = calls[d].op /\ next.hash = calls[d].hash
               /\ next.step = calls[d].step /\ next.at = calls[d].at
    BY <1>t, NoneIsNothing DEF CallStates
  <2>3. CASE calls' = [calls EXCEPT ![c] = None]
    BY <1>t, <2>1, <2>3, CallReturns, QuietStep DEF GoesOn, Return
  <2>4. CASE calls' = [Disturb(calls) EXCEPT ![c] = None]
    <3>1. calls' \in [Callers -> CallStates \cup {None}]
      BY <2>2, <2>4 DEF Disturb
    <3>2. \A d \in Callers : calls'[d] # None => GoesOn(d)
      BY <2>2, <2>4 DEF Disturb, GoesOn
    <3> QED
      BY <1>t, <2>1, <3>1, <3>2, QuietStep
  <2> QED
    BY <2>1, <2>3, <2>4
<1>14. CASE Crash(Callers)
  <2>1. /\ \A d \in Callers : calls'[d] = None
        /\ calls' \in [Callers -> CallStates \cup {None}]
        /\ object' = object /\ tmp' = tmp
    BY <1>14 DEF Crash
  <2> QED
    BY <1>t, <2>1, QuietStep
<1>15. CASE UploadNext \/ UNCHANGED vars
  <2>1. calls' = calls /\ object' = object /\ tmp' = tmp
    BY <1>15 DEF UploadNext, Merge, SourceGone, vars
  <2> QED
    BY <1>t, <2>1, QuietStep DEF GoesOn, PutInv, Typed
<1>16. ASSUME NEW c \in Callers, PutPathFallsBack(c) PROVE PutInv'
  <2>1. /\ GoTo(c, "copy") /\ object' = object /\ tmp' = tmp
        /\ calls[c] # None /\ calls[c].op = "put_path"
    BY <1>16 DEF PutPathFallsBack, At
  <2> QED
    BY <1>t, <2>1, CallGoesOn, QuietStep DEF GoesOn, Steps
<1> QED
  BY <1>1, <1>2, <1>3, <1>4, <1>5, <1>6, <1>7, <1>8, <1>9, <1>10, <1>11, <1>12,
     <1>13, <1>14, <1>15, <1>16
  DEF ApartNext, Proceed

(* In one server no reader gets part of an object: whatever crashes and     *)
(* full disks leave in .tmp files, only whole ones are renamed.             *)
THEOREM ReadsAreWholeCorrect == ApartSpec => []ReadsAreWhole
<1>1. Init => PutInv
  BY PutInit
<1>2. PutInv /\ [ApartNext]_vars => PutInv'
  BY PutStep
<1>3. PutInv => ReadsAreWhole
  BY DEF PutInv, Typed, CallStates, ReadsAreWhole, At
<1> QED
  BY <1>1, <1>2, <1>3, PTL DEF ApartSpec

(* ------------------------------------------------------------------------ *)
(* One server's files are an ObjectStore                                    *)
(* ------------------------------------------------------------------------ *)
Alike(x, y) == (x = None /\ y = None) \/ (/\ x # None /\ y # None
                                         /\ x.op = y.op /\ x.hash = y.hash)

LEMMA ActiveIs ==
  ASSUME Typed, NEW c \in Callers
  PROVE  /\ Active[c] = None <=> calls[c] = None
         /\ calls[c] # None => /\ Active[c].op = calls[c].op
                               /\ Active[c].hash = calls[c].hash
BY NoneIsNothing DEF Typed, Active, CallStates

LEMMA ActiveKept ==
  ASSUME \A c \in Callers : Alike(calls[c], calls'[c])
  PROVE  Active' = Active
BY DEF Alike, Active

LEMMA ActiveReturns ==
  ASSUME NEW c \in Callers, calls'[c] = None,
         \A d \in Callers : d # c => Alike(calls[d], calls'[d])
  PROVE  Active' = [Active EXCEPT ![c] = None]
BY DEF Alike, Active

LEMMA DeletesAre ==
  ASSUME Typed, NEW h
  PROVE  Store!Deletes(h) = Calling("op", "delete") \cap Calling("hash", h)
BY ActiveIs DEF Store!Deletes, Store!In, Calling

LEMMA StoreNext == PutInv /\ [ApartNext]_vars => [Store!Next]_Store!vars
<1> SUFFICES ASSUME PutInv, [ApartNext]_vars PROVE [Store!Next]_Store!vars
  OBVIOUS
<1>t. /\ Typed
      /\ object \in [Hashes -> {None, "whole"}]
      /\ \A c \in Callers : calls[c] # None => calls[c] \in CallStates
  BY DEF PutInv, Typed
<1>u. ASSUME object' = object PROVE Whole' = Whole
  BY <1>u DEF Whole
<1>a. ASSUME NEW c \in Callers, NEW step \in {"mkdir", "copy", "read", "unlink", "rmdir"},
             calls[c] # None, GoTo(c, step)
      PROVE  Active' = Active
  BY <1>t, <1>a, CallGoesOn, ActiveKept DEF Alike, Steps
<1>r. ASSUME NEW c \in Callers, calls[c] # None, Return(c),
             object' = object, kept' = kept
      PROVE  Store!Next
  <2>1. Active' = [Active EXCEPT ![c] = None]
    BY <1>r, <1>t, ActiveReturns DEF Return, Typed, Alike
  <2>2. Store!Return(c)
    BY <1>r, <1>t, <1>u, <2>1, ActiveIs DEF Store!Return
  <2> QED
    BY <2>2 DEF Store!Next
<1>p. ASSUME NEW c \in Callers, calls[c] # None, calls[c].op \in {"put", "put_path"},
             Return(c), Answer(calls[c].hash),
             object' = [object EXCEPT ![calls[c].hash] = "whole"]
      PROVE  Store!Next
  <2>1. Active' = [Active EXCEPT ![c] = None]
    BY <1>p, <1>t, ActiveReturns DEF Return, Typed, Alike
  <2>2. calls[c].hash \in Hashes
    BY <1>p, <1>t DEF CallStates
  <2>3. Whole' = Whole \cup {calls[c].hash}
    BY <1>p, <1>t, <2>2 DEF Whole
  <2>4. Store!Put(c)
    BY <1>p, <1>t, <2>1, <2>3, ActiveIs, DeletesAre
    DEF Store!Put, Store!In, Store!Puts, Answer
  <2> QED
    BY <2>4 DEF Store!Next
<1>1. ASSUME NEW c \in Callers, NEW h \in Hashes, NEW op \in Ops, Start(c, op, h)
      PROVE  Store!Next
  <2>1. PICK next \in CallStates : /\ next.op = op /\ next.hash = h
                                   /\ calls' = [calls EXCEPT ![c] = next]
    BY <1>1, <1>t, CallStarts
  <2>3. /\ calls[c] = None /\ object' = object
        /\ kept' = IF op = "delete" THEN kept \ {h} ELSE kept
    BY <1>1 DEF Start
  <2>4. Active' = [Active EXCEPT ![c] = [op |-> op, hash |-> h]]
    BY <1>t, <2>1, <2>3, NoneIsNothing DEF Active, Typed
  <2>5. Store!Start(c, op, h)
    BY <1>t, <1>u, <2>3, <2>4, ActiveIs DEF Store!Start
  <2> QED
    BY <2>5 DEF Store!Next, Store!Operations, Store!Puts, Ops
<1>2. ASSUME NEW c \in Callers, PutKnown(c) PROVE Store!Next
  <2>1. /\ calls[c] # None /\ calls[c].op \in {"put", "put_path"}
        /\ Return(c) /\ Answer(calls[c].hash) /\ object' = object
        /\ object[calls[c].hash] # None
    BY <1>2 DEF PutKnown, At
  <2>2. calls[c].hash \in Hashes
    BY <1>t, <2>1 DEF CallStates
  <2>3. object' = [object EXCEPT ![calls[c].hash] = "whole"]
    BY <1>t, <2>1, <2>2
  <2> QED
    BY <1>p, <2>1, <2>3
<1>3. ASSUME NEW c \in Callers, PutUnknown(c) PROVE UNCHANGED Store!vars
  BY <1>3, <1>a, <1>u DEF PutUnknown, At, Store!vars
<1>4. ASSUME NEW c \in Callers, PutMkdir(c) \/ PutOpen(c) \/ PutWrite(c)
      PROVE  UNCHANGED Store!vars
  <2>1. calls[c] # None /\ calls[c] \in CallStates /\ kept' = kept
    BY <1>4, <1>t DEF PutMkdir, PutOpen, PutWrite, At
  <2>2. object' = object
    BY <1>4, NoneIsNothing DEF PutMkdir, PutOpen, PutWrite, PutInv, At, Handle
  <2>3. PICK next \in CallStates : /\ next.op = calls[c].op
                                   /\ next.hash = calls[c].hash
                                   /\ calls' = [calls EXCEPT ![c] = next]
    <3>1. CASE PutMkdir(c)
      <4> DEFINE step == IF calls[c].op = "put" THEN "open" ELSE "rename"
                 next == [calls[c] EXCEPT !.step = step, !.disturbed = FALSE]
      <4>1. calls' = [calls EXCEPT ![c] = next]
        BY <3>1 DEF PutMkdir
      <4>2. next \in CallStates /\ next.op = calls[c].op /\ next.hash = calls[c].hash
        BY <2>1 DEF CallStates, Steps
      <4> QED
        BY <4>1, <4>2
    <3>2. CASE PutOpen(c)
      <4> DEFINE next == [calls[c] EXCEPT !.step = "write", !.at = "tmp"]
      <4>1. calls' = [calls EXCEPT ![c] = next]
        BY <3>2 DEF PutOpen
      <4>2. next \in CallStates /\ next.op = calls[c].op /\ next.hash = calls[c].hash
        BY <2>1 DEF CallStates, Steps
      <4> QED
        BY <4>1, <4>2
    <3>3. CASE PutWrite(c)
      <4> DEFINE next == [calls[c] EXCEPT !.step = "rename", !.at = None]
      <4>1. calls' = [calls EXCEPT ![c] = next]
        BY <3>3 DEF PutWrite
      <4>2. next \in CallStates /\ next.op = calls[c].op /\ next.hash = calls[c].hash
        BY <2>1 DEF CallStates, Steps
      <4> QED
        BY <4>1, <4>2
    <3> QED
      BY <1>4, <3>1, <3>2, <3>3
  <2>4. \A d \in Callers : Alike(calls[d], calls'[d])
    BY <1>t, <2>1, <2>3, NoneIsNothing DEF Alike, Typed
  <2> QED
    BY <1>u, <2>1, <2>2, <2>4, ActiveKept DEF Store!vars
<1>5. ASSUME NEW c \in Callers, PutWriteFails(c) \/ PutRaises(c) \/ GetRead(c)
      PROVE  Store!Next
  BY <1>5, <1>r DEF PutWriteFails, PutRaises, PutStranded, GetRead, At
<1>6. ASSUME NEW c \in Callers, PutRename(c) PROVE Store!Next
  <2>1. /\ calls[c] # None /\ calls[c].op = "put" /\ calls[c].hash \in Hashes
        /\ tmp[calls[c].hash] = "whole" /\ Answer(calls[c].hash)
        /\ object' = [object EXCEPT ![calls[c].hash] = "whole"]
    BY <1>6, <1>t DEF PutRename, PutInv, At, CallStates
  <2>2. \A d \in Callers : calls[d] # None => calls[d].at = None
    BY <1>6 DEF PutRename, PutInv, At, Putting, Handle
  <2>3. Moved(calls, Calling("hash", calls[c].hash), "object", None) = calls
    BY <1>t, <2>2, NoneIsNothing DEF Moved, Typed
  <2>4. Moved(calls, Calling("hash", calls[c].hash), "tmp", "object") = calls
    BY <1>t, <2>2, NoneIsNothing DEF Moved, Typed
  <2>5. Return(c)
    BY <1>6, <2>3, <2>4 DEF PutRename, Return, Replaced
  <2> QED
    BY <1>p, <2>1, <2>5
<1>7. ASSUME NEW c \in Callers, PutPathRename(c) PROVE Store!Next
  <2>1. /\ calls[c] # None /\ calls[c].op = "put_path" /\ calls[c].hash \in Hashes
        /\ Answer(calls[c].hash)
        /\ object' = [object EXCEPT ![calls[c].hash] = "whole"]
    BY <1>7, <1>t DEF PutPathRename, At, CallStates
  <2>2. Return(c)
    BY <1>7, <2>1, NoneMoved DEF PutPathRename, Return
  <2> QED
    BY <1>p, <2>1, <2>2
<1>8. ASSUME NEW c \in Callers, GetCheck(c) \/ DeleteCheck(c)
      PROVE  [Store!Next]_Store!vars
  <2>1. /\ calls[c] # None /\ object' = object /\ kept' = kept
        /\ Return(c) \/ GoTo(c, "read") \/ GoTo(c, "unlink")
    BY <1>8 DEF GetCheck, DeleteCheck, At
  <2> QED
    BY <1>a, <1>r, <1>u, <2>1 DEF Store!vars
<1>9. ASSUME NEW c \in Callers, DeleteUnlink(c) PROVE Store!Next
  <2>1. /\ calls[c] # None /\ calls[c].op = "delete" /\ calls[c].hash \in Hashes
        /\ kept' = kept
    BY <1>9, <1>t DEF DeleteUnlink, At, CallStates
  <2>2. CASE object[calls[c].hash] = None
    BY <1>9, <1>r, <2>1, <2>2 DEF DeleteUnlink
  <2>3. CASE object[calls[c].hash] # None
    <3>1. /\ object' = [object EXCEPT ![calls[c].hash] = None]
          /\ GoTo(c, "rmdir")
      BY <1>9, <2>1, <2>3, NoneMoved DEF DeleteUnlink, GoTo
    <3>2. Whole' = Whole \ {calls[c].hash}
      BY <1>t, <2>1, <3>1, NoneIsNothing DEF Whole
    <3>3. Store!Remove(c)
      BY <1>a, <1>t, <2>1, <3>1, <3>2, ActiveIs DEF Store!Remove, Store!In
    <3> QED
      BY <3>3 DEF Store!Next
  <2> QED
    BY <2>2, <2>3
<1>10. ASSUME NEW c \in Callers, DeleteRmdir(c) PROVE Store!Next
  <2>1. /\ calls[c] # None /\ object' = object /\ kept' = kept
        /\ \/ calls' = [calls EXCEPT ![c] = None]
           \/ calls' = [Disturb(calls) EXCEPT ![c] = None]
    BY <1>10 DEF DeleteRmdir, At
  <2>2. \A d \in Callers : calls[d] # None =>
           LET next == [calls[d] EXCEPT !.disturbed = TRUE]
           IN  /\ next # None
               /\ next.op = calls[d].op /\ next.hash = calls[d].hash
    <3>1. \A d \in Callers : calls[d] # None =>
             [calls[d] EXCEPT !.disturbed = TRUE] \in CallStates
      BY <1>t DEF CallStates
    <3> QED
      BY <1>t, <3>1, NoneIsNothing DEF CallStates
  <2>3. /\ calls'[c] = None
        /\ \A d \in Callers : d # c => Alike(calls[d], calls'[d])
    <3>1. CASE calls' = [calls EXCEPT ![c] = None]
      BY <1>t, <3>1 DEF Typed, Alike
    <3>2. CASE calls' = [Disturb(calls) EXCEPT ![c] = None]
      BY <2>2, <3>2 DEF Disturb, Alike
    <3> QED
      BY <2>1, <3>1, <3>2
  <2>4. Active' = [Active EXCEPT ![c] = None]
    BY <2>3, ActiveReturns
  <2>5. Store!Return(c)
    BY <1>t, <1>u, <2>1, <2>4, ActiveIs DEF Store!Return
  <2> QED
    BY <2>5 DEF Store!Next
<1>11. CASE Crash(Callers)
  <2>1. Store!Crash(Callers)
    BY <1>11, <1>u DEF Crash, Store!Crash, Active
  <2> QED
    BY <2>1 DEF Store!Next
<1>12. CASE UploadNext \/ UNCHANGED vars
  <2>1. UNCHANGED <<calls, object, kept>>
    BY <1>12 DEF UploadNext, Merge, SourceGone, vars
  <2> QED
    BY <1>u, <2>1 DEF Store!vars, Active
<1>13. ASSUME NEW c \in Callers, PutPathFallsBack(c) PROVE UNCHANGED Store!vars
  BY <1>13, <1>a, <1>u DEF PutPathFallsBack, At, Store!vars
<1> QED
  BY <1>1, <1>2, <1>3, <1>4, <1>5, <1>6, <1>7, <1>8, <1>9, <1>10, <1>11, <1>12,
     <1>13
  DEF ApartNext, Proceed

(* The files of one server keep the promise of an ObjectStore, whatever     *)
(* threads, crashes and full disks do to the .tmp files and the directory.  *)
THEOREM LocalIsObjectStore == ApartSpec => StoreSpec
<1>1. Init => Store!Init
  BY NoneIsNothing DEF Init, Store!Init, Active, Whole
<1> QED
  BY <1>1, PutInit, PutStep, StoreNext, PTL DEF ApartSpec, StoreSpec, Store!Spec

(* What follows from the promise holds of the files. *)
Promise == INSTANCE ObjectStoreProofs WITH stored <- Whole, active <- Active

(* An answered put stays in the store until a delete of its own hash, not   *)
(* of another that shares its directory.                                    *)
THEOREM AnsweredIsStoredCorrect == ApartSpec => []AnsweredIsStored
<1>1. Store!Init => Promise!Init
  BY DEF Store!Init, Promise!Init
<1>2. [Store!Next]_Store!vars => [Promise!Next]_Promise!vars
  BY DEF Store!Next, Store!vars, Promise!Next, Promise!vars, Store!Start, Promise!Start,
    Store!Put, Promise!Put, Store!Store, Promise!Store, Store!Remove, Promise!Remove,
    Store!Return, Promise!Return, Store!Crash, Promise!Crash, Store!In, Promise!In,
    Store!Puts, Promise!Puts, Store!Operations, Promise!Operations,
    Store!Deletes, Promise!Deletes
<1>3. Promise!KeptIsStored => AnsweredIsStored
  BY DEF Promise!KeptIsStored, AnsweredIsStored, Whole
<1> QED
  BY <1>1, <1>2, <1>3, LocalIsObjectStore, Promise!KeptIsStoredCorrect, PTL
  DEF StoreSpec, Store!Spec, Promise!Spec

(* ------------------------------------------------------------------------ *)
(* The shard directory                                                      *)
(* ------------------------------------------------------------------------ *)

(* At the step of put that needs the directory                              *)
Needs(c) == At(c, "put", "open")

(* Files lie in the directory; a call that has made it and does not find it *)
(* has been shown its removal.                                              *)
DirInv ==
  /\ shard \in BOOLEAN /\ kept \in SUBSET Hashes
  /\ ~Empty => shard
  /\ \A c \in Callers : At(c, "put", "write") => tmp[calls[c].hash] # None
  /\ \A c \in Callers : Needs(c) /\ ~shard => calls[c].disturbed

(* A call that goes on to nothing that needs the directory, or not at all   *)
Idles(c) ==
  /\ calls[c] # None
  /\ calls'[c].op = calls[c].op
  /\ calls'[c].hash = calls[c].hash
  /\ \/ calls'[c].step = calls[c].step /\ calls'[c].disturbed = calls[c].disturbed
     \/ calls'[c].step \in {"check", "mkdir", "copy", "read", "unlink", "rmdir"}

LEMMA DirIdles ==
  ASSUME DirInv, kept' \in SUBSET Hashes, shard' = shard, tmp' = tmp,
         ~Empty' => shard,
         \A c \in Callers : calls'[c] # None => Idles(c)
  PROVE  DirInv'
BY DEF DirInv, Needs, At, Idles

LEMMA DirStep == PutInv /\ DirInv /\ [ApartNext]_vars => DirInv'
<1> SUFFICES ASSUME PutInv, DirInv, [ApartNext]_vars PROVE DirInv'
  OBVIOUS
<1>t. /\ Typed
      /\ object \in [Hashes -> {None, "whole"}]
      /\ \A c \in Callers : calls[c] # None => calls[c] \in CallStates
  BY DEF PutInv, Typed
<1>r. ASSUME NEW c \in Callers, Return(c), shard' = shard, tmp' = tmp,
             ~Empty' => shard, kept' \in SUBSET Hashes
      PROVE  DirInv'
  BY <1>r, <1>t, CallReturns, DirIdles DEF Idles
<1>g. ASSUME NEW c \in Callers, calls[c] # None,
             NEW step \in {"mkdir", "copy", "read", "unlink", "rmdir"},
             GoTo(c, step), shard' = shard, tmp' = tmp,
             ~Empty' => shard, kept' = kept
      PROVE  DirInv'
  <2>1. kept' \in SUBSET Hashes
    BY <1>g DEF DirInv
  <2>2. \A d \in Callers : calls'[d] # None => Idles(d)
    BY <1>g, <1>t, CallGoesOn DEF Idles, Steps
  <2> QED
    BY <1>g, <2>1, <2>2, DirIdles
<1>k. \A c \in Callers : calls[c] # None => calls[c].hash \in Hashes
  BY <1>t DEF CallStates
<1>a. ASSUME NEW c \in Callers, calls[c] # None, Answer(calls[c].hash)
      PROVE  kept' \in SUBSET Hashes
  BY <1>a, <1>k DEF Answer, DirInv
<1>1. ASSUME NEW c \in Callers, NEW h \in Hashes, NEW op \in Ops, Start(c, op, h)
      PROVE  DirInv'
  <2>1. PICK next \in CallStates :
           /\ next.step = "check" /\ calls'[c] = next
           /\ \A d \in Callers : d # c => calls'[d] = calls[d]
    BY <1>1, <1>t, CallStarts
  <2>2. UNCHANGED <<shard, tmp, object>> /\ kept' \in SUBSET Hashes
    BY <1>1 DEF Start, DirInv
  <2> QED
    BY <2>1, <2>2 DEF DirInv, Needs, At, Empty
<1>2. ASSUME NEW c \in Callers, PutKnown(c) PROVE DirInv'
  <2>1. /\ calls[c] # None /\ Answer(calls[c].hash) /\ Return(c)
        /\ UNCHANGED <<shard, object, tmp>>
    BY <1>2 DEF PutKnown, At
  <2>2. kept' \in SUBSET Hashes
    BY <1>a, <2>1
  <2> QED
    BY <1>r, <2>1, <2>2 DEF DirInv, Empty
<1>3. ASSUME NEW c \in Callers, PutUnknown(c) PROVE DirInv'
  BY <1>3, <1>g DEF PutUnknown, At, DirInv, Empty
<1>4. ASSUME NEW c \in Callers, PutMkdir(c) PROVE DirInv'
  <2> DEFINE step == IF calls[c].op = "put" THEN "open" ELSE "rename"
  <2>0. PICK next : next = [calls[c] EXCEPT !.step = step, !.disturbed = FALSE]
    OBVIOUS
  <2>1. /\ calls[c] # None /\ calls[c] \in CallStates
        /\ calls' = [calls EXCEPT ![c] = next]
        /\ shard' = TRUE /\ UNCHANGED <<object, tmp, kept>>
    BY <1>4, <1>t, <2>0 DEF PutMkdir, At
  <2>2. next.step # "write"
    BY <2>0, <2>1 DEF CallStates
  <2>3. /\ calls'[c] = next
        /\ \A d \in Callers : d # c => calls'[d] = calls[d]
    BY <1>t, <2>1 DEF Typed
  <2> QED
    BY <2>1, <2>2, <2>3 DEF DirInv, At
<1>5. ASSUME NEW c \in Callers, PutOpen(c) PROVE DirInv'
  <2> DEFINE h == calls[c].hash
  <2>0. PICK next : next = [calls[c] EXCEPT !.step = "write", !.at = "tmp"]
    OBVIOUS
  <2>1. /\ calls[c] # None /\ calls[c] \in CallStates /\ Putting(c)
        /\ calls' = [calls EXCEPT ![c] = next]
        /\ shard = TRUE /\ shard' = TRUE /\ kept' = kept
        /\ tmp' = [tmp EXCEPT ![h] = "partial"] /\ h \in Hashes
    BY <1>5, <1>t, <1>k, <2>0 DEF PutOpen, At, Putting, DirInv
  <2>2. next.hash = h
    BY <2>0, <2>1 DEF CallStates
  <2>3. /\ calls'[c] = next
        /\ \A d \in Callers : d # c => calls'[d] = calls[d]
    BY <1>t, <2>1 DEF Typed
  <2>4. \A d \in Callers : d # c => ~Putting(d)'
    BY <2>1, <2>3 DEF PutInv, Putting
  <2>5. tmp'[h] # None
    BY <1>t, <2>1, NoneIsNothing DEF Typed
  <2> QED
    BY <2>1, <2>2, <2>3, <2>4, <2>5 DEF DirInv, At, Putting
<1>6. ASSUME NEW c \in Callers, PutWrite(c) PROVE DirInv'
  <2> DEFINE h == calls[c].hash
  <2>0. PICK next : next = [calls[c] EXCEPT !.step = "rename", !.at = None]
    OBVIOUS
  <2>1. /\ calls[c] # None /\ calls[c] \in CallStates /\ Putting(c)
        /\ calls' = [calls EXCEPT ![c] = next]
        /\ shard' = shard /\ kept' = kept
        /\ tmp[h] # None /\ h \in Hashes
    BY <1>6, <1>t, <1>k, <2>0 DEF PutWrite, At, Putting, DirInv
  <2>2. next.op = "put" /\ next.step = "rename"
    BY <2>0, <2>1 DEF CallStates, Putting
  <2>3. /\ calls'[c] = next
        /\ \A d \in Callers : d # c => calls'[d] = calls[d]
    BY <1>t, <2>1 DEF Typed
  <2>4. \A d \in Callers : ~At(d, "put", "write")'
    BY <2>1, <2>2, <2>3 DEF PutInv, Putting, At
  <2>5. shard = TRUE
    BY <2>1 DEF DirInv, Empty
  <2> QED
    BY <2>1, <2>4, <2>5 DEF DirInv
<1>7. ASSUME NEW c \in Callers, PutRename(c) \/ PutPathRename(c) PROVE DirInv'
  <2> DEFINE h == calls[c].hash
  <2>1. /\ calls[c] # None /\ h \in Hashes /\ Answer(h)
        /\ shard' = shard /\ shard = TRUE
    BY <1>7, <1>k DEF PutRename, PutPathRename, At, DirInv, Empty
  <2>2. kept' \in SUBSET Hashes
    BY <1>a, <2>1
  <2>3. ASSUME NEW d \in Callers
        PROVE  At(d, "put", "write")' => tmp'[calls'[d].hash] # None
    <3>1. CASE PutRename(c)
      <4>1. Putting(c)
        BY <3>1 DEF PutRename, At, Putting
      <4>2. \A e \in Callers : calls[e] # None => calls[e].at = None
        BY <3>1, <4>1 DEF PutRename, PutInv, At, Putting, Handle
      <4>3. Replaced(h, Calling("hash", h), "tmp") = calls
        <5>1. Moved(calls, Calling("hash", h), "object", None) = calls
          BY <1>t, <4>2, NoneIsNothing DEF Moved, Typed
        <5>2. Moved(calls, Calling("hash", h), "tmp", "object") = calls
          BY <1>t, <4>2, NoneIsNothing DEF Moved, Typed
        <5> QED
          BY <5>1, <5>2 DEF Replaced
      <4>4. Return(c)
        BY <3>1, <4>3 DEF PutRename, Return
      <4> QED
        BY <1>t, <4>1, <4>4, CallReturns DEF PutInv, Putting, At
    <3>2. CASE PutPathRename(c)
      <4>1. Return(c) /\ tmp' = tmp
        BY <2>1, <3>2, NoneMoved DEF PutPathRename, Return
      <4> QED
        BY <1>t, <4>1, CallReturns DEF DirInv, At
    <3> QED
      BY <1>7, <3>1, <3>2
  <2> QED
    BY <2>1, <2>2, <2>3 DEF DirInv
<1>8. ASSUME NEW c \in Callers, PutWriteFails(c) \/ PutRaises(c) \/ GetRead(c)
      PROVE  DirInv'
  BY <1>8, <1>r DEF PutWriteFails, PutRaises, GetRead, DirInv, Empty
<1>9. ASSUME NEW c \in Callers, GetCheck(c) \/ DeleteCheck(c) PROVE DirInv'
  <2>1. /\ calls[c] # None /\ UNCHANGED <<shard, object, tmp, kept>>
        /\ Return(c) \/ GoTo(c, "read") \/ GoTo(c, "unlink")
    BY <1>9 DEF GetCheck, DeleteCheck, At
  <2> QED
    BY <1>g, <1>r, <2>1 DEF DirInv, Empty
<1>10. ASSUME NEW c \in Callers, DeleteUnlink(c) PROVE DirInv'
  <2>1. /\ calls[c] # None /\ calls[c].hash \in Hashes
        /\ UNCHANGED <<shard, tmp, kept>>
    BY <1>10, <1>k DEF DeleteUnlink, At
  <2>2. \/ Return(c) /\ object' = object
        \/ GoTo(c, "rmdir") /\ object' = [object EXCEPT ![calls[c].hash] = None]
    <3>1. Moved(calls, Calling("hash", calls[c].hash), "object", None) = calls
      BY <2>1, NoneMoved
    <3>2. CASE object[calls[c].hash] = None
      BY <1>10, <3>2 DEF DeleteUnlink
    <3>3. CASE object[calls[c].hash] # None
      <4>1. /\ object' = [object EXCEPT ![calls[c].hash] = None]
            /\ calls' = [Moved(calls, Calling("hash", calls[c].hash), "object", None)
                           EXCEPT ![c].step = "rmdir"]
        BY <1>10, <3>3 DEF DeleteUnlink
      <4> QED
        BY <3>1, <4>1 DEF GoTo
    <3> QED
      BY <3>2, <3>3
  <2>3. ~Empty' => ~Empty
    BY <1>t, <2>1, <2>2 DEF Empty
  <2> QED
    BY <1>g, <1>r, <2>1, <2>2, <2>3 DEF DirInv
<1>11. ASSUME NEW c \in Callers, DeleteRmdir(c) PROVE DirInv'
  <2>1. /\ UNCHANGED <<object, tmp, kept>>
        /\ shard' = (shard /\ ~Empty)
        /\ calls' = [(IF shard' = shard THEN calls ELSE Disturb(calls))
                       EXCEPT ![c] = None]
    BY <1>11 DEF DeleteRmdir
  <2>2. CASE shard' = shard
    BY <1>r, <2>1, <2>2 DEF Return, DirInv, Empty
  <2>3. CASE shard' # shard
    <3>1. shard' = FALSE /\ Empty
      BY <2>1, <2>3 DEF DirInv
    <3>2. \A d \in Callers : calls'[d] # None =>
             /\ calls[d] # None
             /\ calls'[d] = [calls[d] EXCEPT !.disturbed = TRUE]
      BY <2>1, <2>3 DEF Disturb
    <3>3. ASSUME NEW d \in Callers, calls'[d] # None
          PROVE  /\ calls[d] # None
                 /\ calls'[d].op = calls[d].op /\ calls'[d].hash = calls[d].hash
                 /\ calls'[d].step = calls[d].step
      BY <1>t, <3>2, <3>3 DEF CallStates
    <3>4. ASSUME NEW d \in Callers, calls'[d] # None PROVE calls'[d].disturbed
      BY <1>t, <3>2, <3>4, Zenon DEF CallStates
    <3>5. \A d \in Callers : At(d, "put", "write")' => tmp'[calls'[d].hash] # None
      BY <2>1, <3>3 DEF DirInv, At
    <3>6. \A d \in Callers : Needs(d)' => calls'[d].disturbed
      BY <3>4 DEF Needs, At
    <3> QED
      BY <2>1, <3>1, <3>5, <3>6 DEF DirInv, Empty
  <2> QED
    BY <2>2, <2>3
<1>12. CASE Crash(Callers)
  <2>1. /\ \A d \in Callers : calls'[d] = None
        /\ UNCHANGED <<shard, object, tmp, kept>>
    BY <1>12 DEF Crash
  <2> QED
    BY <2>1, DirIdles DEF DirInv, Empty
<1>13. CASE UploadNext \/ UNCHANGED vars
  <2>1. UNCHANGED <<shard, object, tmp, calls, kept>>
    BY <1>13 DEF UploadNext, Merge, SourceGone, vars
  <2> QED
    BY <2>1 DEF DirInv, Empty, Needs, At
<1>14. ASSUME NEW c \in Callers, PutPathFallsBack(c) PROVE DirInv'
  BY <1>14, <1>g DEF PutPathFallsBack, At, DirInv, Empty
<1> QED
  BY <1>1, <1>2, <1>3, <1>4, <1>5, <1>6, <1>7, <1>8, <1>9, <1>10, <1>11, <1>12,
     <1>13, <1>14
  DEF ApartNext, Proceed

(* ------------------------------------------------------------------------ *)
(* put_path's rename                                                        *)
(* ------------------------------------------------------------------------ *)
PuttingPath(c) == calls[c] # None /\ calls[c].op = "put_path"
Deleting(c)    == calls[c] # None /\ calls[c].op = "delete"

(* With gc kept away nobody removes the directory put_path has made, so its *)
(* rename fails for want of the source alone; and a source that is gone     *)
(* stays so while a complete of the upload is in put_path.                  *)
CopyInv ==
  /\ source \in [Sources -> Hashes \cup {None}]
  /\ \A c, d \in Callers : ~(PuttingPath(c) /\ Deleting(d))
  /\ \A c \in Callers : PuttingPath(c) => calls[c].src \in Sources
  /\ \A c \in Callers : At(c, "put_path", "rename") => shard
  /\ \A c \in Callers : At(c, "put_path", "copy") => source[calls[c].src] = None
  /\ \A c \in Callers : ~At(c, "put_path", "onto") /\ ~At(c, "put_path", "fill")

(* A call that goes on to neither the rename nor a step of the copy, or not *)
(* at all                                                                   *)
Steady(c) ==
  /\ calls[c] # None
  /\ calls'[c].op = calls[c].op
  /\ calls'[c].src = calls[c].src
  /\ \/ calls'[c].step = calls[c].step
     \/ calls'[c].step \notin {"rename", "copy", "onto", "fill"}
     \/ calls[c].op # "put_path"

Drops(old, new) ==
  /\ new \in [Sources -> Hashes \cup {None}]
  /\ \A s \in Sources : new[s] = old[s] \/ new[s] = None

LEMMA CopySteady ==
  ASSUME CopyInv, Drops(source, source'),
         shard => shard',
         \A c \in Callers : calls'[c] # None => Steady(c)
  PROVE  CopyInv'
<1>1. \A c \in Callers : /\ PuttingPath(c)' => PuttingPath(c)
                         /\ Deleting(c)' => Deleting(c)
  BY DEF PuttingPath, Deleting, Steady
<1>2. \A c \in Callers : PuttingPath(c)' => calls'[c].src \in Sources
  BY <1>1 DEF CopyInv, PuttingPath, Steady
<1>3. \A c \in Callers : At(c, "put_path", "rename")' => shard'
  BY DEF CopyInv, At, Steady
<1>4. ASSUME NEW c \in Callers, At(c, "put_path", "copy")'
      PROVE  source'[calls'[c].src] = None
  <2>1. At(c, "put_path", "copy") /\ calls'[c].src = calls[c].src
    BY <1>4 DEF At, Steady
  <2>2. calls[c].src \in Sources
    BY <2>1 DEF CopyInv, At, PuttingPath
  <2> QED
    BY <2>1, <2>2 DEF CopyInv, Drops
<1>5. \A c \in Callers :
         ~At(c, "put_path", "onto")' /\ ~At(c, "put_path", "fill")'
  BY DEF CopyInv, At, Steady
<1> QED
  BY <1>1, <1>2, <1>3, <1>4, <1>5 DEF CopyInv, Drops

LEMMA CopyStep == PutInv /\ CopyInv /\ [ApartNext]_vars => CopyInv'
<1> SUFFICES ASSUME PutInv, CopyInv, [ApartNext]_vars PROVE CopyInv'
  OBVIOUS
<1>t. /\ Typed
      /\ \A c \in Callers : calls[c] # None => calls[c] \in CallStates
  BY DEF PutInv, Typed
<1>s. source \in [Sources -> Hashes \cup {None}]
  BY DEF CopyInv
<1>d. /\ source' = source => Drops(source, source')
      /\ \A s : source' = [source EXCEPT ![s] = None] => Drops(source, source')
  BY <1>s DEF Drops
<1>r. ASSUME NEW c \in Callers, Return(c), Drops(source, source'), shard => shard'
      PROVE  CopyInv'
  BY <1>r, <1>t, CallReturns, CopySteady DEF Steady
<1>g. ASSUME NEW c \in Callers, calls[c] # None,
             NEW step \in {"mkdir", "read", "unlink", "rmdir"},
             GoTo(c, step), source' = source, shard' = shard
      PROVE  CopyInv'
  <2>1. \A d \in Callers : calls'[d] # None => Steady(d)
    BY <1>g, <1>t, CallGoesOn DEF Steady, Steps
  <2> QED
    BY <1>g, <1>d, <2>1, CopySteady
<1>1. ASSUME NEW c \in Callers, NEW h \in Hashes, NEW op \in Ops,
             Apart(op), Start(c, op, h)
      PROVE  CopyInv'
  <2>1. UNCHANGED <<shard, source>>
    BY <1>1 DEF Start
  <2>2. PICK s \in SourcesFor(op, h), next \in CallStates :
           /\ next # None /\ next.op = op /\ next.src = s /\ next.step = "check"
           /\ calls'[c] = next
           /\ \A d \in Callers : d # c => calls'[d] = calls[d]
    BY <1>1, <1>t, CallStarts
  <2>3. op = "put_path" => s \in Sources
    BY DEF SourcesFor
  <2>4. /\ op = "put_path" => \A d \in Callers : ~Deleting(d)
        /\ op = "delete" => \A d \in Callers : ~PuttingPath(d)
    BY <1>1 DEF Apart, Calling, Deleting, PuttingPath
  <2>5. \A d, e \in Callers : ~(PuttingPath(d)' /\ Deleting(e)')
    BY <2>2, <2>4 DEF CopyInv, PuttingPath, Deleting
  <2>6. \A d \in Callers : PuttingPath(d)' => calls'[d].src \in Sources
    BY <2>2, <2>3 DEF CopyInv, PuttingPath
  <2>7. \A d \in Callers :
           /\ At(d, "put_path", "rename")' => shard'
           /\ At(d, "put_path", "copy")' => source'[calls'[d].src] = None
           /\ ~At(d, "put_path", "onto")' /\ ~At(d, "put_path", "fill")'
    BY <2>1, <2>2 DEF CopyInv, At
  <2> QED
    BY <1>s, <2>1, <2>5, <2>6, <2>7 DEF CopyInv
<1>2. ASSUME NEW c \in Callers, PutKnown(c) PROVE CopyInv'
  BY <1>2, <1>d, <1>r DEF PutKnown
<1>3. ASSUME NEW c \in Callers,
             PutUnknown(c) \/ GetCheck(c) \/ DeleteCheck(c)
      PROVE  CopyInv'
  <2>1. /\ calls[c] # None /\ UNCHANGED <<shard, source>>
        /\ Return(c) \/ GoTo(c, "mkdir") \/ GoTo(c, "read") \/ GoTo(c, "unlink")
    BY <1>3 DEF PutUnknown, GetCheck, DeleteCheck, At
  <2> QED
    BY <1>d, <1>g, <1>r, <2>1
<1>4. ASSUME NEW c \in Callers, PutMkdir(c) PROVE CopyInv'
  <2> DEFINE step == IF calls[c].op = "put" THEN "open" ELSE "rename"
  <2>0. PICK next : next = [calls[c] EXCEPT !.step = step, !.disturbed = FALSE]
    OBVIOUS
  <2>1. /\ calls[c] # None /\ calls[c] \in CallStates
        /\ calls' = [calls EXCEPT ![c] = next]
        /\ shard' = TRUE /\ source' = source
    BY <1>4, <1>t, <2>0 DEF PutMkdir, At
  <2>2. /\ next.op = calls[c].op /\ next.src = calls[c].src
        /\ next.step \notin {"copy", "onto", "fill"}
    BY <2>0, <2>1 DEF CallStates
  <2>3. /\ calls'[c] = next
        /\ \A d \in Callers : d # c => calls'[d] = calls[d]
    BY <1>t, <2>1 DEF Typed
  <2>4. \A d \in Callers :
           /\ PuttingPath(d)' => PuttingPath(d) /\ calls'[d].src = calls[d].src
           /\ Deleting(d)' => Deleting(d)
           /\ At(d, "put_path", "copy")' => At(d, "put_path", "copy")
           /\ At(d, "put_path", "onto")' => At(d, "put_path", "onto")
           /\ At(d, "put_path", "fill")' => At(d, "put_path", "fill")
    BY <2>1, <2>2, <2>3 DEF PuttingPath, Deleting, At
  <2>5. \A d \in Callers :
           At(d, "put_path", "copy")' => source'[calls'[d].src] = None
    BY <2>1, <2>4 DEF CopyInv, At, PuttingPath
  <2> QED
    BY <1>s, <2>1, <2>4, <2>5 DEF CopyInv
<1>5. ASSUME NEW c \in Callers, PutOpen(c) \/ PutWrite(c) PROVE CopyInv'
  <2>1. /\ calls[c] # None /\ calls[c] \in CallStates /\ calls[c].op = "put"
        /\ UNCHANGED <<shard, source>>
    BY <1>5, <1>t DEF PutOpen, PutWrite, At
  <2>2. PICK next : /\ next.op = calls[c].op /\ next.src = calls[c].src
                    /\ calls' = [calls EXCEPT ![c] = next]
    <3>1. CASE PutOpen(c)
      <4>1. PICK next : next = [calls[c] EXCEPT !.step = "write", !.at = "tmp"]
        OBVIOUS
      <4> QED
        BY <2>1, <3>1, <4>1 DEF PutOpen, CallStates
    <3>2. CASE PutWrite(c)
      <4>1. PICK next : next = [calls[c] EXCEPT !.step = "rename", !.at = None]
        OBVIOUS
      <4> QED
        BY <2>1, <3>2, <4>1 DEF PutWrite, CallStates
    <3> QED
      BY <1>5, <3>1, <3>2
  <2>3. \A d \in Callers : calls'[d] # None => Steady(d)
    BY <1>t, <2>1, <2>2 DEF Steady, Typed
  <2> QED
    BY <1>d, <2>1, <2>3, CopySteady
<1>6. ASSUME NEW c \in Callers, PutWriteFails(c) \/ PutRaises(c) \/ GetRead(c)
      PROVE  CopyInv'
  BY <1>6, <1>d, <1>r DEF PutWriteFails, PutRaises, GetRead
<1>7. ASSUME NEW c \in Callers, PutRename(c) PROVE CopyInv'
  <2> DEFINE h == calls[c].hash
  <2>1. \A d \in Callers : calls[d] # None => calls[d].at = None
    BY <1>7 DEF PutRename, PutInv, At, Putting, Handle
  <2>2. Moved(calls, Calling("hash", h), "object", None) = calls
    BY <1>t, <2>1, NoneIsNothing DEF Moved, Typed
  <2>3. Moved(calls, Calling("hash", h), "tmp", "object") = calls
    BY <1>t, <2>1, NoneIsNothing DEF Moved, Typed
  <2>4. Return(c) /\ UNCHANGED <<shard, source>>
    BY <1>7, <2>2, <2>3 DEF PutRename, Return, Replaced
  <2> QED
    BY <1>d, <1>r, <2>4
<1>8. ASSUME NEW c \in Callers, PutPathRename(c) PROVE CopyInv'
  <2>1. calls[c].hash \in Hashes
    BY <1>8, <1>t DEF PutPathRename, At, CallStates
  <2>2. /\ Return(c) /\ shard' = shard
        /\ source' = [source EXCEPT ![calls[c].src] = None]
    BY <1>8, <2>1, NoneMoved DEF PutPathRename, Return
  <2> QED
    BY <1>d, <1>r, <2>2
<1>9. ASSUME NEW c \in Callers, PutPathFallsBack(c) PROVE CopyInv'
  <2>1. /\ At(c, "put_path", "rename") /\ PuttingPath(c)
        /\ GoTo(c, "copy") /\ UNCHANGED <<shard, source>>
    BY <1>9 DEF PutPathFallsBack, At, PuttingPath
  <2>2. source[calls[c].src] = None
    BY <1>9, <2>1 DEF PutPathFallsBack, CopyInv
  <2>3. /\ calls'[c].step = "copy" /\ calls'[c].op = calls[c].op
        /\ calls'[c].src = calls[c].src
        /\ \A d \in Callers : d # c => calls'[d] = calls[d]
    BY <1>t, <2>1, CallGoesOn DEF PuttingPath, Steps
  <2> QED
    BY <2>1, <2>2, <2>3 DEF CopyInv, PuttingPath, Deleting, At
<1>10. ASSUME NEW c \in Callers, DeleteUnlink(c) PROVE CopyInv'
  <2>1. calls[c] # None /\ UNCHANGED <<shard, source>>
    BY <1>10 DEF DeleteUnlink, At
  <2>2. Return(c) \/ GoTo(c, "rmdir")
    BY <1>10, NoneMoved DEF DeleteUnlink, GoTo
  <2> QED
    BY <1>d, <1>g, <1>r, <2>1, <2>2
<1>11. ASSUME NEW c \in Callers, DeleteRmdir(c) PROVE CopyInv'
  <2>1. /\ Deleting(c) /\ source' = source
        /\ \/ calls' = [calls EXCEPT ![c] = None]
           \/ calls' = [Disturb(calls) EXCEPT ![c] = None]
    BY <1>11 DEF DeleteRmdir, At, Deleting
  <2>2. \A d \in Callers : ~PuttingPath(d)
    BY <2>1 DEF CopyInv
  <2>3. \A d \in Callers : calls'[d] # None =>
           calls[d] # None /\ calls'[d].op = calls[d].op
    BY <1>t, <2>1 DEF Typed, CallStates, Disturb
  <2>4. \A d \in Callers : ~PuttingPath(d)'
    BY <2>2, <2>3 DEF PuttingPath
  <2> QED
    BY <1>s, <2>1, <2>4 DEF CopyInv, PuttingPath, At
<1>12. CASE Crash(Callers)
  <2>1. /\ \A d \in Callers : calls'[d] = None
        /\ UNCHANGED <<shard, source>>
    BY <1>12 DEF Crash
  <2> QED
    BY <1>d, <2>1, CopySteady
<1>13. ASSUME NEW s \in Sources, SourceGone(s) PROVE CopyInv'
  <2>1. UNCHANGED <<shard, calls>> /\ source' = [source EXCEPT ![s] = None]
    BY <1>13 DEF SourceGone
  <2> QED
    BY <1>d, <2>1, CopySteady DEF Steady
<1>14. ASSUME NEW s \in Sources, NEW h \in Hashes, Merge(s, h) PROVE CopyInv'
  <2>1. /\ UNCHANGED <<shard, calls>> /\ source' = [source EXCEPT ![s] = h]
        /\ \A c \in Callers : calls[c] # None => calls[c].src # s
    BY <1>14 DEF Merge, Calling
  <2>2. \A c \in Callers : calls[c] # None /\ calls[c].src \in Sources =>
           source'[calls[c].src] = source[calls[c].src]
    BY <1>s, <2>1
  <2> QED
    BY <1>s, <2>1, <2>2 DEF CopyInv, At, PuttingPath, Deleting
<1>15. CASE UNCHANGED vars
  BY <1>15, <1>d, CopySteady DEF vars, Steady
<1> QED
  BY <1>1, <1>2, <1>3, <1>4, <1>5, <1>6, <1>7, <1>8, <1>9, <1>10, <1>11, <1>12,
     <1>13, <1>14, <1>15
  DEF ApartNext, Proceed, UploadNext

LEMMA DirCorrect == ApartSpec => [](PutInv /\ DirInv /\ CopyInv)
<1>1. Init => DirInv /\ CopyInv
  <2> SUFFICES ASSUME Init PROVE DirInv /\ CopyInv
    OBVIOUS
  <2>1. \A c \in Callers : calls[c] = None
    BY DEF Init
  <2>2. DirInv
    BY <2>1, NoneIsNothing DEF Init, DirInv, Empty, Needs, At
  <2>3. CopyInv
    BY <2>1 DEF Init, CopyInv, PuttingPath, At
  <2> QED
    BY <2>2, <2>3
<1> QED
  BY <1>1, PutInit, PutStep, DirStep, CopyStep, PTL DEF ApartSpec

(* Files, sources, calls and history have their types, and files lie in a   *)
(* directory that exists.                                                   *)
THEOREM TypeOKCorrect == ApartSpec => []TypeOK
<1>1. PutInv /\ DirInv /\ CopyInv => TypeOK
  BY DEF PutInv, Typed, DirInv, CopyInv, TypeOK
<1> QED
  BY <1>1, DirCorrect, PTL

(* put raises FileNotFoundError only where a delete has removed the         *)
(* directory since it made it: not for leftovers of a crash, nor for other  *)
(* puts and put_paths, nor for other hashes of the shard.                   *)
THEOREM RaisesOnlyDisturbedCorrect == ApartSpec => []RaisesOnlyDisturbed
<1>1. PutInv /\ DirInv => RaisesOnlyDisturbed
  BY NoneIsNothing
  DEF PutInv, DirInv, RaisesOnlyDisturbed, PutStranded, Needs, At
<1> QED
  BY <1>1, DirCorrect, PTL

(* With gc kept away from completes put_path's rename fails only for want   *)
(* of its source: what falls back to the copy finds nothing to copy.        *)
THEOREM CopiesNothingCorrect == ApartSpec => []CopiesNothing
<1>1. CopyInv => CopiesNothing
  BY DEF CopyInv, CopiesNothing
<1> QED
  BY <1>1, DirCorrect, PTL

(* So the steps of the copy, which ApartSpec leaves out, can be added to it *)
(* without adding a behaviour: no object is ever written in place.          *)
CopyToo == ApartNext \/ \E c \in Callers : CopyInPlace(c)

THEOREM CopyNeverHappens == Init /\ [][CopyToo]_vars => ApartSpec
<1>1. CopyInv => ~ \E c \in Callers : CopyInPlace(c)
  BY DEF CopyInv, CopyInPlace, PutPathCopy, PutPathOnto, PutPathFill,
         PutPathFillFails
<1>2. CopyInv /\ [CopyToo]_vars => [ApartNext]_vars
  BY <1>1 DEF CopyToo
<1>3. Init => PutInv /\ CopyInv
  <2>1. Init => CopyInv
    <3> SUFFICES ASSUME Init PROVE CopyInv
      OBVIOUS
    <3>1. \A c \in Callers : calls[c] = None
      BY DEF Init
    <3> QED
      BY <3>1 DEF Init, CopyInv, PuttingPath, At
  <2> QED
    BY <2>1, PutInit
<1>4. PutInv /\ CopyInv /\ [CopyToo]_vars => (PutInv /\ CopyInv)'
  BY <1>2, PutStep, CopyStep
<1> QED
  BY <1>2, <1>3, <1>4, PTL DEF ApartSpec
=============================================================================
