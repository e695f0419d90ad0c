-------------------------- MODULE MultipartProofs --------------------------
(***************************************************************************)
(* Multipart: what is claimed of multipart uploads, for any uploads, parts *)
(* and bodies.  Of any clients, the types of the state and that a receipt  *)
(* is stored; of clients with one call at a time, that the store holds     *)
(* what its hashes say, that acknowledged parts are kept until they are    *)
(* merged, and that a receipt is the whole of the upload.                  *)
(*                                                                         *)
(* The invariants build on one another: TypeInv for any client; OneCall,   *)
(* which says that no two calls meet on one upload; HandleInv, where the   *)
(* handles of complete lead; PartInv, which files hold what their clients  *)
(* know accepted; and WholeInv, how far a complete has copied.             *)
(***************************************************************************)
EXTENDS Multipart, SequenceTheorems, FiniteSetTheorems, TLAPS

(* ------------------------------------------------------------------------ *)
(* Numbers                                                                  *)
(* ------------------------------------------------------------------------ *)
(* A set of natural numbers has a least one.                                *)
LEMMA LeastNumber ==
  ASSUME NEW T, T \subseteq Nat, T # {}
  PROVE  \E n \in T : \A m \in T : n <= m
<1>1. PICK n \in T : \A m \in T : <<m, n>> \notin OpToRel(<, Nat)
  BY NatLessThanWellFounded, WFMin
<1>2. \A m \in T : <<m, n>> \in OpToRel(<, Nat) <=> m < n
  BY DEF OpToRel
<1>3. \A m \in T : ~(m < n) /\ m \in Nat /\ n \in Nat
  BY <1>1, <1>2
<1> QED
  BY <1>3

(* Least is what its name says.                                             *)
LEMMA LeastPart ==
  ASSUME NEW ns \in SUBSET PartNos, ns # {}
  PROVE  Least(ns) \in ns /\ \A m \in ns : Least(ns) <= m
<1>0. ns \subseteq Nat
  BY MaxPartIsPos DEF PartNos
<1>1. \E n \in ns : \A m \in ns : n <= m
  BY <1>0, LeastNumber
<1> QED
  BY <1>1 DEF Least

(* ------------------------------------------------------------------------ *)
(* Files                                                                    *)
(* ------------------------------------------------------------------------ *)
(* Contents and files are the short sequences.                              *)
LEMMA ContentIsSeq ==
  ASSUME NEW s
  PROVE  s \in Contents <=> s \in Seq(Chunks) /\ Len(s) <= MaxPart
<1>1. ASSUME s \in Contents
      PROVE  s \in Seq(Chunks) /\ Len(s) <= MaxPart
  <2> PICK n \in 0..MaxPart : s \in [1..n -> Chunks]
    BY <1>1 DEF Contents
  <2> QED
    BY MaxPartIsPos, ElementOfSeq, IsASeq, LenProperties
<1>2. ASSUME s \in Seq(Chunks), Len(s) <= MaxPart
      PROVE  s \in Contents
  <2>1. Len(s) \in 0..MaxPart /\ s \in [1..Len(s) -> Chunks]
    BY <1>2, MaxPartIsPos, LenProperties
  <2> QED
    BY <2>1 DEF Contents
<1> QED
  BY <1>1, <1>2

LEMMA FileIsSeq ==
  ASSUME NEW s
  PROVE  s \in Files <=> s \in Seq(Chunks \cup {Hole}) /\ Len(s) <= MaxPart
<1>1. ASSUME s \in Files
      PROVE  s \in Seq(Chunks \cup {Hole}) /\ Len(s) <= MaxPart
  <2> PICK n \in 0..MaxPart : s \in [1..n -> Chunks \cup {Hole}]
    BY <1>1 DEF Files
  <2> QED
    BY MaxPartIsPos, ElementOfSeq, IsASeq, LenProperties
<1>2. ASSUME s \in Seq(Chunks \cup {Hole}), Len(s) <= MaxPart
      PROVE  s \in Files
  <2>1. Len(s) \in 0..MaxPart /\ s \in [1..Len(s) -> Chunks \cup {Hole}]
    BY <1>2, MaxPartIsPos, LenProperties
  <2> QED
    BY <2>1 DEF Files
<1> QED
  BY <1>1, <1>2

LEMMA ContentsAreFiles == Contents \subseteq Files
  BY DEF Contents, Files

(* The body of a part is a content of at most one chunk.                    *)
LEMMA BodyIsContent ==
  ASSUME NEW x \in Bodies
  PROVE  /\ x \in Contents /\ x \in Seq(Chunks)
         /\ Len(x) \in Nat /\ Len(x) <= 1
         /\ x # <<>> => Len(x) = 1
<1>0. 0 <= MaxPart /\ 1 <= MaxPart
  BY MaxPartIsPos
<1>1. CASE x = <<>>
  <2>1. <<>> \in Seq(Chunks) /\ Len(<<>>) = 0
    BY EmptySeq
  <2>2. x \in Seq(Chunks) /\ Len(x) = 0
    BY <1>1, <2>1
  <2>3. x \in Contents
    BY <1>0, <2>2, ContentIsSeq
  <2> QED
    BY <1>1, <2>2, <2>3
<1>2. CASE \E ch \in Chunks : x = <<ch>>
  <2> PICK ch \in Chunks : x = <<ch>>
    BY <1>2
  <2>1. <<ch>> \in Seq(Chunks) /\ Len(<<ch>>) = 1
    OBVIOUS
  <2>2. x \in Seq(Chunks) /\ Len(x) = 1
    BY <2>1
  <2>3. x \in Contents
    BY <1>0, <2>2, ContentIsSeq
  <2> QED
    BY <2>2, <2>3
<1> QED
  BY <1>1, <1>2 DEF Bodies

(* A write within the bound leaves a file a file.                           *)
LEMMA WriteAtType ==
  ASSUME NEW f \in Files, NEW x \in Bodies, NEW k \in Nat,
         k + Len(x) <= MaxPart
  PROVE  WriteAt(f, k, x) \in Files
<1>1. f \in Seq(Chunks \cup {Hole}) /\ Len(f) <= MaxPart /\ Len(f) \in Nat
  BY FileIsSeq, LenProperties
<1>2. x \in Seq(Chunks) /\ Len(x) \in Nat
  BY BodyIsContent
<1>3. CASE x = <<>>
  BY <1>3 DEF WriteAt
<1>4. CASE x # <<>>
  <2> DEFINE l == IF Len(f) > k + Len(x) THEN Len(f) ELSE k + Len(x)
             at(i) == IF i \in k + 1 .. k + Len(x) THEN x[i - k]
                      ELSE IF i <= Len(f) THEN f[i] ELSE Hole
  <2>1. l \in 0..MaxPart
    BY <1>1, <1>2
  <2>2. ASSUME NEW i \in 1..l PROVE at(i) \in Chunks \cup {Hole}
    <3>1. CASE i \in k + 1 .. k + Len(x)
      <4>1. i - k \in 1..Len(x)
        BY <3>1, <1>2
      <4> QED
        BY <1>2, <3>1, <4>1, ElementOfSeq
    <3>2. CASE i \notin k + 1 .. k + Len(x) /\ i <= Len(f)
      <4>1. i \in 1..Len(f)
        BY <3>2, <1>1, <2>1
      <4> QED
        BY <1>1, <3>2, <4>1, ElementOfSeq
    <3>3. CASE i \notin k + 1 .. k + Len(x) /\ ~(i <= Len(f))
      BY <3>3
    <3> QED
      BY <3>1, <3>2, <3>3
  <2>3. WriteAt(f, k, x) = [i \in 1..l |-> at(i)]
    BY <1>4 DEF WriteAt
  <2> HIDE DEF l, at
  <2>4. WriteAt(f, k, x) \in [1..l -> Chunks \cup {Hole}]
    BY <2>2, <2>3
  <2> QED
    BY <2>1, <2>4 DEF Files
<1> QED
  BY <1>3, <1>4

(* A part appended to a content makes a content, if it fits.                *)
LEMMA Appended ==
  ASSUME NEW s \in Contents, NEW x \in Bodies, Len(s) + Len(x) <= MaxPart
  PROVE  /\ s \o x \in Contents
         /\ Len(s \o x) = Len(s) + Len(x)
<1>1. s \in Seq(Chunks) /\ x \in Seq(Chunks)
  BY ContentIsSeq, BodyIsContent
<1> QED
  BY <1>1, ConcatProperties, ContentIsSeq

(* complete never outgrows the part number it is at.                        *)
LEMMA CopyFits ==
  ASSUME NEW s \in Contents, NEW x \in Bodies, NEW n \in PartNos, Len(s) < n
  PROVE  /\ Len(s) \in Nat /\ Len(s) + Len(x) <= MaxPart
         /\ s \o x \in Contents
         /\ \A m \in PartNos : n < m => Len(s \o x) < m
<1> PICK i \in Nat : i = Len(s)
  BY ContentIsSeq, LenProperties
<1>1. PICK j \in Nat : j = Len(x) /\ j <= 1
  BY BodyIsContent
<1>2. n \in Nat /\ n <= MaxPart /\ MaxPart \in Nat
  BY MaxPartIsPos DEF PartNos
<1>3. i + j <= n
  BY <1>1, <1>2
<1>4. Len(s) + Len(x) = i + j /\ Len(s) + Len(x) <= MaxPart
  BY <1>1, <1>2, <1>3
<1>5. s \o x \in Contents /\ Len(s \o x) = i + j
  BY <1>4, Appended
<1>6. ASSUME NEW m \in PartNos, n < m PROVE i + j < m
  BY <1>2, <1>3, <1>6 DEF PartNos
<1> QED
  BY <1>4, <1>5, <1>6

(* A write at the end of a file appends.                                    *)
LEMMA WriteAtEnd ==
  ASSUME NEW s \in Contents, NEW x \in Bodies
  PROVE  WriteAt(s, Len(s), x) = s \o x
<1>1. s \in Seq(Chunks) /\ x \in Seq(Chunks) /\ Len(s) \in Nat
  BY ContentIsSeq, BodyIsContent, LenProperties
<1>2. CASE x = <<>>
  BY <1>1, <1>2, ConcatEmptySeq DEF WriteAt
<1>3. CASE x # <<>>
  <2>1. Len(x) = 1
    BY <1>3, BodyIsContent
  <2>2. WriteAt(s, Len(s), x) =
          [i \in 1..Len(s) + 1 |-> IF i \in Len(s) + 1 .. Len(s) + 1
                                   THEN x[i - Len(s)]
                                   ELSE IF i <= Len(s) THEN s[i] ELSE Hole]
    BY <1>1, <1>3, <2>1 DEF WriteAt
  <2>3. WriteAt(s, Len(s), x) =
          [i \in 1..Len(s) + 1 |-> IF i <= Len(s) THEN s[i] ELSE x[i - Len(s)]]
    BY <1>1, <2>2
  <2>5. /\ s \o x \in Seq(Chunks) /\ Len(s \o x) = Len(s) + 1
        /\ \A i \in 1..Len(s) + 1 :
              (s \o x)[i] = IF i <= Len(s) THEN s[i] ELSE x[i - Len(s)]
    <3>1. /\ s \o x \in Seq(Chunks)
          /\ Len(s \o x) = Len(s) + Len(x)
          /\ \A i \in 1 .. Len(s) + Len(x) : (s \o x)[i] =
                IF i <= Len(s) THEN s[i] ELSE x[i - Len(s)]
      BY <1>1, ConcatProperties
    <3> QED
      BY <2>1, <3>1
  <2>4. s \o x \in [1..Len(s) + 1 -> Chunks]
    BY <2>5, LenProperties
  <2> QED
    BY <2>3, <2>4, <2>5
<1> QED
  BY <1>2, <1>3

(* write_part writes the whole of its file.                                 *)
LEMMA WritePart ==
  ASSUME NEW p \in Bodies, NEW x \in Bodies
  PROVE  /\ WriteAt(p, 0, x) \in Bodies
         /\ WriteAt(<<>>, 0, x) = x
<1>1. CASE x = <<>>
  BY <1>1 DEF WriteAt
<1>2. CASE x # <<>>
  <2>1. PICK ch \in Chunks : x = <<ch>>
    BY <1>2 DEF Bodies
  <2>2. /\ Len(p) \in Nat /\ Len(p) <= 1
        /\ Len(x) = 1 /\ x[1] = ch /\ Len(<<>>) = 0
    BY <2>1, BodyIsContent
  <2>3. ASSUME NEW q \in {p, <<>>} PROVE WriteAt(q, 0, x) = <<ch>>
    <3>1. Len(q) \in Nat /\ Len(q) <= 1
      BY <2>2, <2>3
    <3>2. (IF Len(q) > 0 + Len(x) THEN Len(q) ELSE 0 + Len(x)) = 1
      BY <2>2, <3>1
    <3>3. WriteAt(q, 0, x) =
            [i \in 1..1 |-> IF i \in 0 + 1 .. 0 + Len(x) THEN x[i - 0]
                            ELSE IF i <= Len(q) THEN q[i] ELSE Hole]
      BY <1>2, <3>2 DEF WriteAt
    <3>4. WriteAt(q, 0, x) = [i \in 1..1 |-> ch]
      BY <2>2, <3>3
    <3> QED
      BY <3>4
  <2> QED
    BY <2>1, <2>3 DEF Bodies
<1> QED
  BY <1>1, <1>2

(* ------------------------------------------------------------------------ *)
(* Calls                                                                    *)
(* ------------------------------------------------------------------------ *)
(* Nothing the model marks states with is a file.                           *)
LEMMA Markers ==
  /\ None \notin Files /\ None \notin Contents /\ None \notin Bodies
  /\ Merged \notin Contents /\ Unlinked \notin Contents
  /\ Unacked \notin Contents /\ Unacked \notin Bodies
  /\ None # Merged /\ None # Unlinked /\ None # Unacked /\ Merged # Unlinked
<1>1. Contents \subseteq Files /\ Bodies \subseteq Contents
  BY ContentsAreFiles, BodyIsContent
<1> QED
  BY <1>1, MarkersMarkNothing

(* The empty file is a body, a content and a file.                          *)
LEMMA EmptyFile ==
  <<>> \in Bodies /\ <<>> \in Contents /\ <<>> \in Files /\ Len(<<>>) = 0
<1>1. <<>> \in Bodies
  BY DEF Bodies
<1> QED
  BY <1>1, BodyIsContent, ContentsAreFiles

(* A call under way is a record of its locals.                              *)
LEMMA CallType ==
  ASSUME TypeOK, NEW c \in Completers, completing[c] # None
  PROVE  /\ completing[c] \in CompleteCalls
         /\ completing[c].upload \in Uploads
         /\ completing[c].step \in {"list", "open", "copy", "commit", "cleanup"}
         /\ completing[c].parts \in SUBSET PartNos
         /\ completing[c].left \in SUBSET PartNos
         /\ completing[c].out \in Contents
         /\ completing[c].at \in Contents \cup {None, Merged, Unlinked}
  BY DEF TypeOK, CompleteCalls

(* Likewise the locals of a write_part.                                     *)
LEMMA WriteType ==
  ASSUME TypeOK, NEW w \in Writers, writing[w] # None
  PROVE  /\ writing[w] \in WriteCalls
         /\ writing[w].upload \in Uploads
         /\ writing[w].n \in PartNos
         /\ writing[w].body \in Bodies
         /\ writing[w].opened \in BOOLEAN
         /\ writing[w].linked \in BOOLEAN
  BY DEF TypeOK, WriteCalls

(* Handles of other calls follow merged.bin; nothing else of them changes.  *)
SameButAt(k, l) ==
  /\ l.upload = k.upload /\ l.step = k.step /\ l.parts = k.parts
  /\ l.left = k.left /\ l.out = k.out
  /\ l.created = k.created /\ l.seen = k.seen

LEMMA Redirected ==
  ASSUME TypeOK, NEW u \in Uploads, NEW to \in Contents \cup {Unlinked},
         NEW d \in Completers
  PROVE  LET now == Redirect(u, to)[d] IN
         /\ now \in CompleteCalls \cup {None}
         /\ now = None <=> completing[d] = None
         /\ completing[d] # None =>
              /\ SameButAt(completing[d], now)
              /\ now.at = IF /\ completing[d].upload = u
                             /\ completing[d].at = Merged
                          THEN to ELSE completing[d].at
<1> PICK k : k = completing[d]
  OBVIOUS
<1>1. k # None => k \in CompleteCalls
  BY DEF TypeOK
<1>2. CASE k # None /\ k.upload = u /\ k.at = Merged
  <2>1. Redirect(u, to)[d] = [k EXCEPT !.at = to]
    BY <1>2 DEF Redirect, CallsOf
  <2>2. /\ [k EXCEPT !.at = to] \in CompleteCalls
        /\ SameButAt(k, [k EXCEPT !.at = to])
        /\ [k EXCEPT !.at = to].at = to
    BY <1>1, <1>2 DEF CompleteCalls, SameButAt
  <2> QED
    BY <1>2, <2>1, <2>2, MarkersMarkNothing
<1>3. CASE ~(k # None /\ k.upload = u /\ k.at = Merged)
  <2>1. Redirect(u, to)[d] = k
    BY <1>3 DEF Redirect, CallsOf
  <2> QED
    BY <1>1, <1>3, <2>1 DEF SameButAt
<1> QED
  BY <1>2, <1>3

(* The calls keep their type when a file is moved,                          *)
LEMMA RedirectType ==
  ASSUME TypeOK, NEW u \in Uploads, NEW to \in Contents \cup {Unlinked}
  PROVE  Redirect(u, to) \in [Completers -> CompleteCalls \cup {None}]
<1>1. \A d \in Completers : Redirect(u, to)[d] \in CompleteCalls \cup {None}
  BY Redirected
<1> QED
  BY <1>1 DEF Redirect

(* Unlinking a part file detaches the handles on it.                        *)
LEMMA Detached ==
  ASSUME TypeOK, NEW u \in Uploads, NEW ns \in SUBSET PartNos,
         NEW w \in Writers
  PROVE  LET now == Detach(u, ns)[w] IN
         /\ now \in WriteCalls \cup {None}
         /\ now = None <=> writing[w] = None
         /\ writing[w] # None =>
              /\ now.upload = writing[w].upload
              /\ now.n = writing[w].n
              /\ now.body = writing[w].body
              /\ now.opened = writing[w].opened
              /\ now.linked => writing[w].linked
              /\ IF writing[w].upload = u /\ writing[w].n \in ns
                 THEN ~now.linked ELSE now.linked = writing[w].linked
<1> PICK k : k = writing[w]
  OBVIOUS
<1>1. k # None => k \in WriteCalls
  BY DEF TypeOK
<1>2. CASE k # None /\ k.upload = u /\ k.n \in ns
  <2>1. Detach(u, ns)[w] = [k EXCEPT !.linked = FALSE]
    BY <1>2 DEF Detach, WritersOf
  <2> DEFINE now == [k EXCEPT !.linked = FALSE]
  <2>2. /\ now \in WriteCalls
        /\ now.upload = k.upload /\ now.n = k.n
        /\ now.body = k.body /\ now.opened = k.opened
        /\ now.linked = FALSE
    BY <1>1, <1>2 DEF WriteCalls
  <2>3. now # None
    BY <2>2, MarkersMarkNothing
  <2> HIDE DEF now
  <2> QED
    BY <1>2, <2>1, <2>2, <2>3 DEF now
<1>3. CASE ~(k # None /\ k.upload = u /\ k.n \in ns)
  <2>1. Detach(u, ns)[w] = k
    BY <1>3 DEF Detach, WritersOf
  <2> QED
    BY <1>1, <1>3, <2>1
<1> QED
  BY <1>2, <1>3

(* The calls keep their type when files are unlinked.                       *)
LEMMA DetachType ==
  ASSUME TypeOK, NEW u \in Uploads, NEW ns \in SUBSET PartNos
  PROVE  Detach(u, ns) \in [Writers -> WriteCalls \cup {None}]
<1>1. \A w \in Writers : Detach(u, ns)[w] \in WriteCalls \cup {None}
  BY Detached
<1> QED
  BY <1>1 DEF Detach

(* ------------------------------------------------------------------------ *)
(* Types, of any clients                                                    *)
(* ------------------------------------------------------------------------ *)
(* The part file of a call that is linked to one is there.                  *)
LinksOK ==
  \A w \in Writers : writing[w] # None /\ writing[w].linked =>
     /\ writing[w].opened
     /\ part[writing[w].upload][writing[w].n] # None

(* What complete has copied is no longer than the numbers of the parts it   *)
(* has passed, and its handle leads to a file, if it leads anywhere.        *)
CallOK(k) ==
  /\ k.step \in {"list", "open"} => k.out = <<>>
  /\ k.step \in {"list", "open", "copy"} => \A n \in k.left : Len(k.out) < n
  /\ k.at = Merged => merged[k.upload] # None
  /\ k.at \in Contents => object[k.at] # None

CallsOK == \A c \in Completers : completing[c] # None => CallOK(completing[c])

TypeInv == TypeOK /\ LinksOK /\ CallsOK

(* The steps, with the bodies that clients send among all bodies.           *)
LEMMA NextCases ==
  ASSUME [Next]_vars
  PROVE  \/ \E u \in Uploads : \/ Create(u) \/ CreateFails(u)
                               \/ AbortRow(u) \/ AbortFiles(u)
         \/ \E w \in Writers, u \in Uploads, n \in PartNos :
               \E body \in Bodies : WritePartCheck(w, u, n, body)
         \/ \E w \in Writers : \/ WritePartOpen(w) \/ WritePartEnd(w)
                               \/ WritePartBreaks(w)
         \/ \E c \in Completers, u \in Uploads : CompleteCheck(c, u)
         \/ \E c \in Completers :
               \/ CompleteList(c) \/ CompleteOpen(c) \/ CompleteCopy(c)
               \/ CompleteRefused(c) \/ CompleteStore(c) \/ CompleteCommit(c)
               \/ CompleteFails(c) \/ CompleteUnlink(c) \/ CompleteEnd(c)
         \/ Crash
         \/ UNCHANGED vars
<1>1. \A u \in Uploads, n \in PartNos : Sends[u][n] \subseteq Bodies
  BY SendsBodies
<1> QED
  BY <1>1 DEF Next, Proceed

(* They hold at first.                                                      *)
LEMMA TypeInit == Init => TypeInv
<1> SUFFICES ASSUME Init PROVE TypeInv
  OBVIOUS
<1>1. TypeOK
  BY Markers DEF Init, TypeOK, PartsOf
<1>2. LinksOK /\ CallsOK
  BY DEF Init, LinksOK, CallsOK
<1> QED
  BY <1>1, <1>2 DEF TypeInv

(* Steps that touch neither handles nor files keep the handles,             *)
LEMMA CallsKept ==
  ASSUME CallsOK, UNCHANGED <<completing, merged, object>>
  PROVE  CallsOK'
  BY DEF CallsOK, CallOK

(* and steps that touch neither calls nor parts keep the links.             *)
LEMMA LinksKept ==
  ASSUME LinksOK, UNCHANGED <<writing, part>>
  PROVE  LinksOK'
  BY DEF LinksOK

(* create and abort keep the types.                                         *)
LEMMA TypeUploads ==
  ASSUME TypeInv, NEW u \in Uploads,
         Create(u) \/ CreateFails(u) \/ AbortRow(u) \/ AbortFiles(u)
  PROVE  TypeInv'
<1> USE DEF TypeInv
<1>1. CASE Create(u)
  <2>1. TypeOK'
    BY <1>1 DEF Create, TypeOK, PartsOf, calls, history
  <2> QED
    BY <1>1, <2>1, CallsKept, LinksKept DEF Create, calls
<1>2. CASE CreateFails(u)
  <2>1. TypeOK'
    BY <1>2 DEF CreateFails, TypeOK, PartsOf, calls, history, tables
  <2> QED
    BY <1>2, <2>1, CallsKept, LinksKept DEF CreateFails, calls
<1>3. CASE AbortRow(u)
  <2>1. TypeOK'
    BY <1>3 DEF AbortRow, TypeOK, PartsOf, files, history
  <2> QED
    BY <1>3, <2>1, CallsKept, LinksKept DEF AbortRow, files
<1>4. CASE AbortFiles(u)
  <2>1. /\ part' = [part EXCEPT ![u] = [n \in PartNos |-> None]]
        /\ merged' = [merged EXCEPT ![u] = None]
        /\ dir' = dir \ {u}
        /\ aborting' = aborting \ {u}
        /\ writing' = Detach(u, PartNos)
        /\ completing' = Redirect(u, Unlinked)
        /\ UNCHANGED <<row, receipt, blobs, object, sent, refused>>
    BY <1>4 DEF AbortFiles, tables, history
  <2>2. /\ writing' \in [Writers -> WriteCalls \cup {None}]
        /\ completing' \in [Completers -> CompleteCalls \cup {None}]
    BY <2>1, DetachType, RedirectType
  <2>3. TypeOK'
    BY <2>1, <2>2 DEF TypeOK, PartsOf
  <2>4. ASSUME NEW w \in Writers, writing'[w] # None, writing'[w].linked
        PROVE  /\ writing'[w].opened
               /\ part'[writing'[w].upload][writing'[w].n] # None
    <3> PICK now : now = writing'[w]
      OBVIOUS
    <3>1. /\ writing[w] # None
          /\ now.upload = writing[w].upload /\ now.n = writing[w].n
          /\ now.opened = writing[w].opened
          /\ writing[w].linked
          /\ ~(now.upload = u)
      BY <2>1, <2>4, Detached, WriteType
    <3>2. writing[w].opened /\ part[now.upload][now.n] # None
      BY <3>1 DEF LinksOK
    <3> QED
      BY <2>1, <3>1, <3>2, WriteType DEF TypeOK
  <2>5. ASSUME NEW c \in Completers, completing'[c] # None
        PROVE  CallOK(completing[c])'
    <3> PICK k, l : k = completing[c] /\ l = completing'[c]
      OBVIOUS
    <3>1. /\ k # None /\ SameButAt(k, l)
          /\ l.at = IF k.upload = u /\ k.at = Merged THEN Unlinked ELSE k.at
      BY <2>1, <2>5, Redirected
    <3>2. CallOK(k)
      BY <3>1 DEF CallsOK
    <3>3. k.upload \in Uploads
      BY <3>1, CallType
    <3> QED
      BY <2>1, <3>1, <3>2, <3>3, Markers DEF CallOK, SameButAt, TypeOK
  <2> QED
    BY <2>3, <2>4, <2>5 DEF LinksOK, CallsOK
<1> QED
  BY <1>1, <1>2, <1>3, <1>4

(* write_part keeps the types.                                              *)
LEMMA TypeWrites ==
  ASSUME TypeInv, NEW w \in Writers,
         \/ \E u \in Uploads, n \in PartNos, body \in Bodies :
               WritePartCheck(w, u, n, body)
         \/ WritePartOpen(w) \/ WritePartEnd(w) \/ WritePartBreaks(w)
  PROVE  TypeInv'
<1> USE DEF TypeInv
<1>1. CASE \E u \in Uploads, n \in PartNos, body \in Bodies :
              WritePartCheck(w, u, n, body)
  <2> PICK u \in Uploads, n \in PartNos, body \in Bodies :
              WritePartCheck(w, u, n, body)
    BY <1>1
  <2> PICK now : now = [upload |-> u, n |-> n, body |-> body,
                        opened |-> FALSE, linked |-> FALSE]
    OBVIOUS
  <2>1. now \in WriteCalls /\ ~now.linked
    BY DEF WriteCalls
  <2>2. /\ writing' = [writing EXCEPT ![w] = now]
        /\ sent' = [sent EXCEPT ![u][n] = Unacked]
        /\ UNCHANGED <<row, receipt, dir, part, merged, object, blobs,
                       completing, aborting, refused>>
    BY DEF WritePartCheck, tables, files
  <2>3. TypeOK'
    BY <2>1, <2>2 DEF TypeOK, PartsOf
  <2>4. LinksOK'
    BY <2>1, <2>2 DEF LinksOK, TypeOK
  <2> QED
    BY <2>2, <2>3, <2>4, CallsKept
<1>2. CASE WritePartOpen(w)
  <2> PICK k : k = writing[w]
    OBVIOUS
  <2> PICK now : now = [k EXCEPT !.opened = TRUE, !.linked = TRUE]
    OBVIOUS
  <2>0. k # None /\ k.upload \in Uploads /\ k.n \in PartNos
    BY <1>2, WriteType DEF WritePartOpen
  <2>1. /\ now \in WriteCalls /\ now.opened
        /\ now.upload = k.upload /\ now.n = k.n
    BY <2>0, WriteType DEF WriteCalls
  <2>2. /\ writing' = [writing EXCEPT ![w] = now]
        /\ dir' = dir \cup {k.upload}
        /\ part' = [part EXCEPT ![k.upload][k.n] = <<>>]
        /\ UNCHANGED <<row, receipt, merged, object, blobs, completing,
                       aborting, sent, refused>>
    BY <1>2 DEF WritePartOpen, tables, history, TypeOK
  <2>3. TypeOK'
    BY <2>0, <2>1, <2>2, EmptyFile DEF TypeOK, PartsOf
  <2>4. LinksOK'
    BY <2>0, <2>1, <2>2, EmptyFile, Markers, WriteType DEF LinksOK, TypeOK
  <2> QED
    BY <2>2, <2>3, <2>4, CallsKept
<1>3. CASE WritePartEnd(w) \/ WritePartBreaks(w)
  <2> PICK k : k = writing[w]
    OBVIOUS
  <2>0. k # None /\ k.upload \in Uploads /\ k.n \in PartNos /\ k.body \in Bodies
    BY <1>3, WriteType DEF WritePartEnd, WritePartBreaks
  <2>1. PICK x \in Bodies :
           part' = IF k.linked
                   THEN [part EXCEPT ![k.upload][k.n] = WriteAt(@, 0, x)]
                   ELSE part
    BY <1>3, <2>0, EmptyFile DEF WritePartEnd, WritePartBreaks
  <2>2. /\ writing' = [writing EXCEPT ![w] = None]
        /\ sent' = sent \/ sent' = [sent EXCEPT ![k.upload][k.n] = k.body]
        /\ UNCHANGED <<row, receipt, dir, merged, object, blobs, completing,
                       aborting, refused>>
    BY <1>3 DEF WritePartEnd, WritePartBreaks, tables, history
  <2>3. k.linked => /\ part[k.upload][k.n] \in Bodies
                    /\ WriteAt(part[k.upload][k.n], 0, x) \in Bodies
    BY <2>0, WritePart DEF LinksOK, TypeOK
  <2>4. /\ part' \in [Uploads -> [PartNos -> Bodies \cup {None}]]
        /\ \A u \in Uploads, n \in PartNos :
              part'[u][n] # None <=> part[u][n] # None
    BY <2>0, <2>1, <2>3, Markers DEF TypeOK
  <2>5. sent' \in [Uploads -> [PartNos -> Bodies \cup {None, Unacked}]]
    <3>1. sent' = sent =>
             sent' \in [Uploads -> [PartNos -> Bodies \cup {None, Unacked}]]
      BY DEF TypeOK
    <3>2. [sent EXCEPT ![k.upload][k.n] = k.body]
             \in [Uploads -> [PartNos -> Bodies \cup {None, Unacked}]]
      BY <2>0 DEF TypeOK
    <3> QED
      BY <2>2, <3>1, <3>2
  <2>6. TypeOK'
    BY <2>2, <2>4, <2>5 DEF TypeOK, PartsOf
  <2>7. LinksOK'
    BY <2>2, <2>4, WriteType DEF LinksOK, TypeOK
  <2> QED
    BY <2>2, <2>6, <2>7, CallsKept
<1> QED
  BY <1>1, <1>2, <1>3

(* A step that changes the call of c and no other, and no file              *)
LEMMA OneCallKept ==
  ASSUME TypeInv, NEW c \in Completers, NEW k,
         completing' = [completing EXCEPT ![c] = k],
         k # None => k \in CompleteCalls /\ CallOK(k)',
         UNCHANGED <<merged, object>>
  PROVE  /\ completing' \in [Completers -> CompleteCalls \cup {None}]
         /\ CallsOK'
<1>1. completing' \in [Completers -> CompleteCalls \cup {None}]
  BY DEF TypeInv, TypeOK
<1>2. ASSUME NEW d \in Completers, completing'[d] # None
      PROVE  CallOK(completing[d])'
  <2>1. CASE d = c
    <3>1. completing'[d] = k
      BY <2>1 DEF TypeInv, TypeOK
    <3> QED
      BY <1>2, <3>1 DEF CallOK
  <2>2. CASE d # c
    <3>1. completing'[d] = completing[d]
      BY <2>2 DEF TypeInv, TypeOK
    <3> QED
      BY <1>2, <3>1 DEF TypeInv, CallsOK, CallOK
  <2> QED
    BY <2>1, <2>2
<1> QED
  BY <1>1, <1>2 DEF CallsOK

(* What copying part n of k, with the body x, comes to                      *)
CopyEffect(c, k, n, x) ==
  /\ \E now \in CompleteCalls :
        /\ completing' = [completing EXCEPT ![c] = now]
        /\ now.step = "copy" /\ now.at = k.at
        /\ now.upload = k.upload /\ now.out = k.out \o x
        /\ now.left = k.left \ {n}
  /\ merged' = IF k.at = Merged
               THEN [merged EXCEPT ![k.upload] = WriteAt(@, Len(k.out), x)]
               ELSE merged
  /\ object' = IF k.at \in Contents
               THEN [object EXCEPT ![k.at] = WriteAt(@, Len(k.out), x)]
               ELSE object
  /\ \A m \in PartNos : n < m => Len(k.out \o x) < m
  /\ merged' \in [Uploads -> Files \cup {None}]
  /\ \A v \in Uploads : merged'[v] # None <=> merged[v] # None
  /\ object' \in [Contents -> Files \cup {None}]
  /\ \A h \in Contents : object'[h] # None <=> object[h] # None

(* The next part is copied, or the call ends if it is not there any more.   *)
LEMMA CopyCases ==
  ASSUME TypeInv, NEW c \in Completers, CompleteCopy(c),
         NEW k, k = completing[c],
         NEW n, n = Least(k.left),
         NEW x, x = part[k.upload][n]
  PROVE  /\ k # None /\ k.step = "copy"
         /\ n \in PartNos /\ n \in k.left /\ \A m \in k.left : n <= m
         /\ UNCHANGED <<row, receipt, dir, part, blobs, writing, aborting, sent,
                        refused>>
         /\ x = None => Return(c) /\ UNCHANGED <<merged, object>>
         /\ x # None => x \in Bodies /\ CopyEffect(c, k, n, x)
<1> USE DEF TypeInv
<1>0. k # None /\ k.step = "copy" /\ k \in CompleteCalls /\ CallOK(k)
      /\ k.upload \in Uploads /\ k.left \in SUBSET PartNos /\ k.left # {}
      /\ k.out \in Contents /\ k.at \in Contents \cup {None, Merged, Unlinked}
  BY CallType DEF CompleteCopy, At, Call, CallsOK
<1>1. n \in PartNos /\ n \in k.left /\ \A m \in k.left : n <= m
  BY <1>0, LeastPart
<1>2. UNCHANGED <<row, receipt, dir, part, blobs, writing, aborting, sent,
                  refused>>
  BY DEF CompleteCopy, tables, history
<1>3. ASSUME x = None
      PROVE  Return(c) /\ UNCHANGED <<merged, object>>
  BY <1>3 DEF CompleteCopy, Call
<1>4. CASE x # None
  <2> PICK now : now = [k EXCEPT !.left = @ \ {n}, !.out = @ \o x]
    OBVIOUS
  <2>1. /\ completing' = [completing EXCEPT ![c] = now]
        /\ merged' = IF k.at = Merged
                     THEN [merged EXCEPT ![k.upload] =
                             WriteAt(@, Len(k.out), x)]
                     ELSE merged
        /\ object' = IF k.at \in Contents
                     THEN [object EXCEPT ![k.at] = WriteAt(@, Len(k.out), x)]
                     ELSE object
    BY <1>4 DEF CompleteCopy, Call, TypeOK
  <2>2. x \in Bodies
    BY <1>0, <1>1, <1>4 DEF TypeOK
  <2>3. Len(k.out) < n
    BY <1>0, <1>1 DEF CallOK
  <2>4. /\ Len(k.out) \in Nat /\ Len(k.out) + Len(x) <= MaxPart
        /\ k.out \o x \in Contents
        /\ \A m \in PartNos : n < m => Len(k.out \o x) < m
    BY <1>0, <1>1, <2>2, <2>3, CopyFits
  <2>5. /\ now \in CompleteCalls
        /\ now.step = "copy" /\ now.at = k.at /\ now.upload = k.upload
        /\ now.out = k.out \o x /\ now.left = k.left \ {n}
    BY <1>0, <2>4 DEF CompleteCalls
  <2>6. k.at = Merged =>
          /\ merged[k.upload] \in Files
          /\ WriteAt(merged[k.upload], Len(k.out), x) \in Files
    BY <1>0, <2>2, <2>4, WriteAtType DEF CallOK, TypeOK
  <2>7. k.at \in Contents => /\ object[k.at] \in Files
                             /\ WriteAt(object[k.at], Len(k.out), x) \in Files
    BY <1>0, <2>2, <2>4, WriteAtType DEF CallOK, TypeOK
  <2>8. /\ merged' \in [Uploads -> Files \cup {None}]
        /\ \A v \in Uploads : merged'[v] # None <=> merged[v] # None
    BY <1>0, <2>1, <2>6, Markers DEF TypeOK
  <2>9. /\ object' \in [Contents -> Files \cup {None}]
        /\ \A h \in Contents : object'[h] # None <=> object[h] # None
    BY <1>0, <2>1, <2>7, Markers DEF TypeOK
  <2> QED
    BY <1>0, <1>1, <1>2, <1>4, <2>1, <2>2, <2>4, <2>5, <2>8, <2>9
       DEF CopyEffect
<1> QED
  BY <1>0, <1>1, <1>2, <1>3, <1>4

(* complete keeps the types up to its session,                              *)
LEMMA TypeCompletes ==
  ASSUME TypeInv, NEW c \in Completers,
         \/ \E u \in Uploads : CompleteCheck(c, u)
         \/ CompleteList(c) \/ CompleteOpen(c) \/ CompleteCopy(c)
         \/ CompleteRefused(c) \/ CompleteFails(c) \/ CompleteCommit(c)
  PROVE  TypeInv'
<1> USE DEF TypeInv
<1>1. CASE \E u \in Uploads : CompleteCheck(c, u)
  <2> PICK u \in Uploads : CompleteCheck(c, u)
    BY <1>1
  <2> PICK k : k = NewCall(u)
    OBVIOUS
  <2>1. k \in CompleteCalls
    BY EmptyFile DEF NewCall, CompleteCalls
  <2>2. CallOK(k)'
    BY Markers DEF NewCall, CallOK
  <2>3. /\ completing' = [completing EXCEPT ![c] = k]
        /\ UNCHANGED <<row, receipt, dir, part, merged, object, blobs,
                       writing, aborting, sent, refused>>
    BY DEF CompleteCheck, tables, files, history
  <2>4. CallsOK' /\ completing' \in [Completers -> CompleteCalls \cup {None}]
    BY <2>1, <2>2, <2>3, OneCallKept
  <2>5. TypeOK'
    BY <2>3, <2>4 DEF TypeOK, PartsOf
  <2> QED
    BY <2>3, <2>4, <2>5, LinksKept
<1> PICK k : k = completing[c]
  OBVIOUS
<1>2. CASE CompleteList(c)
  <2>0. k # None /\ k.step = "list" /\ k \in CompleteCalls /\ CallOK(k)
    BY <1>2, CallType DEF CompleteList, At, CallsOK
  <2> PICK ps : ps = PartsOf(k.upload)
    OBVIOUS
  <2> PICK now : now = [k EXCEPT !.step = "open", !.parts = ps, !.left = ps]
    OBVIOUS
  <2>1. /\ completing' \in {[completing EXCEPT ![c] = now],
                            [completing EXCEPT ![c] = None]}
        /\ UNCHANGED <<row, receipt, dir, part, merged, object, blobs,
                       writing, aborting, sent, refused>>
    BY <1>2 DEF CompleteList, Return, Call, tables, files, history, TypeOK
  <2>2. ps \subseteq PartNos
    BY DEF PartsOf
  <2>3. now \in CompleteCalls
    BY <2>0, <2>2 DEF CompleteCalls
  <2>4. CallOK(now)'
    <3>1. /\ now.step = "open" /\ now.out = <<>> /\ now.left = ps
          /\ now.upload = k.upload /\ now.at = k.at
      BY <2>0 DEF CallOK, CompleteCalls
    <3>2. \A n \in ps : Len(<<>>) < n
      BY <2>2, EmptyFile DEF PartNos
    <3> QED
      BY <2>0, <2>1, <3>1, <3>2 DEF CallOK
  <2>5. CallsOK' /\ completing' \in [Completers -> CompleteCalls \cup {None}]
    BY <2>1, <2>3, <2>4, OneCallKept
  <2>6. TypeOK'
    BY <2>1, <2>5 DEF TypeOK, PartsOf
  <2> QED
    BY <2>1, <2>5, <2>6, LinksKept
<1>3. CASE CompleteOpen(c)
  <2>0. k # None /\ k.step = "open" /\ k \in CompleteCalls /\ CallOK(k)
        /\ k.upload \in Uploads
    BY <1>3, CallType DEF CompleteOpen, At, CallsOK
  <2> PICK now : now = [k EXCEPT !.step = "copy", !.at = Merged]
    OBVIOUS
  <2>1. /\ \/ /\ k.upload \in dir
              /\ completing' = [completing EXCEPT ![c] = now]
              /\ merged' = [merged EXCEPT ![k.upload] = <<>>]
           \/ /\ completing' = [completing EXCEPT ![c] = None]
              /\ merged' = merged
        /\ UNCHANGED <<row, receipt, dir, part, object, blobs,
                       writing, aborting, sent, refused>>
    BY <1>3 DEF CompleteOpen, Return, Call, tables, history, TypeOK
  <2>2. now \in CompleteCalls
    BY <2>0 DEF CompleteCalls
  <2>3. /\ now.step = "copy" /\ now.at = Merged /\ now.upload = k.upload
        /\ now.out = k.out /\ now.left = k.left
    BY <2>0 DEF CompleteCalls
  <2>4. completing' \in [Completers -> CompleteCalls \cup {None}]
    BY <2>1, <2>2 DEF TypeOK
  <2>5. TypeOK'
    BY <2>0, <2>1, <2>4, EmptyFile DEF TypeOK, PartsOf
  <2>6. ASSUME NEW d \in Completers, completing'[d] # None
        PROVE  CallOK(completing[d])'
    <3>1. \A v \in Uploads : merged[v] # None => merged'[v] # None
      BY <2>0, <2>1, EmptyFile, Markers DEF TypeOK
    <3>2. CASE d = c
      <4>1. completing'[d] = now /\ merged'[k.upload] # None
        BY <2>0, <2>1, <2>6, <3>2, EmptyFile, Markers DEF TypeOK
      <4> QED
        BY <2>0, <2>1, <2>3, <4>1, Markers DEF CallOK
    <3>3. CASE d # c
      <4>1. completing'[d] = completing[d] /\ completing[d].upload \in Uploads
        BY <2>1, <2>6, <3>3, CallType DEF TypeOK
      <4> QED
        BY <2>1, <2>6, <3>1, <4>1 DEF CallsOK, CallOK
    <3> QED
      BY <3>2, <3>3
  <2> QED
    BY <2>1, <2>5, <2>6, LinksKept DEF CallsOK
<1>4. CASE CompleteRefused(c)
  <2>0. k # None /\ k.step = "copy" /\ k \in CompleteCalls
        /\ k.upload \in Uploads
    BY <1>4, CallType DEF CompleteRefused, Copied, At
  <2> PICK now : now = [k EXCEPT !.step = "cleanup", !.at = None,
                                 !.left = k.parts]
    OBVIOUS
  <2>1. /\ completing' = [completing EXCEPT ![c] = now]
        /\ refused' = refused \cup {k.upload}
        /\ UNCHANGED <<row, receipt, dir, part, merged, object, blobs,
                       writing, aborting, sent>>
    BY <1>4 DEF CompleteRefused, Call, tables, files, TypeOK
  <2>2. now \in CompleteCalls /\ now.step = "cleanup" /\ now.at = None
    BY <2>0 DEF CompleteCalls
  <2>3. CallOK(now)'
    BY <2>2, Markers DEF CallOK
  <2>4. CallsOK' /\ completing' \in [Completers -> CompleteCalls \cup {None}]
    BY <2>1, <2>2, <2>3, OneCallKept
  <2>5. TypeOK'
    BY <2>0, <2>1, <2>4 DEF TypeOK, PartsOf
  <2> QED
    BY <2>1, <2>4, <2>5, LinksKept
<1>5. CASE CompleteFails(c)
  <2>1. /\ completing' = [completing EXCEPT ![c] = None]
        /\ UNCHANGED <<row, receipt, dir, part, merged, object, blobs,
                       writing, aborting, sent, refused>>
    BY <1>5 DEF CompleteFails, Return, tables, files, history
  <2>2. CallsOK' /\ completing' \in [Completers -> CompleteCalls \cup {None}]
    BY <2>1, OneCallKept
  <2>3. TypeOK'
    BY <2>1, <2>2 DEF TypeOK, PartsOf
  <2> QED
    BY <2>1, <2>2, <2>3, LinksKept
<1>6. CASE CompleteCommit(c)
  <2>0. k # None /\ k.step = "commit" /\ k \in CompleteCalls
        /\ k.upload \in Uploads /\ k.out \in Contents
    BY <1>6, CallType DEF CompleteCommit, At
  <2> PICK now : now = [k EXCEPT !.step = "cleanup", !.left = k.parts]
    OBVIOUS
  <2>1. /\ completing' = [completing EXCEPT ![c] = now]
        /\ blobs' = blobs \cup {k.out}
        /\ row' = IF Exists(k.upload)
                  THEN [row EXCEPT ![k.upload] = "completed"] ELSE row
        /\ receipt' = IF Exists(k.upload)
                      THEN [receipt EXCEPT ![k.upload] = k.out] ELSE receipt
        /\ UNCHANGED <<dir, part, merged, object, writing, aborting, sent,
                       refused>>
    BY <1>6 DEF CompleteCommit, Call, files, history, TypeOK
  <2>2. /\ now \in CompleteCalls /\ now.step = "cleanup"
        /\ now.upload = k.upload /\ now.at = k.at
    BY <2>0 DEF CompleteCalls
  <2>3. CallOK(now)'
    BY <2>0, <2>1, <2>2 DEF CallOK, CallsOK
  <2>4. CallsOK' /\ completing' \in [Completers -> CompleteCalls \cup {None}]
    BY <2>1, <2>2, <2>3, OneCallKept
  <2>5. TypeOK'
    BY <2>0, <2>1, <2>4 DEF TypeOK, PartsOf
  <2> QED
    BY <2>1, <2>4, <2>5, LinksKept
<1>7. CASE CompleteCopy(c)
  <2> PICK n, x : n = Least(k.left) /\ x = part[k.upload][n]
    OBVIOUS
  <2>0. /\ k # None /\ CallOK(k) /\ k.upload \in Uploads
        /\ k.left \in SUBSET PartNos
        /\ n \in k.left /\ \A m \in k.left : n <= m
        /\ UNCHANGED <<row, receipt, dir, part, blobs, writing, aborting, sent,
                       refused>>
    BY <1>7, CopyCases, CallType DEF CallsOK
  <2>2. CASE x = None
    <3>1. /\ completing' = [completing EXCEPT ![c] = None]
          /\ UNCHANGED <<merged, object>>
      BY <1>7, <2>2 DEF CompleteCopy, Call, Return
    <3>2. CallsOK' /\ completing' \in [Completers -> CompleteCalls \cup {None}]
      BY <3>1, OneCallKept
    <3>3. TypeOK'
      BY <2>0, <3>1, <3>2 DEF TypeOK, PartsOf
    <3> QED
      BY <2>0, <3>1, <3>2, <3>3, LinksKept
  <2>3. CASE x # None
    <3>0. CopyEffect(c, k, n, x)
      BY <1>7, <2>3, CopyCases
    <3>1. PICK now \in CompleteCalls :
             /\ completing' = [completing EXCEPT ![c] = now]
             /\ now.step = "copy" /\ now.at = k.at /\ now.upload = k.upload
             /\ now.out = k.out \o x /\ now.left = k.left \ {n}
      BY <3>0 DEF CopyEffect
    <3>2. /\ \A m \in PartNos : n < m => Len(k.out \o x) < m
          /\ merged' \in [Uploads -> Files \cup {None}]
          /\ \A v \in Uploads : merged'[v] # None <=> merged[v] # None
          /\ object' \in [Contents -> Files \cup {None}]
          /\ \A h \in Contents : object'[h] # None <=> object[h] # None
      BY <3>0 DEF CopyEffect
    <3>3. completing' \in [Completers -> CompleteCalls \cup {None}]
      BY <3>1 DEF TypeOK
    <3>4. TypeOK'
      BY <2>0, <3>2, <3>3 DEF TypeOK, PartsOf
    <3>5. ASSUME NEW d \in Completers, completing'[d] # None
          PROVE  CallOK(completing[d])'
      <4>1. CASE d = c
        <5>1. completing'[d] = now
          BY <3>1, <4>1 DEF TypeOK
        <5>2. ASSUME NEW m \in now.left PROVE Len(now.out) < m
          <6>1. m \in PartNos /\ n <= m /\ m # n
            BY <2>0, <3>1
          <6>2. n < m
            BY <2>0, <6>1 DEF PartNos
          <6> QED
            BY <3>1, <3>2, <6>1, <6>2
        <5>3. /\ now.at = Merged => merged'[now.upload] # None
              /\ now.at \in Contents => object'[now.at] # None
          BY <2>0, <3>1, <3>2 DEF CallOK
        <5> QED
          BY <3>1, <5>1, <5>2, <5>3 DEF CallOK
      <4>2. CASE d # c
        <5>1. completing'[d] = completing[d] /\ completing[d].upload \in Uploads
          BY <3>1, <3>5, <4>2, CallType DEF TypeOK
        <5> QED
          BY <3>2, <3>5, <5>1 DEF CallsOK, CallOK
      <4> QED
        BY <4>1, <4>2
    <3> QED
      BY <2>0, <3>4, <3>5, LinksKept DEF CallsOK
  <2> QED
    BY <2>2, <2>3
<1> QED
  BY <1>1, <1>2, <1>3, <1>4, <1>5, <1>6, <1>7

(* complete's session has found the content known, or stored it: its own    *)
(* handle is closed, the others on merged.bin follow the file.              *)
LEMMA Committed ==
  ASSUME TypeOK, NEW c \in Completers, completing[c] # None,
         NEW to \in Contents \cup {Unlinked},
         completing' = Committing(c, Redirect(completing[c].upload, to)),
         NEW d \in Completers
  PROVE  /\ completing' \in [Completers -> CompleteCalls \cup {None}]
         /\ completing'[d] = None <=> completing[d] = None
         /\ completing[d] # None =>
              /\ completing'[d].upload = completing[d].upload
              /\ completing'[d].parts = completing[d].parts
              /\ completing'[d].left = completing[d].left
              /\ completing'[d].out = completing[d].out
              /\ completing'[d].step = IF d = c THEN "commit"
                                       ELSE completing[d].step
              /\ completing'[d].at =
                   IF d = c THEN None
                   ELSE IF /\ completing[d].upload = completing[c].upload
                           /\ completing[d].at = Merged
                   THEN to ELSE completing[d].at
<1> PICK k, cs : k = completing[c] /\ cs = Redirect(k.upload, to)
  OBVIOUS
<1>1. k.upload \in Uploads
  BY CallType
<1> PICK b1 \in BOOLEAN : b1 = (k.out \notin blobs)
  OBVIOUS
<1>0. Exists(k.upload) \in BOOLEAN
  BY DEF Exists
<1> PICK b2 \in BOOLEAN : b2 = Exists(k.upload)
  BY <1>0
<1>2. cs \in [Completers -> CompleteCalls \cup {None}]
  BY <1>1, RedirectType
<1>3. \A e \in Completers :
         /\ cs[e] = None <=> completing[e] = None
         /\ completing[e] # None =>
              /\ SameButAt(completing[e], cs[e])
              /\ cs[e].at = IF completing[e].upload = k.upload
                               /\ completing[e].at = Merged
                            THEN to ELSE completing[e].at
  BY <1>1, Redirected
<1>4. completing' = [cs EXCEPT ![c].step = "commit", ![c].at = None,
                               ![c].created = b1, ![c].seen = b2]
  BY DEF Committing, Call
<1> PICK now : now = [cs[c] EXCEPT !.step = "commit", !.at = None,
                                   !.created = b1, !.seen = b2]
  OBVIOUS
<1>5. completing' = [cs EXCEPT ![c] = now]
  BY <1>2, <1>4, ZenonT(30)
<1>6. cs[c] \in CompleteCalls /\ SameButAt(k, cs[c])
  BY <1>2, <1>3
<1>7. /\ now \in CompleteCalls
      /\ now.upload = k.upload /\ now.parts = k.parts /\ now.left = k.left
      /\ now.out = k.out /\ now.step = "commit" /\ now.at = None
  <2>1. now \in CompleteCalls
    BY <1>6, ZenonT(40) DEF CompleteCalls
  <2>2. /\ now.upload = cs[c].upload /\ now.parts = cs[c].parts
        /\ now.left = cs[c].left /\ now.out = cs[c].out
        /\ now.step = "commit" /\ now.at = None
    BY <1>6 DEF CompleteCalls
  <2> QED
    BY <1>6, <2>1, <2>2 DEF SameButAt
<1>8. now # None
  BY <1>7, MarkersMarkNothing
<1>9. completing' \in [Completers -> CompleteCalls \cup {None}]
  BY <1>2, <1>5, <1>7
<1>10. CASE d = c
  <2>1. completing'[d] = now
    BY <1>2, <1>5, <1>10
  <2> QED
    BY <1>7, <1>8, <1>9, <1>10, <2>1
<1>11. CASE d # c
  <2>1. completing'[d] = cs[d]
    BY <1>2, <1>5, <1>11
  <2> QED
    BY <1>3, <1>9, <1>11, <2>1 DEF SameButAt
<1> QED
  BY <1>10, <1>11

(* What the session of complete does                                        *)
LEMMA StoreCases ==
  ASSUME NEW c \in Completers, CompleteStore(c)
  PROVE  LET u == completing[c].upload
             h == completing[c].out
         IN
         /\ At(c, "copy") /\ completing[c].left = {}
         /\ UNCHANGED <<row, receipt, dir, part, blobs, writing, aborting,
                        sent, refused>>
         /\ \/ /\ h \in blobs \/ object[h] # None
               /\ merged' = [merged EXCEPT ![u] = None]
               /\ completing' = Committing(c, Redirect(u, Unlinked))
               /\ object' = object
            \/ /\ object[h] = None /\ merged[u] # None
               /\ object' = [object EXCEPT ![h] = merged[u]]
               /\ merged' = [merged EXCEPT ![u] = None]
               /\ completing' = Committing(c, Redirect(u, h))
            \/ /\ completing' = [completing EXCEPT ![c] = None]
               /\ UNCHANGED <<merged, object>>
  BY DEF CompleteStore, Copied, Call, Return, tables, history

(* in its session,                                                          *)
LEMMA TypeStore ==
  ASSUME TypeInv, NEW c \in Completers, CompleteStore(c)
  PROVE  TypeInv'
<1> USE DEF TypeInv
<1> PICK k, u, h : k = completing[c] /\ u = k.upload /\ h = k.out
  OBVIOUS
<1>1. k # None /\ u \in Uploads /\ h \in Contents
  BY CallType, StoreCases DEF At
<1>2. UNCHANGED <<row, receipt, dir, part, blobs, writing, aborting, sent,
                  refused>>
  BY StoreCases
<1>3. CASE /\ completing' = [completing EXCEPT ![c] = None]
           /\ UNCHANGED <<merged, object>>
  <2>1. CallsOK' /\ completing' \in [Completers -> CompleteCalls \cup {None}]
    BY <1>3, OneCallKept
  <2>2. TypeOK'
    BY <1>2, <1>3, <2>1 DEF TypeOK, PartsOf
  <2> QED
    BY <1>2, <2>1, <2>2, LinksKept
<1>4. CASE \E to \in Contents \cup {Unlinked} :
             /\ merged' = [merged EXCEPT ![u] = None]
             /\ completing' = Committing(c, Redirect(u, to))
             /\ IF to = Unlinked THEN object' = object
                ELSE /\ to = h /\ merged[u] # None
                     /\ object' = [object EXCEPT ![h] = merged[u]]
  <2> PICK to \in Contents \cup {Unlinked} :
             /\ merged' = [merged EXCEPT ![u] = None]
             /\ completing' = Committing(c, Redirect(u, to))
             /\ IF to = Unlinked THEN object' = object
                ELSE /\ to = h /\ merged[u] # None
                     /\ object' = [object EXCEPT ![h] = merged[u]]
    BY <1>4
  <2>1. completing' \in [Completers -> CompleteCalls \cup {None}]
    BY <1>1, Committed
  <2>2. /\ object' \in [Contents -> Files \cup {None}]
        /\ \A g \in Contents : object[g] # None => object'[g] # None
        /\ to \in Contents => object'[to] # None
    BY <1>1, Markers DEF TypeOK
  <2>3. TypeOK'
    BY <1>1, <1>2, <2>1, <2>2 DEF TypeOK, PartsOf
  <2>4. ASSUME NEW d \in Completers, completing'[d] # None
        PROVE  CallOK(completing[d])'
    <3> PICK j, l : j = completing[d] /\ l = completing'[d]
      OBVIOUS
    <3>1. /\ j # None /\ l.upload = j.upload /\ l.left = j.left
          /\ l.out = j.out
          /\ l.step = IF d = c THEN "commit" ELSE j.step
          /\ l.at = IF d = c THEN None
                    ELSE IF j.upload = u /\ j.at = Merged THEN to ELSE j.at
      BY <1>1, <2>4, Committed
    <3>2. CallOK(j) /\ j.upload \in Uploads
          /\ j.at \in Contents \cup {None, Merged, Unlinked}
      BY <3>1, CallType DEF CallsOK
    <3>3. l.step \in {"list", "open"} => l.out = <<>>
      BY <3>1, <3>2 DEF CallOK
    <3>4. l.step \in {"list", "open", "copy"} =>
             \A n \in l.left : Len(l.out) < n
      BY <3>1, <3>2 DEF CallOK
    <3>5. l.at = Merged => merged'[l.upload] # None
      <4>1. ASSUME l.at = Merged PROVE j.at = Merged /\ j.upload # u
        BY <3>1, <4>1, Markers
      <4> QED
        BY <3>1, <3>2, <4>1 DEF CallOK, TypeOK
    <3>6. l.at \in Contents => object'[l.at] # None
      BY <2>2, <3>1, <3>2, Markers DEF CallOK
    <3> QED
      BY <3>3, <3>4, <3>5, <3>6 DEF CallOK
  <2> QED
    BY <1>2, <2>3, <2>4, LinksKept DEF CallsOK
<1> QED
  BY <1>1, <1>3, <1>4, StoreCases, Markers

(* and after it.                                                            *)
LEMMA TypeCleanup ==
  ASSUME TypeInv, NEW c \in Completers, CompleteUnlink(c) \/ CompleteEnd(c)
  PROVE  TypeInv'
<1> USE DEF TypeInv
<1> PICK k, u : k = completing[c] /\ u = k.upload
  OBVIOUS
<1>1. /\ k # None /\ k.step = "cleanup" /\ k \in CompleteCalls /\ CallOK(k)
      /\ u \in Uploads /\ k.left \in SUBSET PartNos
  BY CallType DEF CompleteUnlink, CompleteEnd, At, CallsOK
<1>2. CASE CompleteUnlink(c)
  <2> PICK n, now : n = Least(k.left) /\ now = [k EXCEPT !.left = @ \ {n}]
    OBVIOUS
  <2>1. /\ part' = [part EXCEPT ![u][n] = None]
        /\ writing' = Detach(u, {n})
        /\ completing' = [completing EXCEPT ![c] = now]
        /\ k.left # {}
        /\ UNCHANGED <<row, receipt, dir, merged, object, blobs, aborting,
                       sent, refused>>
    BY <1>2 DEF CompleteUnlink, Call, tables, history, TypeOK
  <2>2. n \in PartNos
    BY <1>1, <2>1, LeastPart
  <2>3. /\ now \in CompleteCalls /\ now.step = "cleanup" /\ now.at = k.at
        /\ now.upload = u
    BY <1>1 DEF CompleteCalls
  <2>4. CallOK(now)'
    BY <1>1, <2>1, <2>3 DEF CallOK
  <2>5. CallsOK' /\ completing' \in [Completers -> CompleteCalls \cup {None}]
    BY <2>1, <2>3, <2>4, OneCallKept
  <2>6. writing' \in [Writers -> WriteCalls \cup {None}]
    BY <1>1, <2>1, <2>2, DetachType
  <2>9. /\ part' \in [Uploads -> [PartNos -> Bodies \cup {None}]]
        /\ \A v \in Uploads, m \in PartNos :
              part'[v][m] # None => part[v][m] # None
    BY <1>1, <2>1, <2>2 DEF TypeOK
  <2>10. \A v \in Uploads : PartsOf(v)' # {} \/ merged'[v] # None => v \in dir'
    <3>1. \A v \in Uploads : PartsOf(v)' \subseteq PartsOf(v)
      BY <2>9 DEF PartsOf
    <3> QED
      BY <2>1, <3>1 DEF TypeOK
  <2>7. TypeOK'
    BY <2>1, <2>5, <2>6, <2>9, <2>10 DEF TypeOK
  <2>8. ASSUME NEW w \in Writers, writing'[w] # None, writing'[w].linked
        PROVE  /\ writing'[w].opened
               /\ part'[writing'[w].upload][writing'[w].n] # None
    <3> PICK now2 : now2 = writing'[w]
      OBVIOUS
    <3>1. /\ writing[w] # None
          /\ now2.upload = writing[w].upload /\ now2.n = writing[w].n
          /\ now2.opened = writing[w].opened
          /\ writing[w].linked
          /\ ~(now2.upload = u /\ now2.n = n)
      BY <1>1, <2>1, <2>2, <2>8, Detached
    <3>2. /\ writing[w].opened /\ part[now2.upload][now2.n] # None
          /\ now2.upload \in Uploads /\ now2.n \in PartNos
      BY <3>1, WriteType DEF LinksOK
    <3> QED
      BY <1>1, <2>1, <2>2, <3>1, <3>2 DEF TypeOK
  <2> QED
    BY <2>5, <2>7, <2>8 DEF LinksOK
<1>3. CASE CompleteEnd(c)
  <2> PICK cs : cs = Redirect(u, Unlinked)
    OBVIOUS
  <2>1. /\ merged' = [merged EXCEPT ![u] = None]
        /\ dir' = IF PartsOf(u) = {} THEN dir \ {u} ELSE dir
        /\ completing' = [cs EXCEPT ![c] = None]
        /\ UNCHANGED <<row, receipt, part, object, blobs, writing, aborting,
                       sent, refused>>
    BY <1>3 DEF CompleteEnd, Call, tables, history
  <2>2. cs \in [Completers -> CompleteCalls \cup {None}]
    BY <1>1, RedirectType
  <2>3. TypeOK'
    BY <1>1, <2>1, <2>2 DEF TypeOK, PartsOf
  <2>4. ASSUME NEW d \in Completers, completing'[d] # None
        PROVE  CallOK(completing[d])'
    <3> PICK j, l : j = completing[d] /\ l = completing'[d]
      OBVIOUS
    <3>0. d # c /\ l = cs[d]
      BY <2>1, <2>2, <2>4
    <3>1. /\ j # None /\ SameButAt(j, l)
          /\ l.at = IF j.upload = u /\ j.at = Merged THEN Unlinked ELSE j.at
      BY <1>1, <2>4, <3>0, Redirected
    <3>2. CallOK(j) /\ j.upload \in Uploads
      BY <3>1, CallType DEF CallsOK
    <3> QED
      BY <1>1, <2>1, <3>1, <3>2, Markers DEF CallOK, SameButAt, TypeOK
  <2> QED
    BY <2>1, <2>3, <2>4, LinksKept DEF CallsOK
<1> QED
  BY <1>2, <1>3

(* Every step keeps the types, the links and the handles.                   *)
LEMMA TypeStep ==
  ASSUME TypeInv, [Next]_vars
  PROVE  TypeInv'
<1>1. CASE Crash
  <2>1. TypeOK' /\ LinksOK' /\ CallsOK'
    BY <1>1 DEF Crash, TypeInv, TypeOK, LinksOK, CallsOK, PartsOf, tables,
                files, history
  <2> QED
    BY <2>1 DEF TypeInv
<1>2. CASE UNCHANGED vars
  BY <1>2 DEF vars, TypeInv, TypeOK, LinksOK, CallsOK, CallOK, PartsOf
<1> QED
  BY <1>1, <1>2, NextCases, TypeUploads, TypeWrites, TypeCompletes, TypeStore,
     TypeCleanup

(* The inductive invariant behind the types.                                *)
THEOREM TypeCorrect == Spec => []TypeInv
<1>1. Init => TypeInv
  BY TypeInit
<1>2. TypeInv /\ [Next]_vars => TypeInv'
  BY TypeStep
<1> QED
  BY <1>1, <1>2, PTL DEF Spec

(* The state keeps its types whatever clients do: no content outgrows the   *)
(* bound, nothing is copied into a file that is not there, and no scratch   *)
(* file lies outside a directory.                                           *)
THEOREM TypeOKCorrect == Spec => []TypeOK
<1>1. TypeInv => TypeOK
  BY DEF TypeInv
<1> QED
  BY <1>1, TypeCorrect, PTL

(* ------------------------------------------------------------------------ *)
(* Receipts are stored, of any clients                                      *)
(* ------------------------------------------------------------------------ *)
(* What a complete is about to commit is stored, and so is what has a row.  *)
StoreInv ==
  /\ \A h \in blobs : object[h] # None
  /\ \A c \in Completers : At(c, "commit") => object[Call(c).out] # None
  /\ ReceiptIsStored

(* No step takes a file out of the store.                                   *)
LEMMA ObjectsStay ==
  ASSUME TypeInv, [Next]_vars, NEW h \in Contents, object[h] # None
  PROVE  object'[h] # None
<1>1. CASE \E c \in Completers : CompleteCopy(c)
  <2> PICK c \in Completers : CompleteCopy(c)
    BY <1>1
  <2> PICK k : k = completing[c]
    OBVIOUS
  <2> PICK n : n = Least(k.left)
    OBVIOUS
  <2> PICK x : x = part[k.upload][n]
    OBVIOUS
  <2>1. IF x = None THEN Return(c) /\ UNCHANGED <<merged, object>>
        ELSE CopyEffect(c, k, n, x)
    BY CopyCases
  <2> QED
    BY <2>1 DEF CopyEffect
<1>2. CASE \E c \in Completers : CompleteStore(c)
  BY <1>2, StoreCases, CallType DEF TypeInv, TypeOK, At
<1>3. CASE UNCHANGED object
  BY <1>3
<1>4. \/ UNCHANGED object
      \/ \E c \in Completers : CompleteCopy(c) \/ CompleteStore(c)
  BY NextCases DEF Create, CreateFails, AbortRow, AbortFiles, WritePartCheck,
     WritePartOpen, WritePartEnd, WritePartBreaks, CompleteCheck, CompleteList,
     CompleteOpen, CompleteRefused, CompleteCommit, CompleteFails,
     CompleteUnlink, CompleteEnd, Crash, files, vars
<1> QED
  BY <1>1, <1>2, <1>3, <1>4

(* A complete that is about to commit was so before the step, with the same *)
(* content, or the step stored the content or found it known.               *)
LEMMA CommitCases ==
  ASSUME TypeInv, [Next]_vars, NEW c \in Completers, At(c, "commit")'
  PROVE  /\ completing[c] # None
         /\ completing'[c].out = completing[c].out
         /\ At(c, "commit") \/ CompleteStore(c)
<1> PICK k, l : k = completing[c] /\ l = completing'[c]
  OBVIOUS
<1>0. l # None /\ l.step = "commit"
  BY DEF At
<1> USE DEF TypeInv
<1>1. ASSUME NEW u \in Uploads, AbortFiles(u)
      PROVE  k # None /\ SameButAt(k, l)
  BY <1>0, <1>1, Redirected DEF AbortFiles
<1>2. ASSUME NEW d \in Completers, CompleteStore(d)
      PROVE  k # None /\ l.out = k.out /\ (k.step = "commit" \/ c = d)
  <2> PICK j : j = completing[d]
    OBVIOUS
  <2>0. j # None
    BY <1>2, StoreCases DEF At
  <2>1. CASE completing' = [completing EXCEPT ![d] = None]
    BY <1>0, <2>1 DEF TypeOK
  <2>2. CASE \E to \in Contents \cup {Unlinked} :
               completing' = Committing(d, Redirect(j.upload, to))
    <3> PICK to \in Contents \cup {Unlinked} :
               completing' = Committing(d, Redirect(j.upload, to))
      BY <2>2
    <3> QED
      BY <1>0, <2>0, Committed
  <2>3. j.out \in Contents
    BY <2>0, CallType
  <2> QED
    BY <1>2, <2>1, <2>2, <2>3, StoreCases
<1>3. ASSUME NEW d \in Completers, CompleteEnd(d)
      PROVE  k # None /\ SameButAt(k, l)
  <2>0. completing[d].upload \in Uploads
    BY <1>3, CallType DEF CompleteEnd, At
  <2> PICK cs : cs = Redirect(completing[d].upload, Unlinked)
    OBVIOUS
  <2>1. cs \in [Completers -> CompleteCalls \cup {None}]
    BY <2>0, RedirectType
  <2>2. completing' = [cs EXCEPT ![d] = None]
    BY <1>3 DEF CompleteEnd, Call
  <2>3. l = cs[c]
    BY <1>0, <2>1, <2>2
  <2> QED
    BY <1>0, <2>0, <2>3, Redirected
<1>4. ASSUME NEW d \in Completers, NEW now,
             completing' = [completing EXCEPT ![d] = now],
             now # None => now.step # "commit"
      PROVE  k = l
  BY <1>0, <1>4 DEF TypeOK
<1>5. ASSUME NEW d \in Completers, CompleteCopy(d)
      PROVE  k = l
  <2> PICK j : j = completing[d]
    OBVIOUS
  <2> PICK n : n = Least(j.left)
    OBVIOUS
  <2> PICK x : x = part[j.upload][n]
    OBVIOUS
  <2>1. IF x = None THEN Return(d) /\ UNCHANGED <<merged, object>>
        ELSE CopyEffect(d, j, n, x)
    BY <1>5, CopyCases
  <2> QED
    BY <1>4, <2>1 DEF CopyEffect, Return
<1>6. ASSUME NEW d \in Completers,
             \/ \E u \in Uploads : CompleteCheck(d, u)
             \/ CompleteList(d) \/ CompleteOpen(d) \/ CompleteRefused(d)
             \/ CompleteCommit(d) \/ CompleteFails(d) \/ CompleteUnlink(d)
      PROVE  k = l
  <2> PICK j : j = completing[d]
    OBVIOUS
  <2>1. CASE \E u \in Uploads : CompleteCheck(d, u)
    BY <2>1, <1>4 DEF CompleteCheck, NewCall
  <2>2. CASE CompleteFails(d)
    BY <2>2, <1>4 DEF CompleteFails, Return
  <2>3. CASE CompleteList(d)
    <3> PICK now : now = [j EXCEPT !.step = "open", !.parts = PartsOf(j.upload),
                                   !.left = PartsOf(j.upload)]
      OBVIOUS
    <3>1. j \in CompleteCalls
      BY <2>3, CallType DEF CompleteList, At
    <3>2. now.step = "open"
      BY <3>1 DEF CompleteCalls
    <3>3. \/ completing' = [completing EXCEPT ![d] = now]
          \/ completing' = [completing EXCEPT ![d] = None]
      BY <2>3 DEF CompleteList, Call, Return, TypeOK
    <3> QED
      BY <1>4, <3>2, <3>3
  <2>4. CASE CompleteOpen(d)
    <3> PICK now : now = [j EXCEPT !.step = "copy", !.at = Merged]
      OBVIOUS
    <3>1. j \in CompleteCalls
      BY <2>4, CallType DEF CompleteOpen, At
    <3>2. now.step = "copy"
      BY <3>1 DEF CompleteCalls
    <3>3. \/ completing' = [completing EXCEPT ![d] = now]
          \/ completing' = [completing EXCEPT ![d] = None]
      BY <2>4 DEF CompleteOpen, Call, Return, TypeOK
    <3> QED
      BY <1>4, <3>2, <3>3
  <2>5. CASE CompleteRefused(d)
    <3> PICK now : now = [j EXCEPT !.step = "cleanup", !.at = None,
                                   !.left = j.parts]
      OBVIOUS
    <3>1. j \in CompleteCalls
      BY <2>5, CallType DEF CompleteRefused, Copied, At
    <3>2. now.step = "cleanup"
      BY <3>1 DEF CompleteCalls
    <3>3. completing' = [completing EXCEPT ![d] = now]
      BY <2>5 DEF CompleteRefused, Call, TypeOK
    <3> QED
      BY <1>4, <3>2, <3>3
  <2>6. CASE CompleteCommit(d)
    <3> PICK now : now = [j EXCEPT !.step = "cleanup", !.left = j.parts]
      OBVIOUS
    <3>1. j \in CompleteCalls
      BY <2>6, CallType DEF CompleteCommit, At
    <3>2. now.step = "cleanup"
      BY <3>1 DEF CompleteCalls
    <3>3. completing' = [completing EXCEPT ![d] = now]
      BY <2>6 DEF CompleteCommit, Call, TypeOK
    <3> QED
      BY <1>4, <3>2, <3>3
  <2>7. CASE CompleteUnlink(d)
    <3> PICK now : now = [j EXCEPT !.left = @ \ {Least(j.left)}]
      OBVIOUS
    <3>1. j \in CompleteCalls /\ j.step = "cleanup"
      BY <2>7, CallType DEF CompleteUnlink, At
    <3>2. now.step = "cleanup"
      BY <3>1 DEF CompleteCalls
    <3>3. completing' = [completing EXCEPT ![d] = now]
      BY <2>7 DEF CompleteUnlink, Call, TypeOK
    <3> QED
      BY <1>4, <3>2, <3>3
  <2> QED
    BY <1>6, <2>1, <2>2, <2>3, <2>4, <2>5, <2>6, <2>7
<1>7. ASSUME UNCHANGED completing PROVE k = l
  BY <1>7
<1>8. ASSUME Crash PROVE FALSE
  BY <1>0, <1>8 DEF Crash
<1>10. \/ UNCHANGED completing
       \/ Crash
       \/ \E u \in Uploads : AbortFiles(u)
       \/ \E d \in Completers :
            \/ \E u \in Uploads : CompleteCheck(d, u)
            \/ CompleteList(d) \/ CompleteOpen(d) \/ CompleteRefused(d)
            \/ CompleteCommit(d) \/ CompleteFails(d) \/ CompleteUnlink(d)
            \/ CompleteCopy(d) \/ CompleteStore(d) \/ CompleteEnd(d)
  BY NextCases DEF Create, CreateFails, AbortRow, WritePartCheck,
     WritePartOpen, WritePartEnd, WritePartBreaks, calls, vars
<1>12. \/ k = l
       \/ k # None /\ SameButAt(k, l)
       \/ k # None /\ l.out = k.out /\ (k.step = "commit" \/ CompleteStore(c))
  BY <1>1, <1>2, <1>3, <1>5, <1>6, <1>7, <1>8, <1>10
<1>13. k # None /\ l.out = k.out /\ (k.step = "commit" \/ CompleteStore(c))
  BY <1>0, <1>12 DEF SameButAt
<1> QED
  BY <1>13 DEF At

(* Every step keeps what is stored and what is promised in accord.          *)
LEMMA StoreStep ==
  ASSUME TypeInv, TypeInv', StoreInv, [Next]_vars
  PROVE  StoreInv'
<1> USE DEF StoreInv
<1>1. \/ UNCHANGED <<row, receipt, blobs>>
      \/ \E u \in Uploads : Create(u) \/ AbortRow(u)
      \/ \E c \in Completers : CompleteCommit(c)
  BY NextCases, ZenonT(30)
  DEF CreateFails, AbortFiles, WritePartCheck, WritePartOpen,
     WritePartEnd, WritePartBreaks, CompleteCheck, CompleteList, CompleteOpen,
     CompleteCopy, CompleteRefused, CompleteStore, CompleteFails,
     CompleteUnlink, CompleteEnd, Crash, tables, vars
<1>2. \A h \in blobs : h \in Contents /\ object'[h] # None
  BY ObjectsStay DEF TypeInv, TypeOK
<1>3. ASSUME NEW c \in Completers, At(c, "commit")'
      PROVE  object'[completing'[c].out] # None
  <2> PICK h : h = completing[c].out
    OBVIOUS
  <2>1. /\ h \in Contents /\ completing'[c].out = h
        /\ At(c, "commit") \/ CompleteStore(c)
    BY <1>3, CommitCases, CallType DEF TypeInv
  <2>2. CASE At(c, "commit")
    BY <2>1, <2>2, ObjectsStay DEF Call
  <2>3. CASE CompleteStore(c) /\ ~At(c, "commit")
    <3>1. completing' # [completing EXCEPT ![c] = None]
      BY <1>3 DEF At, TypeInv, TypeOK
    <3>2. \/ h \in blobs \/ object[h] # None
          \/ merged[completing[c].upload] # None
             /\ object' = [object EXCEPT ![h] = merged[completing[c].upload]]
      BY <2>3, <3>1, StoreCases
    <3> QED
      BY <1>2, <2>1, <3>2, ObjectsStay DEF TypeInv, TypeOK
  <2> QED
    BY <2>1, <2>2, <2>3
<1>4. CASE UNCHANGED <<row, receipt, blobs>>
  BY <1>2, <1>3, <1>4 DEF ReceiptIsStored, Call
<1>5. CASE \E u \in Uploads : Create(u) \/ AbortRow(u)
  <2> PICK u \in Uploads : Create(u) \/ AbortRow(u)
    BY <1>5
  <2>1. /\ blobs' = blobs
        /\ \A v \in Uploads : row'[v] = "completed" =>
              row[v] = "completed" /\ receipt'[v] = receipt[v]
    BY DEF Create, AbortRow, TypeInv, TypeOK
  <2> QED
    BY <1>2, <1>3, <2>1 DEF ReceiptIsStored, Call
<1>6. CASE \E c \in Completers : CompleteCommit(c)
  <2> PICK c \in Completers : CompleteCommit(c)
    BY <1>6
  <2> PICK h : h = completing[c].out
    OBVIOUS
  <2>1. At(c, "commit") /\ object' = object /\ object[h] # None
    BY DEF CompleteCommit, files, Call
  <2>2. /\ blobs' = blobs \cup {h}
        /\ \A v \in Uploads : row'[v] = "completed" =>
              \/ row[v] = "completed" /\ receipt'[v] = receipt[v]
              \/ receipt'[v] = h
    BY DEF CompleteCommit, Call, TypeInv, TypeOK
  <2> QED
    BY <1>2, <1>3, <2>1, <2>2 DEF ReceiptIsStored, Call
<1> QED
  BY <1>1, <1>4, <1>5, <1>6

(* A completed upload has its Blob row and its object, whatever clients do  *)
(* and however their calls interleave: what complete commits has been       *)
(* stored or found stored before, and nothing in uploads.py takes it away.  *)
THEOREM ReceiptIsStoredCorrect == Spec => []ReceiptIsStored
<1>1. Init => StoreInv
  BY DEF Init, StoreInv, ReceiptIsStored, At
<1>2. TypeInv /\ TypeInv' /\ StoreInv /\ [Next]_vars => StoreInv'
  BY StoreStep
<1>3. StoreInv => ReceiptIsStored
  BY DEF StoreInv
<1> QED
  BY <1>1, <1>2, <1>3, TypeCorrect, PTL DEF Spec

(* ------------------------------------------------------------------------ *)
(* A client with one call at a time                                         *)
(* ------------------------------------------------------------------------ *)
(* Whatever holds of all clients holds of these.                            *)
LEMMA OneCallIsSpec == OneCallSpec => Spec
<1>1. [OneCallNext]_vars => [Next]_vars
  BY DEF OneCallNext, Next
<1> QED
  BY <1>1, PTL DEF OneCallSpec, Spec

(* No two calls on one upload                                               *)
Alone ==
  /\ \A w, x \in Writers :
       writing[w] # None /\ writing[x] # None
          /\ writing[w].upload = writing[x].upload => w = x
  /\ \A c, d \in Completers :
       completing[c] # None /\ completing[d] # None
          /\ completing[c].upload = completing[d].upload => c = d
  /\ \A w \in Writers, c \in Completers :
       writing[w] # None /\ completing[c] # None =>
          writing[w].upload # completing[c].upload

(* Then a complete moves no handles but its own,                            *)
LEMMA RedirectAlone ==
  ASSUME Alone, NEW c \in Completers, completing[c] # None, NEW to,
         NEW d \in Completers, d # c
  PROVE  Redirect(completing[c].upload, to)[d] = completing[d]
BY DEF Alone, Redirect, CallsOf

(* unlinks no file that is being written,                                   *)
LEMMA DetachAlone ==
  ASSUME TypeOK, Alone, NEW c \in Completers, completing[c] # None, NEW ns
  PROVE  Detach(completing[c].upload, ns) = writing
<1>1. WritersOf(completing[c].upload) = {}
  BY DEF Alone, WritersOf
<1>2. Detach(completing[c].upload, ns) = [w \in Writers |-> writing[w]]
  BY <1>1 DEF Detach
<1> QED
  BY <1>2 DEF TypeOK

(* What a complete does to the state when it is the only call on its upload *)
Moves(c, k, now) ==
  /\ completing[c] = k /\ k \in CompleteCalls /\ k # None
  /\ completing' = [completing EXCEPT ![c] = now]
  /\ UNCHANGED <<writing, aborting, sent>>

Becomes(k, now, step) ==
  /\ now \in CompleteCalls /\ now # None
  /\ now.upload = k.upload /\ now.step = step

GivesUp(c, k, now) ==
  /\ now = None
  /\ UNCHANGED <<tables, part, merged, object, refused>>

Lists(c, k, now) ==
  /\ k.step = "list" /\ Becomes(k, now, "open")
  /\ now.out = k.out /\ now.at = k.at /\ now.left = PartsOf(k.upload)
  /\ UNCHANGED <<tables, part, merged, object, refused>>

Opens(c, k, now) ==
  /\ k.step = "open" /\ Becomes(k, now, "copy")
  /\ now.out = k.out /\ now.at = Merged /\ now.left = k.left
  /\ merged' = [merged EXCEPT ![k.upload] = <<>>]
  /\ UNCHANGED <<tables, part, object, refused>>

Copies(c, k, now) ==
  /\ k.step = "copy" /\ Becomes(k, now, "copy")
  /\ \E n \in k.left, x \in Bodies :
       /\ \A m \in k.left : n <= m
       /\ x = part[k.upload][n]
       /\ now.out = k.out \o x /\ now.at = k.at /\ now.left = k.left \ {n}
       /\ merged' = IF k.at = Merged
                    THEN [merged EXCEPT ![k.upload] = WriteAt(@, Len(k.out), x)]
                    ELSE merged
       /\ object' = IF k.at \in Contents
                    THEN [object EXCEPT ![k.at] = WriteAt(@, Len(k.out), x)]
                    ELSE object
  /\ UNCHANGED <<tables, part, refused>>

Refuses(c, k, now) ==
  /\ k.step = "copy" /\ Becomes(k, now, "cleanup") /\ now.at = None
  /\ refused' = refused \cup {k.upload}
  /\ UNCHANGED <<tables, part, merged, object>>

Stores(c, k, now) ==
  /\ k.step = "copy" /\ Becomes(k, now, "commit") /\ k.left = {}
  /\ now.out = k.out /\ now.at = None
  /\ merged' = [merged EXCEPT ![k.upload] = None]
  /\ \/ object' = object
     \/ /\ object[k.out] = None /\ merged[k.upload] # None
        /\ object' = [object EXCEPT ![k.out] = merged[k.upload]]
  /\ UNCHANGED <<tables, part, refused>>

Commits(c, k, now) ==
  /\ k.step = "commit" /\ Becomes(k, now, "cleanup") /\ now.at = k.at
  /\ row' = IF Exists(k.upload) THEN [row EXCEPT ![k.upload] = "completed"]
            ELSE row
  /\ receipt' = IF Exists(k.upload) THEN [receipt EXCEPT ![k.upload] = k.out]
                ELSE receipt
  /\ UNCHANGED <<part, merged, object, refused>>

Unlinks(c, k, now) ==
  /\ k.step = "cleanup" /\ Becomes(k, now, "cleanup") /\ now.at = k.at
  /\ \E n \in PartNos : part' = [part EXCEPT ![k.upload][n] = None]
  /\ UNCHANGED <<tables, merged, object, refused>>

Ends(c, k, now) ==
  /\ k.step = "cleanup" /\ now = None
  /\ merged' = [merged EXCEPT ![k.upload] = None]
  /\ UNCHANGED <<tables, part, object, refused>>

(* and does one of these things.                                            *)
LEMMA CompleteAlone ==
  ASSUME TypeInv, Alone, NEW c \in Completers,
         \/ CompleteList(c) \/ CompleteOpen(c) \/ CompleteCopy(c)
         \/ CompleteRefused(c) \/ CompleteStore(c) \/ CompleteCommit(c)
         \/ CompleteFails(c) \/ CompleteUnlink(c) \/ CompleteEnd(c)
  PROVE  \E k, now :
           /\ Moves(c, k, now)
           /\ \/ GivesUp(c, k, now) \/ Lists(c, k, now) \/ Opens(c, k, now)
              \/ Copies(c, k, now) \/ Refuses(c, k, now) \/ Stores(c, k, now)
              \/ Commits(c, k, now) \/ Unlinks(c, k, now) \/ Ends(c, k, now)
<1> PICK k : k = completing[c]
  OBVIOUS
<1> PICK u : u = k.upload
  OBVIOUS
<1>0. k # None /\ k \in CompleteCalls /\ u \in Uploads /\ k.out \in Contents
      /\ k.left \in SUBSET PartNos
  <2>1. k # None
    BY DEF CompleteList, CompleteOpen, CompleteCopy, CompleteRefused, Copied,
       CompleteStore, CompleteCommit, CompleteFails, CompleteUnlink,
       CompleteEnd, At
  <2> QED
    BY <2>1, CallType DEF TypeInv
<1>t. /\ completing \in [Completers -> CompleteCalls \cup {None}]
      /\ part \in [Uploads -> [PartNos -> Bodies \cup {None}]]
  BY DEF TypeInv, TypeOK
<1>n. \A now : now \in CompleteCalls => now # None
  BY MarkersMarkNothing
<1> SUFFICES \E now :
           /\ Moves(c, k, now)
           /\ \/ GivesUp(c, k, now) \/ Lists(c, k, now) \/ Opens(c, k, now)
              \/ Copies(c, k, now) \/ Refuses(c, k, now) \/ Stores(c, k, now)
              \/ Commits(c, k, now) \/ Unlinks(c, k, now) \/ Ends(c, k, now)
  OBVIOUS
<1>1. CASE CompleteList(c)
  <2> PICK ps : ps = PartsOf(u)
    OBVIOUS
  <2> PICK now : now = [k EXCEPT !.step = "open", !.parts = ps, !.left = ps]
    OBVIOUS
  <2>1. ps \subseteq PartNos /\ k.step = "list"
    BY <1>1 DEF PartsOf, CompleteList, At
  <2>2. /\ now \in CompleteCalls /\ now.upload = k.upload /\ now.step = "open"
        /\ now.out = k.out /\ now.at = k.at /\ now.left = ps
    BY <1>0, <2>1 DEF CompleteCalls
  <2>3. /\ \/ completing' = [completing EXCEPT ![c] = now]
           \/ completing' = [completing EXCEPT ![c] = None]
        /\ UNCHANGED <<tables, part, merged, object, refused, writing, aborting,
                       sent>>
    BY <1>1, <1>t DEF CompleteList, Call, Return, files, history
  <2>4. CASE completing' = [completing EXCEPT ![c] = now]
    <3>1. Moves(c, k, now) /\ Lists(c, k, now)
      BY <1>0, <1>n, <2>1, <2>2, <2>3, <2>4 DEF Moves, Lists, Becomes
    <3> QED
      BY <3>1
  <2>5. CASE completing' = [completing EXCEPT ![c] = None]
    <3>1. Moves(c, k, None) /\ GivesUp(c, k, None)
      BY <1>0, <2>3, <2>5 DEF Moves, GivesUp
    <3> QED
      BY <3>1
  <2> QED
    BY <2>3, <2>4, <2>5
<1>2. CASE CompleteOpen(c)
  <2> PICK now : now = [k EXCEPT !.step = "copy", !.at = Merged]
    OBVIOUS
  <2>1. k.step = "open"
    BY <1>2 DEF CompleteOpen, At
  <2>2. /\ now \in CompleteCalls /\ now.upload = k.upload /\ now.step = "copy"
        /\ now.out = k.out /\ now.at = Merged /\ now.left = k.left
    BY <1>0 DEF CompleteCalls
  <2>3. /\ \/ /\ completing' = [completing EXCEPT ![c] = now]
              /\ merged' = [merged EXCEPT ![u] = <<>>]
           \/ /\ completing' = [completing EXCEPT ![c] = None]
              /\ merged' = merged
        /\ UNCHANGED <<tables, part, object, refused, writing, aborting, sent>>
    BY <1>2, <1>t DEF CompleteOpen, Call, Return, history
  <2>4. CASE /\ completing' = [completing EXCEPT ![c] = now]
             /\ merged' = [merged EXCEPT ![u] = <<>>]
    <3>1. Moves(c, k, now) /\ Opens(c, k, now)
      BY <1>0, <1>n, <2>1, <2>2, <2>3, <2>4 DEF Moves, Opens, Becomes
    <3> QED
      BY <3>1
  <2>5. CASE /\ completing' = [completing EXCEPT ![c] = None]
             /\ merged' = merged
    <3>1. Moves(c, k, None) /\ GivesUp(c, k, None)
      BY <1>0, <2>3, <2>5 DEF Moves, GivesUp
    <3> QED
      BY <3>1
  <2> QED
    BY <2>3, <2>4, <2>5
<1>3. CASE CompleteCopy(c)
  <2> PICK n : n = Least(k.left)
    OBVIOUS
  <2> PICK x : x = part[u][n]
    OBVIOUS
  <2>1. /\ k.step = "copy" /\ n \in k.left /\ \A m \in k.left : n <= m
        /\ UNCHANGED <<row, receipt, dir, part, blobs, writing, aborting, sent,
                       refused>>
        /\ x = None => Return(c) /\ UNCHANGED <<merged, object>>
        /\ x # None => x \in Bodies /\ CopyEffect(c, k, n, x)
    BY <1>3, CopyCases
  <2>2. CASE x = None
    <3>1. Moves(c, k, None) /\ GivesUp(c, k, None)
      BY <1>0, <2>1, <2>2 DEF Moves, GivesUp, Return, tables
    <3> QED
      BY <3>1
  <2>3. CASE x # None
    <3>1. PICK now \in CompleteCalls :
             /\ completing' = [completing EXCEPT ![c] = now]
             /\ now.step = "copy" /\ now.at = k.at /\ now.upload = k.upload
             /\ now.out = k.out \o x /\ now.left = k.left \ {n}
      BY <2>1, <2>3 DEF CopyEffect
    <3>2. /\ merged' = IF k.at = Merged
                       THEN [merged EXCEPT ![k.upload] =
                               WriteAt(@, Len(k.out), x)]
                       ELSE merged
          /\ object' = IF k.at \in Contents
                       THEN [object EXCEPT ![k.at] = WriteAt(@, Len(k.out), x)]
                       ELSE object
      BY <2>1, <2>3 DEF CopyEffect
    <3>3. Copies(c, k, now)
      BY <1>n, <2>1, <2>3, <3>1, <3>2 DEF Copies, Becomes, tables
    <3>4. Moves(c, k, now)
      BY <1>0, <2>1, <3>1 DEF Moves
    <3> QED
      BY <3>3, <3>4
  <2> QED
    BY <2>2, <2>3
<1>4. CASE CompleteRefused(c)
  <2> PICK now : now = [k EXCEPT !.step = "cleanup", !.at = None,
                                 !.left = k.parts]
    OBVIOUS
  <2>1. k.step = "copy"
    BY <1>4 DEF CompleteRefused, Copied, At
  <2>2. /\ now \in CompleteCalls /\ now.upload = k.upload
        /\ now.step = "cleanup" /\ now.at = None
    BY <1>0 DEF CompleteCalls
  <2>3. /\ completing' = [completing EXCEPT ![c] = now]
        /\ refused' = refused \cup {u}
        /\ UNCHANGED <<tables, part, merged, object, writing, aborting, sent>>
    BY <1>4, <1>t DEF CompleteRefused, Call, files
  <2>4. Moves(c, k, now) /\ Refuses(c, k, now)
    BY <1>0, <1>n, <2>1, <2>2, <2>3 DEF Moves, Refuses, Becomes
  <2> QED
    BY <2>4
<1>5. CASE CompleteStore(c)
  <2>1. /\ k.step = "copy" /\ k.left = {}
        /\ UNCHANGED <<tables, part, refused, writing, aborting, sent>>
    BY <1>5, StoreCases DEF At, tables
  <2>2. CASE completing' = [completing EXCEPT ![c] = None]
             /\ UNCHANGED <<merged, object>>
    <3>1. Moves(c, k, None) /\ GivesUp(c, k, None)
      BY <1>0, <2>1, <2>2 DEF Moves, GivesUp
    <3> QED
      BY <3>1
  <2>3. CASE \E to \in Contents \cup {Unlinked} :
               /\ completing' = Committing(c, Redirect(u, to))
               /\ merged' = [merged EXCEPT ![u] = None]
               /\ \/ object' = object
                  \/ /\ object[k.out] = None /\ merged[u] # None
                     /\ object' = [object EXCEPT ![k.out] = merged[u]]
    <3> PICK to \in Contents \cup {Unlinked} :
               completing' = Committing(c, Redirect(u, to))
      BY <2>3
    <3> PICK now : now = completing'[c]
      OBVIOUS
    <3>1. /\ completing' \in [Completers -> CompleteCalls \cup {None}]
          /\ now # None /\ now.upload = k.upload /\ now.step = "commit"
          /\ now.out = k.out /\ now.at = None
      BY <1>0, Committed DEF TypeInv
    <3>2. \A d \in Completers : d # c => completing'[d] = completing[d]
      <4> PICK cs : cs = Redirect(u, to)
        OBVIOUS
      <4>1. cs \in [Completers -> CompleteCalls \cup {None}]
        BY <1>0, RedirectType DEF TypeInv
      <4>2. \A d \in Completers : d # c => cs[d] = completing[d]
        BY <1>0, RedirectAlone
      <4>3. \A d \in Completers : d # c => completing'[d] = cs[d]
        BY <4>1 DEF Committing
      <4> QED
        BY <4>2, <4>3
    <3>3. completing' = [completing EXCEPT ![c] = now]
      BY <1>t, <3>1, <3>2
    <3>4. Moves(c, k, now)
      BY <1>0, <2>1, <3>3 DEF Moves
    <3>5. Becomes(k, now, "commit")
      BY <3>1 DEF Becomes
    <3>6. Stores(c, k, now)
      BY <2>1, <2>3, <3>1, <3>5 DEF Stores
    <3> QED
      BY <3>4, <3>6
  <2> QED
    BY <1>0, <1>5, <2>2, <2>3, StoreCases
<1>6. CASE CompleteCommit(c)
  <2> PICK now : now = [k EXCEPT !.step = "cleanup", !.left = k.parts]
    OBVIOUS
  <2>1. k.step = "commit"
    BY <1>6 DEF CompleteCommit, At
  <2>2. /\ now \in CompleteCalls /\ now.upload = k.upload
        /\ now.step = "cleanup" /\ now.at = k.at
    BY <1>0 DEF CompleteCalls
  <2>3. /\ completing' = [completing EXCEPT ![c] = now]
        /\ row' = IF Exists(u) THEN [row EXCEPT ![u] = "completed"] ELSE row
        /\ receipt' = IF Exists(u) THEN [receipt EXCEPT ![u] = k.out]
                      ELSE receipt
        /\ UNCHANGED <<part, merged, object, refused, writing, aborting, sent>>
    BY <1>6, <1>t DEF CompleteCommit, Call, files, history
  <2>4. Moves(c, k, now) /\ Commits(c, k, now)
    BY <1>0, <1>n, <2>1, <2>2, <2>3 DEF Moves, Commits, Becomes
  <2> QED
    BY <2>4
<1>7. CASE CompleteFails(c)
  <2>1. Moves(c, k, None) /\ GivesUp(c, k, None)
    BY <1>0, <1>7 DEF CompleteFails, Return, Moves, GivesUp, files, history
  <2> QED
    BY <2>1
<1>8. CASE CompleteUnlink(c)
  <2> PICK n : n = Least(k.left)
    OBVIOUS
  <2> PICK now : now = [k EXCEPT !.left = @ \ {n}]
    OBVIOUS
  <2>1. /\ k.step = "cleanup" /\ k.left # {}
        /\ part' = [part EXCEPT ![u][n] = None]
        /\ writing' = Detach(u, {n})
        /\ completing' = [completing EXCEPT ![c] = now]
        /\ UNCHANGED <<tables, merged, object, refused, aborting, sent>>
    BY <1>8, <1>t DEF CompleteUnlink, At, Call, history
  <2>2. n \in PartNos /\ writing' = writing
    BY <1>0, <2>1, LeastPart, DetachAlone DEF TypeInv
  <2>3. /\ now \in CompleteCalls /\ now.upload = k.upload
        /\ now.step = "cleanup" /\ now.at = k.at
    BY <1>0, <2>1 DEF CompleteCalls
  <2>4. Moves(c, k, now) /\ Unlinks(c, k, now)
    BY <1>0, <1>n, <2>1, <2>2, <2>3 DEF Moves, Unlinks, Becomes
  <2> QED
    BY <2>4
<1>9. CASE CompleteEnd(c)
  <2> PICK cs : cs = Redirect(u, Unlinked)
    OBVIOUS
  <2>1. /\ k.step = "cleanup"
        /\ merged' = [merged EXCEPT ![u] = None]
        /\ completing' = [cs EXCEPT ![c] = None]
        /\ UNCHANGED <<tables, part, object, refused, writing, aborting, sent>>
    BY <1>9 DEF CompleteEnd, At, Call, history
  <2>2. cs \in [Completers -> CompleteCalls \cup {None}]
    BY <1>0, RedirectType DEF TypeInv
  <2>3. \A d \in Completers : d # c => cs[d] = completing[d]
    BY <1>0, RedirectAlone
  <2>4. completing' = [completing EXCEPT ![c] = None]
    BY <1>t, <2>1, <2>2, <2>3
  <2>5. Moves(c, k, None) /\ Ends(c, k, None)
    BY <1>0, <2>1, <2>4 DEF Moves, Ends
  <2> QED
    BY <2>5
<1> QED
  BY <1>1, <1>2, <1>3, <1>4, <1>5, <1>6, <1>7, <1>8, <1>9

(* The steps of clients with one call at a time                             *)
LEMMA OneCallCases ==
  ASSUME TypeInv, Alone, [OneCallNext]_vars
  PROVE  \/ \E u \in Uploads : \/ Create(u) \/ CreateFails(u)
                               \/ AbortRow(u) \/ AbortFiles(u)
         \/ \E w \in Writers, u \in Uploads, n \in PartNos, body \in Bodies :
               Quiescent(u) /\ WritePartCheck(w, u, n, body)
         \/ \E w \in Writers : \/ WritePartOpen(w) \/ WritePartEnd(w)
                               \/ WritePartBreaks(w)
         \/ \E c \in Completers, u \in Uploads :
               /\ Quiescent(u)
               /\ \A n \in PartNos : sent[u][n] # Unacked
               /\ CompleteCheck(c, u)
         \/ \E c \in Completers : \E k, now :
               /\ Moves(c, k, now)
               /\ \/ GivesUp(c, k, now) \/ Lists(c, k, now) \/ Opens(c, k, now)
                  \/ Copies(c, k, now) \/ Refuses(c, k, now)
                  \/ Stores(c, k, now) \/ Commits(c, k, now)
                  \/ Unlinks(c, k, now) \/ Ends(c, k, now)
         \/ Crash
         \/ UNCHANGED vars
<1>1. \A u \in Uploads, n \in PartNos : Sends[u][n] \subseteq Bodies
  BY SendsBodies
<1>2. \/ OneCallNext \/ UNCHANGED vars
  OBVIOUS
<1>3. CASE OneCallNext
  <2>1. \/ Proceed
        \/ \E w \in Writers, u \in Uploads, n \in PartNos, body \in Bodies :
              Quiescent(u) /\ WritePartCheck(w, u, n, body)
        \/ \E c \in Completers, u \in Uploads :
              /\ Quiescent(u)
              /\ \A n \in PartNos : sent[u][n] # Unacked
              /\ CompleteCheck(c, u)
    BY <1>1, <1>3 DEF OneCallNext
  <2>2. CASE Proceed
    <3>1. \/ \E u \in Uploads : \/ Create(u) \/ CreateFails(u)
                                \/ AbortRow(u) \/ AbortFiles(u)
          \/ \E w \in Writers : \/ WritePartOpen(w) \/ WritePartEnd(w)
                                \/ WritePartBreaks(w)
          \/ \E c \in Completers :
                \/ CompleteList(c) \/ CompleteOpen(c) \/ CompleteCopy(c)
                \/ CompleteRefused(c) \/ CompleteStore(c) \/ CompleteCommit(c)
                \/ CompleteFails(c) \/ CompleteUnlink(c) \/ CompleteEnd(c)
          \/ Crash
      BY <2>2 DEF Proceed
    <3> QED
      BY <3>1, CompleteAlone
  <2> QED
    BY <2>1, <2>2
<1> QED
  BY <1>2, <1>3

(* An upload nobody has created has no parts, an abort under way has no     *)
(* row, and a call on an upload is over before the upload is completed, but *)
(* for the cleanup of the complete that did it.                             *)
RowsFit ==
  /\ \A u \in Uploads : row[u] = "unused" =>
       \A n \in PartNos : part[u][n] = None /\ sent[u][n] = None
  /\ \A u \in aborting : row[u] = "deleted"
  /\ \A w \in Writers : writing[w] # None =>
       row[writing[w].upload] \in {"open", "deleted"}
  /\ \A c \in Completers : completing[c] # None =>
       \/ row[completing[c].upload] \in {"open", "deleted"}
       \/ /\ row[completing[c].upload] = "completed"
          /\ completing[c].step = "cleanup"

OneCall == Alone /\ RowsFit

(* A step that starts no call                                               *)
LEMMA AloneKept ==
  ASSUME Alone,
         \A w \in Writers : writing'[w] # None =>
            writing[w] # None /\ writing'[w].upload = writing[w].upload,
         \A c \in Completers : completing'[c] # None =>
            completing[c] # None /\ completing'[c].upload = completing[c].upload
  PROVE  Alone'
BY DEF Alone

(* Every step of such clients keeps them so.                                *)
LEMMA AloneStep ==
  ASSUME TypeInv, Alone, [OneCallNext]_vars
  PROVE  Alone'
<1> USE DEF TypeInv
<1>t. /\ writing \in [Writers -> WriteCalls \cup {None}]
      /\ completing \in [Completers -> CompleteCalls \cup {None}]
  BY DEF TypeOK
<1>1. CASE UNCHANGED <<writing, completing>>
  BY <1>1 DEF Alone
<1>2. ASSUME NEW u \in Uploads, AbortFiles(u) PROVE Alone'
  <2>1. /\ writing' = Detach(u, PartNos)
        /\ completing' = Redirect(u, Unlinked)
    BY <1>2 DEF AbortFiles
  <2>2. ASSUME NEW w \in Writers, writing'[w] # None
        PROVE  writing[w] # None /\ writing'[w].upload = writing[w].upload
    BY <2>1, <2>2, Detached
  <2>3. ASSUME NEW c \in Completers, completing'[c] # None
        PROVE  /\ completing[c] # None
               /\ completing'[c].upload = completing[c].upload
    BY <2>1, <2>3, Redirected DEF SameButAt
  <2> QED
    BY <2>2, <2>3, AloneKept
<1>3. ASSUME NEW w \in Writers, NEW u \in Uploads, NEW n \in PartNos,
             NEW body \in Bodies, Quiescent(u), WritePartCheck(w, u, n, body)
      PROVE  Alone'
  <2> PICK now : now = [upload |-> u, n |-> n, body |-> body,
                        opened |-> FALSE, linked |-> FALSE]
    OBVIOUS
  <2>1. /\ writing' = [writing EXCEPT ![w] = now] /\ now.upload = u
        /\ completing' = completing
    BY <1>3 DEF WritePartCheck
  <2>2. /\ \A x \in Writers : writing[x] # None => writing[x].upload # u
        /\ \A c \in Completers : completing[c] # None =>
              completing[c].upload # u
    BY <1>3 DEF Quiescent, WritersOf, CallsOf
  <2> QED
    BY <1>t, <2>1, <2>2 DEF Alone
<1>4. ASSUME NEW w \in Writers,
             WritePartOpen(w) \/ WritePartEnd(w) \/ WritePartBreaks(w)
      PROVE  Alone'
  <2> PICK now : now = writing'[w]
    OBVIOUS
  <2>1. /\ writing' = [writing EXCEPT ![w] = now] /\ completing' = completing
        /\ now # None => writing[w] # None /\ now.upload = writing[w].upload
    <3>1. CASE WritePartOpen(w)
      <4> PICK l : l = [writing[w] EXCEPT !.opened = TRUE, !.linked = TRUE]
        OBVIOUS
      <4>1. writing[w] # None /\ l.upload = writing[w].upload
        BY <3>1, WriteType DEF WritePartOpen, WriteCalls
      <4>2. writing' = [writing EXCEPT ![w] = l] /\ completing' = completing
        BY <1>t, <3>1 DEF WritePartOpen
      <4> QED
        BY <1>t, <4>1, <4>2
    <3>2. CASE WritePartEnd(w) \/ WritePartBreaks(w)
      BY <1>t, <3>2 DEF WritePartEnd, WritePartBreaks
    <3> QED
      BY <1>4, <3>1, <3>2
  <2> QED
    BY <1>t, <2>1, AloneKept
<1>5. ASSUME NEW c \in Completers, NEW u \in Uploads, Quiescent(u),
             CompleteCheck(c, u)
      PROVE  Alone'
  <2> PICK now : now = NewCall(u)
    OBVIOUS
  <2>1. /\ completing' = [completing EXCEPT ![c] = now] /\ now.upload = u
        /\ writing' = writing
    BY <1>5 DEF CompleteCheck, NewCall
  <2>2. /\ \A x \in Writers : writing[x] # None => writing[x].upload # u
        /\ \A d \in Completers : completing[d] # None =>
              completing[d].upload # u
    BY <1>5 DEF Quiescent, WritersOf, CallsOf
  <2> QED
    BY <1>t, <2>1, <2>2 DEF Alone
<1>6. ASSUME NEW c \in Completers, NEW k, NEW now, Moves(c, k, now),
             now # None => now.upload = k.upload
      PROVE  Alone'
  BY <1>t, <1>6, AloneKept DEF Moves
<1>7. ASSUME NEW c \in Completers, NEW k, NEW now, Moves(c, k, now),
             \/ GivesUp(c, k, now) \/ Lists(c, k, now) \/ Opens(c, k, now)
             \/ Copies(c, k, now) \/ Refuses(c, k, now)
             \/ Stores(c, k, now) \/ Commits(c, k, now)
             \/ Unlinks(c, k, now) \/ Ends(c, k, now)
      PROVE  now # None => now.upload = k.upload
  BY <1>7 DEF GivesUp, Lists, Opens, Copies, Refuses, Stores, Commits, Unlinks,
     Ends, Becomes
<1>8. CASE Crash
  BY <1>8 DEF Crash, Alone
<1>9. \A u \in Uploads : Create(u) \/ CreateFails(u) \/ AbortRow(u)
                            => UNCHANGED <<writing, completing>>
  BY DEF Create, CreateFails, AbortRow, calls
<1>10. UNCHANGED vars => UNCHANGED <<writing, completing>>
  BY DEF vars
<1> QED
  BY <1>1, <1>2, <1>3, <1>4, <1>5, <1>6, <1>7, <1>8, <1>9, <1>10, OneCallCases

(* What a write_part does after its check                                   *)
Writes(w, k, now) ==
  /\ writing[w] = k /\ k # None /\ k \in WriteCalls
  /\ writing' = [writing EXCEPT ![w] = now]
  /\ UNCHANGED <<tables, merged, object, completing, aborting, refused>>

Truncates(w, k, now) ==
  /\ ~k.opened
  /\ now # None /\ now.upload = k.upload /\ now.n = k.n /\ now.linked
  /\ part' = [part EXCEPT ![k.upload][k.n] = <<>>]
  /\ sent' = sent

Answers(w, k, now) ==
  /\ k.opened /\ now = None
  /\ part' = IF k.linked
             THEN [part EXCEPT ![k.upload][k.n] = WriteAt(@, 0, k.body)]
             ELSE part
  /\ sent' = IF Exists(k.upload) THEN [sent EXCEPT ![k.upload][k.n] = k.body]
             ELSE sent

BreaksOff(w, k, now) ==
  /\ k.opened /\ now = None
  /\ \/ part' = part
     \/ k.linked /\ \E x \in Bodies : part' = [part EXCEPT ![k.upload][k.n] = x]
  /\ sent' = sent

(* It does one of these things.                                             *)
LEMMA WriteCases ==
  ASSUME TypeInv, NEW w \in Writers,
         WritePartOpen(w) \/ WritePartEnd(w) \/ WritePartBreaks(w)
  PROVE  \E k, now :
           /\ Writes(w, k, now)
           /\ Truncates(w, k, now) \/ Answers(w, k, now) \/ BreaksOff(w, k, now)
<1> PICK k : k = writing[w]
  OBVIOUS
<1>0. k # None /\ k \in WriteCalls /\ k.upload \in Uploads /\ k.n \in PartNos
      /\ k.body \in Bodies
  BY WriteType DEF TypeInv, WritePartOpen, WritePartEnd, WritePartBreaks
<1>t. /\ writing \in [Writers -> WriteCalls \cup {None}]
      /\ part \in [Uploads -> [PartNos -> Bodies \cup {None}]]
  BY DEF TypeInv, TypeOK
<1>1. CASE WritePartOpen(w)
  <2> PICK now : now = [k EXCEPT !.opened = TRUE, !.linked = TRUE]
    OBVIOUS
  <2>1. /\ now \in WriteCalls /\ now.upload = k.upload /\ now.n = k.n
        /\ now.linked
    BY <1>0 DEF WriteCalls
  <2>2. now # None
    BY <2>1, MarkersMarkNothing
  <2>3. /\ writing' = [writing EXCEPT ![w] = now]
        /\ part' = [part EXCEPT ![k.upload][k.n] = <<>>]
        /\ ~k.opened
        /\ UNCHANGED <<tables, merged, object, completing, aborting, refused,
                       sent>>
    BY <1>1, <1>t DEF WritePartOpen, history
  <2>4. Writes(w, k, now) /\ Truncates(w, k, now)
    BY <1>0, <2>1, <2>2, <2>3 DEF Writes, Truncates
  <2> QED
    BY <2>4
<1>2. CASE WritePartEnd(w)
  <2>1. Writes(w, k, None) /\ Answers(w, k, None)
    BY <1>0, <1>2 DEF WritePartEnd, Writes, Answers
  <2> QED
    BY <2>1
<1>3. CASE WritePartBreaks(w)
  <2>1. Writes(w, k, None)
    BY <1>0, <1>3 DEF WritePartBreaks, Writes, history
  <2>2. PICK x \in Bodies :
           part' = IF k.linked
                   THEN [part EXCEPT ![k.upload][k.n] = WriteAt(@, 0, x)]
                   ELSE part
    BY <1>0, <1>3, EmptyFile DEF WritePartBreaks
  <2>3. k.linked => WriteAt(part[k.upload][k.n], 0, x) \in Bodies
    BY <1>0, <1>t, WritePart DEF TypeInv, LinksOK
  <2>4. BreaksOff(w, k, None)
    BY <1>3, <2>2, <2>3 DEF WritePartBreaks, BreaksOff, history
  <2> QED
    BY <2>1, <2>4
<1> QED
  BY <1>1, <1>2, <1>3

(* Every step keeps calls and rows in accord.                               *)
LEMMA RowsStep ==
  ASSUME TypeInv, OneCall, [OneCallNext]_vars
  PROVE  RowsFit'
<1> USE DEF TypeInv, OneCall
<1>t. /\ row \in [Uploads -> {"unused", "open", "completed", "deleted"}]
      /\ writing \in [Writers -> WriteCalls \cup {None}]
      /\ completing \in [Completers -> CompleteCalls \cup {None}]
      /\ part \in [Uploads -> [PartNos -> Bodies \cup {None}]]
      /\ sent \in [Uploads -> [PartNos -> Bodies \cup {None, Unacked}]]
      /\ aborting \subseteq Uploads
      /\ \A w \in Writers : writing[w] # None =>
            writing[w].upload \in Uploads /\ writing[w].n \in PartNos
      /\ \A c \in Completers : completing[c] # None =>
            completing[c].upload \in Uploads
  BY CallType, WriteType DEF TypeOK
<1>1. ASSUME NEW u \in Uploads, Create(u) PROVE RowsFit'
  <2>1. /\ row[u] = "unused" /\ row' = [row EXCEPT ![u] = "open"]
        /\ UNCHANGED <<part, sent, writing, completing, aborting>>
    BY <1>1 DEF Create, calls, history
  <2> QED
    BY <1>t, <2>1 DEF RowsFit
<1>2. ASSUME NEW u \in Uploads, AbortRow(u) PROVE RowsFit'
  <2>1. /\ row' = [row EXCEPT ![u] = "deleted"]
        /\ sent' = [sent EXCEPT ![u] = [n \in PartNos |-> None]]
        /\ aborting' = aborting \cup {u}
        /\ UNCHANGED <<part, writing, completing>>
    BY <1>2 DEF AbortRow, files
  <2> QED
    BY <1>t, <2>1 DEF RowsFit
<1>3. ASSUME NEW u \in Uploads, AbortFiles(u) PROVE RowsFit'
  <2>1. /\ aborting' \subseteq aborting
        /\ part' = [part EXCEPT ![u] = [n \in PartNos |-> None]]
        /\ writing' = Detach(u, PartNos)
        /\ completing' = Redirect(u, Unlinked)
        /\ UNCHANGED <<row, sent>>
    BY <1>3 DEF AbortFiles, tables, history
  <2>2. ASSUME NEW w \in Writers, writing'[w] # None
        PROVE  writing[w] # None /\ writing'[w].upload = writing[w].upload
    BY <2>1, <2>2, Detached
  <2>3. ASSUME NEW c \in Completers, completing'[c] # None
        PROVE  /\ completing[c] # None
               /\ completing'[c].upload = completing[c].upload
               /\ completing'[c].step = completing[c].step
    BY <2>1, <2>3, Redirected DEF SameButAt
  <2>4. \A v \in Uploads, n \in PartNos :
           part[v][n] = None => part'[v][n] = None
    BY <1>t, <2>1
  <2>5. ASSUME NEW v \in Uploads, row'[v] = "unused"
        PROVE  \A n \in PartNos : part'[v][n] = None /\ sent'[v][n] = None
    BY <2>1, <2>4, <2>5 DEF RowsFit
  <2>6. \A v \in aborting' : row'[v] = "deleted"
    BY <2>1 DEF RowsFit
  <2>7. \A w \in Writers : writing'[w] # None =>
           row'[writing'[w].upload] \in {"open", "deleted"}
    BY <2>1, <2>2 DEF RowsFit
  <2>8. ASSUME NEW c \in Completers, completing'[c] # None
        PROVE  \/ row'[completing'[c].upload] \in {"open", "deleted"}
               \/ row'[completing'[c].upload] = "completed"
                    /\ completing'[c].step = "cleanup"
    <3> PICK k, l : k = completing[c] /\ l = completing'[c]
      OBVIOUS
    <3>1. k # None /\ l.upload = k.upload /\ l.step = k.step
      BY <2>3, <2>8
    <3>2. \/ row[k.upload] \in {"open", "deleted"}
          \/ row[k.upload] = "completed" /\ k.step = "cleanup"
      BY <3>1 DEF RowsFit
    <3> QED
      BY <2>1, <3>1, <3>2
  <2> QED
    BY <2>5, <2>6, <2>7, <2>8 DEF RowsFit
<1>4. ASSUME NEW w \in Writers, NEW u \in Uploads, NEW n \in PartNos,
             NEW body \in Bodies, WritePartCheck(w, u, n, body)
      PROVE  RowsFit'
  <2> PICK now : now = [upload |-> u, n |-> n, body |-> body,
                        opened |-> FALSE, linked |-> FALSE]
    OBVIOUS
  <2>1. /\ row[u] = "open"
        /\ writing' = [writing EXCEPT ![w] = now] /\ now.upload = u
        /\ sent' = [sent EXCEPT ![u][n] = Unacked]
        /\ UNCHANGED <<row, part, completing, aborting>>
    BY <1>4 DEF WritePartCheck, tables, files
  <2>2. \A v \in Uploads : v # u => sent'[v] = sent[v]
    BY <1>t, <2>1
  <2>3. \A x \in Writers : writing'[x] = IF x = w THEN now ELSE writing[x]
    BY <1>t, <2>1
  <2> QED
    BY <1>t, <2>1, <2>2, <2>3 DEF RowsFit
<1>5. ASSUME NEW w \in Writers, NEW k, NEW now, Writes(w, k, now),
             Truncates(w, k, now) \/ Answers(w, k, now) \/ BreaksOff(w, k, now)
      PROVE  RowsFit'
  <2>1. /\ writing' = [writing EXCEPT ![w] = now]
        /\ now # None => now.upload = k.upload
        /\ k = writing[w] /\ k # None /\ k.upload \in Uploads
        /\ UNCHANGED <<row, completing, aborting>>
    BY <1>t, <1>5 DEF Writes, Truncates, Answers, BreaksOff, tables
  <2>2. \A v \in Uploads : v # k.upload =>
           part'[v] = part[v] /\ sent'[v] = sent[v]
    BY <1>t, <1>5 DEF Truncates, Answers, BreaksOff
  <2>3. row[k.upload] # "unused"
    BY <2>1 DEF RowsFit
  <2>4. \A x \in Writers : writing'[x] # None =>
           writing[x] # None /\ writing'[x].upload = writing[x].upload
    BY <1>t, <2>1
  <2> QED
    BY <1>t, <2>1, <2>2, <2>3, <2>4 DEF RowsFit
<1>6. ASSUME NEW c \in Completers, NEW u \in Uploads, CompleteCheck(c, u)
      PROVE  RowsFit'
  <2> PICK now : now = NewCall(u)
    OBVIOUS
  <2>1. /\ row[u] = "open"
        /\ completing' = [completing EXCEPT ![c] = now] /\ now.upload = u
        /\ UNCHANGED <<row, part, sent, writing, aborting>>
    BY <1>6 DEF CompleteCheck, NewCall, tables, files, history
  <2> QED
    BY <1>t, <2>1 DEF RowsFit
<1>7. ASSUME NEW c \in Completers, NEW k, NEW now, Moves(c, k, now),
             \/ GivesUp(c, k, now) \/ Lists(c, k, now) \/ Opens(c, k, now)
             \/ Copies(c, k, now) \/ Refuses(c, k, now)
             \/ Stores(c, k, now) \/ Commits(c, k, now)
             \/ Unlinks(c, k, now) \/ Ends(c, k, now)
      PROVE  RowsFit'
  <2>1. /\ completing' = [completing EXCEPT ![c] = now]
        /\ k = completing[c] /\ k # None /\ k.upload \in Uploads
        /\ now # None => now.upload = k.upload
        /\ UNCHANGED <<writing, aborting, sent>>
    BY <1>t, <1>7 DEF Moves, GivesUp, Lists, Opens, Copies, Refuses, Stores,
       Commits, Unlinks, Ends, Becomes
  <2>2. /\ \A v \in Uploads : v # k.upload => row'[v] = row[v]
        /\ row'[k.upload] = row[k.upload] \/
             /\ row[k.upload] = "open" /\ row'[k.upload] = "completed"
             /\ now # None /\ now.step = "cleanup"
    <3>1. CASE Commits(c, k, now)
      <4>1. k.step = "commit" /\ now # None /\ now.step = "cleanup"
        BY <3>1 DEF Commits, Becomes
      <4>2. row[k.upload] \in {"open", "deleted"}
        BY <2>1, <4>1 DEF RowsFit
      <4> QED
        BY <1>t, <2>1, <3>1, <4>1, <4>2 DEF Commits, Exists
    <3>2. CASE row' = row
      BY <3>2
    <3> QED
      BY <1>7, <3>1, <3>2 DEF GivesUp, Lists, Opens, Copies, Refuses, Stores,
         Unlinks, Ends, tables
  <2>3. \A v \in Uploads, n \in PartNos :
           part[v][n] = None => part'[v][n] = None
    <3>1. CASE Unlinks(c, k, now)
      BY <1>t, <2>1, <3>1 DEF Unlinks
    <3>2. CASE part' = part
      BY <3>2
    <3> QED
      BY <1>7, <3>1, <3>2 DEF GivesUp, Lists, Opens, Copies, Refuses, Stores,
         Commits, Ends
  <2>4. k.step = "cleanup" /\ now # None => now.step = "cleanup"
    BY <1>7 DEF GivesUp, Lists, Opens, Copies, Refuses, Stores, Commits,
       Unlinks, Ends, Becomes
  <2>5. ASSUME NEW v \in Uploads, row'[v] = "unused"
        PROVE  \A n \in PartNos : part'[v][n] = None /\ sent'[v][n] = None
    BY <2>1, <2>2, <2>3, <2>5 DEF RowsFit
  <2>6. \A v \in aborting' : row'[v] = "deleted"
    BY <1>t, <2>1, <2>2 DEF RowsFit
  <2>7. ASSUME NEW w \in Writers, writing'[w] # None
        PROVE  row'[writing'[w].upload] \in {"open", "deleted"}
    BY <1>t, <2>1, <2>2, <2>7 DEF RowsFit, Alone
  <2>8. ASSUME NEW d \in Completers, completing'[d] # None
        PROVE  \/ row'[completing'[d].upload] \in {"open", "deleted"}
               \/ row'[completing'[d].upload] = "completed"
                    /\ completing'[d].step = "cleanup"
    <3>1. CASE d = c
      <4>1. completing'[d] = now /\ now # None
        BY <1>t, <2>1, <2>8, <3>1
      <4> QED
        BY <2>1, <2>2, <2>4, <4>1 DEF RowsFit
    <3>2. CASE d # c
      <4>1. /\ completing'[d] = completing[d] /\ completing[d] # None
            /\ completing[d].upload \in Uploads
            /\ completing[d].upload # k.upload
        BY <1>t, <2>1, <2>8, <3>2 DEF Alone
      <4> QED
        BY <2>2, <4>1 DEF RowsFit
    <3> QED
      BY <3>1, <3>2
  <2> QED
    BY <2>5, <2>6, <2>7, <2>8 DEF RowsFit
<1>8. CASE Crash
  BY <1>8 DEF Crash, RowsFit, tables, files, history
<1>9. CASE UNCHANGED <<row, part, sent, writing, completing, aborting>>
  BY <1>9 DEF RowsFit
<1>10. \A u \in Uploads : CreateFails(u) =>
          UNCHANGED <<row, part, sent, writing, completing, aborting>>
  BY DEF CreateFails, tables, calls, history
<1>11. UNCHANGED vars =>
          UNCHANGED <<row, part, sent, writing, completing, aborting>>
  BY DEF vars
<1> QED
  BY <1>1, <1>2, <1>3, <1>4, <1>5, <1>6, <1>7, <1>8, <1>9, <1>10, <1>11,
     OneCallCases, WriteCases

(* Under OneCallSpec no two calls meet on one upload.                       *)
THEOREM OneCallCorrect == OneCallSpec => [](TypeInv /\ OneCall)
<1>1. Init => OneCall
  BY DEF Init, OneCall, Alone, RowsFit
<1>2. TypeInv /\ OneCall /\ [OneCallNext]_vars => OneCall'
  BY AloneStep, RowsStep DEF OneCall
<1> QED
  BY <1>1, <1>2, OneCallIsSpec, TypeCorrect, PTL DEF OneCallSpec

(* ------------------------------------------------------------------------ *)
(* The store holds what its hashes say                                      *)
(* ------------------------------------------------------------------------ *)
(* A complete that copies has its own copy in merged.bin, unless an abort   *)
(* has unlinked it; no handle is open on an object.                         *)
HandleOK(k) ==
  /\ k.step # "copy" => k.at = None
  /\ k.step = "copy" => \/ k.at = Merged /\ merged[k.upload] = k.out
                        \/ k.at = Unlinked /\ merged[k.upload] = None

HandleInv ==
  /\ ContentMatchesHash
  /\ \A c \in Completers : completing[c] # None => HandleOK(completing[c])

(* A complete keeps the store and the handles in order,                     *)
LEMMA HandleMoves ==
  ASSUME TypeInv, OneCall, HandleInv, NEW c \in Completers, NEW k, NEW now,
         Moves(c, k, now),
         \/ GivesUp(c, k, now) \/ Lists(c, k, now) \/ Opens(c, k, now)
         \/ Copies(c, k, now) \/ Refuses(c, k, now)
         \/ Stores(c, k, now) \/ Commits(c, k, now)
         \/ Unlinks(c, k, now) \/ Ends(c, k, now)
  PROVE  HandleInv'
<1> USE DEF TypeInv, OneCall
<1>t. /\ completing \in [Completers -> CompleteCalls \cup {None}]
      /\ merged \in [Uploads -> Files \cup {None}]
      /\ object \in [Contents -> Files \cup {None}]
  BY DEF TypeOK
<1>0. /\ completing' = [completing EXCEPT ![c] = now]
      /\ k = completing[c] /\ k # None /\ k.upload \in Uploads
      /\ k.out \in Contents /\ HandleOK(k) /\ CallOK(k)
      /\ \A d \in Completers : completing[d] # None =>
            completing[d].upload \in Uploads
  BY CallType DEF Moves, HandleInv, CallsOK
<1>1. \A v \in Uploads : v # k.upload => merged'[v] = merged[v]
  <2>1. CASE merged' = merged
    BY <2>1
  <2>2. CASE Opens(c, k, now) \/ Stores(c, k, now) \/ Ends(c, k, now)
    BY <1>t, <2>2 DEF Opens, Stores, Ends
  <2>3. CASE Copies(c, k, now)
    BY <1>t, <2>3 DEF Copies
  <2> QED
    BY <2>1, <2>2, <2>3 DEF GivesUp, Lists, Refuses, Commits, Unlinks
<1>2. now # None => HandleOK(now)'
  <2>1. CASE Lists(c, k, now) \/ Refuses(c, k, now) \/ Stores(c, k, now)
             \/ Commits(c, k, now) \/ Unlinks(c, k, now)
    BY <1>0, <2>1 DEF Lists, Refuses, Stores, Commits, Unlinks, Becomes,
       HandleOK
  <2>2. CASE Opens(c, k, now)
    BY <1>0, <1>t, <2>2 DEF Opens, Becomes, HandleOK, CallOK
  <2>3. CASE Copies(c, k, now)
    <3> PICK n \in k.left, x \in Bodies :
         /\ now.out = k.out \o x /\ now.at = k.at
         /\ merged' = IF k.at = Merged
                      THEN [merged EXCEPT ![k.upload] =
                              WriteAt(@, Len(k.out), x)]
                      ELSE merged
      BY <2>3 DEF Copies
    <3>1. WriteAt(k.out, Len(k.out), x) = k.out \o x
      BY <1>0, WriteAtEnd
    <3>2. k.step = "copy" /\ now.step = "copy" /\ now.upload = k.upload
      BY <2>3 DEF Copies, Becomes
    <3> QED
      BY <1>0, <1>t, <3>1, <3>2, Markers DEF HandleOK
  <2> QED
    BY <2>1, <2>2, <2>3 DEF GivesUp, Ends
<1>3. ASSUME NEW d \in Completers, completing'[d] # None
      PROVE  HandleOK(completing[d])'
  <2>1. CASE d = c
    <3>1. completing'[d] = now
      BY <1>0, <1>t, <2>1
    <3> QED
      BY <1>2, <1>3, <3>1 DEF HandleOK
  <2>2. CASE d # c
    <3> PICK j : j = completing[d]
      OBVIOUS
    <3>1. completing'[d] = j /\ j # None /\ j.upload # k.upload
          /\ j.upload \in Uploads
      BY <1>0, <1>t, <1>3, <2>2 DEF Alone
    <3> QED
      BY <1>1, <3>1 DEF HandleInv, HandleOK
  <2> QED
    BY <2>1, <2>2
<1>4. ContentMatchesHash'
  <2>1. CASE object' = object
    BY <2>1 DEF HandleInv, ContentMatchesHash
  <2>2. CASE Copies(c, k, now)
    <3>1. k.at \notin Contents
      BY <1>0, <2>2, Markers DEF Copies, HandleOK
    <3> QED
      BY <2>1, <2>2, <3>1 DEF Copies
  <2>3. CASE Stores(c, k, now)
    <3>1. merged[k.upload] # None => merged[k.upload] = k.out
      BY <1>0, <2>3 DEF Stores, HandleOK
    <3> QED
      BY <1>0, <1>t, <2>3, <3>1 DEF Stores, HandleInv, ContentMatchesHash
  <2> QED
    BY <2>1, <2>2, <2>3 DEF GivesUp, Lists, Opens, Refuses, Commits, Unlinks,
       Ends
<1> QED
  BY <1>3, <1>4 DEF HandleInv

(* and so does every other step.                                            *)
LEMMA HandleStep ==
  ASSUME TypeInv, OneCall, HandleInv, [OneCallNext]_vars
  PROVE  HandleInv'
<1> USE DEF TypeInv, OneCall
<1>t. /\ completing \in [Completers -> CompleteCalls \cup {None}]
      /\ merged \in [Uploads -> Files \cup {None}]
  BY DEF TypeOK
<1>1. CASE UNCHANGED <<completing, merged, object>>
  BY <1>1 DEF HandleInv, HandleOK, ContentMatchesHash
<1>2. ASSUME NEW u \in Uploads, AbortFiles(u) PROVE HandleInv'
  <2>1. /\ merged' = [merged EXCEPT ![u] = None]
        /\ completing' = Redirect(u, Unlinked)
        /\ object' = object
    BY <1>2 DEF AbortFiles
  <2>2. ASSUME NEW c \in Completers, completing'[c] # None
        PROVE  HandleOK(completing[c])'
    <3> PICK k, l : k = completing[c] /\ l = completing'[c]
      OBVIOUS
    <3>1. /\ k # None /\ SameButAt(k, l)
          /\ l.at = IF k.upload = u /\ k.at = Merged THEN Unlinked ELSE k.at
      BY <2>1, <2>2, Redirected
    <3>2. HandleOK(k) /\ k.upload \in Uploads
      BY <3>1, CallType DEF HandleInv
    <3> QED
      BY <1>t, <2>1, <3>1, <3>2, Markers DEF HandleOK, SameButAt
  <2> QED
    BY <2>1, <2>2 DEF HandleInv, ContentMatchesHash
<1>3. ASSUME NEW c \in Completers, NEW u \in Uploads, CompleteCheck(c, u)
      PROVE  HandleInv'
  <2> PICK now : now = NewCall(u)
    OBVIOUS
  <2>1. /\ completing' = [completing EXCEPT ![c] = now]
        /\ now.step = "list" /\ now.at = None
        /\ UNCHANGED <<merged, object>>
    BY <1>3 DEF CompleteCheck, NewCall, files
  <2> QED
    BY <1>t, <2>1 DEF HandleInv, HandleOK, ContentMatchesHash
<1>4. CASE Crash
  BY <1>4 DEF Crash, HandleInv, ContentMatchesHash, files
<1>5. ASSUME NEW w \in Writers, NEW k, NEW now, Writes(w, k, now)
      PROVE  UNCHANGED <<completing, merged, object>>
  BY <1>5 DEF Writes
<1>6. \A u \in Uploads : Create(u) \/ CreateFails(u) \/ AbortRow(u) =>
         UNCHANGED <<completing, merged, object>>
  BY DEF Create, CreateFails, AbortRow, files, calls
<1>7. \A w \in Writers, u \in Uploads, n \in PartNos, body \in Bodies :
         WritePartCheck(w, u, n, body) =>
            UNCHANGED <<completing, merged, object>>
  BY DEF WritePartCheck, files
<1>8. UNCHANGED vars => UNCHANGED <<completing, merged, object>>
  BY DEF vars
<1> QED
  BY <1>1, <1>2, <1>3, <1>4, <1>5, <1>6, <1>7, <1>8, OneCallCases, WriteCases,
     HandleMoves

(* With one call at a time on an upload the store never holds other bytes   *)
(* than a hash says: a complete renames into the store what it alone has    *)
(* written to merged.bin, and no handle leads to an object.                 *)
THEOREM ContentMatchesHashCorrect == OneCallSpec => []ContentMatchesHash
<1>1. Init => HandleInv
  BY DEF Init, HandleInv, ContentMatchesHash
<1>2. TypeInv /\ OneCall /\ HandleInv /\ [OneCallNext]_vars => HandleInv'
  BY HandleStep
<1>3. HandleInv => ContentMatchesHash
  BY DEF HandleInv
<1> QED
  BY <1>1, <1>2, <1>3, OneCallCorrect, PTL DEF OneCallSpec

(* ------------------------------------------------------------------------ *)
(* Acknowledged parts are kept                                              *)
(* ------------------------------------------------------------------------ *)
(* Nobody knows a part accepted whose file may still change, and parts are  *)
(* only taken away from an upload that is completed, refused or aborted.    *)
WriterOK(k) ==
  row[k.upload] = "open" =>
    /\ sent[k.upload][k.n] = Unacked
    /\ k.opened => k.linked /\ part[k.upload][k.n] = <<>>

CleanupOK(k) ==
  k.step = "cleanup" => row[k.upload] # "open" \/ k.upload \in refused

PartInv ==
  /\ AckedPartsKept
  /\ \A w \in Writers : writing[w] # None => WriterOK(writing[w])
  /\ \A c \in Completers : completing[c] # None => CleanupOK(completing[c])

(* A complete changes no other upload than its own.                         *)
LEMMA MovesElsewhere ==
  ASSUME TypeInv, NEW c \in Completers, NEW k, NEW now,
         Moves(c, k, now),
         \/ GivesUp(c, k, now) \/ Lists(c, k, now) \/ Opens(c, k, now)
         \/ Copies(c, k, now) \/ Refuses(c, k, now)
         \/ Stores(c, k, now) \/ Commits(c, k, now)
         \/ Unlinks(c, k, now) \/ Ends(c, k, now),
         NEW v \in Uploads, v # k.upload
  PROVE  /\ row'[v] = row[v] /\ receipt'[v] = receipt[v]
         /\ part'[v] = part[v] /\ (v \in refused' <=> v \in refused)
<1>t. /\ row \in [Uploads -> {"unused", "open", "completed", "deleted"}]
      /\ receipt \in [Uploads -> Contents \cup {None}]
      /\ part \in [Uploads -> [PartNos -> Bodies \cup {None}]]
  BY DEF TypeInv, TypeOK
<1>1. CASE UNCHANGED <<row, receipt, part, refused>>
  BY <1>1
<1>2. CASE Commits(c, k, now)
  BY <1>t, <1>2 DEF Commits
<1>3. CASE Unlinks(c, k, now)
  BY <1>t, <1>3 DEF Unlinks, tables
<1>4. CASE Refuses(c, k, now)
  BY <1>4 DEF Refuses, tables
<1> QED
  BY <1>1, <1>2, <1>3, <1>4 DEF GivesUp, Lists, Opens, Copies, Stores, Ends,
     tables

(* A complete takes no acknowledged part away too early,                    *)
LEMMA PartMoves ==
  ASSUME TypeInv, OneCall, PartInv, NEW c \in Completers, NEW k, NEW now,
         Moves(c, k, now),
         \/ GivesUp(c, k, now) \/ Lists(c, k, now) \/ Opens(c, k, now)
         \/ Copies(c, k, now) \/ Refuses(c, k, now)
         \/ Stores(c, k, now) \/ Commits(c, k, now)
         \/ Unlinks(c, k, now) \/ Ends(c, k, now)
  PROVE  PartInv'
<1> USE DEF TypeInv, OneCall
<1>t. /\ row \in [Uploads -> {"unused", "open", "completed", "deleted"}]
      /\ completing \in [Completers -> CompleteCalls \cup {None}]
      /\ part \in [Uploads -> [PartNos -> Bodies \cup {None}]]
  BY DEF TypeOK
<1>0. /\ completing' = [completing EXCEPT ![c] = now]
      /\ UNCHANGED <<writing, sent>>
      /\ k = completing[c] /\ k # None /\ k.upload \in Uploads
      /\ CleanupOK(k)
      /\ \A d \in Completers : completing[d] # None =>
            completing[d].upload \in Uploads
      /\ \A w \in Writers : writing[w] # None =>
            writing[w].upload \in Uploads /\ writing[w].upload # k.upload
  BY CallType, WriteType DEF Moves, PartInv, Alone
<1>1. \A v \in Uploads : v # k.upload =>
         /\ row'[v] = row[v] /\ part'[v] = part[v]
         /\ v \in refused' <=> v \in refused
  BY MovesElsewhere
<1>2. row'[k.upload] = "open" /\ k.upload \notin refused' =>
         /\ row[k.upload] = "open" /\ k.upload \notin refused
         /\ part'[k.upload] = part[k.upload]
  <2>1. CASE UNCHANGED <<row, part, refused>>
    BY <2>1
  <2>2. CASE Commits(c, k, now)
    BY <1>0, <1>t, <2>2 DEF Commits, Exists
  <2>3. CASE Unlinks(c, k, now)
    BY <1>0, <2>3 DEF Unlinks, tables, CleanupOK
  <2>4. CASE Refuses(c, k, now)
    BY <2>4 DEF Refuses, tables
  <2> QED
    BY <2>1, <2>2, <2>3, <2>4 DEF GivesUp, Lists, Opens, Copies, Stores, Ends,
       tables
<1>3. AckedPartsKept'
  BY <1>0, <1>1, <1>2 DEF PartInv, AckedPartsKept
<1>4. ASSUME NEW w \in Writers, writing'[w] # None
      PROVE  WriterOK(writing[w])'
  <2> PICK j : j = writing[w]
    OBVIOUS
  <2>1. /\ writing'[w] = j /\ j # None
        /\ j.upload \in Uploads /\ j.upload # k.upload
    BY <1>0, <1>4
  <2> QED
    BY <1>0, <1>1, <2>1 DEF PartInv, WriterOK
<1>5. now # None => CleanupOK(now)'
  <2>1. CASE Commits(c, k, now)
    BY <1>0, <1>t, <2>1 DEF Commits, Becomes, CleanupOK, Exists
  <2>2. CASE Refuses(c, k, now)
    BY <1>0, <2>2 DEF Refuses, Becomes, CleanupOK
  <2>3. CASE Unlinks(c, k, now)
    BY <1>0, <2>3 DEF Unlinks, Becomes, CleanupOK, tables
  <2>4. CASE Lists(c, k, now) \/ Opens(c, k, now) \/ Copies(c, k, now)
             \/ Stores(c, k, now)
    BY <2>4 DEF Lists, Opens, Copies, Stores, Becomes, CleanupOK
  <2> QED
    BY <2>1, <2>2, <2>3, <2>4 DEF GivesUp, Ends
<1>6. ASSUME NEW d \in Completers, completing'[d] # None
      PROVE  CleanupOK(completing[d])'
  <2>1. CASE d = c
    <3>1. completing'[d] = now
      BY <1>0, <1>t, <2>1
    <3> QED
      BY <1>5, <1>6, <3>1 DEF CleanupOK
  <2>2. CASE d # c
    <3> PICK j : j = completing[d]
      OBVIOUS
    <3>1. completing'[d] = j /\ j # None /\ j.upload # k.upload
          /\ j.upload \in Uploads
      BY <1>0, <1>t, <1>6, <2>2 DEF Alone
    <3> QED
      BY <1>1, <3>1 DEF PartInv, CleanupOK
  <2> QED
    BY <2>1, <2>2
<1> QED
  BY <1>3, <1>4, <1>6 DEF PartInv

(* Changing one file of one upload leaves the others.                       *)
LEMMA CellKept ==
  ASSUME NEW S, NEW f \in [Uploads -> [PartNos -> S]],
         NEW u \in Uploads, NEW n \in PartNos, NEW x,
         NEW v \in Uploads, NEW m \in PartNos, v # u \/ m # n
  PROVE  [f EXCEPT ![u][n] = x][v][m] = f[v][m]
OBVIOUS

(* a write_part answers for what it has written,                            *)
LEMMA PartWrites ==
  ASSUME TypeInv, OneCall, PartInv, NEW w \in Writers, NEW k, NEW now,
         Writes(w, k, now),
         Truncates(w, k, now) \/ Answers(w, k, now) \/ BreaksOff(w, k, now)
  PROVE  PartInv'
<1> USE DEF TypeInv, OneCall
<1>t. /\ writing \in [Writers -> WriteCalls \cup {None}]
      /\ part \in [Uploads -> [PartNos -> Bodies \cup {None}]]
      /\ sent \in [Uploads -> [PartNos -> Bodies \cup {None, Unacked}]]
  BY DEF TypeOK
<1>0. /\ writing' = [writing EXCEPT ![w] = now]
      /\ UNCHANGED <<row, refused, completing>>
      /\ k = writing[w] /\ k # None
      /\ k.upload \in Uploads /\ k.n \in PartNos /\ k.body \in Bodies
      /\ WriterOK(k)
  BY WriteType DEF Writes, PartInv, tables
<1>1. \A v \in Uploads, m \in PartNos : v # k.upload \/ m # k.n =>
         part'[v][m] = part[v][m] /\ sent'[v][m] = sent[v][m]
  <2>1. part' = part \/ \E x : part' = [part EXCEPT ![k.upload][k.n] = x]
    BY <1>0 DEF Truncates, Answers, BreaksOff
  <2>2. sent' = sent \/ \E x : sent' = [sent EXCEPT ![k.upload][k.n] = x]
    BY <1>0 DEF Truncates, Answers, BreaksOff
  <2>3. ASSUME NEW v \in Uploads, NEW m \in PartNos, v # k.upload \/ m # k.n
        PROVE  part'[v][m] = part[v][m]
    <3>1. CASE part' = part
      BY <3>1
    <3>2. CASE \E x : part' = [part EXCEPT ![k.upload][k.n] = x]
      BY <1>0, <1>t, <2>3, <3>2, CellKept
    <3> QED
      BY <2>1, <3>1, <3>2
  <2>4. ASSUME NEW v \in Uploads, NEW m \in PartNos, v # k.upload \/ m # k.n
        PROVE  sent'[v][m] = sent[v][m]
    <3>1. CASE sent' = sent
      BY <3>1
    <3>2. CASE \E x : sent' = [sent EXCEPT ![k.upload][k.n] = x]
      BY <1>0, <1>t, <2>4, <3>2, CellKept
    <3> QED
      BY <2>2, <3>1, <3>2
  <2> QED
    BY <2>3, <2>4
<1>2. row[k.upload] = "open" =>
         \/ sent'[k.upload][k.n] = Unacked
         \/ sent'[k.upload][k.n] = part'[k.upload][k.n]
  <2>1. CASE sent' = sent
    BY <1>0, <2>1 DEF WriterOK
  <2>2. CASE Answers(w, k, now) /\ row[k.upload] = "open"
    <3>1. k.linked /\ part[k.upload][k.n] = <<>>
      BY <1>0, <2>2 DEF Answers, WriterOK
    <3>2. part'[k.upload][k.n] = k.body
      BY <1>0, <1>t, <2>2, <3>1, WritePart, EmptyFile DEF Answers
    <3>3. sent'[k.upload][k.n] = k.body
      BY <1>0, <1>t, <2>2 DEF Answers, Exists
    <3> QED
      BY <3>2, <3>3
  <2> QED
    BY <2>1, <2>2 DEF Truncates, BreaksOff
<1>3. AckedPartsKept'
  <2> SUFFICES ASSUME NEW v \in Uploads, row'[v] = "open", v \notin refused',
                      NEW m \in PartNos, sent'[v][m] \in Bodies
               PROVE  part'[v][m] = sent'[v][m]
    BY DEF AckedPartsKept
  <2>1. CASE v = k.upload /\ m = k.n
    BY <1>0, <1>2, <2>1, Markers
  <2>2. CASE v # k.upload \/ m # k.n
    BY <1>0, <1>1, <2>2 DEF PartInv, AckedPartsKept
  <2> QED
    BY <2>1, <2>2
<1>4. ASSUME NEW x \in Writers, writing'[x] # None
      PROVE  WriterOK(writing[x])'
  <2>1. CASE x = w
    <3>1. writing'[x] = now /\ now # None
      BY <1>0, <1>t, <1>4, <2>1
    <3>2. Truncates(w, k, now)
      BY <3>1 DEF Answers, BreaksOff
    <3>3. /\ now.upload = k.upload /\ now.n = k.n /\ now.linked
          /\ part'[k.upload][k.n] = <<>> /\ sent' = sent
      BY <1>0, <1>t, <3>2 DEF Truncates
    <3> QED
      BY <1>0, <3>1, <3>3 DEF WriterOK
  <2>2. CASE x # w
    <3> PICK j : j = writing[x]
      OBVIOUS
    <3>1. writing'[x] = j /\ j # None /\ j.upload # k.upload
          /\ j.upload \in Uploads /\ j.n \in PartNos
      BY <1>0, <1>t, <1>4, <2>2, WriteType DEF Alone
    <3> QED
      BY <1>0, <1>1, <3>1 DEF PartInv, WriterOK
  <2> QED
    BY <2>1, <2>2
<1>5. \A c \in Completers : completing'[c] # None => CleanupOK(completing[c])'
  BY <1>0 DEF PartInv, CleanupOK
<1> QED
  BY <1>3, <1>4, <1>5 DEF PartInv

(* and no other step touches the parts of an open upload.                   *)
LEMMA PartStep ==
  ASSUME TypeInv, OneCall, PartInv, [OneCallNext]_vars
  PROVE  PartInv'
<1> USE DEF TypeInv, OneCall
<1>t. /\ row \in [Uploads -> {"unused", "open", "completed", "deleted"}]
      /\ writing \in [Writers -> WriteCalls \cup {None}]
      /\ completing \in [Completers -> CompleteCalls \cup {None}]
      /\ part \in [Uploads -> [PartNos -> Bodies \cup {None}]]
      /\ sent \in [Uploads -> [PartNos -> Bodies \cup {None, Unacked}]]
      /\ \A w \in Writers : writing[w] # None =>
            writing[w].upload \in Uploads /\ writing[w].n \in PartNos
      /\ \A c \in Completers : completing[c] # None =>
            completing[c].upload \in Uploads
  BY CallType, WriteType DEF TypeOK
<1>1. CASE UNCHANGED <<row, part, sent, refused, writing, completing>>
  BY <1>1 DEF PartInv, AckedPartsKept, WriterOK, CleanupOK
<1>2. ASSUME NEW u \in Uploads, Create(u) PROVE PartInv'
  <2>1. /\ row[u] = "unused" /\ row' = [row EXCEPT ![u] = "open"]
        /\ UNCHANGED <<part, sent, refused, writing, completing>>
    BY <1>2 DEF Create, calls, history
  <2>2. /\ \A n \in PartNos : sent[u][n] = None
        /\ \A w \in Writers : writing[w] # None => writing[w].upload # u
        /\ \A c \in Completers : completing[c] # None =>
              completing[c].upload # u
    BY <2>1 DEF RowsFit
  <2>3. AckedPartsKept'
    BY <1>t, <2>1, <2>2, Markers DEF PartInv, AckedPartsKept
  <2>4. ASSUME NEW w \in Writers, writing'[w] # None
        PROVE  WriterOK(writing[w])'
    BY <1>t, <2>1, <2>2, <2>4 DEF PartInv, WriterOK
  <2>5. ASSUME NEW c \in Completers, completing'[c] # None
        PROVE  CleanupOK(completing[c])'
    BY <1>t, <2>1, <2>2, <2>5 DEF PartInv, CleanupOK
  <2> QED
    BY <2>3, <2>4, <2>5 DEF PartInv
<1>3. ASSUME NEW u \in Uploads, AbortRow(u) PROVE PartInv'
  <2>1. /\ row' = [row EXCEPT ![u] = "deleted"]
        /\ sent' = [sent EXCEPT ![u] = [n \in PartNos |-> None]]
        /\ refused' = refused \ {u}
        /\ UNCHANGED <<part, writing, completing>>
    BY <1>3 DEF AbortRow, files
  <2>2. AckedPartsKept'
    BY <1>t, <2>1 DEF PartInv, AckedPartsKept
  <2>3. ASSUME NEW w \in Writers, writing'[w] # None
        PROVE  WriterOK(writing[w])'
    BY <1>t, <2>1, <2>3 DEF PartInv, WriterOK
  <2>4. ASSUME NEW c \in Completers, completing'[c] # None
        PROVE  CleanupOK(completing[c])'
    BY <1>t, <2>1, <2>4 DEF PartInv, CleanupOK
  <2> QED
    BY <2>2, <2>3, <2>4 DEF PartInv
<1>4. ASSUME NEW u \in Uploads, AbortFiles(u) PROVE PartInv'
  <2>1. /\ u \in aborting
        /\ part' = [part EXCEPT ![u] = [n \in PartNos |-> None]]
        /\ writing' = Detach(u, PartNos)
        /\ completing' = Redirect(u, Unlinked)
        /\ UNCHANGED <<row, sent, refused>>
    BY <1>4 DEF AbortFiles, tables, history
  <2>2. row[u] = "deleted"
    BY <2>1 DEF RowsFit
  <2>3. AckedPartsKept'
    BY <1>t, <2>1, <2>2 DEF PartInv, AckedPartsKept
  <2>4. ASSUME NEW w \in Writers, writing'[w] # None
        PROVE  WriterOK(writing[w])'
    <3> PICK k, l : k = writing[w] /\ l = writing'[w]
      OBVIOUS
    <3>1. /\ k # None /\ l.upload = k.upload /\ l.n = k.n
          /\ l.opened = k.opened
          /\ k.upload # u => l.linked = k.linked
      BY <2>1, <2>4, Detached
    <3>2. WriterOK(k) /\ k.upload \in Uploads /\ k.n \in PartNos
      BY <1>t, <3>1 DEF PartInv
    <3> QED
      BY <1>t, <2>1, <2>2, <3>1, <3>2 DEF WriterOK
  <2>5. ASSUME NEW c \in Completers, completing'[c] # None
        PROVE  CleanupOK(completing[c])'
    <3> PICK k, l : k = completing[c] /\ l = completing'[c]
      OBVIOUS
    <3>1. k # None /\ SameButAt(k, l)
      BY <2>1, <2>5, Redirected
    <3>2. CleanupOK(k)
      BY <3>1 DEF PartInv
    <3> QED
      BY <2>1, <3>1, <3>2 DEF CleanupOK, SameButAt
  <2> QED
    BY <2>3, <2>4, <2>5 DEF PartInv
<1>5. ASSUME NEW w \in Writers, NEW u \in Uploads, NEW n \in PartNos,
             NEW body \in Bodies, Quiescent(u), WritePartCheck(w, u, n, body)
      PROVE  PartInv'
  <2> PICK now : now = [upload |-> u, n |-> n, body |-> body,
                        opened |-> FALSE, linked |-> FALSE]
    OBVIOUS
  <2>1. /\ writing' = [writing EXCEPT ![w] = now]
        /\ now.upload = u /\ now.n = n /\ now.opened = FALSE
        /\ sent' = [sent EXCEPT ![u][n] = Unacked]
        /\ UNCHANGED <<row, part, refused, completing>>
    BY <1>5 DEF WritePartCheck, tables, files
  <2>2. \A v \in Uploads, m \in PartNos :
           sent'[v][m] = IF v = u /\ m = n THEN Unacked ELSE sent[v][m]
    BY <1>t, <2>1
  <2>3. AckedPartsKept'
    BY <2>1, <2>2, Markers DEF PartInv, AckedPartsKept
  <2>4. ASSUME NEW x \in Writers, writing'[x] # None
        PROVE  WriterOK(writing[x])'
    <3>1. CASE x = w
      <4>1. writing'[x] = now
        BY <1>t, <2>1, <3>1
      <4> QED
        BY <2>1, <2>2, <4>1 DEF WriterOK
    <3>2. CASE x # w
      <4> PICK j : j = writing[x]
        OBVIOUS
      <4>1. /\ writing'[x] = j /\ j # None /\ j.upload \in Uploads
            /\ j.n \in PartNos /\ j.upload # u
        BY <1>5, <1>t, <2>1, <2>4, <3>2 DEF Quiescent, WritersOf
      <4> QED
        BY <2>1, <2>2, <4>1 DEF PartInv, WriterOK
    <3> QED
      BY <3>1, <3>2
  <2>5. ASSUME NEW c \in Completers, completing'[c] # None
        PROVE  CleanupOK(completing[c])'
    BY <2>1, <2>5 DEF PartInv, CleanupOK
  <2> QED
    BY <2>3, <2>4, <2>5 DEF PartInv
<1>6. ASSUME NEW c \in Completers, NEW u \in Uploads, CompleteCheck(c, u)
      PROVE  PartInv'
  <2> PICK now : now = NewCall(u)
    OBVIOUS
  <2>1. /\ completing' = [completing EXCEPT ![c] = now] /\ now.step = "list"
        /\ UNCHANGED <<row, part, sent, refused, writing>>
    BY <1>6 DEF CompleteCheck, NewCall, tables, files, history
  <2>2. AckedPartsKept'
    BY <2>1 DEF PartInv, AckedPartsKept
  <2>3. ASSUME NEW w \in Writers, writing'[w] # None
        PROVE  WriterOK(writing[w])'
    BY <2>1, <2>3 DEF PartInv, WriterOK
  <2>4. ASSUME NEW d \in Completers, completing'[d] # None
        PROVE  CleanupOK(completing[d])'
    BY <1>t, <2>1, <2>4 DEF PartInv, CleanupOK
  <2> QED
    BY <2>2, <2>3, <2>4 DEF PartInv
<1>7. CASE Crash
  BY <1>7 DEF Crash, PartInv, AckedPartsKept, tables, files, history
<1>8. \A u \in Uploads : CreateFails(u) =>
         UNCHANGED <<row, part, sent, refused, writing, completing>>
  BY DEF CreateFails, tables, calls, history
<1>9. UNCHANGED vars =>
         UNCHANGED <<row, part, sent, refused, writing, completing>>
  BY DEF vars
<1> QED
  BY <1>1, <1>2, <1>3, <1>4, <1>5, <1>6, <1>7, <1>8, <1>9, OneCallCases,
     WriteCases, PartMoves, PartWrites

(* Until an upload is completed, refused or aborted, what write_part has    *)
(* acknowledged is in its file, whatever crashes and failed completes there *)
(* have been.                                                               *)
THEOREM AckedPartsKeptCorrect == OneCallSpec => []AckedPartsKept
<1>1. Init => PartInv
  BY Markers DEF Init, PartInv, AckedPartsKept
<1>2. TypeInv /\ OneCall /\ PartInv /\ [OneCallNext]_vars => PartInv'
  BY PartStep
<1>3. PartInv => AckedPartsKept
  BY DEF PartInv
<1> QED
  BY <1>1, <1>2, <1>3, OneCallCorrect, PTL DEF OneCallSpec

(* ------------------------------------------------------------------------ *)
(* The parts one after the other                                            *)
(* ------------------------------------------------------------------------ *)
(* What Whole puts together of the parts s up to each number                *)
UpTo(s) ==
  LET upTo[n \in 0..MaxPart] ==
        IF n = 0 THEN <<>>
        ELSE upTo[n - 1] \o (IF s[n] \in Bodies THEN s[n] ELSE <<>>)
  IN  upTo

(* A receipt is to be this, up to the largest number.                       *)
LEMMA WholeIsUpTo ==
  ASSUME NEW u
  PROVE  Whole(u) = UpTo(sent[u])[MaxPart]
BY DEF Whole, UpTo

(* The recursion has a solution: one up to n for every n, or there would be *)
(* a least n without.                                                       *)
LEMMA UpToDef ==
  ASSUME NEW s
  PROVE  UpTo(s) = [n \in 0..MaxPart |->
           IF n = 0 THEN <<>>
           ELSE UpTo(s)[n - 1] \o (IF s[n] \in Bodies THEN s[n] ELSE <<>>)]
<1> DEFINE body(n) == IF s[n] \in Bodies THEN s[n] ELSE <<>>
           ok(f, m) == f = [n \in 0..m |-> IF n = 0 THEN <<>>
                                           ELSE f[n - 1] \o body(n)]
           T == {m \in Nat : ~ \E f : ok(f, m)}
<1>1. T = {}
  <2> SUFFICES ASSUME T # {} PROVE FALSE
    OBVIOUS
  <2>1. PICK m \in T : \A k \in T : m <= k
    BY LeastNumber
  <2>2. m \in Nat /\ ~ \E f : ok(f, m)
    OBVIOUS
  <2>3. CASE m = 0
    <3> DEFINE g == [n \in 0..0 |-> <<>>]
    <3>1. ok(g, m)
      BY <2>3
    <3> QED
      BY <2>2, <3>1
  <2>4. CASE m # 0
    <3>1. m - 1 \in Nat /\ m - 1 \notin T
      <4> HIDE DEF T
      <4>1. m - 1 \in Nat /\ ~(m <= m - 1)
        BY <2>2, <2>4
      <4> QED
        BY <2>1, <4>1
    <3>2. PICK f : ok(f, m - 1)
      BY <3>1
    <3> HIDE DEF body
    <3> DEFINE g == [n \in 0..m |-> IF n = m THEN f[m - 1] \o body(m) ELSE f[n]]
    <3>3. \A n \in 0..m - 1 : g[n] = f[n]
      BY <2>2
    <3>4. \A n \in 0..m - 1 : f[n] = IF n = 0 THEN <<>> ELSE f[n - 1] \o body(n)
      BY <3>2
    <3>5. \A n \in 0..m : g[n] = IF n = 0 THEN <<>> ELSE g[n - 1] \o body(n)
      <4> SUFFICES ASSUME NEW n \in 0..m
                   PROVE  g[n] = IF n = 0 THEN <<>> ELSE g[n - 1] \o body(n)
        OBVIOUS
      <4>1. CASE n = m
        <5>1. m - 1 \in 0..m - 1 /\ g[m] = f[m - 1] \o body(m)
          BY <2>2, <2>4
        <5>2. g[m - 1] = f[m - 1]
          BY <3>3, <5>1
        <5> QED
          BY <2>4, <4>1, <5>1, <5>2
      <4>2. CASE n # m
        <5>1. n \in 0..m - 1 /\ g[n] = f[n]
          BY <2>2, <3>3, <4>2
        <5>2. n # 0 => n - 1 \in 0..m - 1 /\ g[n - 1] = f[n - 1]
          BY <2>2, <3>3, <5>1
        <5> QED
          BY <3>4, <5>1, <5>2
      <4> QED
        BY <4>1, <4>2
    <3> HIDE DEF g
    <3>6. g = [n \in 0..m |-> g[n]]
      BY DEF g
    <3>7. ok(g, m)
      BY <3>5, <3>6
    <3> QED
      BY <2>2, <3>7
  <2> QED
    BY <2>3, <2>4
<1>2. \E f : ok(f, MaxPart)
  BY <1>1, MaxPartIsPos
<1>3. UpTo(s) = CHOOSE f : ok(f, MaxPart)
  BY DEF UpTo
<1>4. ok(UpTo(s), MaxPart)
  BY <1>2, <1>3
<1> QED
  BY <1>4

(* One more number adds its part.                                           *)
LEMMA UpToStep ==
  ASSUME NEW s, NEW n \in 0..MaxPart
  PROVE  UpTo(s)[n] = IF n = 0 THEN <<>>
           ELSE UpTo(s)[n - 1] \o (IF s[n] \in Bodies THEN s[n] ELSE <<>>)
<1> PICK f : f = UpTo(s)
  OBVIOUS
<1>1. f = [i \in 0..MaxPart |->
             IF i = 0 THEN <<>>
             ELSE f[i - 1] \o (IF s[i] \in Bodies THEN s[i] ELSE <<>>)]
  BY UpToDef
<1> QED
  BY <1>1

(* It is a sequence of chunks throughout.                                   *)
LEMMA UpToIsSeq ==
  ASSUME NEW s
  PROVE  \A n \in 0..MaxPart : UpTo(s)[n] \in Seq(Chunks)
<1> DEFINE T == {n \in 0..MaxPart : UpTo(s)[n] \notin Seq(Chunks)}
<1> SUFFICES ASSUME T # {} PROVE FALSE
  OBVIOUS
<1>1. T \subseteq Nat
  BY MaxPartIsPos
<1>2. PICK n \in T : \A m \in T : n <= m
  BY <1>1, LeastNumber
<1>3. n \in 0..MaxPart /\ UpTo(s)[n] \notin Seq(Chunks)
  OBVIOUS
<1>4. <<>> \in Seq(Chunks)
  BY EmptySeq
<1>5. n # 0
  BY <1>3, <1>4, UpToStep
<1>6. n - 1 \in 0..MaxPart /\ n - 1 \notin T
  BY <1>2, <1>3, <1>5, MaxPartIsPos
<1>7. UpTo(s)[n - 1] \in Seq(Chunks)
  BY <1>6
<1> PICK x : x = IF s[n] \in Bodies THEN s[n] ELSE <<>>
  OBVIOUS
<1>8. x \in Seq(Chunks)
  BY <1>4, BodyIsContent
<1>9. UpTo(s)[n] = UpTo(s)[n - 1] \o x
  BY <1>3, <1>5, UpToStep
<1>10. UpTo(s)[n - 1] \o x \in Seq(Chunks)
  BY <1>7, <1>8, ConcatProperties
<1> QED
  BY <1>3, <1>9, <1>10

(* Numbers without a part add nothing.                                      *)
LEMMA UpToGap ==
  ASSUME NEW s, NEW j \in 0..MaxPart, NEW k \in j..MaxPart,
         \A n \in j + 1 .. k : s[n] \notin Bodies
  PROVE  UpTo(s)[k] = UpTo(s)[j]
<1> DEFINE T == {i \in j..k : UpTo(s)[i] # UpTo(s)[j]}
<1> SUFFICES ASSUME T # {} PROVE FALSE
  BY MaxPartIsPos
<1>1. T \subseteq Nat
  BY MaxPartIsPos
<1>2. PICK i \in T : \A m \in T : i <= m
  BY <1>1, LeastNumber
<1>3. i \in j..k /\ UpTo(s)[i] # UpTo(s)[j]
  OBVIOUS
<1>4. i # j
  BY <1>3
<1>5. i - 1 \in j..k /\ i - 1 \notin T /\ i \in j + 1 .. k
      /\ i \in 0..MaxPart /\ i - 1 \in 0..MaxPart /\ i # 0
  BY <1>2, <1>3, <1>4, MaxPartIsPos
<1>6. UpTo(s)[i - 1] = UpTo(s)[j]
  BY <1>5
<1>7. UpTo(s)[i] = UpTo(s)[i - 1] \o <<>>
  BY <1>5, UpToStep
<1>8. UpTo(s)[i - 1] \in Seq(Chunks)
  BY <1>5, UpToIsSeq
<1> QED
  BY <1>3, <1>6, <1>7, <1>8, ConcatEmptySeq

(* ------------------------------------------------------------------------ *)
(* A receipt is the whole of the upload                                     *)
(* ------------------------------------------------------------------------ *)
(* The parts the client knows accepted                                      *)
Acked(u) == {n \in PartNos : sent[u][n] \in Bodies}

(* What a complete has copied is what the client knows accepted up to some  *)
(* number, and what it has left to copy is the rest.                        *)
WholeOK(k) ==
  row[k.upload] = "open" /\ k.upload \notin refused =>
    /\ \A n \in PartNos : sent[k.upload][n] # Unacked
    /\ k.step \in {"open", "copy"} =>
         \E m \in 0..MaxPart :
            /\ k.out = UpTo(sent[k.upload])[m]
            /\ k.left = {n \in Acked(k.upload) : n > m}
    /\ k.step = "commit" => k.out = UpTo(sent[k.upload])[MaxPart]

(* There is no part its client knows nothing of.                            *)
KnownParts ==
  \A u \in Uploads : row[u] = "open" =>
     \A n \in PartNos : part[u][n] # None => sent[u][n] # None

WholeInv ==
  /\ ReceiptIsWhole
  /\ KnownParts
  /\ \A c \in Completers : completing[c] # None => WholeOK(completing[c])

(* The calls on an upload that is not its own                               *)
LEMMA WholeElsewhere ==
  ASSUME NEW k, WholeOK(k), NEW l, SameButAt(k, l),
         row'[k.upload] = "open" /\ k.upload \notin refused' =>
            row[k.upload] = "open" /\ k.upload \notin refused,
         sent'[k.upload] = sent[k.upload]
  PROVE  WholeOK(l)'
BY DEF WholeOK, SameButAt, Acked

(* A complete copies part after part, and commits when none is left.        *)
LEMMA WholeMoves ==
  ASSUME TypeInv, OneCall, PartInv, WholeInv,
         NEW c \in Completers, NEW k, NEW now, Moves(c, k, now),
         \/ GivesUp(c, k, now) \/ Lists(c, k, now) \/ Opens(c, k, now)
         \/ Copies(c, k, now) \/ Refuses(c, k, now)
         \/ Stores(c, k, now) \/ Commits(c, k, now)
         \/ Unlinks(c, k, now) \/ Ends(c, k, now)
  PROVE  WholeInv'
<1> USE DEF TypeInv, OneCall
<1> PICK u : u = k.upload
  OBVIOUS
<1>t. /\ row \in [Uploads -> {"unused", "open", "completed", "deleted"}]
      /\ receipt \in [Uploads -> Contents \cup {None}]
      /\ completing \in [Completers -> CompleteCalls \cup {None}]
      /\ part \in [Uploads -> [PartNos -> Bodies \cup {None}]]
      /\ sent \in [Uploads -> [PartNos -> Bodies \cup {None, Unacked}]]
  BY DEF TypeOK
<1>0. /\ completing' = [completing EXCEPT ![c] = now]
      /\ sent' = sent
      /\ k = completing[c] /\ k # None /\ u \in Uploads
      /\ WholeOK(k) /\ CallOK(k) /\ k.left \in SUBSET PartNos
      /\ \A d \in Completers : completing[d] # None =>
            completing[d].upload \in Uploads
  BY CallType DEF Moves, WholeInv, CallsOK
<1>1. \A v \in Uploads : v # u =>
         /\ row'[v] = row[v] /\ receipt'[v] = receipt[v]
         /\ part'[v] = part[v] /\ (v \in refused' <=> v \in refused)
  BY MovesElsewhere
<1>2. row'[u] = "open" /\ u \notin refused' =>
         row[u] = "open" /\ u \notin refused
  <2>1. CASE Commits(c, k, now)
    BY <1>0, <1>t, <2>1 DEF Commits, Exists
  <2>2. CASE Refuses(c, k, now)
    BY <2>2 DEF Refuses, tables
  <2> QED
    BY <2>1, <2>2 DEF GivesUp, Lists, Opens, Copies, Stores, Unlinks, Ends,
       tables
<1>3. ReceiptIsWhole'
  <2> SUFFICES ASSUME NEW v \in Uploads, row'[v] = "completed",
                      v \notin refused'
               PROVE  receipt'[v] = UpTo(sent[v])[MaxPart]
    <3>1. \A v \in Uploads : Whole(v)' = UpTo(sent[v])[MaxPart]
      BY <1>0 DEF Whole, UpTo
    <3> QED
      BY <3>1 DEF ReceiptIsWhole
  <2>0. \A x \in Uploads : row[x] = "completed" /\ x \notin refused =>
           receipt[x] = UpTo(sent[x])[MaxPart]
    BY WholeIsUpTo DEF WholeInv, ReceiptIsWhole
  <2>1. CASE Commits(c, k, now) /\ v = u
    <3>1. k.step = "commit" /\ refused' = refused
      BY <2>1 DEF Commits
    <3>2. row[u] = "open" \/ row[u] = "deleted"
      BY <1>0, <3>1 DEF RowsFit
    <3>3. row[u] = "open" /\ receipt'[u] = k.out
      BY <1>0, <1>t, <2>1, <3>2 DEF Commits, Exists
    <3> QED
      BY <1>0, <2>1, <3>1, <3>3 DEF WholeOK
  <2>2. CASE row' = row /\ receipt' = receipt /\ refused \subseteq refused'
    BY <2>0, <2>2
  <2>3. CASE v # u
    BY <1>1, <2>0, <2>3
  <2> QED
    BY <2>1, <2>2, <2>3 DEF GivesUp, Lists, Opens, Copies, Refuses, Stores,
       Unlinks, Ends, tables
<1>4. KnownParts'
  <2>1. \A v \in Uploads, n \in PartNos :
           part'[v][n] # None => part[v][n] # None
    <3>1. CASE Unlinks(c, k, now)
      BY <1>0, <1>t, <3>1 DEF Unlinks
    <3>2. CASE part' = part
      BY <3>2
    <3> QED
      BY <3>1, <3>2 DEF GivesUp, Lists, Opens, Copies, Refuses, Stores, Commits,
         Ends
  <2>2. \A v \in Uploads : row'[v] = "open" => row[v] = "open"
    <3>1. CASE Commits(c, k, now)
      BY <1>0, <1>t, <3>1 DEF Commits
    <3>2. CASE row' = row
      BY <3>2
    <3> QED
      BY <3>1, <3>2 DEF GivesUp, Lists, Opens, Copies, Refuses, Stores, Unlinks,
         Ends, tables
  <2> QED
    BY <1>0, <2>1, <2>2 DEF WholeInv, KnownParts
<1>5. ASSUME now # None PROVE WholeOK(now)'
  <2>0. now.upload = u
    BY <1>5 DEF GivesUp, Lists, Opens, Copies, Refuses, Stores, Commits,
       Unlinks, Ends, Becomes
  <2> SUFFICES ASSUME row[u] = "open", u \notin refused,
                      row'[u] = "open", u \notin refused'
               PROVE  /\ now.step \in {"open", "copy"} =>
                           \E m \in 0..MaxPart :
                              /\ now.out = UpTo(sent[u])[m]
                              /\ now.left = {n \in Acked(u) : n > m}
                      /\ now.step = "commit" =>
                           now.out = UpTo(sent[u])[MaxPart]
    BY <1>0, <1>2, <2>0 DEF WholeOK, Acked
  <2>1. /\ \A n \in PartNos : sent[u][n] # Unacked
        /\ \A n \in PartNos : sent[u][n] \in Bodies => part[u][n] = sent[u][n]
        /\ \A n \in PartNos : part[u][n] # None => sent[u][n] # None
    BY <1>0 DEF WholeOK, PartInv, AckedPartsKept, WholeInv, KnownParts
  <2>2. \A n \in PartNos : n \in 0..MaxPart /\ n > 0 /\ n - 1 \in 0..MaxPart
    BY MaxPartIsPos DEF PartNos
  <2>3. CASE Lists(c, k, now)
    <3>1. PartsOf(u) = {n \in Acked(u) : n > 0}
      <4>1. \A n \in PartNos : part[u][n] # None <=> sent[u][n] \in Bodies
        BY <1>0, <1>t, <2>1, Markers
      <4> QED
        BY <2>2, <4>1 DEF PartsOf, Acked
    <3>2. now.step = "open" /\ now.left = PartsOf(u) /\ now.out = <<>>
      BY <1>0, <2>3 DEF Lists, Becomes, CallOK
    <3>3. 0 \in 0..MaxPart /\ UpTo(sent[u])[0] = <<>>
      <4>1. 0 \in 0..MaxPart
        BY MaxPartIsPos
      <4> QED
        BY <4>1, UpToStep
    <3> QED
      BY <3>1, <3>2, <3>3
  <2>4. CASE Opens(c, k, now)
    <3>1. k.step = "open" /\ now.step = "copy" /\ now.left = k.left
          /\ now.out = k.out
      BY <2>4 DEF Opens, Becomes
    <3> QED
      BY <1>0, <3>1 DEF WholeOK
  <2>5. CASE Copies(c, k, now)
    <3>1. k.step = "copy" /\ now.step = "copy"
      BY <2>5 DEF Copies, Becomes
    <3>2. PICK n \in k.left, x \in Bodies :
             /\ \A i \in k.left : n <= i
             /\ x = part[u][n] /\ now.out = k.out \o x
             /\ now.left = k.left \ {n}
      BY <2>5 DEF Copies
    <3>3. PICK m \in 0..MaxPart : /\ k.out = UpTo(sent[u])[m]
                                  /\ k.left = {i \in Acked(u) : i > m}
      BY <1>0, <3>1 DEF WholeOK
    <3>4. n \in PartNos /\ sent[u][n] \in Bodies /\ n > m /\ x = sent[u][n]
      BY <2>1, <3>2, <3>3 DEF Acked
    <3>5. ASSUME NEW i \in m + 1 .. n - 1 PROVE sent[u][i] \notin Bodies
      <4>1. i \in PartNos /\ i > m /\ ~(n <= i)
        BY <2>2, <3>4, <3>5, MaxPartIsPos DEF PartNos
      <4> QED
        BY <3>2, <3>3, <4>1 DEF Acked
    <3>6. m \in 0..MaxPart /\ n - 1 \in m..MaxPart
      BY <2>2, <3>4
    <3>7. UpTo(sent[u])[n - 1] = UpTo(sent[u])[m]
      BY <3>5, <3>6, UpToGap
    <3>8. now.out = UpTo(sent[u])[n]
      <4>1. n \in 0..MaxPart /\ n # 0
        BY <2>2, <3>4
      <4>2. UpTo(sent[u])[n] = UpTo(sent[u])[n - 1] \o sent[u][n]
        BY <3>4, <4>1, UpToStep
      <4> QED
        BY <3>2, <3>3, <3>4, <3>7, <4>2
    <3>9. now.left = {i \in Acked(u) : i > n}
      <4>1. \A i \in Acked(u) : i \in PartNos /\ i \in Nat
        BY MaxPartIsPos DEF Acked, PartNos
      <4>2. n \in Nat /\ m \in Nat
        BY <2>2, <3>4
      <4>3. \A i \in Acked(u) : i > m /\ i # n <=> i > n
        BY <3>2, <3>3, <3>4, <4>1, <4>2
      <4> QED
        BY <3>2, <3>3, <4>3
    <3> QED
      BY <2>2, <3>1, <3>4, <3>8, <3>9
  <2>6. CASE Stores(c, k, now)
    <3>1. k.step = "copy" /\ now.step = "commit" /\ now.out = k.out
          /\ k.left = {}
      BY <2>6 DEF Stores, Becomes
    <3>2. PICK m \in 0..MaxPart : /\ k.out = UpTo(sent[u])[m]
                                  /\ k.left = {i \in Acked(u) : i > m}
      BY <1>0, <3>1 DEF WholeOK
    <3>3. ASSUME NEW i \in m + 1 .. MaxPart PROVE sent[u][i] \notin Bodies
      <4>1. i \in PartNos /\ i > m
        BY <3>3, MaxPartIsPos DEF PartNos
      <4> QED
        BY <3>1, <3>2, <4>1 DEF Acked
    <3>4. MaxPart \in m..MaxPart
      BY MaxPartIsPos
    <3>5. UpTo(sent[u])[MaxPart] = UpTo(sent[u])[m]
      BY <3>3, <3>4, UpToGap
    <3> QED
      BY <3>1, <3>2, <3>5
  <2>7. CASE Refuses(c, k, now) \/ Commits(c, k, now) \/ Unlinks(c, k, now)
    BY <2>7 DEF Refuses, Commits, Unlinks, Becomes
  <2> QED
    BY <1>5, <2>3, <2>4, <2>5, <2>6, <2>7 DEF GivesUp, Ends
<1>6. ASSUME NEW d \in Completers, completing'[d] # None
      PROVE  WholeOK(completing[d])'
  <2>1. CASE d = c
    <3>1. completing'[d] = now /\ now # None
      BY <1>0, <1>t, <1>6, <2>1
    <3> QED
      BY <1>5, <3>1 DEF WholeOK, Acked
  <2>2. CASE d # c
    <3> PICK j : j = completing[d]
      OBVIOUS
    <3>1. completing'[d] = j /\ j # None /\ j.upload # u
          /\ j.upload \in Uploads /\ WholeOK(j)
      BY <1>0, <1>t, <1>6, <2>2 DEF Alone, WholeInv
    <3>2. WholeOK(j)'
      BY <1>0, <1>1, <3>1, WholeElsewhere DEF SameButAt
    <3> QED
      BY <3>1, <3>2 DEF WholeOK, Acked
  <2> QED
    BY <2>1, <2>2
<1> QED
  BY <1>3, <1>4, <1>6 DEF WholeInv

(* No other step changes what a complete is to copy.                        *)
LEMMA WholeStep ==
  ASSUME TypeInv, OneCall, PartInv, WholeInv, [OneCallNext]_vars
  PROVE  WholeInv'
<1> USE DEF TypeInv, OneCall
<1>t. /\ row \in [Uploads -> {"unused", "open", "completed", "deleted"}]
      /\ receipt \in [Uploads -> Contents \cup {None}]
      /\ writing \in [Writers -> WriteCalls \cup {None}]
      /\ completing \in [Completers -> CompleteCalls \cup {None}]
      /\ part \in [Uploads -> [PartNos -> Bodies \cup {None}]]
      /\ sent \in [Uploads -> [PartNos -> Bodies \cup {None, Unacked}]]
      /\ \A c \in Completers : completing[c] # None =>
            completing[c].upload \in Uploads
  BY CallType DEF TypeOK
<1>w. /\ \A u \in Uploads : Whole(u) = UpTo(sent[u])[MaxPart]
      /\ \A u \in Uploads : Whole(u)' = UpTo(sent'[u])[MaxPart]
  BY DEF Whole, UpTo
<1>r. \A v \in Uploads : row[v] = "completed" /\ v \notin refused =>
         receipt[v] = UpTo(sent[v])[MaxPart]
  BY <1>w DEF WholeInv, ReceiptIsWhole
(* a step on u that no complete takes *)
<1>1. ASSUME NEW u \in Uploads,
             \A v \in Uploads : v # u =>
                /\ row'[v] = row[v] /\ receipt'[v] = receipt[v]
                /\ part'[v] = part[v] /\ sent'[v] = sent[v]
                /\ (v \in refused' <=> v \in refused),
             row'[u] # "completed",
             row'[u] = "open" =>
                \A n \in PartNos : part'[u][n] # None => sent'[u][n] # None,
             \A c \in Completers : completing'[c] # None =>
                \/ WholeOK(completing[c])'
                \/ /\ completing[c] # None /\ completing[c].upload # u
                   /\ SameButAt(completing[c], completing'[c])
      PROVE  WholeInv'
  <2>1. ReceiptIsWhole'
    BY <1>1, <1>w, <1>r DEF ReceiptIsWhole
  <2>2. KnownParts'
    BY <1>1 DEF WholeInv, KnownParts
  <2>3. ASSUME NEW c \in Completers, completing'[c] # None
        PROVE  WholeOK(completing[c])'
    <3> PICK k, l : k = completing[c] /\ l = completing'[c]
      OBVIOUS
    <3>1. CASE k # None /\ k.upload # u /\ SameButAt(k, l)
      <4>1. WholeOK(k) /\ k.upload \in Uploads
        BY <1>t, <3>1 DEF WholeInv
      <4>2. WholeOK(l)'
        BY <1>1, <3>1, <4>1, WholeElsewhere
      <4> QED
        BY <4>2 DEF WholeOK, Acked
    <3> QED
      BY <1>1, <2>3, <3>1
  <2> QED
    BY <2>1, <2>2, <2>3 DEF WholeInv
<1>2. CASE UNCHANGED <<row, receipt, part, sent, refused, completing>>
  <2>1. ReceiptIsWhole' /\ KnownParts'
    BY <1>2, <1>w, <1>r DEF WholeInv, ReceiptIsWhole, KnownParts
  <2>2. \A c \in Completers : completing'[c] # None => WholeOK(completing[c])'
    BY <1>2 DEF WholeInv, WholeOK, Acked
  <2> QED
    BY <2>1, <2>2 DEF WholeInv
<1>3. ASSUME NEW u \in Uploads, Create(u) PROVE WholeInv'
  <2>1. /\ row[u] = "unused" /\ row' = [row EXCEPT ![u] = "open"]
        /\ UNCHANGED <<receipt, part, sent, refused, completing>>
    BY <1>3 DEF Create, calls, history
  <2>2. /\ \A n \in PartNos : part[u][n] = None
        /\ \A c \in Completers : completing[c] # None =>
              completing[c].upload # u
    BY <2>1 DEF RowsFit
  <2> QED
    BY <1>1, <1>t, <2>1, <2>2 DEF SameButAt
<1>4. ASSUME NEW u \in Uploads, AbortRow(u) PROVE WholeInv'
  <2>1. /\ row' = [row EXCEPT ![u] = "deleted"]
        /\ receipt' = [receipt EXCEPT ![u] = None]
        /\ sent' = [sent EXCEPT ![u] = [n \in PartNos |-> None]]
        /\ refused' = refused \ {u}
        /\ UNCHANGED <<part, completing>>
    BY <1>4 DEF AbortRow, files
  <2>2. ASSUME NEW c \in Completers, completing'[c] # None,
               completing[c].upload = u
        PROVE  WholeOK(completing[c])'
    BY <1>t, <2>1, <2>2 DEF WholeOK
  <2> QED
    BY <1>1, <1>t, <2>1, <2>2 DEF SameButAt
<1>5. ASSUME NEW u \in Uploads, AbortFiles(u) PROVE WholeInv'
  <2>1. /\ u \in aborting
        /\ part' = [part EXCEPT ![u] = [n \in PartNos |-> None]]
        /\ completing' = Redirect(u, Unlinked)
        /\ UNCHANGED <<row, receipt, sent, refused>>
    BY <1>5 DEF AbortFiles, tables, history
  <2>2. row[u] = "deleted"
    BY <2>1 DEF RowsFit
  <2>3. ASSUME NEW c \in Completers, completing'[c] # None
        PROVE  \/ WholeOK(completing[c])'
               \/ /\ completing[c] # None /\ completing[c].upload # u
                  /\ SameButAt(completing[c], completing'[c])
    <3>1. /\ completing[c] # None
          /\ SameButAt(completing[c], completing'[c])
      BY <2>1, <2>3, Redirected
    <3>2. ASSUME completing[c].upload = u PROVE WholeOK(completing[c])'
      BY <2>1, <2>2, <3>1, <3>2 DEF WholeOK, SameButAt
    <3> QED
      BY <3>1, <3>2
  <2> QED
    BY <1>1, <1>t, <2>1, <2>2, <2>3
<1>6. ASSUME NEW w \in Writers, NEW u \in Uploads, NEW n \in PartNos,
             NEW body \in Bodies, Quiescent(u), WritePartCheck(w, u, n, body)
      PROVE  WholeInv'
  <2>1. /\ row[u] = "open"
        /\ sent' = [sent EXCEPT ![u][n] = Unacked]
        /\ UNCHANGED <<row, receipt, part, refused, completing>>
    BY <1>6 DEF WritePartCheck, tables, files
  <2>2. \A c \in Completers : completing[c] # None => completing[c].upload # u
    BY <1>6 DEF Quiescent, CallsOf
  <2>3. \A m \in PartNos : part'[u][m] # None => sent'[u][m] # None
    BY <1>t, <2>1, Markers DEF WholeInv, KnownParts
  <2> QED
    BY <1>1, <1>t, <2>1, <2>2, <2>3 DEF SameButAt
<1>7. ASSUME NEW w \in Writers, NEW k, NEW now, Writes(w, k, now),
             Truncates(w, k, now) \/ Answers(w, k, now) \/ BreaksOff(w, k, now)
      PROVE  WholeInv'
  <2> PICK u, n : u = k.upload /\ n = k.n
    OBVIOUS
  <2>1. /\ UNCHANGED <<row, receipt, refused, completing>>
        /\ k = writing[w] /\ k # None
        /\ u \in Uploads /\ n \in PartNos /\ k.body \in Bodies
        /\ WriterOK(k) /\ row[u] \in {"open", "deleted"}
    BY <1>7, WriteType DEF Writes, PartInv, RowsFit, tables
  <2>2. \A c \in Completers : completing[c] # None => completing[c].upload # u
    BY <2>1 DEF Alone
  <2>3. part' = part \/ \E x : part' = [part EXCEPT ![u][n] = x]
    BY <1>7 DEF Truncates, Answers, BreaksOff
  <2>4. \/ sent' = sent
        \/ row[u] = "open" /\ sent' = [sent EXCEPT ![u][n] = k.body]
    <3>1. CASE row[u] = "open"
      BY <1>7, <3>1 DEF Truncates, Answers, BreaksOff
    <3>2. CASE row[u] = "deleted"
      BY <1>7, <3>2 DEF Truncates, Answers, BreaksOff, Exists
    <3> QED
      BY <2>1, <3>1, <3>2
  <2>5. ASSUME row[u] = "open", NEW m \in PartNos, part'[u][m] # None
        PROVE  sent'[u][m] # None
    <3>1. CASE m = n
      BY <1>t, <2>1, <2>4, <2>5, <3>1, Markers DEF WriterOK
    <3>2. CASE m # n
      <4>1. part'[u][m] = part[u][m]
        <5>1. CASE part' = part
          BY <5>1
        <5>2. CASE \E x : part' = [part EXCEPT ![u][n] = x]
          BY <1>t, <2>1, <2>5, <3>2, <5>2, CellKept
        <5> QED
          BY <2>3, <5>1, <5>2
      <4>2. sent'[u][m] = sent[u][m]
        <5>1. CASE sent' = sent
          BY <5>1
        <5>2. CASE sent' = [sent EXCEPT ![u][n] = k.body]
          BY <1>t, <2>1, <2>5, <3>2, <5>2, CellKept
        <5> QED
          BY <2>4, <5>1, <5>2
      <4> QED
        BY <2>1, <2>5, <4>1, <4>2 DEF WholeInv, KnownParts
    <3> QED
      BY <3>1, <3>2
  <2>6. \A v \in Uploads : v # u => part'[v] = part[v] /\ sent'[v] = sent[v]
    BY <1>t, <2>1, <2>3, <2>4
  <2> QED
    BY <1>1, <2>1, <2>2, <2>5, <2>6 DEF SameButAt
<1>8. ASSUME NEW c \in Completers, NEW u \in Uploads,
             \A n \in PartNos : sent[u][n] # Unacked, CompleteCheck(c, u)
      PROVE  WholeInv'
  <2> PICK now : now = NewCall(u)
    OBVIOUS
  <2>1. /\ row[u] = "open"
        /\ completing' = [completing EXCEPT ![c] = now]
        /\ now.step = "list" /\ now.upload = u
        /\ UNCHANGED <<row, receipt, part, sent, refused>>
    BY <1>8 DEF CompleteCheck, NewCall, tables, files, history
  <2>2. WholeOK(now)'
    BY <1>8, <2>1 DEF WholeOK
  <2>3. ASSUME NEW d \in Completers, completing'[d] # None
        PROVE  WholeOK(completing[d])'
    <3>1. CASE d = c
      <4>1. completing'[d] = now
        BY <1>t, <2>1, <3>1
      <4> QED
        BY <2>2, <4>1 DEF WholeOK, Acked
    <3>2. CASE d # c
      <4>1. completing'[d] = completing[d]
        BY <1>t, <2>1, <3>2
      <4> QED
        BY <2>1, <2>3, <4>1 DEF WholeInv, WholeOK, Acked
    <3> QED
      BY <3>1, <3>2
  <2>4. ReceiptIsWhole' /\ KnownParts'
    BY <1>w, <1>r, <2>1 DEF WholeInv, ReceiptIsWhole, KnownParts
  <2> QED
    BY <2>3, <2>4 DEF WholeInv
<1>9. CASE Crash
  <2>1. /\ \A c \in Completers : completing'[c] = None
        /\ UNCHANGED <<row, receipt, part, sent, refused>>
    BY <1>9 DEF Crash, tables, files, history
  <2> QED
    BY <1>w, <1>r, <2>1 DEF WholeInv, ReceiptIsWhole, KnownParts
<1>10. \A u \in Uploads : CreateFails(u) =>
          UNCHANGED <<row, receipt, part, sent, refused, completing>>
  BY DEF CreateFails, tables, calls, history
<1>11. UNCHANGED vars =>
          UNCHANGED <<row, receipt, part, sent, refused, completing>>
  BY DEF vars
<1> QED
  BY <1>2, <1>3, <1>4, <1>5, <1>6, <1>7, <1>8, <1>9, <1>10, <1>11,
     OneCallCases, WriteCases, WholeMoves

(* A completed upload is all of its acknowledged parts in the order of      *)
(* their numbers, also when it took several attempts to complete it.        *)
THEOREM ReceiptIsWholeCorrect == OneCallSpec => []ReceiptIsWhole
<1>1. Init => PartInv /\ WholeInv
  BY Markers DEF Init, PartInv, AckedPartsKept, WholeInv, ReceiptIsWhole,
     KnownParts
<1>2. TypeInv /\ OneCall /\ PartInv /\ [OneCallNext]_vars => PartInv'
  BY PartStep
<1>3. TypeInv /\ OneCall /\ PartInv /\ WholeInv /\ [OneCallNext]_vars
        => WholeInv'
  BY WholeStep
<1>4. WholeInv => ReceiptIsWhole
  BY DEF WholeInv
<1> QED
  BY <1>1, <1>2, <1>3, <1>4, OneCallCorrect, PTL DEF OneCallSpec
=============================================================================
