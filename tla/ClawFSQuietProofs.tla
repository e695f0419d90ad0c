------------------------- MODULE ClawFSQuietProofs -------------------------
(***************************************************************************)
(* What holds when no gc runs while a put_ref is between its two sessions: *)
(* no ref and no share dangles, and clients see the plain file system of   *)
(* module FileSystem.                                                      *)
(***************************************************************************)
EXTENDS ClawFSProofs

(* gc only takes blobs at refcount 0, so it takes none that a ref names,    *)
(* provided the counts are exact and bound rows stay.  A put_ref in flight  *)
(* has both the row and the object it will bind.                            *)
QuietInv ==
  /\ RefcountExact
  /\ \A k \in Keys : ref[k] # None => ref[k] \in objects
  /\ \A w \in Writers : putting[w] # None =>
        /\ blob[putting[w].hash] # None
        /\ putting[w].hash \in objects

LEMMA QuietIsNext ==
  ASSUME [QuietNext]_vars
  PROVE  [Next]_vars
  BY DEF QuietNext, Next, UploadNext

LEMMA QuietCases ==
  ASSUME QuietNext
  PROVE  \/ \E t \in Tenants, h \in Hashes : PutBlobOnly(t, h)
         \/ \E t \in Tenants, h \in Hashes : PutBlobFails(t, h)
         \/ \E w \in Writers, t \in Tenants, p \in Paths, h \in Hashes :
               PutRefStart(w, t, p, h)
         \/ \E w \in Writers : PutRefBind(w)
         \/ \E w \in Writers : PutRefAbandon(w)
         \/ \E t \in Tenants, p \in Paths : DeleteRef(t, p)
         \/ \E tok \in Tokens, t \in Tenants, p \in Paths, ttl \in Ttls :
               CreateShare(tok, t, p, ttl)
         \/ \E tok \in Tokens : ShareExpires(tok)
         \/ /\ NoPutInFlight
            /\ \E scope \in GcScopes :
                  \E deleted \in SUBSET Unreferenced(scope) :
                     Gc(scope, deleted) \/ GcFails(scope, deleted)
         \/ \E t \in Tenants, mb \in ByteQuotas, mo \in ObjectQuotas :
               UpsertTenant(t, mb, mo)
         \/ \E t \in Tenants : DeleteTenant(t)
         \/ \E h \in Hashes : Intact(h) /\ Upload(h)
  BY DEF QuietNext, ClientNext, GcNext, AdminNext

(* QuietSpec only leaves steps of Spec out, and keeps its types.            *)
THEOREM QuietTypeCorrect == QuietSpec => []TypeOK
<1>1. Init => TypeOK
  BY TypeInit
<1>2. TypeOK /\ [QuietNext]_vars => TypeOK'
  BY TypeStep, QuietIsNext
<1> QED
  BY <1>1, <1>2, PTL DEF QuietSpec

LEMMA QuietUnchanged ==
  ASSUME QuietInv, UNCHANGED <<objects, blob, ref, putting>>
  PROVE  QuietInv'
  BY DEF QuietInv, RefcountExact, RefsTo

(* A Blob table that counts the refs there are, with a row for each of them *)
ExactFor(blobs) ==
  /\ \A g \in Hashes :
        blobs[g] # None => blobs[g].refcount = Cardinality(RefsTo(g))
  /\ \A k \in Keys : ref[k] # None => blobs[ref[k]] # None

LEMMA ExactForBlob ==
  /\ RefcountExact <=> ExactFor(blob)
  /\ (ref' = ref /\ ExactFor(blob')) => RefcountExact'
  BY DEF ExactFor, RefcountExact, RefsTo

(* A new row at 0 disturbs nothing: a content without a row has no refs.    *)
LEMMA ExactStored ==
  ASSUME TypeOK, QuietInv, NEW t \in Tenants, NEW h \in Hashes
  PROVE  /\ ExactFor(UploadedBlobs(t, h))
         /\ UploadedBlobs(t, h)[h] # None
         /\ \A g \in Hashes : blob[g] # None => UploadedBlobs(t, h)[g] # None
<1> DEFINE stored == UploadedBlobs(t, h)
<1>1. /\ stored[h] # None
      /\ \A g \in Hashes : blob[g] # None => stored[g] = blob[g]
      /\ \A g \in Hashes : stored[g] # blob[g] =>
            blob[g] = None /\ stored[g].refcount = 0
  BY NoneIsNothing DEF UploadedBlobs, TypeOK, BlobRows
<1>2. ASSUME NEW g \in Hashes, stored[g] # None
      PROVE  stored[g].refcount = Cardinality(RefsTo(g))
  <2>1. CASE stored[g] = blob[g]
    BY <1>2, <2>1 DEF QuietInv, RefcountExact
  <2>2. CASE stored[g] # blob[g]
    <3>1. blob[g] = None /\ stored[g].refcount = 0
      BY <1>1, <2>2
    <3>2. RefsTo(g) = {}
      BY <3>1, NoneIsNothing DEF RefsTo, QuietInv, RefcountExact
    <3> QED
      BY <3>1, <3>2, FS_EmptySet
  <2> QED
    BY <2>1, <2>2
<1>3. \A k \in Keys : ref[k] # None => stored[ref[k]] # None
  BY <1>1 DEF QuietInv, RefcountExact, TypeOK
<1> HIDE DEF stored
<1> QED
  BY <1>1, <1>2, <1>3 DEF ExactFor, stored

(* Binding a path to a content that has a row keeps the counts exact,       *)
(* whatever the path named before.                                          *)
LEMMA ExactRebind ==
  ASSUME TypeOK, NEW blobs \in [Hashes -> BlobRows \cup {None}],
         ExactFor(blobs),
         NEW k \in Keys, NEW h \in Hashes, blobs[h] # None,
         Rebinds(blobs, k, h)
  PROVE  /\ RefcountExact'
         /\ \A g \in Hashes : blobs[g] # None => blob'[g] # None
<1> DEFINE old == ref[k]
<1>o. old = ref[k]
  OBVIOUS
<1>t. old \in Hashes \cup {None}
  BY DEF TypeOK
<1>r. h \in Hashes \cup {None} /\ h # ref[k] /\ ref' = [ref EXCEPT ![k] = h]
  BY DEF Rebinds
<1>b. /\ old = None => blob' = Bump(blobs, h, 1)
      /\ old # None => blob' = Bump(Bump(blobs, old, -1), h, 1)
  BY DEF Rebinds
<1> HIDE DEF old
<1>1. ASSUME NEW g \in Hashes
      PROVE  /\ blob'[g] # None <=> blobs[g] # None
             /\ blob'[g] # None => blob'[g].refcount = Cardinality(RefsTo(g))'
  <2>n. g # None
    BY NoneIsNothing
  <2>1. Cardinality(RefsTo(g))' = IF g = h THEN Cardinality(RefsTo(g)) + 1
                                  ELSE IF g = old
                                  THEN Cardinality(RefsTo(g)) - 1
                                  ELSE Cardinality(RefsTo(g))
    BY <1>o, <1>r, RebindCount
  <2>2. Cardinality(RefsTo(g)) \in Nat
    BY RefsFinite
  <2>3. blobs[g] # None => blobs[g].refcount = Cardinality(RefsTo(g))
    BY DEF ExactFor
  <2>4. CASE old = None
    <3>1. /\ blob'[g] = None <=> blobs[g] = None
          /\ blobs[g] # None =>
               blob'[g].refcount = IF g = h THEN AtLeast0(blobs[g].refcount + 1)
                                            ELSE blobs[g].refcount
      BY <1>b, <2>4, BumpValue
    <3> QED
      BY <2>n, <2>1, <2>2, <2>3, <2>4, <3>1 DEF AtLeast0
  <2>5. CASE old # None
    <3>1. old \in Hashes /\ h # old
      BY <1>t, <1>o, <1>r, <2>5
    <3>2. Bump(blobs, old, -1) \in [Hashes -> BlobRows \cup {None}]
      BY <3>1, BumpType
    <3>3. /\ blob'[g] = None <=> Bump(blobs, old, -1)[g] = None
          /\ Bump(blobs, old, -1)[g] # None =>
               blob'[g].refcount =
                  IF g = h THEN AtLeast0(Bump(blobs, old, -1)[g].refcount + 1)
                           ELSE Bump(blobs, old, -1)[g].refcount
      BY <1>b, <2>5, <3>2, BumpValue
    <3>4. /\ Bump(blobs, old, -1)[g] = None <=> blobs[g] = None
          /\ blobs[g] # None =>
               Bump(blobs, old, -1)[g].refcount =
                  IF g = old THEN AtLeast0(blobs[g].refcount + (-1))
                             ELSE blobs[g].refcount
      BY <3>1, BumpValue
    <3>5. g = old => Cardinality(RefsTo(g)) # 0
      <4>1. g = old => k \in RefsTo(g)
        BY <1>o DEF RefsTo
      <4> QED
        BY <4>1, RefsFinite, FS_EmptySet
    <3> QED
      BY <2>1, <2>2, <2>3, <3>1, <3>3, <3>4, <3>5 DEF AtLeast0
  <2> QED
    BY <2>4, <2>5
<1>2. \A j \in Keys : ref'[j] # None => blob'[ref'[j]] # None
  BY <1>1, <1>r DEF TypeOK, ExactFor
<1> QED
  BY <1>1, <1>2 DEF RefcountExact

(* A session that stores a content, put_blob's, and binds no path           *)
LEMMA QuietPutBlob ==
  ASSUME TypeOK, QuietInv, NEW t \in Tenants, NEW h \in Hashes,
         PutBlob(t, h), UNCHANGED ref
  PROVE  /\ RefcountExact'
         /\ \A k \in Keys : ref'[k] # None => ref'[k] \in objects'
         /\ objects \subseteq objects' /\ h \in objects'
         /\ blob'[h] # None
         /\ \A g \in Hashes : blob[g] # None => blob'[g] # None
<1>1. objects' = objects \cup {h} /\ blob' = UploadedBlobs(t, h)
  BY DEF PutBlob, UploadedBlobs
<1>2. /\ ExactFor(blob')
      /\ blob'[h] # None
      /\ \A g \in Hashes : blob[g] # None => blob'[g] # None
  BY <1>1, ExactStored
<1>3. RefcountExact'
  BY <1>2, ExactForBlob
<1> QED
  BY <1>1, <1>2, <1>3 DEF QuietInv

(* put_ref's second session, whose content has its row and its object       *)
LEMMA QuietBind ==
  ASSUME TypeOK, QuietInv,
         NEW t \in Tenants, NEW p \in Paths, NEW h \in Hashes,
         blob[h] # None, h \in objects,
         BindNew(t, p, h) \/ BindOther(t, p, h) \/ BindSame(t, p, h)
  PROVE  /\ RefcountExact'
         /\ \A k \in Keys : ref'[k] # None => ref'[k] \in objects
         /\ \A g \in Hashes : blob[g] # None => blob'[g] # None
<1>k. StoredPath(t, p) \in Keys
  BY DEF StoredPath, Keys
<1>1. CASE BindNew(t, p, h) \/ BindOther(t, p, h)
  <2>1. Rebinds(blob, StoredPath(t, p), h)
    BY <1>1, NoneIsNothing DEF BindNew, BindOther, Rebinds
  <2>2. blob \in [Hashes -> BlobRows \cup {None}] /\ ExactFor(blob)
    BY ExactForBlob DEF TypeOK, QuietInv
  <2>3. /\ RefcountExact'
        /\ \A g \in Hashes : blob[g] # None => blob'[g] # None
    BY <1>k, <2>1, <2>2, ExactRebind
  <2>4. \A j \in Keys : ref'[j] # None => ref'[j] \in objects
    BY <1>k, <2>1 DEF Rebinds, QuietInv, TypeOK
  <2> QED
    BY <2>3, <2>4
<1>2. CASE BindSame(t, p, h)
  BY <1>2 DEF BindSame, QuietInv, RefcountExact, RefsTo
<1> QED
  BY <1>1, <1>2

(* complete's session stores nothing for a content that has a row, so its   *)
(* path dangles unless the content is intact.                               *)
LEMMA QuietUpload ==
  ASSUME TypeOK, QuietInv, NEW h \in Hashes, Intact(h), Upload(h)
  PROVE  QuietInv'
<1> PICK t \in Tenants :
       /\ objects' = IF blob[h] = None THEN objects \cup {h} ELSE objects
       /\ UNCHANGED putting
       /\ \/ ref' = ref /\ blob' = UploadedBlobs(t, h)
          \/ \E p \in Paths : Rebinds(UploadedBlobs(t, h), <<t, p>>, h)
  BY UploadEffect
<1> DEFINE stored == UploadedBlobs(t, h)
<1>1. objects \subseteq objects' /\ h \in objects'
  BY DEF Intact
<1>2. /\ stored \in [Hashes -> BlobRows \cup {None}]
      /\ ExactFor(stored)
      /\ stored[h] # None
      /\ \A g \in Hashes : blob[g] # None => stored[g] # None
  BY ExactStored, UploadedBlobsType
<1>3. CASE ref' = ref /\ blob' = stored
  <2>1. RefcountExact'
    BY <1>2, <1>3, ExactForBlob
  <2> QED
    BY <1>1, <1>2, <1>3, <2>1 DEF QuietInv, TypeOK, PutCalls
<1>4. CASE \E p \in Paths : Rebinds(stored, <<t, p>>, h)
  <2> PICK p \in Paths : Rebinds(stored, <<t, p>>, h)
    BY <1>4
  <2>1. <<t, p>> \in Keys
    BY DEF Keys
  <2> HIDE DEF stored
  <2>2. /\ RefcountExact'
        /\ \A g \in Hashes : stored[g] # None => blob'[g] # None
    BY <1>2, <2>1, ExactRebind
  <2>3. \A j \in Keys : ref'[j] # None => ref'[j] \in objects'
    BY <1>1, <2>1 DEF Rebinds, QuietInv, TypeOK
  <2>4. \A w \in Writers : putting'[w] # None =>
           blob'[putting'[w].hash] # None /\ putting'[w].hash \in objects'
    BY <1>1, <1>2, <2>2 DEF QuietInv, TypeOK, PutCalls
  <2> QED
    BY <2>2, <2>3, <2>4 DEF QuietInv
<1> QED
  BY <1>3, <1>4

LEMMA QuietDelete ==
  ASSUME TypeOK, QuietInv, NEW t \in Tenants, NEW p \in Paths, DeleteRef(t, p)
  PROVE  QuietInv'
<1> DEFINE k == StoredPath(t, p)
<1> DEFINE old == ref[k]
<1>k. k \in Keys
  BY DEF StoredPath, Keys
<1>o. old = ref[k]
  OBVIOUS
<1>1. /\ old \in Hashes /\ old # None
      /\ ref' = [ref EXCEPT ![k] = None]
      /\ blob' = Bump(blob, old, -1)
      /\ UNCHANGED <<objects, putting>>
  BY <1>k DEF DeleteRef, TypeOK
<1> HIDE DEF k, old
<1>2. ASSUME NEW g \in Hashes
      PROVE  /\ blob'[g] # None <=> blob[g] # None
             /\ blob'[g] # None => blob'[g].refcount = Cardinality(RefsTo(g))'
  <2>1. g # None
    BY NoneIsNothing
  <2>2. Cardinality(RefsTo(g))' = IF g = old THEN Cardinality(RefsTo(g)) - 1
                                             ELSE Cardinality(RefsTo(g))
    BY <1>k, <1>o, <1>1, <2>1, RebindCount
  <2>3. /\ blob'[g] = None <=> blob[g] = None
        /\ blob[g] # None =>
             blob'[g].refcount = IF g = old
                                 THEN AtLeast0(blob[g].refcount + (-1))
                                 ELSE blob[g].refcount
    BY <1>1, BumpValue DEF TypeOK
  <2>4. blob[g] # None => blob[g].refcount = Cardinality(RefsTo(g))
    BY DEF QuietInv, RefcountExact
  <2>5. Cardinality(RefsTo(g)) \in Nat
    BY RefsFinite
  <2>6. g = old => Cardinality(RefsTo(g)) # 0
    <3>1. g = old => k \in RefsTo(g)
      BY <1>k, <1>o DEF RefsTo
    <3> QED
      BY <3>1, RefsFinite, FS_EmptySet
  <2> QED
    BY <2>2, <2>3, <2>4, <2>5, <2>6 DEF AtLeast0
<1>3. \A j \in Keys : ref'[j] # None => ref'[j] = ref[j] /\ ref[j] \in Hashes
  BY <1>k, <1>1 DEF TypeOK
<1>4. \A w \in Writers : putting[w] # None => putting[w].hash \in Hashes
  BY DEF TypeOK, PutCalls
<1> QED
  BY <1>1, <1>2, <1>3, <1>4 DEF QuietInv, RefcountExact

(* gc removes rows and objects of blobs at 0 only, and with exact counts    *)
(* those have no ref; a put_ref that might need one is not in flight.       *)
LEMMA QuietGc ==
  ASSUME TypeOK, QuietInv, NoPutInFlight,
         NEW scope \in GcScopes, NEW deleted \in SUBSET Unreferenced(scope),
         Gc(scope, deleted) \/ GcFails(scope, deleted)
  PROVE  QuietInv'
<1>1. \A g \in Unreferenced(scope) : RefsTo(g) = {}
  <2> SUFFICES ASSUME NEW g \in Unreferenced(scope)
               PROVE  RefsTo(g) = {}
    OBVIOUS
  <2>1. g \in Hashes /\ blob[g] # None /\ blob[g].refcount = 0
    BY DEF Unreferenced
  <2>2. Cardinality(RefsTo(g)) = 0
    BY <2>1 DEF QuietInv, RefcountExact
  <2> QED
    BY <2>1, <2>2, RefsFinite, FS_EmptySet
<1>2. \A k \in Keys : ref[k] # None => ref[k] \notin Unreferenced(scope)
  BY <1>1 DEF RefsTo
<1>3. /\ objects \ Unreferenced(scope) \subseteq objects'
      /\ UNCHANGED <<ref, putting>>
      /\ \A g \in Hashes : g \notin Unreferenced(scope) => blob'[g] = blob[g]
      /\ \A g \in Hashes : blob'[g] # None => blob'[g] = blob[g]
  BY DEF Gc, GcFails
<1>4. \A g \in Hashes : RefsTo(g)' = RefsTo(g)
  BY <1>3 DEF RefsTo
<1>5. RefcountExact'
  BY <1>2, <1>3, <1>4 DEF QuietInv, RefcountExact, TypeOK
<1>6. \A k \in Keys : ref'[k] # None => ref'[k] \in objects'
  BY <1>2, <1>3 DEF QuietInv
<1>7. \A w \in Writers : putting'[w] = None
  BY <1>3 DEF NoPutInFlight
<1> QED
  BY <1>5, <1>6, <1>7 DEF QuietInv

LEMMA QuietInit == Init => QuietInv
<1> SUFFICES ASSUME Init PROVE QuietInv
  OBVIOUS
<1>1. /\ \A h \in Hashes : blob[h] = None
      /\ \A k \in Keys : ref[k] = None
      /\ \A w \in Writers : putting[w] = None
  BY DEF Init
<1> QED
  BY <1>1 DEF QuietInv, RefcountExact

LEMMA QuietPutRefBind ==
  ASSUME TypeOK, QuietInv, NEW w \in Writers, PutRefBind(w)
  PROVE  QuietInv'
<1> DEFINE c == putting[w]
<1>1. c.tenant \in Tenants /\ c.path \in Paths /\ c.hash \in Hashes
  BY DEF PutRefBind, TypeOK, PutCalls
<1>2. blob[c.hash] # None /\ c.hash \in objects
  BY DEF PutRefBind, QuietInv
<1>3. \/ BindNew(c.tenant, c.path, c.hash)
      \/ BindOther(c.tenant, c.path, c.hash)
      \/ BindSame(c.tenant, c.path, c.hash)
  BY DEF PutRefBind
<1>4. objects' = objects /\ putting' = [putting EXCEPT ![w] = None]
  BY DEF PutRefBind
<1> HIDE DEF c
<1>5. /\ RefcountExact'
      /\ \A k \in Keys : ref'[k] # None => ref'[k] \in objects
      /\ \A g \in Hashes : blob[g] # None => blob'[g] # None
  BY <1>1, <1>2, <1>3, QuietBind
<1>6. \A v \in Writers : putting'[v] # None =>
         /\ putting'[v] = putting[v]
         /\ putting[v].hash \in Hashes
  BY <1>4 DEF TypeOK, PutCalls
<1> QED
  BY <1>4, <1>5, <1>6 DEF QuietInv

LEMMA QuietStep ==
  ASSUME TypeOK, QuietInv, [QuietNext]_vars
  PROVE  QuietInv'
<1>p. \A v \in Writers : putting[v] # None => putting[v].hash \in Hashes
  BY DEF TypeOK, PutCalls
<1>1. CASE \E t \in Tenants, h \in Hashes : PutBlobOnly(t, h)
  <2> PICK t \in Tenants, h \in Hashes : PutBlobOnly(t, h)
    BY <1>1
  <2>1. PutBlob(t, h) /\ UNCHANGED ref /\ UNCHANGED putting
    BY DEF PutBlobOnly
  <2> QED
    BY <1>p, <2>1, QuietPutBlob DEF QuietInv
<1>2. CASE \E t \in Tenants, h \in Hashes : PutBlobFails(t, h)
  <2>1. objects \subseteq objects' /\ UNCHANGED <<blob, ref, putting>>
    BY <1>2 DEF PutBlobFails
  <2>2. RefcountExact'
    BY <2>1 DEF QuietInv, RefcountExact, RefsTo
  <2> QED
    BY <2>1, <2>2 DEF QuietInv
<1>3. CASE \E w \in Writers, t \in Tenants, p \in Paths, h \in Hashes :
              PutRefStart(w, t, p, h)
  <2> PICK w \in Writers, t \in Tenants, p \in Paths, h \in Hashes :
              PutRefStart(w, t, p, h)
    BY <1>3
  <2>1. /\ PutBlob(t, h) /\ UNCHANGED ref
        /\ putting' = [putting EXCEPT ![w] =
                         [tenant |-> t, path |-> p, hash |-> h]]
    BY DEF PutRefStart
  <2>2. /\ RefcountExact'
        /\ \A k \in Keys : ref'[k] # None => ref'[k] \in objects'
        /\ objects \subseteq objects' /\ h \in objects'
        /\ blob'[h] # None
        /\ \A g \in Hashes : blob[g] # None => blob'[g] # None
    BY <2>1, QuietPutBlob
  <2>3. \A v \in Writers : putting'[v].hash = h \/ putting'[v] = putting[v]
    BY <2>1 DEF TypeOK
  <2>4. \A v \in Writers : putting'[v] # None =>
           blob'[putting'[v].hash] # None /\ putting'[v].hash \in objects'
    BY <1>p, <2>2, <2>3 DEF QuietInv
  <2> QED
    BY <2>2, <2>4 DEF QuietInv
<1>4. CASE \E w \in Writers : PutRefBind(w)
  BY <1>4, QuietPutRefBind
<1>5. CASE \E w \in Writers : PutRefAbandon(w)
  <2>1. /\ UNCHANGED <<objects, blob, ref>>
        /\ \A v \in Writers : putting'[v] # None => putting'[v] = putting[v]
    BY <1>5 DEF PutRefAbandon, TypeOK
  <2>2. RefcountExact'
    BY <2>1 DEF QuietInv, RefcountExact, RefsTo
  <2> QED
    BY <2>1, <2>2 DEF QuietInv
<1>6. CASE \E t \in Tenants, p \in Paths : DeleteRef(t, p)
  BY <1>6, QuietDelete
<1>7. CASE \E tok \in Tokens, t \in Tenants, p \in Paths, ttl \in Ttls :
              CreateShare(tok, t, p, ttl)
  BY <1>7, QuietUnchanged DEF CreateShare
<1>8. CASE \E tok \in Tokens : ShareExpires(tok)
  BY <1>8, QuietUnchanged DEF ShareExpires
<1>9. CASE /\ NoPutInFlight
           /\ \E scope \in GcScopes :
                 \E deleted \in SUBSET Unreferenced(scope) :
                    Gc(scope, deleted) \/ GcFails(scope, deleted)
  BY <1>9, QuietGc
<1>10. CASE \E t \in Tenants, mb \in ByteQuotas, mo \in ObjectQuotas :
              UpsertTenant(t, mb, mo)
  BY <1>10, QuietUnchanged DEF UpsertTenant
<1>11. CASE \E t \in Tenants : DeleteTenant(t)
  BY <1>11, QuietUnchanged DEF DeleteTenant
<1>12. CASE UNCHANGED vars
  BY <1>12, QuietUnchanged DEF vars
<1>13. CASE \E h \in Hashes : Intact(h) /\ Upload(h)
  BY <1>13, QuietUpload
<1> QED
  BY <1>1, <1>2, <1>3, <1>4, <1>5, <1>6, <1>7, <1>8, <1>9, <1>10, <1>11, <1>12,
     <1>13, QuietCases

(* The invariant holds of the specification.                                *)
THEOREM QuietInvCorrect == QuietSpec => []QuietInv
<1>1. Init => QuietInv
  BY QuietInit
<1>2. TypeOK /\ QuietInv /\ [QuietNext]_vars => QuietInv'
  BY QuietStep
<1> QED
  BY <1>1, <1>2, QuietTypeCorrect, PTL DEF QuietSpec

(* Blob.refcount is the number of refs bound to the blob, over all tenants, *)
(* and bound blobs keep their rows.                                         *)
THEOREM RefcountExactCorrect == QuietSpec => []RefcountExact
<1>1. QuietInv => RefcountExact
  BY DEF QuietInv
<1> QED
  BY <1>1, QuietInvCorrect, PTL

(* A reader who finds a ref or a share finds its object too.                *)
LEMMA NothingDangles ==
  ASSUME TypeOK, QuietInv
  PROVE  NoDangling
<1>1. \A k \in Keys : ResolveRef(k) # Missing
  BY NoneIsNothing DEF ResolveRef, Fetch, QuietInv, TypeOK
<1>2. \A tok \in Tokens : ResolveShare(tok) # Missing
  <2> SUFFICES ASSUME NEW tok \in Tokens, share[tok] # None,
                      ref[share[tok].ref_path] # None
               PROVE  Fetch(ref[share[tok].ref_path]) # Missing
    BY NoneIsNothing DEF ResolveShare
  <2>1. share[tok].ref_path \in Keys
    BY DEF TypeOK, ShareRows
  <2> QED
    BY <2>1, NoneIsNothing DEF Fetch, QuietInv, TypeOK
<1> QED
  BY <1>1, <1>2 DEF NoDangling

(* delete_ref and gc of any tenant, scoped or not, and sessions lost at any *)
(* point never free the object of a ref or share of another.                *)
THEOREM NoDanglingCorrect == QuietSpec => []NoDangling
<1>1. TypeOK /\ QuietInv => NoDangling
  BY NothingDangles
<1> QED
  BY <1>1, QuietTypeCorrect, QuietInvCorrect, PTL

(* ------------------------------------------------------------------------ *)
(* Clients see a plain file system                                          *)
(* ------------------------------------------------------------------------ *)
(* With nothing dangling, what a path reads is the content it is bound to.  *)
LEMMA ViewIsRef ==
  ASSUME TypeOK, QuietInv
  PROVE  FileView = ref
<1>1. \A k \in Keys : ResolveRef(k) = ref[k]
  BY DEF ResolveRef, Fetch, QuietInv
<1> QED
  BY <1>1 DEF FileView, TypeOK

(* What a token shows, with nothing dangling and no token without its ref   *)
ShareShows(tok) == IF share[tok].expires = "past" THEN None
                                                  ELSE ref[share[tok].ref_path]

GrantOf(tok) == [path |-> share[tok].ref_path, shows |-> ShareShows(tok)]

LEMMA GrantViewValue ==
  ASSUME TypeOK, QuietInv, ShareHasRef
  PROVE  /\ GrantView = [tok \in Tokens |->
                          IF share[tok] = None THEN None ELSE GrantOf(tok)]
         /\ \A tok \in Tokens : share[tok] # None => GrantOf(tok) # None
<1>1. ASSUME NEW tok \in Tokens, share[tok] # None
      PROVE  ResolveShare(tok) = ShareShows(tok) /\ GrantOf(tok) # None
  <2>1. share[tok].ref_path \in Keys /\ ref[share[tok].ref_path] # None
    BY <1>1 DEF TypeOK, ShareRows, ShareHasRef
  <2>2. ref[share[tok].ref_path] \in objects \cap Hashes
    BY <2>1 DEF QuietInv, TypeOK
  <2>3. ResolveShare(tok) = ShareShows(tok)
    BY <1>1, <2>1, <2>2 DEF ResolveShare, ShareShows, Fetch
  <2>4. ShareShows(tok) \in Hashes \cup {None}
    BY <2>2 DEF ShareShows
  <2>5. GrantOf(tok) \in [path: Keys, shows: Hashes \cup {None}]
    BY <2>1, <2>4, Zenon DEF GrantOf
  <2> QED
    BY <2>3, <2>5, NoneIsNothing
<1>2. ASSUME NEW tok \in Tokens
      PROVE  (IF share[tok] = None THEN None
              ELSE [path  |-> share[tok].ref_path,
                    shows |-> ResolveShare(tok)]) =
             (IF share[tok] = None THEN None ELSE GrantOf(tok))
  BY <1>1 DEF GrantOf
<1> QED
  BY <1>1, <1>2, Zenon DEF GrantView

LEMMA GrantsValue ==
  TypeOK /\ QuietInv /\ ShareHasRef =>
     \A tok \in Tokens : share[tok] # None => GrantView[tok] = GrantOf(tok)
  BY GrantViewValue

(* The views, before a step and after it                                    *)
LEMMA ViewNow ==
  ASSUME TypeOK, QuietInv, ShareHasRef, TypeOK', QuietInv', ShareHasRef'
  PROVE  /\ FileView = ref /\ FileView' = ref'
         /\ \A tok \in Tokens : share[tok] # None =>
               GrantView[tok] = GrantOf(tok) /\ GrantOf(tok) # None
         /\ \A tok \in Tokens : share'[tok] # None =>
               GrantView'[tok] = GrantOf(tok)'
<1>1. /\ FileView = ref
      /\ \A tok \in Tokens : share[tok] # None =>
            GrantView[tok] = GrantOf(tok) /\ GrantOf(tok) # None
  BY ViewIsRef, GrantViewValue
<1>2. (TypeOK /\ QuietInv => FileView = ref)'
  BY ViewIsRef, PTL
<1>3. (TypeOK /\ QuietInv /\ ShareHasRef =>
         \A tok \in Tokens : share[tok] # None => GrantView[tok] = GrantOf(tok))'
  BY GrantsValue, PTL
<1> QED
  BY <1>1, <1>2, <1>3

(* Binding a path to a content: its tokens that show something follow it.   *)
LEMMA ViewWrite ==
  ASSUME TypeOK, QuietInv, ShareHasRef, TypeOK', QuietInv', ShareHasRef',
         NEW k \in Keys, NEW h \in Hashes,
         ref' = [ref EXCEPT ![k] = h], UNCHANGED share
  PROVE  FS!Write(k, h)
<1> DEFINE followers == {tok \in Tokens : /\ share[tok] # None
                                          /\ share[tok].ref_path = k
                                          /\ ShareShows(tok) # None}
<1>1. FileView' = [FileView EXCEPT ![k] = h]
  BY ViewNow
<1>2. followers \in SUBSET FS!Showing(k)
  <2> SUFFICES ASSUME NEW tok \in followers
               PROVE  tok \in FS!Showing(k)
    OBVIOUS
  <2>1. GrantView[tok] = GrantOf(tok) /\ GrantOf(tok) # None
    BY GrantViewValue
  <2> QED
    BY <2>1 DEF GrantOf, FS!Showing, FS!TokensOf
<1>3. ASSUME NEW tok \in Tokens
      PROVE  GrantView'[tok] = IF tok \in followers
                               THEN [path |-> k, shows |-> h]
                               ELSE GrantView[tok]
  <2>1. CASE share[tok] = None
    BY <2>1 DEF GrantView
  <2>2. CASE share[tok] # None
    <3>1. /\ GrantView[tok] = GrantOf(tok)
          /\ GrantView'[tok] = GrantOf(tok)'
      BY <2>2, ViewNow
    <3>2. share[tok].ref_path \in Keys /\ ref[share[tok].ref_path] # None
      BY <2>2 DEF TypeOK, ShareRows, ShareHasRef
    <3>3. CASE tok \in followers
      <4>1. share[tok].ref_path = k /\ share[tok].expires # "past"
        BY <3>3 DEF ShareShows
      <4>2. ref'[k] = h
        BY DEF TypeOK
      <4>3. ShareShows(tok)' = h
        BY <4>1, <4>2 DEF ShareShows
      <4> QED
        BY <3>1, <3>3, <4>1, <4>3 DEF GrantOf
    <3>4. CASE tok \notin followers
      <4>1. ShareShows(tok)' = ShareShows(tok)
        BY <2>2, <3>2, <3>4 DEF ShareShows, TypeOK
      <4> QED
        BY <3>1, <3>4, <4>1 DEF GrantOf
    <3> QED
      BY <3>3, <3>4
  <2> QED
    BY <2>1, <2>2
<1>4. GrantView' = [tok \in Tokens |-> IF tok \in followers
                                       THEN [path |-> k, shows |-> h]
                                       ELSE GrantView[tok]]
  BY <1>3 DEF GrantView
<1> HIDE DEF followers
<1> QED
  BY <1>1, <1>2, <1>4 DEF FS!Write

(* Removing a path takes its tokens with it.                                *)
LEMMA ViewRemove ==
  ASSUME TypeOK, QuietInv, ShareHasRef, TypeOK', QuietInv', ShareHasRef',
         NEW t \in Tenants, NEW p \in Paths, DeleteRef(t, p)
  PROVE  FS!Next
<1> DEFINE k == StoredPath(t, p)
           revoked == {tok \in Tokens : share[tok] # None /\ share[tok].ref_path = k}
<1>1. k \in Keys
  BY DEF StoredPath, Keys
<1>2. /\ ref[k] # None
      /\ ref' = [ref EXCEPT ![k] = None]
      /\ share' = [tok \in Tokens |->
                     IF share[tok] # None /\ share[tok].ref_path = k
                     THEN None ELSE share[tok]]
  BY DEF DeleteRef
<1> HIDE DEF k
<1>3. revoked \in SUBSET FS!TokensOf(k)
  <2> SUFFICES ASSUME NEW tok \in revoked
               PROVE  tok \in FS!TokensOf(k)
    OBVIOUS
  <2>1. GrantView[tok] = GrantOf(tok) /\ GrantOf(tok) # None
    BY ViewNow
  <2> QED
    BY <2>1 DEF GrantOf, FS!TokensOf
<1>4. ASSUME NEW tok \in Tokens
      PROVE  GrantView'[tok] = IF tok \in revoked THEN None ELSE GrantView[tok]
  <2>1. CASE tok \in revoked
    BY <1>2, <2>1 DEF GrantView
  <2>2. CASE tok \notin revoked /\ share[tok] = None
    BY <1>2, <2>2 DEF GrantView
  <2>3. CASE tok \notin revoked /\ share[tok] # None
    <3>1. share'[tok] = share[tok] /\ share[tok].ref_path # k
      BY <1>2, <2>3
    <3>2. share[tok].ref_path \in Keys
      BY <2>3 DEF TypeOK, ShareRows
    <3>3. ref'[share[tok].ref_path] = ref[share[tok].ref_path]
      BY <1>2, <3>1, <3>2 DEF TypeOK
    <3>4. GrantView[tok] = GrantOf(tok) /\ GrantView'[tok] = GrantOf(tok)'
      BY <2>3, <3>1, ViewNow
    <3> QED
      BY <2>3, <3>1, <3>3, <3>4 DEF GrantOf, ShareShows
  <2> QED
    BY <2>1, <2>2, <2>3
<1>5. GrantView' = [tok \in Tokens |->
                      IF tok \in revoked THEN None
                      ELSE IF tok \in {} THEN [path |-> k, shows |-> None]
                      ELSE GrantView[tok]]
  BY <1>4 DEF GrantView
<1>6. FileView = ref /\ FileView' = ref'
  BY ViewNow
<1> HIDE DEF revoked
<1>7. FS!Remove(k)
  BY <1>2, <1>3, <1>5, <1>6 DEF FS!Remove
<1> QED
  BY <1>1, <1>7 DEF FS!Next

(* A new token shows what its path has.                                     *)
LEMMA ViewGrant ==
  ASSUME TypeOK, QuietInv, ShareHasRef, TypeOK', QuietInv', ShareHasRef',
         NEW tok \in Tokens, NEW t \in Tenants, NEW p \in Paths,
         NEW ttl \in Ttls, CreateShare(tok, t, p, ttl)
  PROVE  FS!Next
<1> DEFINE k == StoredPath(t, p)
           row == [ref_path |-> k, expires |-> ExpiresAt(ttl)]
<1>1. k \in Keys
  BY DEF StoredPath, Keys
<1>2. /\ share[tok] = None /\ ref[k] # None
      /\ share' = [share EXCEPT ![tok] = row]
      /\ UNCHANGED ref
  BY DEF CreateShare
<1>3. row \in ShareRows /\ row # None /\ row.expires # "past"
  BY <1>1, NoneIsNothing DEF ShareRows, ExpiresAt
<1>4. row.ref_path = k
  OBVIOUS
<1> HIDE DEF row, k
<1>5. FileView = ref /\ FileView' = ref'
  BY ViewNow
<1>6. share'[tok] = row
  BY <1>2 DEF TypeOK
<1>7. GrantView'[tok] = [path |-> k, shows |-> ref[k]]
  <2>1. GrantView'[tok] = GrantOf(tok)'
    BY <1>3, <1>6, ViewNow
  <2> QED
    BY <1>2, <1>3, <1>4, <1>6, <2>1 DEF GrantOf, ShareShows
<1>8. ASSUME NEW other \in Tokens, other # tok
      PROVE  GrantView'[other] = GrantView[other]
  <2>1. share'[other] = share[other]
    BY <1>2, <1>8
  <2>2. CASE share[other] = None
    BY <2>1, <2>2 DEF GrantView
  <2>3. CASE share[other] # None
    <3>1. GrantView[other] = GrantOf(other) /\ GrantView'[other] = GrantOf(other)'
      BY <2>1, <2>3, ViewNow
    <3>2. GrantOf(other)' = GrantOf(other)
      BY <1>2, <2>1 DEF GrantOf, ShareShows
    <3> QED
      BY <3>1, <3>2
  <2> QED
    BY <2>2, <2>3
<1>9. GrantView[tok] = None
  BY <1>2 DEF GrantView
<1>10. GrantView' = [GrantView EXCEPT ![tok] = [path |-> k, shows |-> FileView[k]]]
  BY <1>5, <1>7, <1>8 DEF GrantView
<1>11. FS!Grant(tok, k)
  BY <1>2, <1>5, <1>9, <1>10 DEF FS!Grant
<1> QED
  BY <1>1, <1>11 DEF FS!Next

(* An expired token shows nothing.                                          *)
LEMMA ViewExpire ==
  ASSUME TypeOK, QuietInv, ShareHasRef, TypeOK', QuietInv', ShareHasRef',
         NEW tok \in Tokens, ShareExpires(tok)
  PROVE  FS!Next
<1>1. /\ share[tok] \in ShareRows /\ share[tok] # None
      /\ share' = [share EXCEPT ![tok].expires = "past"]
      /\ UNCHANGED ref
  BY DEF ShareExpires, TypeOK
<1>r. ref' = ref
  BY <1>1
<1>2. /\ share'[tok].ref_path = share[tok].ref_path
      /\ share'[tok].expires = "past"
      /\ share'[tok] # None
      /\ \A other \in Tokens : other # tok => share'[other] = share[other]
  <2>1. share'[tok] \in ShareRows
    BY <1>1 DEF TypeOK, ShareRows
  <2> QED
    BY <1>1, <2>1, NoneIsNothing DEF TypeOK, ShareRows
<1>3. FileView = ref /\ FileView' = ref'
  BY ViewNow
<1>4. GrantView[tok] = GrantOf(tok) /\ GrantOf(tok) # None
  BY <1>1, ViewNow
<1>5. GrantView'[tok] = [path |-> share[tok].ref_path, shows |-> None]
  <2>1. GrantView'[tok] = GrantOf(tok)'
    BY <1>2, ViewNow
  <2> QED
    BY <1>2, <2>1 DEF GrantOf, ShareShows
<1>6. ASSUME NEW other \in Tokens, other # tok
      PROVE  GrantView'[other] = GrantView[other]
  <2>1. share'[other] = share[other]
    BY <1>2, <1>6
  <2>2. CASE share[other] = None
    BY <2>1, <2>2 DEF GrantView
  <2>3. CASE share[other] # None
    <3>1. GrantView[other] = GrantOf(other) /\ GrantView'[other] = GrantOf(other)'
      BY <2>1, <2>3, ViewNow
    <3>2. GrantOf(other)' = GrantOf(other)
      BY <1>r, <2>1 DEF GrantOf, ShareShows
    <3> QED
      BY <3>1, <3>2
  <2> QED
    BY <2>2, <2>3
<1>7. [GrantView[tok] EXCEPT !.shows = None] =
         [path |-> share[tok].ref_path, shows |-> None]
  BY <1>4 DEF GrantOf
<1>8. GrantView' = [GrantView EXCEPT ![tok].shows = None]
  BY <1>5, <1>6, <1>7 DEF GrantView
<1>9. FS!Expire(tok)
  BY <1>1, <1>3, <1>4, <1>8 DEF FS!Expire
<1> QED
  BY <1>9 DEF FS!Next

(* Every step of the system is a step of the file system or none: the       *)
(* sessions of put_ref, lost sessions, gc and the administrator are not     *)
(* seen at all, except the one that binds a path.                           *)
LEMMA ViewStep ==
  ASSUME TypeOK, QuietInv, ShareHasRef, TypeOK', QuietInv', ShareHasRef',
         [QuietNext]_vars
  PROVE  [FS!Next]_<<FileView, GrantView>>
<1>f. FileView = ref /\ FileView' = ref'
  BY ViewNow
<1>s. UNCHANGED <<ref, share>> => UNCHANGED <<FileView, GrantView>>
  <2> SUFFICES ASSUME UNCHANGED <<ref, share>>
               PROVE  UNCHANGED <<FileView, GrantView>>
    OBVIOUS
  <2>1. ASSUME NEW tok \in Tokens
        PROVE  GrantView'[tok] = GrantView[tok]
    <3>1. CASE share[tok] = None
      BY <3>1 DEF GrantView
    <3>2. CASE share[tok] # None
      BY <3>2, ViewNow DEF GrantOf, ShareShows
    <3> QED
      BY <3>1, <3>2
  <2> QED
    BY <1>f, <2>1 DEF GrantView
<1>1. CASE \E t \in Tenants, h \in Hashes : PutBlobOnly(t, h)
  BY <1>1, <1>s DEF PutBlobOnly
<1>2. CASE \E t \in Tenants, h \in Hashes : PutBlobFails(t, h)
  BY <1>2, <1>s DEF PutBlobFails
<1>3. CASE \E w \in Writers, t \in Tenants, p \in Paths, h \in Hashes :
              PutRefStart(w, t, p, h)
  BY <1>3, <1>s DEF PutRefStart
<1>4. CASE \E w \in Writers : PutRefBind(w)
  <2> PICK w \in Writers : PutRefBind(w)
    BY <1>4
  <2> DEFINE t == putting[w].tenant
             p == putting[w].path
             h == putting[w].hash
  <2>1. t \in Tenants /\ p \in Paths /\ h \in Hashes
    BY DEF PutRefBind, TypeOK, PutCalls
  <2>2. BindNew(t, p, h) \/ BindOther(t, p, h) \/ BindSame(t, p, h)
    BY DEF PutRefBind
  <2>3. UNCHANGED share
    BY DEF PutRefBind
  <2> HIDE DEF t, p, h
  <2>4. StoredPath(t, p) \in Keys
    BY <2>1 DEF StoredPath, Keys
  <2>5. CASE ref' = [ref EXCEPT ![StoredPath(t, p)] = h]
    <3>1. FS!Write(StoredPath(t, p), h)
      BY <2>1, <2>3, <2>4, <2>5, ViewWrite
    <3> QED
      BY <2>1, <2>4, <3>1 DEF FS!Next
  <2>6. CASE ref' = ref
    BY <1>s, <2>3, <2>6
  <2> QED
    BY <2>2, <2>5, <2>6 DEF BindNew, BindOther, BindSame
<1>5. CASE \E w \in Writers : PutRefAbandon(w)
  BY <1>5, <1>s DEF PutRefAbandon
<1>6. CASE \E t \in Tenants, p \in Paths : DeleteRef(t, p)
  BY <1>6, ViewRemove
<1>7. CASE \E tok \in Tokens, t \in Tenants, p \in Paths, ttl \in Ttls :
              CreateShare(tok, t, p, ttl)
  BY <1>7, ViewGrant
<1>8. CASE \E tok \in Tokens : ShareExpires(tok)
  BY <1>8, ViewExpire
<1>9. CASE /\ NoPutInFlight
           /\ \E scope \in GcScopes :
                 \E deleted \in SUBSET Unreferenced(scope) :
                    Gc(scope, deleted) \/ GcFails(scope, deleted)
  BY <1>9, <1>s DEF Gc, GcFails
<1>10. CASE \E t \in Tenants, mb \in ByteQuotas, mo \in ObjectQuotas :
              UpsertTenant(t, mb, mo)
  BY <1>10, <1>s DEF UpsertTenant
<1>11. CASE \E t \in Tenants : DeleteTenant(t)
  BY <1>11, <1>s DEF DeleteTenant
<1>12. CASE UNCHANGED vars
  BY <1>12, <1>s DEF vars
<1>13. CASE \E h \in Hashes : Intact(h) /\ Upload(h)
  <2> PICK h \in Hashes : Upload(h)
    BY <1>13
  <2>1. /\ UNCHANGED share
        /\ \/ ref' = ref
           \/ \E k \in Keys : ref' = [ref EXCEPT ![k] = h]
    BY UploadEffect DEF Rebinds, Keys
  <2>2. CASE ref' = ref
    BY <1>s, <2>1, <2>2
  <2>3. CASE \E k \in Keys : ref' = [ref EXCEPT ![k] = h]
    <3>1. \E k \in Keys : FS!Write(k, h)
      BY <2>1, <2>3, ViewWrite
    <3> QED
      BY <3>1 DEF FS!Next
  <2> QED
    BY <2>1, <2>2, <2>3
<1> QED
  BY <1>1, <1>2, <1>3, <1>4, <1>5, <1>6, <1>7, <1>8, <1>9, <1>10, <1>11, <1>12,
     <1>13, QuietCases

(* The core implements the file system: through any interleaving of tenants *)
(* and lost sessions a path reads the content last bound to it, and a token *)
(* shows what its own path has while it lasts, never another path's content *)
(* nor, once its path is removed, what is later put in its place.           *)
THEOREM ImplementsFileSystem == QuietSpec => FSSpec
<1>1. Init => FS!Init
  <2> SUFFICES ASSUME Init PROVE FS!Init
    OBVIOUS
  <2>1. FileView = [k \in Keys |-> None]
    BY DEF Init, FileView, ResolveRef
  <2>2. GrantView = [tok \in Tokens |-> None]
    BY DEF Init, GrantView
  <2> QED
    BY <2>1, <2>2 DEF FS!Init
<1>2. /\ TypeOK /\ QuietInv /\ ShareHasRef
      /\ TypeOK' /\ QuietInv' /\ ShareHasRef' /\ [QuietNext]_vars
      => [FS!Next]_<<FileView, GrantView>>
  BY ViewStep
<1>3. QuietSpec => []ShareHasRef
  <2>1. [QuietNext]_vars => [Next]_vars
    BY QuietIsNext
  <2> QED
    BY <2>1, ShareHasRefCorrect, PTL DEF QuietSpec, Spec
<1> QED
  BY <1>1, <1>2, <1>3, QuietTypeCorrect, QuietInvCorrect, PTL
  DEF QuietSpec, FSSpec, FS!Spec, FS!fsvars
=============================================================================
