---------------------------- MODULE ClawFSProofs ----------------------------
(***************************************************************************)
(* Theorems about ClawFS, for every set of tenants, paths, contents and    *)
(* writers, every quota and every size.                                    *)
(***************************************************************************)
EXTENDS ClawFS, FiniteSetTheorems, TLAPS

(* ------------------------------------------------------------------------ *)
(* The accounting operators                                                 *)
(* ------------------------------------------------------------------------ *)
AccountTables == [link: [Tenants \X Hashes -> Nat],
                  tenant: [Tenants -> TenantRows \cup {None}]]

(* _link_inc and _link_dec keep link counts and charges natural numbers.    *)
LEMMA LinkIncType ==
  ASSUME NEW acc \in AccountTables, NEW t \in Tenants, NEW h \in Hashes
  PROVE  LinkInc(acc, t, h) \in AccountTables
  BY SizesAreNat DEF AccountTables, LinkInc, TenantRows

LEMMA LinkDecType ==
  ASSUME NEW acc \in AccountTables, NEW t \in Tenants, NEW h \in Hashes
  PROVE  LinkDec(acc, t, h) \in AccountTables
  BY SizesAreNat DEF AccountTables, LinkDec, TenantRows, AtLeast0

LEMMA AccountsType ==
  TypeOK => Accounts \in AccountTables
  BY DEF TypeOK, Accounts, AccountTables

LEMMA SetAccountsType ==
  ASSUME TypeOK, NEW acc \in AccountTables, SetAccounts(acc)
  PROVE  /\ link' \in [Tenants \X Hashes -> Nat]
         /\ tenant' \in [Tenants -> TenantRows \cup {None}]
  BY DEF SetAccounts, AccountTables

(* _bump keeps the Blob table well formed, whatever it is asked to add.     *)
LEMMA BumpType ==
  ASSUME NEW blobs \in [Hashes -> BlobRows \cup {None}],
         NEW h \in Hashes, NEW delta \in Int
  PROVE  Bump(blobs, h, delta) \in [Hashes -> BlobRows \cup {None}]
  BY DEF Bump, BlobRows, AtLeast0

(* ------------------------------------------------------------------------ *)
(* Type correctness                                                         *)
(* ------------------------------------------------------------------------ *)

(* put_blob, whichever of its callers runs it, keeps its tables well formed. *)
LEMMA PutBlobType ==
  ASSUME TypeOK, NEW t \in Tenants, NEW h \in Hashes, PutBlob(t, h)
  PROVE  /\ objects' \in SUBSET Hashes
         /\ blob' \in [Hashes -> BlobRows \cup {None}]
         /\ link' \in [Tenants \X Hashes -> Nat]
         /\ tenant' \in [Tenants -> TenantRows \cup {None}]
<1>1. objects' \in SUBSET Hashes
  BY DEF TypeOK, PutBlob
<1>2. blob' \in [Hashes -> BlobRows \cup {None}]
  BY DEF TypeOK, PutBlob, BlobRows
<1>3. LinkInc(Accounts, t, h) \in AccountTables
  BY AccountsType, LinkIncType
<1>4. SetAccounts(LinkInc(Accounts, t, h))
  BY DEF PutBlob
<1> QED
  BY <1>1, <1>2, <1>3, <1>4, SetAccountsType

(* The second session of put_ref keeps the tables it writes well formed.    *)
LEMMA BindType ==
  ASSUME TypeOK, NEW t \in Tenants, NEW p \in Paths, NEW h \in Hashes,
         BindNew(t, p, h) \/ BindOther(t, p, h) \/ BindSame(t, p, h)
  PROVE  /\ blob' \in [Hashes -> BlobRows \cup {None}]
         /\ ref' \in [Keys -> Hashes \cup {None}]
         /\ link' \in [Tenants \X Hashes -> Nat]
         /\ tenant' \in [Tenants -> TenantRows \cup {None}]
<1> DEFINE k == StoredPath(t, p)
<1>k. k \in Keys
  BY DEF StoredPath, Keys
<1>1. CASE BindNew(t, p, h)
  <2>1. blob' \in [Hashes -> BlobRows \cup {None}]
    BY <1>1, BumpType DEF BindNew, TypeOK
  <2> QED
    BY <1>1, <1>k, <2>1 DEF BindNew, TypeOK
<1>2. CASE BindOther(t, p, h)
  <2>1. ref[k] \in Hashes
    BY <1>2, <1>k DEF BindOther, TypeOK
  <2>2. Bump(blob, ref[k], -1) \in [Hashes -> BlobRows \cup {None}]
    BY <2>1, BumpType DEF TypeOK
  <2>3. blob' \in [Hashes -> BlobRows \cup {None}]
    BY <1>2, <2>2, BumpType DEF BindOther
  <2>4. LinkDec(Accounts, t, ref[k]) \in AccountTables
    BY <2>1, AccountsType, LinkDecType
  <2>5. LinkInc(LinkDec(Accounts, t, ref[k]), t, h) \in AccountTables
    BY <2>4, LinkIncType
  <2>6. \/ SetAccounts(LinkInc(LinkDec(Accounts, t, ref[k]), t, h))
        \/ SetAccounts(LinkDec(Accounts, t, ref[k]))
    BY <1>2 DEF BindOther
  <2>7. /\ link' \in [Tenants \X Hashes -> Nat]
        /\ tenant' \in [Tenants -> TenantRows \cup {None}]
    BY <2>4, <2>5, <2>6, SetAccountsType
  <2>8. ref' \in [Keys -> Hashes \cup {None}]
    BY <1>2 DEF BindOther, TypeOK
  <2> QED
    BY <2>3, <2>7, <2>8
<1>3. CASE BindSame(t, p, h)
  BY <1>3 DEF BindSame, TypeOK
<1> QED
  BY <1>1, <1>2, <1>3

LEMMA SetQuotaType ==
  ASSUME NEW row \in TenantRows, NEW mb \in ByteQuotas, NEW mo \in ObjectQuotas
  PROVE  /\ SetQuota(row, mb, mo) \in TenantRows
         /\ SetQuota(row, mb, mo).used_bytes = row.used_bytes
         /\ SetQuota(row, mb, mo).used_objects = row.used_objects
  BY QuotasAreNat DEF SetQuota, TenantRows

LEMMA TypeInit == Init => TypeOK
  BY DEF Init, TypeOK

LEMMA ScopeTenants ==
  ASSUME NEW scope \in GcScopes
  PROVE  scope \subseteq Tenants
  BY DEF GcScopes

(* Path k, bound to another content or to none, is bound to h.              *)
Rebinds(blobs, k, h) ==
  /\ ref[k] # h
  /\ ref' = [ref EXCEPT ![k] = h]
  /\ blob' = IF ref[k] = None THEN Bump(blobs, h, 1)
             ELSE Bump(Bump(blobs, ref[k], -1), h, 1)

LEMMA RebindType ==
  ASSUME TypeOK, NEW blobs \in [Hashes -> BlobRows \cup {None}],
         NEW k \in Keys, NEW h \in Hashes, Rebinds(blobs, k, h)
  PROVE  /\ ref' \in [Keys -> Hashes \cup {None}]
         /\ blob' \in [Hashes -> BlobRows \cup {None}]
<1>1. ref' \in [Keys -> Hashes \cup {None}]
  BY DEF Rebinds, TypeOK
<1>2. CASE ref[k] = None
  BY <1>1, <1>2, BumpType DEF Rebinds
<1>3. CASE ref[k] # None
  <2>1. ref[k] \in Hashes
    BY <1>3 DEF TypeOK
  <2>2. Bump(blobs, ref[k], -1) \in [Hashes -> BlobRows \cup {None}]
    BY <2>1, BumpType
  <2> QED
    BY <1>1, <1>3, <2>2, BumpType DEF Rebinds
<1> QED
  BY <1>2, <1>3

(* What the session of UploadManager.complete does, whatever its target: it *)
(* stores the content for one tenant and rebinds at most one path of it.    *)
LEMMA UploadEffect ==
  ASSUME TypeOK, NEW h \in Hashes, Upload(h)
  PROVE  \E t \in Tenants :
            /\ WithinQuota(t, h)
            /\ SetAccounts(LinkInc(Accounts, t, h))
            /\ objects' = IF blob[h] = None THEN objects \cup {h} ELSE objects
            /\ UNCHANGED <<share, putting>>
            /\ \/ ref' = ref /\ blob' = UploadedBlobs(t, h)
               \/ \E p \in Paths : Rebinds(UploadedBlobs(t, h), <<t, p>>, h)
<1> PICK t \in Tenants : \/ UploadOnly(t, h)
                         \/ \E p \in Paths : \/ UploadNew(t, p, h)
                                             \/ UploadOver(t, p, h)
  BY DEF Upload
<1>1. UploadBlob(t, h)
  BY DEF UploadOnly, UploadNew, UploadOver
<1>2. \/ ref' = ref /\ blob' = UploadedBlobs(t, h)
      \/ \E p \in Paths : Rebinds(UploadedBlobs(t, h), <<t, p>>, h)
  BY NoneIsNothing
  DEF UploadOnly, UploadNew, UploadOver, Rebinds, StoredPath
<1> QED
  BY <1>1, <1>2 DEF UploadBlob

LEMMA UploadedBlobsType ==
  ASSUME TypeOK, NEW t \in Tenants, NEW h \in Hashes
  PROVE  UploadedBlobs(t, h) \in [Hashes -> BlobRows \cup {None}]
  BY DEF TypeOK, UploadedBlobs, BlobRows

(* The case split every step proof below uses: one action per disjunct.     *)
LEMMA NextCases ==
  ASSUME Next
  PROVE  \/ \E t \in Tenants, h \in Hashes : PutBlobOnly(t, h)
         \/ \E t \in Tenants, h \in Hashes : PutBlobFails(t, h)
         \/ \E w \in Writers, t \in Tenants, p \in Paths, h \in Hashes :
               PutRefStart(w, t, p, h)
         \/ \E w \in Writers : PutRefBind(w)
         \/ \E w \in Writers : PutRefAbandon(w)
         \/ \E t \in Tenants, p \in Paths : DeleteRef(t, p)
         \/ \E tok \in Tokens, t \in Tenants, p \in Paths, ttl \in Ttls :
               CreateShare(tok, t, p, ttl)
         \/ \E tok \in Tokens : ShareExpires(tok)
         \/ \E scope \in GcScopes :
               \E deleted \in SUBSET Unreferenced(scope) :
                  Gc(scope, deleted) \/ GcFails(scope, deleted)
         \/ \E t \in Tenants, mb \in ByteQuotas, mo \in ObjectQuotas :
               UpsertTenant(t, mb, mo)
         \/ \E t \in Tenants : DeleteTenant(t)
         \/ \E h \in Hashes : Upload(h)
  BY DEF Next, ClientNext, UploadNext, GcNext, AdminNext

(* Every step of every operation, gc and the administrator's included, and  *)
(* every failed session leaves the tables and the object store well formed. *)
LEMMA TypeStep ==
  ASSUME TypeOK, [Next]_vars
  PROVE  TypeOK'
<1>1. CASE \E t \in Tenants, h \in Hashes : PutBlobOnly(t, h)
  <2> PICK t \in Tenants, h \in Hashes : PutBlobOnly(t, h)
    BY <1>1
  <2>1. PutBlob(t, h) /\ UNCHANGED <<ref, share, putting>>
    BY DEF PutBlobOnly
  <2> QED
    BY <2>1, PutBlobType DEF TypeOK
<1>2. CASE \E t \in Tenants, h \in Hashes : PutBlobFails(t, h)
  BY <1>2 DEF PutBlobFails, TypeOK
<1>3. CASE \E w \in Writers, t \in Tenants, p \in Paths, h \in Hashes :
              PutRefStart(w, t, p, h)
  <2> PICK w \in Writers, t \in Tenants, p \in Paths, h \in Hashes :
              PutRefStart(w, t, p, h)
    BY <1>3
  <2>1. PutBlob(t, h) /\ UNCHANGED <<ref, share>>
    BY DEF PutRefStart
  <2>2. putting' \in [Writers -> PutCalls \cup {None}]
    BY DEF PutRefStart, TypeOK, PutCalls
  <2> QED
    BY <2>1, <2>2, PutBlobType DEF TypeOK
<1>4. CASE \E w \in Writers : PutRefBind(w)
  <2> PICK w \in Writers : PutRefBind(w)
    BY <1>4
  <2> DEFINE c == putting[w]
  <2>1. c \in PutCalls
    BY DEF PutRefBind, TypeOK
  <2>2. c.tenant \in Tenants /\ c.path \in Paths /\ c.hash \in Hashes
    BY <2>1 DEF PutCalls
  <2>3. \/ BindNew(c.tenant, c.path, c.hash)
        \/ BindOther(c.tenant, c.path, c.hash)
        \/ BindSame(c.tenant, c.path, c.hash)
    BY DEF PutRefBind
  <2>4. /\ putting' \in [Writers -> PutCalls \cup {None}]
        /\ UNCHANGED <<objects, share>>
    BY DEF PutRefBind, TypeOK
  <2> HIDE DEF c
  <2> QED
    BY <2>2, <2>3, <2>4, BindType DEF TypeOK
<1>5. CASE \E w \in Writers : PutRefAbandon(w)
  BY <1>5 DEF PutRefAbandon, TypeOK
<1>6. CASE \E t \in Tenants, p \in Paths : DeleteRef(t, p)
  <2> PICK t \in Tenants, p \in Paths : DeleteRef(t, p)
    BY <1>6
  <2> DEFINE k == StoredPath(t, p)
  <2>1. k \in Keys
    BY DEF StoredPath, Keys
  <2>2. ref[k] \in Hashes
    BY <2>1 DEF DeleteRef, TypeOK
  <2>3. blob' \in [Hashes -> BlobRows \cup {None}]
    BY <2>2, BumpType DEF DeleteRef, TypeOK
  <2>4. LinkDec(Accounts, t, ref[k]) \in AccountTables
    BY <2>2, AccountsType, LinkDecType
  <2>5. /\ link' \in [Tenants \X Hashes -> Nat]
        /\ tenant' \in [Tenants -> TenantRows \cup {None}]
    BY <2>4, SetAccountsType DEF DeleteRef
  <2>6. ref' \in [Keys -> Hashes \cup {None}]
    BY DEF DeleteRef, TypeOK
  <2>7. share' \in [Tokens -> ShareRows \cup {None}]
    BY DEF DeleteRef, TypeOK
  <2>8. UNCHANGED <<objects, putting>>
    BY DEF DeleteRef
  <2> QED
    BY <2>3, <2>5, <2>6, <2>7, <2>8 DEF TypeOK
<1>7. CASE \E tok \in Tokens, t \in Tenants, p \in Paths, ttl \in Ttls :
              CreateShare(tok, t, p, ttl)
  BY <1>7 DEF CreateShare, TypeOK, ShareRows, ExpiresAt, StoredPath, Keys
<1>8. CASE \E tok \in Tokens : ShareExpires(tok)
  BY <1>8 DEF ShareExpires, TypeOK, ShareRows
<1>9. CASE \E scope \in GcScopes : \E deleted \in SUBSET Unreferenced(scope) :
              Gc(scope, deleted) \/ GcFails(scope, deleted)
  BY <1>9 DEF Gc, GcFails, TypeOK
<1>10. CASE \E t \in Tenants, mb \in ByteQuotas, mo \in ObjectQuotas :
              UpsertTenant(t, mb, mo)
  <2> PICK t \in Tenants, mb \in ByteQuotas, mo \in ObjectQuotas :
              UpsertTenant(t, mb, mo)
    BY <1>10
  <2> DEFINE row == IF tenant[t] = None THEN NewTenant ELSE tenant[t]
  <2>1. row \in TenantRows
    BY DEF TypeOK, NewTenant, TenantRows
  <2>2. SetQuota(row, mb, mo) \in TenantRows
    BY <2>1, SetQuotaType
  <2>3. /\ tenant' = [tenant EXCEPT ![t] = SetQuota(row, mb, mo)]
        /\ UNCHANGED <<objects, blob, ref, link, share, putting>>
    BY DEF UpsertTenant
  <2> HIDE DEF row
  <2> QED
    BY <2>2, <2>3 DEF TypeOK
<1>11. CASE \E t \in Tenants : DeleteTenant(t)
  BY <1>11 DEF DeleteTenant, TypeOK
<1>12. CASE UNCHANGED vars
  BY <1>12 DEF vars, TypeOK
<1>13. CASE \E h \in Hashes : Upload(h)
  <2> PICK h \in Hashes : Upload(h)
    BY <1>13
  <2> PICK t \in Tenants :
         /\ SetAccounts(LinkInc(Accounts, t, h))
         /\ objects' = IF blob[h] = None THEN objects \cup {h} ELSE objects
         /\ UNCHANGED <<share, putting>>
         /\ \/ ref' = ref /\ blob' = UploadedBlobs(t, h)
            \/ \E p \in Paths : Rebinds(UploadedBlobs(t, h), <<t, p>>, h)
    BY UploadEffect
  <2>1. LinkInc(Accounts, t, h) \in AccountTables
    BY AccountsType, LinkIncType
  <2>2. /\ link' \in [Tenants \X Hashes -> Nat]
        /\ tenant' \in [Tenants -> TenantRows \cup {None}]
    BY <2>1, SetAccountsType
  <2>3. /\ ref' \in [Keys -> Hashes \cup {None}]
        /\ blob' \in [Hashes -> BlobRows \cup {None}]
    <3>1. CASE ref' = ref /\ blob' = UploadedBlobs(t, h)
      BY <3>1, UploadedBlobsType DEF TypeOK
    <3>2. CASE \E p \in Paths : Rebinds(UploadedBlobs(t, h), <<t, p>>, h)
      <4> PICK p \in Paths : Rebinds(UploadedBlobs(t, h), <<t, p>>, h)
        BY <3>2
      <4>1. <<t, p>> \in Keys
        BY DEF Keys
      <4> QED
        BY <4>1, RebindType, UploadedBlobsType
    <3> QED
      BY <3>1, <3>2
  <2> QED
    BY <2>2, <2>3 DEF TypeOK
<1> QED
  BY <1>1, <1>2, <1>3, <1>4, <1>5, <1>6, <1>7, <1>8, <1>9, <1>10, <1>11, <1>12,
     <1>13, NextCases

(* The tables always hold rows of their schema; in particular no count and  *)
(* no charge is ever negative.                                              *)
THEOREM TypeCorrect == Spec => []TypeOK
<1>1. Init => TypeOK
  BY TypeInit
<1>2. TypeOK /\ [Next]_vars => TypeOK'
  BY TypeStep
<1> QED
  BY <1>1, <1>2, PTL DEF Spec

(* ------------------------------------------------------------------------ *)
(* Reference counts                                                         *)
(* ------------------------------------------------------------------------ *)
LEMMA RefsFinite ==
  ASSUME NEW h \in Hashes
  PROVE  /\ IsFiniteSet(RefsTo(h))
         /\ Cardinality(RefsTo(h)) \in Nat
<1>1. IsFiniteSet(Keys)
  BY FiniteWorld, FS_Product DEF Keys
<1>2. RefsTo(h) \subseteq Keys
  BY DEF RefsTo
<1> QED
  BY <1>1, <1>2, FS_Subset, FS_CardinalityType

(* What binding, rebinding or unbinding one path does to the number of refs *)
(* each content has.                                                        *)
LEMMA RebindCount ==
  ASSUME TypeOK, NEW k \in Keys, NEW x \in Hashes \cup {None}, x # ref[k],
         ref' = [ref EXCEPT ![k] = x], NEW g \in Hashes
  PROVE  Cardinality(RefsTo(g))' = IF g = x THEN Cardinality(RefsTo(g)) + 1
                                   ELSE IF g = ref[k]
                                   THEN Cardinality(RefsTo(g)) - 1
                                   ELSE Cardinality(RefsTo(g))
<1>1. IsFiniteSet(RefsTo(g))
  BY RefsFinite
<1>2. CASE g = x
  <2>1. RefsTo(g)' = RefsTo(g) \cup {k}
    BY <1>2 DEF RefsTo, TypeOK
  <2>2. k \notin RefsTo(g)
    BY <1>2 DEF RefsTo
  <2> QED
    BY <1>1, <1>2, <2>1, <2>2, FS_AddElement
<1>3. CASE g # x /\ g = ref[k]
  <2>1. RefsTo(g)' = RefsTo(g) \ {k}
    BY <1>3 DEF RefsTo, TypeOK
  <2>2. k \in RefsTo(g)
    BY <1>3 DEF RefsTo
  <2> QED
    BY <1>1, <1>3, <2>1, <2>2, FS_RemoveElement
<1>4. CASE g # x /\ g # ref[k]
  <2>1. RefsTo(g)' = RefsTo(g)
    BY <1>4 DEF RefsTo, TypeOK
  <2> QED
    BY <1>4, <2>1
<1> QED
  BY <1>2, <1>3, <1>4

(* _bump changes the count of one row, and creates or removes none.         *)
LEMMA BumpValue ==
  ASSUME NEW blobs \in [Hashes -> BlobRows \cup {None}],
         NEW h \in Hashes, NEW delta \in Int, NEW g \in Hashes
  PROVE  /\ Bump(blobs, h, delta)[g] = None <=> blobs[g] = None
         /\ blobs[g] # None =>
              Bump(blobs, h, delta)[g].refcount =
                IF g = h THEN AtLeast0(blobs[g].refcount + delta)
                         ELSE blobs[g].refcount
<1> DEFINE row == [blobs[h] EXCEPT !.refcount = AtLeast0(@ + delta)]
<1>1. CASE blobs[h] = None
  BY <1>1 DEF Bump
<1>2. CASE blobs[h] # None
  <2>1. /\ row \in BlobRows
        /\ row.refcount = AtLeast0(blobs[h].refcount + delta)
    BY <1>2 DEF BlobRows, AtLeast0
  <2>2. row # None
    BY <2>1, NoneIsNothing
  <2>3. Bump(blobs, h, delta) = [blobs EXCEPT ![h] = row]
    BY <1>2 DEF Bump
  <2> HIDE DEF row
  <2> QED
    BY <1>2, <2>1, <2>2, <2>3
<1> QED
  BY <1>1, <1>2

(* A state whose Blob table and refs are those of the next one              *)
LEMMA CountsUnchanged ==
  ASSUME RefcountNeverOver, UNCHANGED <<blob, ref>>
  PROVE  RefcountNeverOver'
  BY DEF RefcountNeverOver, RefsTo

LEMMA CountsPutBlob ==
  ASSUME TypeOK, RefcountNeverOver, NEW t \in Tenants, NEW h \in Hashes,
         PutBlob(t, h), UNCHANGED ref
  PROVE  RefcountNeverOver'
<1> SUFFICES ASSUME NEW g \in Hashes, blob'[g] # None
             PROVE  blob'[g].refcount <= Cardinality(RefsTo(g))'
  BY DEF RefcountNeverOver
<1>1. RefsTo(g)' = RefsTo(g)
  BY DEF RefsTo
<1>2. blob'[g] = blob[g] \/ blob'[g].refcount = 0
  BY DEF PutBlob, TypeOK, BlobRows
<1> QED
  BY <1>1, <1>2, RefsFinite DEF RefcountNeverOver

(* Binding a path keeps a table that counts no more refs than there are so. *)
LEMMA CountsRebind ==
  ASSUME TypeOK, NEW blobs \in [Hashes -> BlobRows \cup {None}],
         \A g \in Hashes : blobs[g] # None =>
            blobs[g].refcount <= Cardinality(RefsTo(g)),
         NEW k \in Keys, NEW h \in Hashes, Rebinds(blobs, k, h)
  PROVE  RefcountNeverOver'
<1> DEFINE old == ref[k]
<1>o. old = ref[k]
  OBVIOUS
<1>t. old \in Hashes \cup {None}
  BY DEF TypeOK
<1>r. h \in Hashes \cup {None} /\ h # ref[k] /\ ref' = [ref EXCEPT ![k] = h]
  BY DEF Rebinds
<1>b. /\ old = None => blob' = Bump(blobs, h, 1)
      /\ old # None => blob' = Bump(Bump(blobs, old, -1), h, 1)
  BY DEF Rebinds
<1> HIDE DEF old
<1> SUFFICES ASSUME NEW g \in Hashes, blob'[g] # None
             PROVE  blob'[g].refcount <= Cardinality(RefsTo(g))'
  BY DEF RefcountNeverOver
<1>n. g # None
  BY NoneIsNothing
<1>1. Cardinality(RefsTo(g))' = IF g = h THEN Cardinality(RefsTo(g)) + 1
                                ELSE IF g = old
                                THEN Cardinality(RefsTo(g)) - 1
                                ELSE Cardinality(RefsTo(g))
  BY <1>o, <1>r, RebindCount
<1>2. Cardinality(RefsTo(g)) \in Nat
  BY RefsFinite
<1>3. CASE old = None
  <2>1. /\ blobs[g] # None
        /\ blob'[g].refcount = IF g = h THEN AtLeast0(blobs[g].refcount + 1)
                                        ELSE blobs[g].refcount
    BY <1>3, <1>b, BumpValue
  <2>2. /\ blobs[g].refcount \in Nat
        /\ blobs[g].refcount <= Cardinality(RefsTo(g))
    BY <2>1 DEF BlobRows
  <2> QED
    BY <1>1, <1>2, <1>3, <1>n, <2>1, <2>2 DEF AtLeast0
<1>4. CASE old # None
  <2>1. old \in Hashes /\ h # old
    BY <1>4, <1>t, <1>o, <1>r
  <2>2. Bump(blobs, old, -1) \in [Hashes -> BlobRows \cup {None}]
    BY <2>1, BumpType
  <2>3. /\ Bump(blobs, old, -1)[g] # None
        /\ blob'[g].refcount =
              IF g = h THEN AtLeast0(Bump(blobs, old, -1)[g].refcount + 1)
                       ELSE Bump(blobs, old, -1)[g].refcount
    BY <1>4, <1>b, <2>2, BumpValue
  <2>4. /\ blobs[g] # None
        /\ Bump(blobs, old, -1)[g].refcount =
              IF g = old THEN AtLeast0(blobs[g].refcount + (-1))
                         ELSE blobs[g].refcount
    BY <2>1, <2>3, BumpValue
  <2>5. /\ blobs[g].refcount \in Nat
        /\ blobs[g].refcount <= Cardinality(RefsTo(g))
    BY <2>4 DEF BlobRows
  <2>6. g = old => Cardinality(RefsTo(g)) # 0
    <3>1. g = old => k \in RefsTo(g)
      BY <1>o DEF RefsTo
    <3> QED
      BY <3>1, RefsFinite, FS_EmptySet
  <2> QED
    BY <1>1, <1>2, <2>1, <2>3, <2>4, <2>5, <2>6 DEF AtLeast0
<1> QED
  BY <1>3, <1>4

LEMMA CountsBind ==
  ASSUME TypeOK, RefcountNeverOver,
         NEW t \in Tenants, NEW p \in Paths, NEW h \in Hashes,
         BindNew(t, p, h) \/ BindOther(t, p, h) \/ BindSame(t, p, h)
  PROVE  RefcountNeverOver'
<1>k. StoredPath(t, p) \in Keys
  BY DEF StoredPath, Keys
<1>1. CASE BindNew(t, p, h) \/ BindOther(t, p, h)
  <2>1. Rebinds(blob, StoredPath(t, p), h)
    BY <1>1, NoneIsNothing DEF BindNew, BindOther, Rebinds
  <2>2. blob \in [Hashes -> BlobRows \cup {None}]
    BY DEF TypeOK
  <2>3. \A g \in Hashes : blob[g] # None =>
           blob[g].refcount <= Cardinality(RefsTo(g))
    BY DEF RefcountNeverOver
  <2> QED
    BY <1>k, <2>1, <2>2, <2>3, CountsRebind
<1>2. CASE BindSame(t, p, h)
  BY <1>2, CountsUnchanged DEF BindSame
<1> QED
  BY <1>1, <1>2

LEMMA CountsUpload ==
  ASSUME TypeOK, RefcountNeverOver, NEW h \in Hashes, Upload(h)
  PROVE  RefcountNeverOver'
<1> PICK t \in Tenants :
       \/ ref' = ref /\ blob' = UploadedBlobs(t, h)
       \/ \E p \in Paths : Rebinds(UploadedBlobs(t, h), <<t, p>>, h)
  BY UploadEffect
<1> DEFINE stored == UploadedBlobs(t, h)
<1>1. stored \in [Hashes -> BlobRows \cup {None}]
  BY UploadedBlobsType
<1>2. \A g \in Hashes : stored[g] # None =>
         stored[g].refcount <= Cardinality(RefsTo(g))
  <2> SUFFICES ASSUME NEW g \in Hashes, stored[g] # None
               PROVE  stored[g].refcount <= Cardinality(RefsTo(g))
    OBVIOUS
  <2>1. stored[g] = blob[g] \/ stored[g].refcount = 0
    BY DEF UploadedBlobs, TypeOK, BlobRows
  <2> QED
    BY <2>1, RefsFinite DEF RefcountNeverOver
<1>3. CASE ref' = ref /\ blob' = stored
  <2>1. \A g \in Hashes : RefsTo(g)' = RefsTo(g)
    BY <1>3 DEF RefsTo
  <2> QED
    BY <1>2, <1>3, <2>1 DEF RefcountNeverOver
<1>4. CASE \E p \in Paths : Rebinds(stored, <<t, p>>, h)
  <2> PICK p \in Paths : Rebinds(stored, <<t, p>>, h)
    BY <1>4
  <2>1. <<t, p>> \in Keys
    BY DEF Keys
  <2> HIDE DEF stored
  <2> QED
    BY <1>1, <1>2, <2>1, CountsRebind
<1> QED
  BY <1>3, <1>4

LEMMA CountsDelete ==
  ASSUME TypeOK, RefcountNeverOver,
         NEW t \in Tenants, NEW p \in Paths, DeleteRef(t, p)
  PROVE  RefcountNeverOver'
<1> DEFINE k == StoredPath(t, p)
<1> DEFINE old == ref[k]
<1>k. k \in Keys
  BY DEF StoredPath, Keys
<1>1. /\ old \in Hashes /\ old # None
      /\ ref' = [ref EXCEPT ![k] = None]
      /\ blob' = Bump(blob, old, -1)
  BY <1>k DEF DeleteRef, TypeOK
<1>o. old = ref[k]
  OBVIOUS
<1> HIDE DEF k, old
<1> SUFFICES ASSUME NEW g \in Hashes, blob'[g] # None
             PROVE  blob'[g].refcount <= Cardinality(RefsTo(g))'
  BY DEF RefcountNeverOver
<1>n. g # None
  BY NoneIsNothing
<1>2. Cardinality(RefsTo(g))' = IF g = old THEN Cardinality(RefsTo(g)) - 1
                                           ELSE Cardinality(RefsTo(g))
  BY <1>k, <1>o, <1>1, <1>n, RebindCount
<1>3. /\ blob[g] # None
      /\ blob'[g].refcount =
            IF g = old THEN AtLeast0(blob[g].refcount + (-1))
                       ELSE blob[g].refcount
  BY <1>1, BumpValue DEF TypeOK
<1>4. /\ blob[g].refcount \in Nat
      /\ blob[g].refcount <= Cardinality(RefsTo(g))
  BY <1>3 DEF RefcountNeverOver, TypeOK, BlobRows
<1>5. Cardinality(RefsTo(g)) \in Nat
  BY RefsFinite
<1>6. g = old => Cardinality(RefsTo(g)) # 0
  <2>1. g = old => k \in RefsTo(g)
    BY <1>k, <1>o DEF RefsTo
  <2> QED
    BY <2>1, RefsFinite, FS_EmptySet
<1> QED
  BY <1>2, <1>3, <1>4, <1>5, <1>6 DEF AtLeast0

(* Dropping rows cannot make a count too large.                             *)
LEMMA CountsGc ==
  ASSUME TypeOK, RefcountNeverOver,
         NEW scope \in GcScopes, NEW deleted, Gc(scope, deleted)
  PROVE  RefcountNeverOver'
<1>1. \A g \in Hashes : blob'[g] # None => blob'[g] = blob[g]
  BY DEF Gc
<1>2. \A g \in Hashes : RefsTo(g)' = RefsTo(g)
  BY DEF Gc, RefsTo
<1> QED
  BY <1>1, <1>2 DEF RefcountNeverOver

(* A Blob row never counts more refs than there are, so a blob no ref names *)
(* is at 0 and within gc's reach, whatever gc runs between the sessions of  *)
(* put_ref and whichever sessions are lost.                                 *)
THEOREM RefcountNeverOverCorrect == Spec => []RefcountNeverOver
<1>1. Init => RefcountNeverOver
  BY DEF Init, RefcountNeverOver
<1>2. ASSUME TypeOK, RefcountNeverOver, [Next]_vars
      PROVE  RefcountNeverOver'
  <2>1. CASE \E t \in Tenants, h \in Hashes : PutBlobOnly(t, h)
    BY <1>2, <2>1, CountsPutBlob DEF PutBlobOnly
  <2>2. CASE \E t \in Tenants, h \in Hashes : PutBlobFails(t, h)
    BY <1>2, <2>2, CountsUnchanged DEF PutBlobFails
  <2>3. CASE \E w \in Writers, t \in Tenants, p \in Paths, h \in Hashes :
                PutRefStart(w, t, p, h)
    BY <1>2, <2>3, CountsPutBlob DEF PutRefStart
  <2>4. CASE \E w \in Writers : PutRefBind(w)
    <3> PICK w \in Writers : PutRefBind(w)
      BY <2>4
    <3> DEFINE c == putting[w]
    <3>1. c.tenant \in Tenants /\ c.path \in Paths /\ c.hash \in Hashes
      BY <1>2 DEF PutRefBind, TypeOK, PutCalls
    <3>2. \/ BindNew(c.tenant, c.path, c.hash)
          \/ BindOther(c.tenant, c.path, c.hash)
          \/ BindSame(c.tenant, c.path, c.hash)
      BY DEF PutRefBind
    <3> HIDE DEF c
    <3> QED
      BY <1>2, <3>1, <3>2, CountsBind
  <2>5. CASE \E w \in Writers : PutRefAbandon(w)
    BY <1>2, <2>5, CountsUnchanged DEF PutRefAbandon
  <2>6. CASE \E t \in Tenants, p \in Paths : DeleteRef(t, p)
    BY <1>2, <2>6, CountsDelete
  <2>7. CASE \E tok \in Tokens, t \in Tenants, p \in Paths, ttl \in Ttls :
                CreateShare(tok, t, p, ttl)
    BY <1>2, <2>7, CountsUnchanged DEF CreateShare
  <2>8. CASE \E tok \in Tokens : ShareExpires(tok)
    BY <1>2, <2>8, CountsUnchanged DEF ShareExpires
  <2>9. CASE \E scope \in GcScopes : \E deleted \in SUBSET Unreferenced(scope) :
                Gc(scope, deleted) \/ GcFails(scope, deleted)
    <3>1. ASSUME NEW scope \in GcScopes, NEW deleted, GcFails(scope, deleted)
          PROVE  RefcountNeverOver'
      BY <1>2, <3>1, CountsUnchanged DEF GcFails
    <3> QED
      BY <1>2, <2>9, <3>1, CountsGc
  <2>10. CASE \E t \in Tenants, mb \in ByteQuotas, mo \in ObjectQuotas :
                UpsertTenant(t, mb, mo)
    BY <1>2, <2>10, CountsUnchanged DEF UpsertTenant
  <2>11. CASE \E t \in Tenants : DeleteTenant(t)
    BY <1>2, <2>11, CountsUnchanged DEF DeleteTenant
  <2>12. CASE UNCHANGED vars
    BY <1>2, <2>12, CountsUnchanged DEF vars
  <2>13. CASE \E h \in Hashes : Upload(h)
    BY <1>2, <2>13, CountsUpload
  <2> QED
    BY <1>2, <2>1, <2>2, <2>3, <2>4, <2>5, <2>6, <2>7, <2>8, <2>9, <2>10,
       <2>11, <2>12, <2>13, NextCases
<1> QED
  BY <1>1, <1>2, TypeCorrect, PTL DEF Spec

(* ------------------------------------------------------------------------ *)
(* Links                                                                    *)
(* ------------------------------------------------------------------------ *)
LEMMA NeedsFinite ==
  ASSUME NEW t \in Tenants, NEW h \in Hashes
  PROVE  /\ IsFiniteSet(RefsOf(t, h)) /\ Cardinality(RefsOf(t, h)) \in Nat
         /\ IsFiniteSet(PutsOf(t, h)) /\ Cardinality(PutsOf(t, h)) \in Nat
<1>1. RefsOf(t, h) \subseteq Paths /\ PutsOf(t, h) \subseteq Writers
  BY DEF RefsOf, PutsOf
<1> QED
  BY <1>1, FiniteWorld, FS_Subset, FS_CardinalityType

(* RebindCount, for the refs of one tenant                                  *)
LEMMA RebindTenantCount ==
  ASSUME TypeOK, NEW t \in Tenants, NEW p \in Paths,
         NEW x \in Hashes \cup {None}, x # ref[<<t, p>>],
         ref' = [ref EXCEPT ![<<t, p>>] = x],
         NEW u \in Tenants, NEW g \in Hashes
  PROVE  /\ u = t /\ g = x =>
               Cardinality(RefsOf(u, g))' = Cardinality(RefsOf(u, g)) + 1
         /\ u = t /\ g # x /\ g = ref[<<t, p>>] =>
               Cardinality(RefsOf(u, g))' = Cardinality(RefsOf(u, g)) - 1
         /\ u # t \/ (g # x /\ g # ref[<<t, p>>]) =>
               RefsOf(u, g)' = RefsOf(u, g)
<1>1. IsFiniteSet(RefsOf(u, g))
  BY NeedsFinite
<1>2. \A q \in Paths : ref'[<<u, q>>] = IF u = t /\ q = p THEN x
                                        ELSE ref[<<u, q>>]
  BY DEF TypeOK, Keys
<1>3. CASE u = t /\ g = x
  <2>1. RefsOf(u, g)' = RefsOf(u, g) \cup {p}
    BY <1>2, <1>3 DEF RefsOf
  <2>2. p \notin RefsOf(u, g)
    BY <1>3 DEF RefsOf
  <2>3. Cardinality(RefsOf(u, g))' = Cardinality(RefsOf(u, g)) + 1
    BY <1>1, <2>1, <2>2, FS_AddElement
  <2> QED
    BY <1>3, <2>3
<1>4. CASE u = t /\ g # x /\ g = ref[<<t, p>>]
  <2>1. RefsOf(u, g)' = RefsOf(u, g) \ {p}
    BY <1>2, <1>4 DEF RefsOf
  <2>2. p \in RefsOf(u, g)
    BY <1>4 DEF RefsOf
  <2>3. Cardinality(RefsOf(u, g))' = Cardinality(RefsOf(u, g)) - 1
    BY <1>1, <2>1, <2>2, FS_RemoveElement
  <2> QED
    BY <1>4, <2>3
<1>5. CASE u # t \/ (g # x /\ g # ref[<<t, p>>])
  BY <1>2, <1>5 DEF RefsOf
<1> QED
  BY <1>3, <1>4, <1>5

(* A put_ref that ends, bound or abandoned, needs its link no longer.       *)
LEMMA PutEnds ==
  ASSUME TypeOK, NEW w \in Writers, putting[w] # None,
         putting' = [putting EXCEPT ![w] = None],
         NEW u \in Tenants, NEW g \in Hashes
  PROVE  /\ u = putting[w].tenant /\ g = putting[w].hash =>
               Cardinality(PutsOf(u, g))' = Cardinality(PutsOf(u, g)) - 1
         /\ ~(u = putting[w].tenant /\ g = putting[w].hash) =>
               PutsOf(u, g)' = PutsOf(u, g)
<1>1. IsFiniteSet(PutsOf(u, g))
  BY NeedsFinite
<1>2. CASE u = putting[w].tenant /\ g = putting[w].hash
  <2>1. PutsOf(u, g)' = PutsOf(u, g) \ {w} /\ w \in PutsOf(u, g)
    BY <1>2 DEF PutsOf, TypeOK
  <2>2. Cardinality(PutsOf(u, g))' = Cardinality(PutsOf(u, g)) - 1
    BY <1>1, <2>1, FS_RemoveElement
  <2> QED
    BY <1>2, <2>2
<1>3. CASE ~(u = putting[w].tenant /\ g = putting[w].hash)
  BY <1>3 DEF PutsOf, TypeOK
<1> QED
  BY <1>2, <1>3

(* put_ref's first session counts the link its second will need.            *)
LEMMA PutBegins ==
  ASSUME TypeOK, NEW w \in Writers, putting[w] = None,
         NEW t \in Tenants, NEW p \in Paths, NEW h \in Hashes,
         putting' = [putting EXCEPT ![w] =
                       [tenant |-> t, path |-> p, hash |-> h]],
         NEW u \in Tenants, NEW g \in Hashes
  PROVE  /\ u = t /\ g = h =>
               Cardinality(PutsOf(u, g))' = Cardinality(PutsOf(u, g)) + 1
         /\ ~(u = t /\ g = h) => PutsOf(u, g)' = PutsOf(u, g)
<1> DEFINE c == [tenant |-> t, path |-> p, hash |-> h]
<1>1. IsFiniteSet(PutsOf(u, g))
  BY NeedsFinite
<1>2. c \in PutCalls /\ c # None
  BY NoneIsNothing DEF PutCalls
<1>3. CASE u = t /\ g = h
  <2>1. PutsOf(u, g)' = PutsOf(u, g) \cup {w} /\ w \notin PutsOf(u, g)
    BY <1>2, <1>3 DEF PutsOf, TypeOK
  <2>2. Cardinality(PutsOf(u, g))' = Cardinality(PutsOf(u, g)) + 1
    BY <1>1, <2>1, FS_AddElement
  <2> QED
    BY <1>3, <2>2
<1>4. CASE ~(u = t /\ g = h)
  BY <1>2, <1>4 DEF PutsOf, TypeOK
<1> QED
  BY <1>3, <1>4

(* What the accounting operators do to the link counts                      *)
LEMMA LinkIncValue ==
  ASSUME NEW acc \in AccountTables, NEW t \in Tenants, NEW h \in Hashes,
         NEW u \in Tenants, NEW g \in Hashes
  PROVE  LinkInc(acc, t, h).link[<<u, g>>] =
            IF u = t /\ g = h THEN acc.link[<<u, g>>] + 1
                              ELSE acc.link[<<u, g>>]
  BY DEF LinkInc, AccountTables

LEMMA LinkDecValue ==
  ASSUME NEW acc \in AccountTables, NEW t \in Tenants, NEW h \in Hashes,
         NEW u \in Tenants, NEW g \in Hashes
  PROVE  LinkDec(acc, t, h).link[<<u, g>>] =
            IF u = t /\ g = h THEN AtLeast0(acc.link[<<u, g>>] - 1)
                              ELSE acc.link[<<u, g>>]
<1>1. acc.link[<<t, h>>] \in Nat
  BY DEF AccountTables
<1>2. CASE acc.link[<<t, h>>] = 0
  BY <1>2 DEF LinkDec, AtLeast0
<1>3. CASE acc.link[<<t, h>>] # 0
  <2>1. LinkDec(acc, t, h).link = [acc.link EXCEPT ![<<t, h>>] = @ - 1]
    BY <1>3 DEF LinkDec
  <2>2. acc.link \in [Tenants \X Hashes -> Nat]
    BY DEF AccountTables
  <2> QED
    BY <1>1, <1>3, <2>1, <2>2 DEF AtLeast0
<1> QED
  BY <1>2, <1>3

(* put_blob and complete count one link more, for the content they store.   *)
LEMMA StoreLink ==
  ASSUME TypeOK, NEW t \in Tenants, NEW h \in Hashes,
         SetAccounts(LinkInc(Accounts, t, h)),
         NEW u \in Tenants, NEW g \in Hashes
  PROVE  link'[<<u, g>>] = IF u = t /\ g = h THEN link[<<u, g>>] + 1
                                             ELSE link[<<u, g>>]
<1>1. Accounts \in AccountTables
  BY AccountsType
<1>2. link' = LinkInc(Accounts, t, h).link
  BY DEF SetAccounts
<1> QED
  BY <1>1, <1>2, LinkIncValue DEF Accounts

(* The step of LinkCoversRefs when neither refs, calls nor links change     *)
LEMMA LinksUnchanged ==
  ASSUME LinkCoversRefs, UNCHANGED <<ref, putting, link>>
  PROVE  LinkCoversRefs'
  BY DEF LinkCoversRefs, RefsOf, PutsOf

LEMMA LinksPutRefBind ==
  ASSUME TypeOK, LinkCoversRefs, NEW w \in Writers, PutRefBind(w)
  PROVE  LinkCoversRefs'
<1> SUFFICES ASSUME NEW u \in Tenants, NEW g \in Hashes
             PROVE  Cardinality(RefsOf(u, g))' + Cardinality(PutsOf(u, g))'
                      <= link'[<<u, g>>]
  BY DEF LinkCoversRefs
<1> DEFINE t == putting[w].tenant
           p == putting[w].path
           h == putting[w].hash
           old == ref[<<t, p>>]
<1>1. t \in Tenants /\ p \in Paths /\ h \in Hashes
  BY DEF PutRefBind, TypeOK, PutCalls
<1>2. /\ u = t /\ g = h =>
            Cardinality(PutsOf(u, g))' = Cardinality(PutsOf(u, g)) - 1
      /\ ~(u = t /\ g = h) => PutsOf(u, g)' = PutsOf(u, g)
  BY PutEnds DEF PutRefBind
<1>3. \/ BindNew(t, p, h)
      \/ BindOther(t, p, h)
      \/ BindSame(t, p, h)
  BY DEF PutRefBind
<1>4. /\ Cardinality(RefsOf(u, g)) \in Nat
      /\ Cardinality(PutsOf(u, g)) \in Nat
      /\ link[<<u, g>>] \in Nat
      /\ Cardinality(RefsOf(u, g)) + Cardinality(PutsOf(u, g)) <= link[<<u, g>>]
  BY NeedsFinite DEF LinkCoversRefs, TypeOK
<1>k. <<t, p>> \in Keys
  BY <1>1 DEF Keys
<1>o. old = ref[<<t, p>>]
  OBVIOUS
<1> HIDE DEF t, p, h, old
<1>5. CASE BindNew(t, p, h)
  <2>1. old = None /\ old # h /\ g # None
    BY <1>1, <1>5, <1>o, NoneIsNothing DEF BindNew, StoredPath
  <2>r. /\ h \in Hashes \cup {None} /\ h # ref[<<t, p>>]
        /\ ref' = [ref EXCEPT ![<<t, p>>] = h]
    BY <1>1, <1>5, <1>o, <2>1 DEF BindNew, StoredPath
  <2>2. /\ u = t /\ g = h =>
              Cardinality(RefsOf(u, g))' = Cardinality(RefsOf(u, g)) + 1
        /\ u # t \/ g # h => RefsOf(u, g)' = RefsOf(u, g)
    BY <1>1, <1>o, <2>1, <2>r, RebindTenantCount, ZenonT(40)
  <2>3. link' = link
    BY <1>5 DEF BindNew
  <2> QED
    BY <1>2, <1>4, <2>2, <2>3
<1>6. CASE BindOther(t, p, h)
  <2>1. old \in Hashes /\ h # old /\ ref' = [ref EXCEPT ![<<t, p>>] = h]
    BY <1>6, <1>k, <1>o DEF BindOther, StoredPath, TypeOK
  <2>2. /\ u = t /\ g = h =>
              Cardinality(RefsOf(u, g))' = Cardinality(RefsOf(u, g)) + 1
        /\ u = t /\ g # h /\ g = old =>
              Cardinality(RefsOf(u, g))' = Cardinality(RefsOf(u, g)) - 1
        /\ u # t \/ (g # h /\ g # old) => RefsOf(u, g)' = RefsOf(u, g)
    <3>1. /\ h \in Hashes \cup {None} /\ h # ref[<<t, p>>]
          /\ ref' = [ref EXCEPT ![<<t, p>>] = h]
      BY <1>1, <1>o, <2>1
    <3> QED
      BY <1>1, <1>o, <3>1, RebindTenantCount, ZenonT(40)
  <2> DEFINE released == LinkDec(Accounts, t, old)
  <2>3. released \in AccountTables
    BY <1>1, <2>1, AccountsType, LinkDecType
  <2>4. released.link[<<u, g>>] = IF u = t /\ g = old
                                  THEN AtLeast0(link[<<u, g>>] - 1)
                                  ELSE link[<<u, g>>]
    BY <1>1, <2>1, AccountsType, LinkDecValue DEF Accounts
  <2>5. LinkInc(released, t, h).link[<<u, g>>] =
           IF u = t /\ g = h THEN released.link[<<u, g>>] + 1
                             ELSE released.link[<<u, g>>]
    BY <1>1, <2>3, LinkIncValue
  <2>6. link' = released.link \/ link' = LinkInc(released, t, h).link
    BY <1>6, <1>o DEF BindOther, SetAccounts, StoredPath
  <2> HIDE DEF released
  <2> QED
    BY <1>2, <1>4, <2>1, <2>2, <2>4, <2>5, <2>6 DEF AtLeast0
<1>7. CASE BindSame(t, p, h)
  <2>1. RefsOf(u, g)' = RefsOf(u, g) /\ link' = link
    BY <1>7 DEF BindSame, RefsOf
  <2> QED
    BY <1>2, <1>4, <2>1
<1> QED
  BY <1>3, <1>5, <1>6, <1>7

LEMMA LinksDelete ==
  ASSUME TypeOK, LinkCoversRefs, NEW t \in Tenants, NEW p \in Paths,
         DeleteRef(t, p)
  PROVE  LinkCoversRefs'
<1> SUFFICES ASSUME NEW u \in Tenants, NEW g \in Hashes
             PROVE  Cardinality(RefsOf(u, g))' + Cardinality(PutsOf(u, g))'
                      <= link'[<<u, g>>]
  BY DEF LinkCoversRefs
<1> DEFINE old == ref[<<t, p>>]
<1>1. old \in Hashes /\ old # None /\ g # None
  BY NoneIsNothing DEF DeleteRef, StoredPath, TypeOK, Keys
<1>2. Cardinality(RefsOf(u, g))' = IF u = t /\ g = old
                                   THEN Cardinality(RefsOf(u, g)) - 1
                                   ELSE Cardinality(RefsOf(u, g))
  <2>1. /\ None \in Hashes \cup {None} /\ None # ref[<<t, p>>]
        /\ ref' = [ref EXCEPT ![<<t, p>>] = None]
    BY DEF DeleteRef, StoredPath
  <2>2. /\ u = t /\ g = old =>
              Cardinality(RefsOf(u, g))' = Cardinality(RefsOf(u, g)) - 1
        /\ u # t \/ g # old => RefsOf(u, g)' = RefsOf(u, g)
    BY <1>1, <2>1, RebindTenantCount, ZenonT(40)
  <2> QED
    BY <2>2
<1>3. link'[<<u, g>>] = IF u = t /\ g = old THEN AtLeast0(link[<<u, g>>] - 1)
                                            ELSE link[<<u, g>>]
  BY <1>1, AccountsType, LinkDecValue
  DEF DeleteRef, SetAccounts, Accounts, StoredPath
<1>4. PutsOf(u, g)' = PutsOf(u, g)
  BY DEF DeleteRef, PutsOf
<1>5. /\ Cardinality(RefsOf(u, g)) \in Nat
      /\ Cardinality(PutsOf(u, g)) \in Nat
      /\ link[<<u, g>>] \in Nat
      /\ Cardinality(RefsOf(u, g)) + Cardinality(PutsOf(u, g)) <= link[<<u, g>>]
  BY NeedsFinite DEF LinkCoversRefs, TypeOK
<1> HIDE DEF old
<1> QED
  BY <1>2, <1>3, <1>4, <1>5 DEF AtLeast0

(* complete counts a link for the ref it binds; that it keeps the link of a *)
(* content it replaces only adds to them.                                   *)
LEMMA LinksUpload ==
  ASSUME TypeOK, LinkCoversRefs, NEW h \in Hashes, Upload(h)
  PROVE  LinkCoversRefs'
<1> PICK t \in Tenants :
       /\ SetAccounts(LinkInc(Accounts, t, h))
       /\ UNCHANGED putting
       /\ \/ ref' = ref
          \/ \E p \in Paths : Rebinds(UploadedBlobs(t, h), <<t, p>>, h)
  BY UploadEffect
<1> SUFFICES ASSUME NEW u \in Tenants, NEW g \in Hashes
             PROVE  Cardinality(RefsOf(u, g))' + Cardinality(PutsOf(u, g))'
                      <= link'[<<u, g>>]
  BY DEF LinkCoversRefs
<1>1. PutsOf(u, g)' = PutsOf(u, g)
  BY DEF PutsOf
<1>2. link'[<<u, g>>] = IF u = t /\ g = h THEN link[<<u, g>>] + 1
                                          ELSE link[<<u, g>>]
  BY StoreLink
<1>3. /\ Cardinality(RefsOf(u, g)) \in Nat
      /\ Cardinality(PutsOf(u, g)) \in Nat
      /\ link[<<u, g>>] \in Nat
      /\ Cardinality(RefsOf(u, g)) + Cardinality(PutsOf(u, g)) <= link[<<u, g>>]
  BY NeedsFinite DEF LinkCoversRefs, TypeOK
<1>4. CASE ref' = ref
  <2>1. RefsOf(u, g)' = RefsOf(u, g)
    BY <1>4 DEF RefsOf
  <2> QED
    BY <1>1, <1>2, <1>3, <2>1
<1>5. CASE \E p \in Paths : Rebinds(UploadedBlobs(t, h), <<t, p>>, h)
  <2> PICK p \in Paths : Rebinds(UploadedBlobs(t, h), <<t, p>>, h)
    BY <1>5
  <2>1. /\ h \in Hashes \cup {None} /\ h # ref[<<t, p>>]
        /\ ref' = [ref EXCEPT ![<<t, p>>] = h]
    BY DEF Rebinds
  <2>2. /\ u = t /\ g = h =>
              Cardinality(RefsOf(u, g))' = Cardinality(RefsOf(u, g)) + 1
        /\ u = t /\ g # h /\ g = ref[<<t, p>>] =>
              Cardinality(RefsOf(u, g))' = Cardinality(RefsOf(u, g)) - 1
        /\ u # t \/ (g # h /\ g # ref[<<t, p>>]) => RefsOf(u, g)' = RefsOf(u, g)
    BY <2>1, RebindTenantCount, ZenonT(40)
  <2> QED
    BY <1>1, <1>2, <1>3, <2>2
<1> QED
  BY <1>4, <1>5

(* No call releases a link that another ref of the tenant, or a put_ref     *)
(* between its sessions, still needs: in particular put_ref's second        *)
(* session finds the link its first one counted, and charges nothing new.   *)
THEOREM LinkCoversRefsCorrect == Spec => []LinkCoversRefs
<1>1. Init => LinkCoversRefs
  <2> SUFFICES ASSUME Init, NEW t \in Tenants, NEW h \in Hashes
               PROVE  Cardinality(RefsOf(t, h)) + Cardinality(PutsOf(t, h))
                        <= link[<<t, h>>]
    BY DEF LinkCoversRefs
  <2>1. RefsOf(t, h) = {} /\ PutsOf(t, h) = {}
    BY NoneIsNothing DEF Init, RefsOf, PutsOf, Keys
  <2>2. link[<<t, h>>] = 0
    BY DEF Init
  <2> QED
    BY <2>1, <2>2, FS_EmptySet
<1>2. ASSUME TypeOK, LinkCoversRefs, [Next]_vars
      PROVE  LinkCoversRefs'
  <2>1. CASE \E t \in Tenants, h \in Hashes : PutBlobOnly(t, h)
    <3> PICK t \in Tenants, h \in Hashes : PutBlobOnly(t, h)
      BY <2>1
    <3>1. PutBlob(t, h) /\ UNCHANGED <<ref, putting>>
      BY DEF PutBlobOnly
    <3> SUFFICES ASSUME NEW u \in Tenants, NEW g \in Hashes
                 PROVE  Cardinality(RefsOf(u, g))' + Cardinality(PutsOf(u, g))'
                          <= link'[<<u, g>>]
      BY DEF LinkCoversRefs
    <3>2. RefsOf(u, g)' = RefsOf(u, g) /\ PutsOf(u, g)' = PutsOf(u, g)
      BY <3>1 DEF RefsOf, PutsOf
    <3>3. link'[<<u, g>>] = IF u = t /\ g = h THEN link[<<u, g>>] + 1
                                              ELSE link[<<u, g>>]
      BY <1>2, <3>1, StoreLink DEF PutBlob
    <3>4. /\ Cardinality(RefsOf(u, g)) \in Nat
          /\ Cardinality(PutsOf(u, g)) \in Nat
          /\ link[<<u, g>>] \in Nat
          /\ Cardinality(RefsOf(u, g)) + Cardinality(PutsOf(u, g))
               <= link[<<u, g>>]
      BY <1>2, NeedsFinite DEF LinkCoversRefs, TypeOK
    <3> QED
      BY <3>2, <3>3, <3>4
  <2>2. CASE \E t \in Tenants, h \in Hashes : PutBlobFails(t, h)
    BY <1>2, <2>2, LinksUnchanged DEF PutBlobFails
  <2>3. CASE \E w \in Writers, t \in Tenants, p \in Paths, h \in Hashes :
                PutRefStart(w, t, p, h)
    <3> PICK w \in Writers, t \in Tenants, p \in Paths, h \in Hashes :
                PutRefStart(w, t, p, h)
      BY <2>3
    <3> SUFFICES ASSUME NEW u \in Tenants, NEW g \in Hashes
                 PROVE  Cardinality(RefsOf(u, g))' + Cardinality(PutsOf(u, g))'
                          <= link'[<<u, g>>]
      BY DEF LinkCoversRefs
    <3>1. /\ PutBlob(t, h)
          /\ RefsOf(u, g)' = RefsOf(u, g)
      BY DEF PutRefStart, RefsOf
    <3>2. link'[<<u, g>>] = IF u = t /\ g = h THEN link[<<u, g>>] + 1
                                              ELSE link[<<u, g>>]
      BY <1>2, <3>1, StoreLink DEF PutBlob
    <3>p. /\ putting[w] = None
          /\ putting' = [putting EXCEPT ![w] =
                           [tenant |-> t, path |-> p, hash |-> h]]
      BY DEF PutRefStart
    <3>3. /\ u = t /\ g = h =>
                Cardinality(PutsOf(u, g))' = Cardinality(PutsOf(u, g)) + 1
          /\ ~(u = t /\ g = h) => PutsOf(u, g)' = PutsOf(u, g)
      BY <1>2, <3>p, PutBegins, ZenonT(40)
    <3>4. /\ Cardinality(RefsOf(u, g)) \in Nat
          /\ Cardinality(PutsOf(u, g)) \in Nat
          /\ link[<<u, g>>] \in Nat
          /\ Cardinality(RefsOf(u, g)) + Cardinality(PutsOf(u, g))
               <= link[<<u, g>>]
      BY <1>2, NeedsFinite DEF LinkCoversRefs, TypeOK
    <3> QED
      BY <3>1, <3>2, <3>3, <3>4
  <2>4. CASE \E w \in Writers : PutRefBind(w)
    BY <1>2, <2>4, LinksPutRefBind
  <2>5. CASE \E w \in Writers : PutRefAbandon(w)
    <3> PICK w \in Writers : PutRefAbandon(w)
      BY <2>5
    <3> SUFFICES ASSUME NEW u \in Tenants, NEW g \in Hashes
                 PROVE  Cardinality(RefsOf(u, g))' + Cardinality(PutsOf(u, g))'
                          <= link'[<<u, g>>]
      BY DEF LinkCoversRefs
    <3>1. RefsOf(u, g)' = RefsOf(u, g) /\ link' = link
      BY DEF PutRefAbandon, RefsOf
    <3>2. putting[w] # None /\ putting' = [putting EXCEPT ![w] = None]
      BY DEF PutRefAbandon
    <3>3. \/ Cardinality(PutsOf(u, g))' = Cardinality(PutsOf(u, g)) - 1
          \/ PutsOf(u, g)' = PutsOf(u, g)
      BY <1>2, <3>2, PutEnds
    <3>4. /\ Cardinality(RefsOf(u, g)) \in Nat
          /\ Cardinality(PutsOf(u, g)) \in Nat
          /\ link[<<u, g>>] \in Nat
          /\ Cardinality(RefsOf(u, g)) + Cardinality(PutsOf(u, g))
               <= link[<<u, g>>]
      BY <1>2, NeedsFinite DEF LinkCoversRefs, TypeOK
    <3> QED
      BY <3>1, <3>3, <3>4
  <2>6. CASE \E t \in Tenants, p \in Paths : DeleteRef(t, p)
    BY <1>2, <2>6, LinksDelete
  <2>7. CASE \E tok \in Tokens, t \in Tenants, p \in Paths, ttl \in Ttls :
                CreateShare(tok, t, p, ttl)
    BY <1>2, <2>7, LinksUnchanged DEF CreateShare
  <2>8. CASE \E tok \in Tokens : ShareExpires(tok)
    BY <1>2, <2>8, LinksUnchanged DEF ShareExpires
  <2>9. CASE \E scope \in GcScopes : \E deleted \in SUBSET Unreferenced(scope) :
                Gc(scope, deleted) \/ GcFails(scope, deleted)
    BY <1>2, <2>9, LinksUnchanged DEF Gc, GcFails
  <2>10. CASE \E t \in Tenants, mb \in ByteQuotas, mo \in ObjectQuotas :
                UpsertTenant(t, mb, mo)
    BY <1>2, <2>10, LinksUnchanged DEF UpsertTenant
  <2>11. CASE \E t \in Tenants : DeleteTenant(t)
    BY <1>2, <2>11, LinksUnchanged DEF DeleteTenant
  <2>12. CASE UNCHANGED vars
    BY <1>2, <2>12, LinksUnchanged DEF vars
  <2>13. CASE \E h \in Hashes : Upload(h)
    BY <1>2, <2>13, LinksUpload
  <2> QED
    BY <1>2, <2>1, <2>2, <2>3, <2>4, <2>5, <2>6, <2>7, <2>8, <2>9, <2>10,
       <2>11, <2>12, <2>13, NextCases
<1> QED
  BY <1>1, <1>2, TypeCorrect, PTL DEF Spec

(* ------------------------------------------------------------------------ *)
(* Quotas                                                                   *)
(* ------------------------------------------------------------------------ *)

(* Usage of tenant u may fall from one Tenant table to another, not rise.   *)
NotCharged(was, now, u) ==
  was[u] # None /\ now[u] # None =>
     /\ now[u].used_bytes <= was[u].used_bytes
     /\ now[u].used_objects <= was[u].used_objects

Gate(was, now, u) ==
  was[u] # None /\ now[u] # None =>
     /\ now[u].used_bytes > was[u].used_bytes =>
          now[u].max_bytes = None \/ now[u].used_bytes <= now[u].max_bytes
     /\ now[u].used_objects > was[u].used_objects =>
          now[u].max_objects = None \/ now[u].used_objects <= now[u].max_objects

LEMMA NotChargedPasses ==
  ASSUME TypeOK, TypeOK', NEW u \in Tenants, NotCharged(tenant, tenant', u)
  PROVE  Gate(tenant, tenant', u)
<1>1. /\ tenant[u] # None => tenant[u] \in TenantRows
      /\ tenant'[u] # None => tenant'[u] \in TenantRows
  BY DEF TypeOK
<1> QED
  BY <1>1 DEF NotCharged, Gate, TenantRows

LEMMA SameNotCharged ==
  ASSUME TypeOK, NEW u \in Tenants, UNCHANGED tenant
  PROVE  NotCharged(tenant, tenant', u)
<1>1. tenant[u] # None => tenant[u] \in TenantRows
  BY DEF TypeOK
<1> QED
  BY <1>1 DEF NotCharged, TenantRows

(* Releasing a link charges nobody.                                         *)
LEMMA LinkDecNotCharged ==
  ASSUME NEW acc \in AccountTables, NEW t \in Tenants, NEW h \in Hashes,
         NEW u \in Tenants
  PROVE  NotCharged(acc.tenant, LinkDec(acc, t, h).tenant, u)
<1>1. acc.tenant[u] # None => acc.tenant[u] \in TenantRows
  BY DEF AccountTables
<1>2. CASE LinkDec(acc, t, h).tenant = acc.tenant
  BY <1>1, <1>2 DEF NotCharged, TenantRows
<1>3. CASE LinkDec(acc, t, h).tenant # acc.tenant
  <2>1. /\ acc.tenant[t] # None
        /\ LinkDec(acc, t, h).tenant =
             [acc.tenant EXCEPT ![t].used_bytes = AtLeast0(@ - Size[h]),
                                ![t].used_objects = AtLeast0(@ - 1)]
    BY <1>3 DEF LinkDec
  <2>2. CASE u # t
    <3>1. LinkDec(acc, t, h).tenant[u] = acc.tenant[u]
      BY <2>1, <2>2 DEF AccountTables
    <3> QED
      BY <1>1, <3>1 DEF NotCharged, TenantRows
  <2>3. CASE u = t
    <3>1. acc.tenant[t] \in TenantRows /\ acc.tenant \in [Tenants -> TenantRows \cup {None}]
      BY <2>1 DEF AccountTables
    <3>2. /\ LinkDec(acc, t, h).tenant[t].used_bytes =
               AtLeast0(acc.tenant[t].used_bytes - Size[h])
          /\ LinkDec(acc, t, h).tenant[t].used_objects =
               AtLeast0(acc.tenant[t].used_objects - 1)
      BY <2>1, <3>1 DEF TenantRows
    <3>3. Size[h] \in Nat
      BY SizesAreNat
    <3> QED
      BY <2>3, <3>1, <3>2, <3>3 DEF NotCharged, TenantRows, AtLeast0
  <2> QED
    BY <2>2, <2>3
<1> QED
  BY <1>2, <1>3

(* put_blob and complete charge only what the quota test let through.       *)
LEMMA StoreGate ==
  ASSUME TypeOK, TypeOK', NEW t \in Tenants, NEW h \in Hashes,
         WithinQuota(t, h), SetAccounts(LinkInc(Accounts, t, h)),
         NEW u \in Tenants
  PROVE  Gate(tenant, tenant', u)
<1>1. tenant' = IF link[<<t, h>>] > 0 \/ tenant[t] = None THEN tenant
                ELSE [tenant EXCEPT ![t].used_bytes = @ + Size[h],
                                    ![t].used_objects = @ + 1]
  BY DEF SetAccounts, LinkInc, Accounts
<1>2. CASE tenant' = tenant
  BY <1>2, SameNotCharged, NotChargedPasses
<1>3. CASE tenant' # tenant
  <2>1. /\ tenant[t] # None /\ ~(link[<<t, h>>] > 0)
        /\ tenant' = [tenant EXCEPT ![t].used_bytes = @ + Size[h],
                                    ![t].used_objects = @ + 1]
    BY <1>1, <1>3
  <2>2. CASE u # t
    <3>1. tenant'[u] = tenant[u]
      BY <2>1, <2>2 DEF TypeOK
    <3>2. tenant[u] # None => tenant[u] \in TenantRows
      BY DEF TypeOK
    <3>3. NotCharged(tenant, tenant', u)
      BY <3>1, <3>2 DEF NotCharged, TenantRows
    <3> QED
      BY <3>3, NotChargedPasses
  <2>3. CASE u = t
    <3>1. tenant[t] \in TenantRows /\ link[<<t, h>>] \in Nat /\ Size[h] \in Nat
      BY <2>1, SizesAreNat DEF TypeOK
    <3>2. /\ tenant'[t].used_bytes = tenant[t].used_bytes + Size[h]
          /\ tenant'[t].used_objects = tenant[t].used_objects + 1
          /\ tenant'[t].max_bytes = tenant[t].max_bytes
          /\ tenant'[t].max_objects = tenant[t].max_objects
      BY <2>1, <3>1 DEF TenantRows, TypeOK
    <3>3. /\ tenant[t].max_bytes # None =>
               tenant[t].used_bytes + Size[h] <= tenant[t].max_bytes
          /\ tenant[t].max_objects # None =>
               tenant[t].used_objects + 1 <= tenant[t].max_objects
      BY <2>1, <3>1 DEF WithinQuota
    <3> QED
      BY <2>3, <3>2, <3>3 DEF Gate
  <2> QED
    BY <2>2, <2>3
<1> QED
  BY <1>2, <1>3

(* put_ref's second session releases a charge or leaves it alone: the link  *)
(* it counts is there, for the call in flight keeps it.                     *)
LEMMA BindGate ==
  ASSUME TypeOK, TypeOK', LinkCoversRefs, NEW w \in Writers, PutRefBind(w),
         NEW u \in Tenants
  PROVE  NotCharged(tenant, tenant', u)
<1> DEFINE t == putting[w].tenant
           p == putting[w].path
           h == putting[w].hash
           old == ref[<<t, p>>]
<1>1. t \in Tenants /\ p \in Paths /\ h \in Hashes
  BY DEF PutRefBind, TypeOK, PutCalls
<1>2. w \in PutsOf(t, h)
  BY DEF PutRefBind, PutsOf
<1>3. link[<<t, h>>] > 0
  <2>1. Cardinality(PutsOf(t, h)) # 0
    BY <1>1, <1>2, NeedsFinite, FS_EmptySet
  <2>2. /\ Cardinality(RefsOf(t, h)) \in Nat
        /\ Cardinality(PutsOf(t, h)) \in Nat
        /\ link[<<t, h>>] \in Nat
        /\ Cardinality(RefsOf(t, h)) + Cardinality(PutsOf(t, h))
             <= link[<<t, h>>]
    BY <1>1, NeedsFinite DEF LinkCoversRefs, TypeOK
  <2> HIDE DEF t, h
  <2> QED
    BY <2>1, <2>2
<1>4. \/ BindNew(t, p, h)
      \/ BindOther(t, p, h)
      \/ BindSame(t, p, h)
  BY DEF PutRefBind
<1>o. old = ref[<<t, p>>]
  OBVIOUS
<1> HIDE DEF t, p, h, old
<1>5. CASE BindNew(t, p, h) \/ BindSame(t, p, h)
  BY <1>5, SameNotCharged DEF BindNew, BindSame
<1>6. CASE BindOther(t, p, h)
  <2> DEFINE released == LinkDec(Accounts, t, old)
  <2>1. old \in Hashes /\ old # h
    BY <1>1, <1>6, <1>o DEF BindOther, StoredPath, TypeOK, Keys
  <2>2. released.link[<<t, h>>] = link[<<t, h>>]
    BY <1>1, <2>1, AccountsType, LinkDecValue DEF Accounts
  <2>3. LinkInc(released, t, h).tenant = released.tenant
    BY <1>3, <2>2 DEF LinkInc
  <2>4. \/ tenant' = LinkInc(released, t, h).tenant
        \/ tenant' = released.tenant
    BY <1>6, <1>o DEF BindOther, SetAccounts, StoredPath
  <2>5. NotCharged(Accounts.tenant, released.tenant, u)
    BY <1>1, <2>1, AccountsType, LinkDecNotCharged
  <2>6. Accounts.tenant = tenant
    BY DEF Accounts
  <2> HIDE DEF released
  <2> QED
    BY <2>3, <2>4, <2>5, <2>6
<1> QED
  BY <1>4, <1>5, <1>6

LEMMA GateStep ==
  ASSUME TypeOK, TypeOK', LinkCoversRefs, [Next]_vars, NEW u \in Tenants
  PROVE  Gate(tenant, tenant', u)
<1>1. CASE \E t \in Tenants, h \in Hashes : PutBlobOnly(t, h)
  BY <1>1, StoreGate DEF PutBlobOnly, PutBlob
<1>2. CASE \E t \in Tenants, h \in Hashes : PutBlobFails(t, h)
  BY <1>2, SameNotCharged, NotChargedPasses DEF PutBlobFails
<1>3. CASE \E w \in Writers, t \in Tenants, p \in Paths, h \in Hashes :
              PutRefStart(w, t, p, h)
  BY <1>3, StoreGate DEF PutRefStart, PutBlob
<1>4. CASE \E w \in Writers : PutRefBind(w)
  BY <1>4, BindGate, NotChargedPasses
<1>5. CASE \E w \in Writers : PutRefAbandon(w)
  BY <1>5, SameNotCharged, NotChargedPasses DEF PutRefAbandon
<1>6. CASE \E t \in Tenants, p \in Paths : DeleteRef(t, p)
  <2> PICK t \in Tenants, p \in Paths : DeleteRef(t, p)
    BY <1>6
  <2> DEFINE old == ref[<<t, p>>]
  <2>1. /\ old \in Hashes
        /\ tenant' = LinkDec(Accounts, t, old).tenant
    BY DEF DeleteRef, SetAccounts, StoredPath, TypeOK, Keys
  <2> HIDE DEF old
  <2>2. NotCharged(Accounts.tenant, LinkDec(Accounts, t, old).tenant, u)
    BY <2>1, AccountsType, LinkDecNotCharged
  <2>3. Accounts.tenant = tenant
    BY DEF Accounts
  <2> QED
    BY <2>1, <2>2, <2>3, NotChargedPasses
<1>7. CASE \E tok \in Tokens, t \in Tenants, p \in Paths, ttl \in Ttls :
              CreateShare(tok, t, p, ttl)
  BY <1>7, SameNotCharged, NotChargedPasses DEF CreateShare
<1>8. CASE \E tok \in Tokens : ShareExpires(tok)
  BY <1>8, SameNotCharged, NotChargedPasses DEF ShareExpires
<1>9. CASE \E scope \in GcScopes : \E deleted \in SUBSET Unreferenced(scope) :
              Gc(scope, deleted) \/ GcFails(scope, deleted)
  BY <1>9, SameNotCharged, NotChargedPasses DEF Gc, GcFails
<1>10. CASE \E t \in Tenants, mb \in ByteQuotas, mo \in ObjectQuotas :
              UpsertTenant(t, mb, mo)
  <2> PICK t \in Tenants, mb \in ByteQuotas, mo \in ObjectQuotas :
              UpsertTenant(t, mb, mo)
    BY <1>10
  <2> DEFINE row == IF tenant[t] = None THEN NewTenant ELSE tenant[t]
  <2>1. row \in TenantRows /\ (tenant[t] # None => row = tenant[t])
    BY DEF TypeOK, NewTenant, TenantRows
  <2>2. tenant' = [tenant EXCEPT ![t] = SetQuota(row, mb, mo)]
    BY DEF UpsertTenant
  <2> HIDE DEF row
  <2>3. /\ SetQuota(row, mb, mo).used_bytes = row.used_bytes
        /\ SetQuota(row, mb, mo).used_objects = row.used_objects
    BY <2>1, SetQuotaType
  <2>4. tenant'[u] = IF u = t THEN SetQuota(row, mb, mo) ELSE tenant[u]
    BY <2>2 DEF TypeOK
  <2>5. tenant[u] # None => tenant[u] \in TenantRows
    BY DEF TypeOK
  <2>6. NotCharged(tenant, tenant', u)
    BY <2>1, <2>3, <2>4, <2>5 DEF NotCharged, TenantRows
  <2> QED
    BY <2>6, NotChargedPasses
<1>11. CASE \E t \in Tenants : DeleteTenant(t)
  <2>1. tenant'[u] = None \/ tenant'[u] = tenant[u]
    BY <1>11 DEF DeleteTenant, TypeOK
  <2>2. tenant[u] # None => tenant[u] \in TenantRows
    BY DEF TypeOK
  <2>3. NotCharged(tenant, tenant', u)
    BY <2>1, <2>2 DEF NotCharged, TenantRows
  <2> QED
    BY <2>3, NotChargedPasses
<1>12. CASE UNCHANGED vars
  BY <1>12, SameNotCharged, NotChargedPasses DEF vars
<1>13. CASE \E h \in Hashes : Upload(h)
  BY <1>13, UploadEffect, StoreGate
<1> QED
  BY <1>1, <1>2, <1>3, <1>4, <1>5, <1>6, <1>7, <1>8, <1>9, <1>10, <1>11, <1>12,
     <1>13, NextCases

(* Usage only grows to what the quota in force allows, although one of the  *)
(* two sessions of put_ref that charge does not ask _enforce_quota.         *)
THEOREM QuotaGateCorrect == Spec => QuotaGate
<1>1. TypeOK /\ TypeOK' /\ LinkCoversRefs /\ [Next]_vars =>
        \A u \in Tenants : Gate(tenant, tenant', u)
  BY GateStep
<1>2. (\A u \in Tenants : Gate(tenant, tenant', u)) =>
        [\A t \in Tenants : tenant[t] # None /\ tenant'[t] # None =>
           LET was == tenant[t]
               now == tenant'[t]
           IN  /\ now.used_bytes > was.used_bytes =>
                    now.max_bytes = None \/ now.used_bytes <= now.max_bytes
               /\ now.used_objects > was.used_objects =>
                    now.max_objects = None \/ now.used_objects <= now.max_objects
        ]_vars
  BY DEF Gate
<1> QED
  BY <1>1, <1>2, TypeCorrect, LinkCoversRefsCorrect, PTL DEF Spec, QuotaGate

(* ------------------------------------------------------------------------ *)
(* Shares                                                                   *)
(* ------------------------------------------------------------------------ *)

(* delete_ref leaves no token behind that could open the path's next life.  *)
ShareHasRef ==
  \A tok \in Tokens : share[tok] # None => ref[share[tok].ref_path] # None

(* What the view of shares as grants rests on: a token goes with its path.  *)
THEOREM ShareHasRefCorrect == Spec => []ShareHasRef
<1>1. Init => ShareHasRef
  BY DEF Init, ShareHasRef
<1>2. ASSUME TypeOK, ShareHasRef, [Next]_vars
      PROVE  ShareHasRef'
  <2>u. UNCHANGED <<ref, share>> => ShareHasRef'
    BY <1>2 DEF ShareHasRef
  <2>1. CASE \E t \in Tenants, h \in Hashes : PutBlobOnly(t, h)
    BY <2>1, <2>u DEF PutBlobOnly
  <2>2. CASE \E t \in Tenants, h \in Hashes : PutBlobFails(t, h)
    BY <2>2, <2>u DEF PutBlobFails
  <2>3. CASE \E w \in Writers, t \in Tenants, p \in Paths, h \in Hashes :
                PutRefStart(w, t, p, h)
    BY <2>3, <2>u DEF PutRefStart
  <2>4. CASE \E w \in Writers : PutRefBind(w)
    <3>1. /\ share' = share
          /\ \A k \in Keys : ref[k] # None => ref'[k] # None
      BY <1>2, <2>4, NoneIsNothing
      DEF PutRefBind, BindNew, BindOther, BindSame, TypeOK, PutCalls
    <3>2. \A tok \in Tokens : share[tok] # None => share[tok].ref_path \in Keys
      BY <1>2 DEF TypeOK, ShareRows
    <3> QED
      BY <1>2, <3>1, <3>2 DEF ShareHasRef
  <2>5. CASE \E w \in Writers : PutRefAbandon(w)
    BY <2>5, <2>u DEF PutRefAbandon
  <2>6. CASE \E t \in Tenants, p \in Paths : DeleteRef(t, p)
    <3> PICK t \in Tenants, p \in Paths : DeleteRef(t, p)
      BY <2>6
    <3> DEFINE k == StoredPath(t, p)
    <3>1. /\ ref' = [ref EXCEPT ![k] = None]
          /\ share' = [tok \in Tokens |->
                         IF share[tok] # None /\ share[tok].ref_path = k
                         THEN None ELSE share[tok]]
      BY DEF DeleteRef
    <3> HIDE DEF k
    <3>2. \A tok \in Tokens : share'[tok] # None =>
             share'[tok] = share[tok] /\ share[tok].ref_path # k
      BY <3>1
    <3>3. \A tok \in Tokens : share[tok] # None => share[tok].ref_path \in Keys
      BY <1>2 DEF TypeOK, ShareRows
    <3> QED
      BY <1>2, <3>1, <3>2, <3>3 DEF ShareHasRef, TypeOK
  <2>7. CASE \E tok \in Tokens, t \in Tenants, p \in Paths, ttl \in Ttls :
                CreateShare(tok, t, p, ttl)
    BY <1>2, <2>7 DEF CreateShare, ShareHasRef, TypeOK
  <2>8. CASE \E tok \in Tokens : ShareExpires(tok)
    BY <1>2, <2>8 DEF ShareExpires, ShareHasRef, TypeOK, ShareRows
  <2>9. CASE \E scope \in GcScopes : \E deleted \in SUBSET Unreferenced(scope) :
                Gc(scope, deleted) \/ GcFails(scope, deleted)
    BY <2>9, <2>u DEF Gc, GcFails
  <2>10. CASE \E t \in Tenants, mb \in ByteQuotas, mo \in ObjectQuotas :
                UpsertTenant(t, mb, mo)
    BY <2>10, <2>u DEF UpsertTenant
  <2>11. CASE \E t \in Tenants : DeleteTenant(t)
    BY <2>11, <2>u DEF DeleteTenant
  <2>12. CASE UNCHANGED vars
    BY <2>12, <2>u DEF vars
  <2>13. CASE \E h \in Hashes : Upload(h)
    <3>1. /\ share' = share
          /\ \A k \in Keys : ref[k] # None => ref'[k] # None
      <4> PICK h \in Hashes : Upload(h)
        BY <2>13
      <4>1. /\ share' = share
            /\ \/ ref' = ref
               \/ \E k \in Keys : ref' = [ref EXCEPT ![k] = h]
        BY <1>2, UploadEffect DEF Rebinds, Keys
      <4>2. h # None
        BY NoneIsNothing
      <4> QED
        BY <1>2, <4>1, <4>2 DEF TypeOK
    <3>2. \A tok \in Tokens : share[tok] # None => share[tok].ref_path \in Keys
      BY <1>2 DEF TypeOK, ShareRows
    <3> QED
      BY <1>2, <3>1, <3>2 DEF ShareHasRef
  <2> QED
    BY <1>2, <2>1, <2>2, <2>3, <2>4, <2>5, <2>6, <2>7, <2>8, <2>9, <2>10,
       <2>11, <2>12, <2>13, NextCases
<1> QED
  BY <1>1, <1>2, TypeCorrect, PTL DEF Spec

(* ------------------------------------------------------------------------ *)
(* Sums of sizes                                                            *)
(* ------------------------------------------------------------------------ *)

(* Induction: a family of finite sets has a minimal member, and a set of    *)
(* natural numbers a least one.                                             *)
LEMMA MinimalSubset ==
  ASSUME NEW S, IsFiniteSet(S), NEW T, T \subseteq SUBSET S, T # {}
  PROVE  \E m \in T : \A U \in T : U \subseteq m => U = m
<1>1. IsWellFoundedOn(StrictSubsetOrdering(S), SUBSET S)
  BY FS_StrictSubsetOrderingWellFounded, FS_FiniteSubsetsOfFinite
<1>2. \E m \in T : \A U \in T : <<U, m>> \notin StrictSubsetOrdering(S)
  BY <1>1, WFMin
<1> QED
  BY <1>2 DEF StrictSubsetOrdering

(* A set of natural numbers has a least one.                                *)
LEMMA LeastNumber ==
  ASSUME NEW T, T \subseteq Nat, T # {}
  PROVE  \E n \in T : \A m \in T : n <= m
<1>1. PICK n \in T : \A m \in T : <<m, n>> \notin OpToRel(<, Nat)
  BY NatLessThanWellFounded, WFMin
<1>2. \A m \in T : <<m, n>> \in OpToRel(<, Nat) <=> m < n
  BY DEF OpToRel
<1>3. \A m \in T : ~(m < n) /\ m \in Nat /\ n \in Nat
  BY <1>1, <1>2
<1> QED
  BY <1>3

(* What MapThenSumSet computes: take one content after the other out of a   *)
(* set, in the order CHOOSE says.                                           *)
Bytes(S) == MapThenSumSet(LAMBDA h : Size[h], S)
Pick(S)  == CHOOSE h \in S : TRUE
SumBy(f, S) == IF S = {} THEN 0 ELSE Size[Pick(S)] + f[S \ {Pick(S)}]
Sums(f, D)  == f = [S \in D |-> SumBy(f, S)]

LEMMA BytesIsSum ==
  ASSUME NEW S
  PROVE  Bytes(S) = (CHOOSE f : Sums(f, SUBSET S))[S]
  BY DEF Bytes, Sums, SumBy, Pick, MapThenSumSet, MapThenFoldSet

LEMMA PickIn == ASSUME NEW S, S # {} PROVE Pick(S) \in S
  BY DEF Pick

Small(n) == {S \in SUBSET Hashes : Cardinality(S) <= n}

LEMMA SmallLess ==
  ASSUME NEW n \in Nat, NEW S \in Small(n), S # {}
  PROVE  n > 0 /\ S \ {Pick(S)} \in Small(n - 1)
<1>1. IsFiniteSet(S) /\ Pick(S) \in S
  BY FiniteWorld, FS_Subset, PickIn DEF Small
<1>2. Cardinality(S \ {Pick(S)}) = Cardinality(S) - 1
  BY <1>1, FS_RemoveElement
<1>3. Cardinality(S) \in Nat /\ Cardinality(S) # 0 /\ Cardinality(S) <= n
  BY <1>1, FS_CardinalityType, FS_EmptySet DEF Small
<1> QED
  BY <1>2, <1>3 DEF Small

(* For the sets of at most n contents some function computes the sums: it   *)
(* is made of the one for n - 1, and there is no least n without one.       *)
LEMMA SmallSums == \A n \in Nat : \E f : Sums(f, Small(n))
<1> DEFINE Bad == {n \in Nat : ~ \E f : Sums(f, Small(n))}
<1> SUFFICES ASSUME Bad # {} PROVE FALSE
  OBVIOUS
<1>1. PICK n \in Bad : \A m \in Bad : n <= m
  BY LeastNumber
<1>2. CASE n = 0
  <2>1. ASSUME NEW S \in Small(0) PROVE S = {}
    BY SmallLess, 0 \in Nat, ~(0 > 0)
  <2>2. Sums([S \in Small(0) |-> 0], Small(0))
    BY <2>1 DEF Sums, SumBy
  <2> QED
    BY <1>2, <2>2
<1>3. CASE n # 0
  <2>1. n - 1 \in Nat /\ n - 1 \notin Bad
    BY <1>1, <1>3
  <2>2. PICK f : Sums(f, Small(n - 1))
    BY <2>1
  <2> DEFINE g == [S \in Small(n) |-> SumBy(f, S)]
  <2>3. ASSUME NEW S \in Small(n), S # {}
        PROVE  g[S \ {Pick(S)}] = f[S \ {Pick(S)}]
    <3>1. S \ {Pick(S)} \in Small(n - 1)
      BY <2>3, SmallLess, <1>1
    <3>2. S \ {Pick(S)} \in Small(n)
      BY <2>3, <1>1, FiniteWorld, FS_Subset, FS_CardinalityType, <3>1 DEF Small
    <3>3. f[S \ {Pick(S)}] = SumBy(f, S \ {Pick(S)})
      BY <2>2, <3>1 DEF Sums
    <3> QED
      BY <3>2, <3>3
  <2> HIDE DEF g
  <2>4. \A S \in Small(n) : SumBy(g, S) = SumBy(f, S)
    BY <2>3 DEF SumBy
  <2>5. Sums(g, Small(n))
    BY <2>4 DEF Sums, g
  <2> QED
    BY <2>5, <1>1
<1> QED
  BY <1>2, <1>3

(* ... and so for all, for there are finitely many contents.                *)
LEMMA AllSums == \E f : Sums(f, SUBSET Hashes)
<1>1. Small(Cardinality(Hashes)) = SUBSET Hashes
  BY FiniteWorld, FS_Subset DEF Small
<1>2. PICK n \in Nat : n = Cardinality(Hashes)
  BY FiniteWorld, FS_CardinalityType
<1> QED
  BY <1>1, <1>2, SmallSums

(* Every set has the sum that one function gives it.                        *)
LEMMA BytesBy ==
  ASSUME NEW f, Sums(f, SUBSET Hashes), NEW S \in SUBSET Hashes
  PROVE  Bytes(S) = f[S]
<1> DEFINE it == CHOOSE g : Sums(g, SUBSET S)
<1>1. \A T \in SUBSET S : SumBy([U \in SUBSET S |-> f[U]], T) = SumBy(f, T)
  BY DEF SumBy
<1>2. Sums([U \in SUBSET S |-> f[U]], SUBSET S)
  BY <1>1 DEF Sums
<1>3. Sums(it, SUBSET S)
  BY <1>2
<1> DEFINE Bad == {T \in SUBSET S : it[T] # f[T]}
<1>4. ASSUME Bad # {} PROVE FALSE
  <2>1. IsFiniteSet(S) /\ Bad \subseteq SUBSET S
    BY FiniteWorld, FS_Subset
  <2> HIDE DEF Bad
  <2>2. PICK m \in Bad : \A U \in Bad : U \subseteq m => U = m
    BY <1>4, <2>1, MinimalSubset
  <2> USE DEF Bad
  <2>3. it[m] = SumBy(it, m) /\ f[m] = SumBy(f, m)
    BY <1>3 DEF Sums
  <2>4. m # {}
    BY <2>2, <2>3 DEF SumBy
  <2>5. it[m \ {Pick(m)}] = f[m \ {Pick(m)}]
    BY <2>2, <2>4, PickIn, ZenonT(40)
  <2> QED
    BY <2>2, <2>3, <2>5 DEF SumBy
<1> QED
  BY <1>4, BytesIsSum

(* MapThenSumSet adds the picked content to the sum of the rest.            *)
LEMMA BytesStep ==
  ASSUME NEW S \in SUBSET Hashes
  PROVE  Bytes(S) = IF S = {} THEN 0 ELSE Size[Pick(S)] + Bytes(S \ {Pick(S)})
<1>1. PICK f : Sums(f, SUBSET Hashes)
  BY AllSums
<1>2. f[S] = SumBy(f, S)
  BY <1>1 DEF Sums
<1>3. Bytes(S) = f[S] /\ Bytes(S \ {Pick(S)}) = f[S \ {Pick(S)}]
  BY <1>1, BytesBy
<1> QED
  BY <1>2, <1>3 DEF SumBy

LEMMA BytesEmpty == Bytes({}) = 0
  BY BytesStep

(* The sum does not depend on the order.                                    *)
LEMMA BytesType == \A S \in SUBSET Hashes : Bytes(S) \in Nat
<1> DEFINE Bad == {S \in SUBSET Hashes : Bytes(S) \notin Nat}
<1> SUFFICES ASSUME Bad # {} PROVE FALSE
  OBVIOUS
<1>0. Bad \subseteq SUBSET Hashes
  OBVIOUS
<1> HIDE DEF Bad
<1>1. PICK m \in Bad : \A U \in Bad : U \subseteq m => U = m
  BY <1>0, MinimalSubset, FiniteWorld
<1> USE DEF Bad
<1>2. m # {}
  <2>1. Bytes(m) \notin Nat
    BY <1>1
  <2>2. ASSUME m = {} PROVE Bytes(m) = 0
    BY <2>2, BytesEmpty
  <2> QED
    BY <2>1, <2>2
<1>3. Pick(m) \in m /\ m \ {Pick(m)} \notin Bad
  BY <1>1, <1>2, PickIn
<1> QED
  BY <1>1, <1>2, <1>3, BytesStep, SizesAreNat

(* It need not be the picked one: taking any content away takes its size.   *)
LEMMA BytesRemove ==
  \A S \in SUBSET Hashes : \A h \in S : Bytes(S) = Bytes(S \ {h}) + Size[h]
<1> DEFINE Bad == {S \in SUBSET Hashes :
                     \E h \in S : Bytes(S) # Bytes(S \ {h}) + Size[h]}
<1> SUFFICES ASSUME Bad # {} PROVE FALSE
  OBVIOUS
<1>0. Bad \subseteq SUBSET Hashes
  OBVIOUS
<1> HIDE DEF Bad
<1>1. PICK m \in Bad : \A U \in Bad : U \subseteq m => U = m
  BY <1>0, MinimalSubset, FiniteWorld
<1> USE DEF Bad
<1>2. PICK h \in m : Bytes(m) # Bytes(m \ {h}) + Size[h]
  BY <1>1
<1>3. Pick(m) \in m /\ Bytes(m) = Size[Pick(m)] + Bytes(m \ {Pick(m)})
  BY <1>1, <1>2, PickIn, BytesStep
<1> DEFINE x == Pick(m)
<1>4. Size[x] \in Nat /\ Size[h] \in Nat
  BY SizesAreNat, <1>1, <1>2, <1>3
<1>5. /\ Bytes(m) \in Nat /\ Bytes(m \ {x}) \in Nat /\ Bytes(m \ {h}) \in Nat
      /\ Bytes((m \ {x}) \ {h}) \in Nat
  BY BytesType, <1>1
<1>6. h # x
  BY <1>2, <1>3, <1>4, <1>5
<1>11. \A y \in m : m \ {y} \notin Bad /\ m \ {y} \in SUBSET Hashes
  BY <1>0, <1>1
<1>7. Bytes(m \ {x}) = Bytes((m \ {x}) \ {h}) + Size[h]
  BY <1>2, <1>3, <1>6, <1>11
<1>8. Bytes(m \ {h}) = Bytes((m \ {h}) \ {x}) + Size[x]
  BY <1>2, <1>3, <1>6, <1>11
<1>9. (m \ {h}) \ {x} = (m \ {x}) \ {h}
  OBVIOUS
<1> QED
  BY <1>2, <1>3, <1>4, <1>5, <1>7, <1>8, <1>9

LEMMA BytesAdd ==
  ASSUME NEW S \in SUBSET Hashes, NEW h \in Hashes, h \notin S
  PROVE  Bytes(S \cup {h}) = Bytes(S) + Size[h]
<1>1. (S \cup {h}) \ {h} = S
  OBVIOUS
<1> QED
  BY <1>1, BytesRemove

(* Sizes are not negative, so a subset sums to no more.                     *)
LEMMA BytesMonotone ==
  ASSUME NEW S \in SUBSET Hashes
  PROVE  \A T \in SUBSET S : Bytes(T) <= Bytes(S)
<1> DEFINE Bad == {U \in SUBSET S : \E T \in SUBSET U : ~(Bytes(T) <= Bytes(U))}
<1>1. ASSUME Bad # {} PROVE FALSE
  <2>0. IsFiniteSet(S) /\ Bad \subseteq SUBSET S
    BY FiniteWorld, FS_Subset
  <2> HIDE DEF Bad
  <2>1. PICK m \in Bad : \A U \in Bad : U \subseteq m => U = m
    BY <1>1, <2>0, MinimalSubset
  <2> USE DEF Bad
  <2>2. PICK T \in SUBSET m : ~(Bytes(T) <= Bytes(m))
    BY <2>1
  <2>3. Bytes(m) \in Nat /\ Bytes(T) \in Nat
    BY <2>1, BytesType
  <2>4. PICK h \in m : h \notin T
    BY <2>2, <2>3
  <2>5. Bytes(T) <= Bytes(m \ {h})
    BY <2>1, <2>4
  <2>6. Bytes(m) = Bytes(m \ {h}) + Size[h] /\ Size[h] \in Nat
    BY <2>1, <2>4, BytesRemove, SizesAreNat
  <2>7. Bytes(m \ {h}) \in Nat
    BY <2>1, BytesType
  <2> QED
    BY <2>2, <2>3, <2>5, <2>6, <2>7
<1> QED
  BY <1>1, BytesType

(* ------------------------------------------------------------------------ *)
(* Usage                                                                    *)
(* ------------------------------------------------------------------------ *)

(* The contents tenant t has links to, and how its charge relates to them   *)
Linked(acc, t) == {h \in Hashes : acc.link[<<t, h>>] > 0}

NeverOver(acc, t) == acc.tenant[t] # None =>
  /\ acc.tenant[t].used_objects <= Cardinality(Linked(acc, t))
  /\ acc.tenant[t].used_bytes <= Bytes(Linked(acc, t))

Exact(acc, t) == acc.tenant[t] # None =>
  /\ acc.tenant[t].used_objects = Cardinality(Linked(acc, t))
  /\ acc.tenant[t].used_bytes = Bytes(Linked(acc, t))

LEMMA LinkedType ==
  ASSUME NEW acc, NEW t
  PROVE  /\ Linked(acc, t) \in SUBSET Hashes
         /\ IsFiniteSet(Linked(acc, t))
         /\ Cardinality(Linked(acc, t)) \in Nat
         /\ Bytes(Linked(acc, t)) \in Nat
<1>1. Linked(acc, t) \in SUBSET Hashes
  BY DEF Linked
<1> QED
  BY <1>1, FiniteWorld, FS_Subset, FS_CardinalityType, BytesType

(* _link_inc charges for a content exactly when it makes its first link.    *)
LEMMA LinkIncCharge ==
  ASSUME NEW acc \in AccountTables, NEW t \in Tenants, NEW h \in Hashes,
         NEW u \in Tenants
  PROVE  LET now == LinkInc(acc, t, h) IN
         /\ now.tenant[u] = None <=> acc.tenant[u] = None
         /\ u = t /\ h \notin Linked(acc, u) =>
              /\ Linked(now, u) = Linked(acc, u) \cup {h}
              /\ acc.tenant[u] # None =>
                   /\ now.tenant[u].used_objects = acc.tenant[u].used_objects + 1
                   /\ now.tenant[u].used_bytes = acc.tenant[u].used_bytes + Size[h]
         /\ ~(u = t /\ h \notin Linked(acc, u)) =>
              Linked(now, u) = Linked(acc, u) /\ now.tenant[u] = acc.tenant[u]
<1> DEFINE now == LinkInc(acc, t, h)
<1>1. \A g \in Hashes : /\ acc.link[<<u, g>>] \in Nat
                        /\ now.link[<<u, g>>] =
                             IF u = t /\ g = h THEN acc.link[<<u, g>>] + 1
                                               ELSE acc.link[<<u, g>>]
  <2>1. ASSUME NEW g \in Hashes PROVE acc.link[<<u, g>>] \in Nat
    BY DEF AccountTables
  <2>2. ASSUME NEW g \in Hashes
        PROVE  now.link[<<u, g>>] = IF u = t /\ g = h
                                    THEN acc.link[<<u, g>>] + 1
                                    ELSE acc.link[<<u, g>>]
    BY LinkIncValue
  <2> QED
    BY <2>1, <2>2
<1>2. acc.link[<<t, h>>] > 0 <=> h \in Linked(acc, t)
  BY DEF Linked
<1>3. now.tenant = IF acc.link[<<t, h>>] > 0 \/ acc.tenant[t] = None
                   THEN acc.tenant
                   ELSE [acc.tenant EXCEPT ![t].used_bytes = @ + Size[h],
                                           ![t].used_objects = @ + 1]
  BY DEF LinkInc
<1>4. now \in AccountTables
  BY LinkIncType
<1> HIDE DEF now
<1>5. CASE u = t /\ h \notin Linked(acc, u)
  <2>1. Linked(now, u) = Linked(acc, u) \cup {h}
    BY <1>1, <1>5 DEF Linked
  <2>2. CASE acc.tenant[t] = None
    BY <1>3, <1>5, <2>1, <2>2 DEF now
  <2>3. CASE acc.tenant[t] # None
    <3>1. /\ acc.tenant[t] \in TenantRows
          /\ acc.tenant \in [Tenants -> TenantRows \cup {None}]
      BY <2>3 DEF AccountTables
    <3>2. /\ now.tenant[t] =
               [acc.tenant[t] EXCEPT !.used_bytes = @ + Size[h],
                                     !.used_objects = @ + 1]
      BY <1>2, <1>3, <1>5, <2>3, <3>1
    <3>3. PICK b \in Nat, n \in Nat :
             /\ b = acc.tenant[t].used_bytes + Size[h]
             /\ n = acc.tenant[t].used_objects + 1
      BY <3>1, SizesAreNat DEF TenantRows
    <3>4. /\ now.tenant[t] # None
          /\ now.tenant[t].used_bytes = acc.tenant[t].used_bytes + Size[h]
          /\ now.tenant[t].used_objects = acc.tenant[t].used_objects + 1
      <4>1. now.tenant[t] = [acc.tenant[t] EXCEPT !.used_bytes = b,
                                                  !.used_objects = n]
        BY <3>2, <3>3
      <4>2. acc.tenant[t] \in TenantRows
        BY <3>1
      <4>3. /\ now.tenant[t] # None
            /\ now.tenant[t].used_bytes = b
            /\ now.tenant[t].used_objects = n
        <5>1. /\ now.tenant[t] \in TenantRows
              /\ now.tenant[t].used_bytes = b
              /\ now.tenant[t].used_objects = n
          BY <4>1, <4>2 DEF TenantRows
        <5> QED
          BY <5>1, NoneIsNothing
      <4> QED
        BY <3>3, <4>3
    <3> QED
      BY <1>5, <2>1, <2>3, <3>4 DEF now
  <2> QED
    BY <2>2, <2>3
<1>6. CASE ~(u = t /\ h \notin Linked(acc, u))
  <2>1. Linked(now, u) = Linked(acc, u)
    BY <1>1, <1>6 DEF Linked
  <2>2. now.tenant[u] = acc.tenant[u]
    BY <1>2, <1>3, <1>6 DEF AccountTables
  <2> QED
    BY <1>6, <2>1, <2>2 DEF now
<1> QED
  BY <1>5, <1>6

(* _link_dec releases the charge exactly when it ends the last link.        *)
LEMMA LinkDecCharge ==
  ASSUME NEW acc \in AccountTables, NEW t \in Tenants, NEW h \in Hashes,
         NEW u \in Tenants
  PROVE  LET now == LinkDec(acc, t, h)
             last == u = t /\ acc.link[<<t, h>>] = 1
         IN
         /\ now.tenant[u] = None <=> acc.tenant[u] = None
         /\ last =>
              /\ h \in Linked(acc, u)
              /\ Linked(now, u) = Linked(acc, u) \ {h}
              /\ acc.tenant[u] # None =>
                   /\ now.tenant[u].used_objects =
                        AtLeast0(acc.tenant[u].used_objects - 1)
                   /\ now.tenant[u].used_bytes =
                        AtLeast0(acc.tenant[u].used_bytes - Size[h])
         /\ ~last =>
              Linked(now, u) = Linked(acc, u) /\ now.tenant[u] = acc.tenant[u]
<1> DEFINE now == LinkDec(acc, t, h)
           last == u = t /\ acc.link[<<t, h>>] = 1
<1>1. \A g \in Hashes : /\ acc.link[<<u, g>>] \in Nat
                        /\ now.link[<<u, g>>] =
                             IF u = t /\ g = h
                             THEN AtLeast0(acc.link[<<u, g>>] - 1)
                             ELSE acc.link[<<u, g>>]
  BY LinkDecValue DEF AccountTables
<1>2. acc.link[<<t, h>>] \in Nat
  BY DEF AccountTables
<1>3. now.tenant = IF acc.link[<<t, h>>] # 1 \/ acc.tenant[t] = None
                   THEN acc.tenant
                   ELSE [acc.tenant EXCEPT
                           ![t].used_bytes = AtLeast0(@ - Size[h]),
                           ![t].used_objects = AtLeast0(@ - 1)]
  BY <1>2 DEF LinkDec
<1> HIDE DEF now
<1>5. CASE last
  <2>1. Linked(now, u) = Linked(acc, u) \ {h} /\ h \in Linked(acc, u)
    BY <1>1, <1>5 DEF Linked, AtLeast0
  <2>2. CASE acc.tenant[t] = None
    BY <1>3, <1>5, <2>1, <2>2 DEF now
  <2>3. CASE acc.tenant[t] # None
    <3>1. /\ acc.tenant[t] \in TenantRows
          /\ acc.tenant \in [Tenants -> TenantRows \cup {None}]
      BY <2>3 DEF AccountTables
    <3>2. now.tenant[t] =
            [acc.tenant[t] EXCEPT !.used_bytes = AtLeast0(@ - Size[h]),
                                  !.used_objects = AtLeast0(@ - 1)]
      BY <1>3, <1>5, <2>3, <3>1
    <3>3. PICK b \in Nat, n \in Nat :
             /\ b = AtLeast0(acc.tenant[t].used_bytes - Size[h])
             /\ n = AtLeast0(acc.tenant[t].used_objects - 1)
      BY <3>1, SizesAreNat DEF TenantRows, AtLeast0
    <3>4. /\ now.tenant[t] # None
          /\ now.tenant[t].used_bytes =
               AtLeast0(acc.tenant[t].used_bytes - Size[h])
          /\ now.tenant[t].used_objects =
               AtLeast0(acc.tenant[t].used_objects - 1)
      <4>1. now.tenant[t] = [acc.tenant[t] EXCEPT !.used_bytes = b,
                                                  !.used_objects = n]
        BY <3>2, <3>3
      <4>2. acc.tenant[t] \in TenantRows
        BY <3>1
      <4>3. /\ now.tenant[t] # None
            /\ now.tenant[t].used_bytes = b
            /\ now.tenant[t].used_objects = n
        <5>1. /\ now.tenant[t] \in TenantRows
              /\ now.tenant[t].used_bytes = b
              /\ now.tenant[t].used_objects = n
          BY <4>1, <4>2 DEF TenantRows
        <5> QED
          BY <5>1, NoneIsNothing
      <4> QED
        BY <3>3, <4>3
    <3> QED
      BY <1>5, <2>1, <2>3, <3>4 DEF now
  <2> QED
    BY <2>2, <2>3
<1>6. CASE ~last
  <2>1. Linked(now, u) = Linked(acc, u)
    BY <1>1, <1>6 DEF Linked, AtLeast0
  <2>2. now.tenant[u] = acc.tenant[u]
    BY <1>3, <1>6 DEF AccountTables
  <2> QED
    BY <1>6, <2>1, <2>2 DEF now
<1> QED
  BY <1>5, <1>6

(* A link more keeps a tenant charged at most, and exactly, for its links.  *)
LEMMA IncKeepsUsage ==
  ASSUME NEW acc \in AccountTables, NEW t \in Tenants, NEW h \in Hashes,
         NEW u \in Tenants
  PROVE  /\ NeverOver(acc, u) => NeverOver(LinkInc(acc, t, h), u)
         /\ Exact(acc, u) => Exact(LinkInc(acc, t, h), u)
<1> PICK now : now = LinkInc(acc, t, h)
  OBVIOUS
<1>1. /\ now.tenant[u] = None <=> acc.tenant[u] = None
      /\ u = t /\ h \notin Linked(acc, u) =>
           /\ Linked(now, u) = Linked(acc, u) \cup {h}
           /\ acc.tenant[u] # None =>
                /\ now.tenant[u].used_objects = acc.tenant[u].used_objects + 1
                /\ now.tenant[u].used_bytes = acc.tenant[u].used_bytes + Size[h]
      /\ ~(u = t /\ h \notin Linked(acc, u)) =>
           Linked(now, u) = Linked(acc, u) /\ now.tenant[u] = acc.tenant[u]
  BY LinkIncCharge
<1> SUFFICES /\ NeverOver(acc, u) => NeverOver(now, u)
             /\ Exact(acc, u) => Exact(now, u)
  OBVIOUS
<1>2. h \notin Linked(acc, u) =>
         /\ Bytes(Linked(acc, u) \cup {h}) = Bytes(Linked(acc, u)) + Size[h]
         /\ Cardinality(Linked(acc, u) \cup {h}) = Cardinality(Linked(acc, u)) + 1
  BY LinkedType, BytesAdd, FS_AddElement
<1>3. /\ Size[h] \in Nat
      /\ Cardinality(Linked(acc, u)) \in Nat /\ Bytes(Linked(acc, u)) \in Nat
      /\ acc.tenant[u] # None => /\ acc.tenant[u].used_objects \in Nat
                                 /\ acc.tenant[u].used_bytes \in Nat
  BY SizesAreNat, LinkedType DEF AccountTables, TenantRows
<1>4. CASE u = t /\ h \notin Linked(acc, u)
  <2>1. CASE acc.tenant[u] = None
    BY <1>1, <2>1 DEF NeverOver, Exact
  <2>2. CASE acc.tenant[u] # None
    <3>1. /\ now.tenant[u].used_objects = acc.tenant[u].used_objects + 1
          /\ now.tenant[u].used_bytes = acc.tenant[u].used_bytes + Size[h]
      BY <1>1, <1>4, <2>2
    <3>2. /\ Cardinality(Linked(now, u)) = Cardinality(Linked(acc, u)) + 1
          /\ Bytes(Linked(now, u)) = Bytes(Linked(acc, u)) + Size[h]
      BY <1>1, <1>2, <1>4
    <3> QED
      BY <1>3, <2>2, <3>1, <3>2 DEF NeverOver, Exact
  <2> QED
    BY <2>1, <2>2
<1>5. CASE ~(u = t /\ h \notin Linked(acc, u))
  BY <1>1, <1>5 DEF NeverOver, Exact
<1> QED
  BY <1>4, <1>5

(* The same of releasing a link.                                            *)
LEMMA DecKeepsUsage ==
  ASSUME NEW acc \in AccountTables, NEW t \in Tenants, NEW h \in Hashes,
         NEW u \in Tenants
  PROVE  /\ NeverOver(acc, u) => NeverOver(LinkDec(acc, t, h), u)
         /\ Exact(acc, u) => Exact(LinkDec(acc, t, h), u)
<1> PICK now : now = LinkDec(acc, t, h)
  OBVIOUS
<1>1. /\ now.tenant[u] = None <=> acc.tenant[u] = None
      /\ u = t /\ acc.link[<<t, h>>] = 1 =>
           /\ h \in Linked(acc, u)
           /\ Linked(now, u) = Linked(acc, u) \ {h}
           /\ acc.tenant[u] # None =>
                /\ now.tenant[u].used_objects =
                     AtLeast0(acc.tenant[u].used_objects - 1)
                /\ now.tenant[u].used_bytes =
                     AtLeast0(acc.tenant[u].used_bytes - Size[h])
      /\ ~(u = t /\ acc.link[<<t, h>>] = 1) =>
           Linked(now, u) = Linked(acc, u) /\ now.tenant[u] = acc.tenant[u]
  BY LinkDecCharge
<1> SUFFICES /\ NeverOver(acc, u) => NeverOver(now, u)
             /\ Exact(acc, u) => Exact(now, u)
  OBVIOUS
<1>2. h \in Linked(acc, u) =>
         /\ Bytes(Linked(acc, u)) = Bytes(Linked(acc, u) \ {h}) + Size[h]
         /\ Cardinality(Linked(acc, u) \ {h}) = Cardinality(Linked(acc, u)) - 1
         /\ Bytes(Linked(acc, u) \ {h}) \in Nat
         /\ Cardinality(Linked(acc, u) \ {h}) \in Nat
  BY LinkedType, BytesRemove, BytesType, FS_RemoveElement, FS_CardinalityType
<1>3. /\ Size[h] \in Nat
      /\ Cardinality(Linked(acc, u)) \in Nat /\ Bytes(Linked(acc, u)) \in Nat
      /\ acc.tenant[u] # None => /\ acc.tenant[u].used_objects \in Nat
                                 /\ acc.tenant[u].used_bytes \in Nat
  BY SizesAreNat, LinkedType DEF AccountTables, TenantRows
<1>4. CASE u = t /\ acc.link[<<t, h>>] = 1
  <2>1. CASE acc.tenant[u] = None
    BY <1>1, <2>1 DEF NeverOver, Exact
  <2>2. CASE acc.tenant[u] # None
    <3>1. /\ now.tenant[u].used_objects =
               AtLeast0(acc.tenant[u].used_objects - 1)
          /\ now.tenant[u].used_bytes =
               AtLeast0(acc.tenant[u].used_bytes - Size[h])
      BY <1>1, <1>4, <2>2
    <3>2. /\ Cardinality(Linked(now, u)) = Cardinality(Linked(acc, u)) - 1
          /\ Bytes(Linked(acc, u)) = Bytes(Linked(now, u)) + Size[h]
          /\ Cardinality(Linked(now, u)) \in Nat /\ Bytes(Linked(now, u)) \in Nat
      BY <1>1, <1>2, <1>4
    <3> QED
      BY <1>3, <2>2, <3>1, <3>2 DEF NeverOver, Exact, AtLeast0
  <2> QED
    BY <2>1, <2>2
<1>5. CASE ~(u = t /\ acc.link[<<t, h>>] = 1)
  BY <1>1, <1>5 DEF NeverOver, Exact
<1> QED
  BY <1>4, <1>5

(* What every session but the administrator's does to links and charges     *)
CallStep == ClientNext \/ UploadNext \/ GcNext \/ UNCHANGED vars

(* What each step of a call does to the accounts of a tenant                *)
LEMMA AccountCases ==
  ASSUME TypeOK, CallStep
  PROVE  \/ UNCHANGED <<link, tenant>>
         \/ \E t \in Tenants, h \in Hashes : SetAccounts(LinkInc(Accounts, t, h))
         \/ \E t \in Tenants, h \in Hashes : SetAccounts(LinkDec(Accounts, t, h))
         \/ \E t \in Tenants, h \in Hashes, g \in Hashes :
               SetAccounts(LinkInc(LinkDec(Accounts, t, g), t, h))
<1>1. CASE \E t \in Tenants, h \in Hashes : PutBlobOnly(t, h)
  BY <1>1 DEF PutBlobOnly, PutBlob
<1>2. CASE \E t \in Tenants, h \in Hashes : PutBlobFails(t, h)
  BY <1>2 DEF PutBlobFails
<1>3. CASE \E w \in Writers, t \in Tenants, p \in Paths, h \in Hashes :
              PutRefStart(w, t, p, h)
  BY <1>3 DEF PutRefStart, PutBlob
<1>4. CASE \E w \in Writers : PutRefBind(w)
  <2> PICK w \in Writers : PutRefBind(w)
    BY <1>4
  <2> PICK t, p, h : /\ t = putting[w].tenant
                     /\ p = putting[w].path
                     /\ h = putting[w].hash
    OBVIOUS
  <2>1. t \in Tenants /\ p \in Paths /\ h \in Hashes
    BY DEF PutRefBind, TypeOK, PutCalls
  <2>2. BindNew(t, p, h) \/ BindOther(t, p, h) \/ BindSame(t, p, h)
    BY DEF PutRefBind
  <2>3. CASE BindNew(t, p, h) \/ BindSame(t, p, h)
    BY <2>3 DEF BindNew, BindSame
  <2>4. CASE BindOther(t, p, h)
    <3> PICK old : old = ref[StoredPath(t, p)]
      OBVIOUS
    <3>1. old \in Hashes
      BY <2>1, <2>4 DEF BindOther, StoredPath, TypeOK, Keys
    <3>2. \/ SetAccounts(LinkInc(LinkDec(Accounts, t, old), t, h))
          \/ SetAccounts(LinkDec(Accounts, t, old))
      BY <2>4 DEF BindOther
    <3> QED
      BY <2>1, <3>1, <3>2
  <2> QED
    BY <2>2, <2>3, <2>4
<1>5. CASE \E w \in Writers : PutRefAbandon(w)
  BY <1>5 DEF PutRefAbandon
<1>6. CASE \E t \in Tenants, p \in Paths : DeleteRef(t, p)
  <2> PICK t \in Tenants, p \in Paths : DeleteRef(t, p)
    BY <1>6
  <2> PICK old : old = ref[StoredPath(t, p)]
    OBVIOUS
  <2>1. old \in Hashes /\ SetAccounts(LinkDec(Accounts, t, old))
    BY DEF DeleteRef, StoredPath, TypeOK, Keys
  <2> QED
    BY <2>1
<1>7. CASE \E tok \in Tokens, t \in Tenants, p \in Paths, ttl \in Ttls :
              CreateShare(tok, t, p, ttl)
  BY <1>7 DEF CreateShare
<1>8. CASE \E tok \in Tokens : ShareExpires(tok)
  BY <1>8 DEF ShareExpires
<1>9. CASE \E scope \in GcScopes : \E deleted \in SUBSET Unreferenced(scope) :
              Gc(scope, deleted) \/ GcFails(scope, deleted)
  BY <1>9 DEF Gc, GcFails
<1>12. CASE UNCHANGED vars
  BY <1>12 DEF vars
<1>13. CASE \E h \in Hashes : Upload(h)
  BY <1>13, UploadEffect
<1> QED
  BY <1>1, <1>2, <1>3, <1>4, <1>5, <1>6, <1>7, <1>8, <1>9, <1>12, <1>13
  DEF CallStep, ClientNext, UploadNext, GcNext

(* No call charges a tenant for more, or less, than its links.              *)
LEMMA UsageStep ==
  ASSUME TypeOK, CallStep, NEW u \in Tenants
  PROVE  /\ NeverOver(Accounts, u) => NeverOver(Accounts', u)
         /\ Exact(Accounts, u) => Exact(Accounts', u)
<1> PICK acc : acc = Accounts
  OBVIOUS
<1> PICK now : now = Accounts'
  OBVIOUS
<1>1. acc \in AccountTables
  BY AccountsType
<1>2. ASSUME NEW to \in AccountTables, SetAccounts(to) PROVE now = to
  BY <1>2 DEF SetAccounts, Accounts, AccountTables
<1>3. CASE UNCHANGED <<link, tenant>>
  <2>1. now = acc
    BY <1>3 DEF Accounts
  <2> QED
    BY <2>1
<1>4. CASE \E t \in Tenants, h \in Hashes : SetAccounts(LinkInc(acc, t, h))
  <2> PICK t \in Tenants, h \in Hashes : SetAccounts(LinkInc(acc, t, h))
    BY <1>4
  <2>1. now = LinkInc(acc, t, h)
    BY <1>1, <1>2, LinkIncType
  <2> QED
    BY <1>1, <2>1, IncKeepsUsage
<1>5. CASE \E t \in Tenants, h \in Hashes : SetAccounts(LinkDec(acc, t, h))
  <2> PICK t \in Tenants, h \in Hashes : SetAccounts(LinkDec(acc, t, h))
    BY <1>5
  <2>1. now = LinkDec(acc, t, h)
    BY <1>1, <1>2, LinkDecType
  <2> QED
    BY <1>1, <2>1, DecKeepsUsage
<1>6. CASE \E t \in Tenants, h \in Hashes, g \in Hashes :
              SetAccounts(LinkInc(LinkDec(acc, t, g), t, h))
  <2> PICK t \in Tenants, h \in Hashes, g \in Hashes :
              SetAccounts(LinkInc(LinkDec(acc, t, g), t, h))
    BY <1>6
  <2> PICK released : released = LinkDec(acc, t, g)
    OBVIOUS
  <2>1. released \in AccountTables
    BY <1>1, LinkDecType
  <2>2. now = LinkInc(released, t, h)
    BY <2>1, <1>2, LinkIncType
  <2>3. /\ NeverOver(acc, u) => NeverOver(released, u)
        /\ Exact(acc, u) => Exact(released, u)
    BY <1>1, DecKeepsUsage
  <2> QED
    BY <2>1, <2>2, <2>3, IncKeepsUsage
<1> QED
  BY <1>3, <1>4, <1>5, <1>6, AccountCases

(* A new Tenant row is charged nothing; set-quota leaves the charge alone.  *)
LEMMA UpsertCharge ==
  ASSUME TypeOK, NEW t \in Tenants, NEW mb \in ByteQuotas,
         NEW mo \in ObjectQuotas, UpsertTenant(t, mb, mo), NEW u \in Tenants
  PROVE  /\ link' = link
         /\ u # t => tenant'[u] = tenant[u]
         /\ u = t => /\ tenant'[u] # None
                     /\ tenant[u] = None => /\ tenant'[u].used_bytes = 0
                                            /\ tenant'[u].used_objects = 0
                     /\ tenant[u] # None =>
                          /\ tenant'[u].used_bytes = tenant[u].used_bytes
                          /\ tenant'[u].used_objects = tenant[u].used_objects
<1> PICK row : row = IF tenant[t] = None THEN NewTenant ELSE tenant[t]
  OBVIOUS
<1>1. row \in TenantRows
  BY DEF TypeOK, NewTenant, TenantRows
<1>2. /\ tenant' = [tenant EXCEPT ![t] = SetQuota(row, mb, mo)]
      /\ link' = link
  BY DEF UpsertTenant
<1>3. /\ SetQuota(row, mb, mo).used_bytes = row.used_bytes
      /\ SetQuota(row, mb, mo).used_objects = row.used_objects
      /\ SetQuota(row, mb, mo) # None
  BY <1>1, SetQuotaType, NoneIsNothing
<1>4. tenant'[u] = IF u = t THEN SetQuota(row, mb, mo) ELSE tenant[u]
  BY <1>2 DEF TypeOK
<1>5. tenant[t] = None => row.used_bytes = 0 /\ row.used_objects = 0
  BY DEF NewTenant
<1> QED
  BY <1>2, <1>3, <1>4, <1>5

LEMMA UsageByTenant ==
  /\ UsageNeverOver <=> \A t \in Tenants : NeverOver(Accounts, t)
  /\ UsageExact <=> \A t \in Tenants : Exact(Accounts, t)
<1>1. \A t : /\ Accounts.tenant[t] = tenant[t]
             /\ Linked(Accounts, t) = LinksOf(t)
             /\ Bytes(LinksOf(t)) = MapThenSumSet(LAMBDA h : Size[h], LinksOf(t))
  BY DEF Accounts, Linked, LinksOf, Bytes
<1> QED
  BY <1>1 DEF UsageNeverOver, UsageExact, NeverOver, Exact

(* Whatever is stored, replaced, deleted, collected or uploaded, and though *)
(* a tenant's row may be deleted and made anew over what it links, the two  *)
(* running totals never exceed what a count of the links would find.        *)
THEOREM UsageNeverOverCorrect == Spec => []UsageNeverOver
<1>1. Init => UsageNeverOver
  BY DEF Init, UsageNeverOver
<1>2. ASSUME TypeOK, UsageNeverOver, [Next]_vars
      PROVE  UsageNeverOver'
  <2> SUFFICES ASSUME NEW u \in Tenants PROVE NeverOver(Accounts, u)'
    BY DEF UsageNeverOver, NeverOver, Accounts, Linked, LinksOf, Bytes
  <2>1. NeverOver(Accounts, u)
    BY <1>2, UsageByTenant
  <2>2. CASE \E t \in Tenants, mb \in ByteQuotas, mo \in ObjectQuotas :
                UpsertTenant(t, mb, mo)
    <3> PICK t \in Tenants, mb \in ByteQuotas, mo \in ObjectQuotas :
                UpsertTenant(t, mb, mo)
      BY <2>2
    <3>1. /\ Linked(Accounts, u)' = Linked(Accounts, u)
          /\ Accounts.tenant[u] = tenant[u] /\ Accounts.tenant'[u] = tenant'[u]
      BY <1>2, UpsertCharge DEF Linked, Accounts
    <3> QED
      BY <1>2, <2>1, <3>1, UpsertCharge, LinkedType DEF NeverOver
  <2>3. CASE \E t \in Tenants : DeleteTenant(t)
    <3>1. Linked(Accounts, u)' = Linked(Accounts, u)
      BY <2>3 DEF Linked, Accounts, DeleteTenant
    <3>2. tenant'[u] \in {tenant[u], None}
      BY <1>2, <2>3 DEF DeleteTenant, TypeOK
    <3> QED
      BY <2>1, <3>1, <3>2 DEF NeverOver, Accounts
  <2>4. CASE CallStep
    BY <1>2, <2>1, <2>4, UsageStep
  <2> QED
    BY <1>2, <2>2, <2>3, <2>4 DEF Next, AdminNext, CallStep
<1> QED
  BY <1>1, <1>2, TypeCorrect, PTL DEF Spec

(* Tenants that are provisioned are a case of tenants.                      *)
LEMMA ProvisionedIsSpec == ProvisionedSpec => Spec
<1>1. [ProvisionedNext]_vars => [Next]_vars
  BY DEF ProvisionedNext, Next, AdminNext
<1> QED
  BY <1>1, PTL DEF ProvisionedSpec, Spec

(* Where no tenant is deleted or stores before it is created, the totals    *)
(* are exact: no floor of _link_dec ever bites, and the two sessions of     *)
(* put_ref, gc, complete and a failed session leave nothing charged twice   *)
(* and nothing uncharged.                                                   *)
THEOREM UsageExactCorrect == ProvisionedSpec => []UsageExact
<1>1. Init => UsageExact
  BY DEF Init, UsageExact
<1>2. ASSUME TypeOK, UsageExact, [ProvisionedNext]_vars
      PROVE  UsageExact'
  <2> SUFFICES ASSUME NEW u \in Tenants PROVE Exact(Accounts, u)'
    BY DEF UsageExact, Exact, Accounts, Linked, LinksOf, Bytes
  <2>1. Exact(Accounts, u)
    BY <1>2, UsageByTenant
  <2>2. CASE \E t \in Tenants, mb \in ByteQuotas, mo \in ObjectQuotas :
                /\ tenant[t] # None \/ LinksOf(t) = {}
                /\ UpsertTenant(t, mb, mo)
    <3> PICK t \in Tenants, mb \in ByteQuotas, mo \in ObjectQuotas :
                /\ tenant[t] # None \/ LinksOf(t) = {}
                /\ UpsertTenant(t, mb, mo)
      BY <2>2
    <3>1. /\ Linked(Accounts, u)' = Linked(Accounts, u)
          /\ Linked(Accounts, u) = LinksOf(u)
          /\ Accounts.tenant[u] = tenant[u] /\ Accounts.tenant'[u] = tenant'[u]
      BY <1>2, UpsertCharge DEF Linked, Accounts, LinksOf
    <3>2. Cardinality({}) = 0 /\ Bytes({}) = 0
      BY FS_EmptySet, BytesEmpty
    <3> QED
      BY <1>2, <2>1, <3>1, <3>2, UpsertCharge, ZenonT(40) DEF Exact
  <2>3. CASE CallStep
    BY <1>2, <2>1, <2>3, UsageStep
  <2> QED
    BY <1>2, <2>2, <2>3 DEF ProvisionedNext, CallStep
<1> QED
  BY <1>1, <1>2, TypeCorrect, ProvisionedIsSpec, PTL DEF ProvisionedSpec

(* ... and so what a tenant's refs name, each content once, is never more   *)
(* than what it is charged: nothing it can still read is free.              *)
THEOREM NoFreeStorageCorrect == ProvisionedSpec => []NoFreeStorage
<1>1. ASSUME TypeOK, LinkCoversRefs, UsageExact
      PROVE  NoFreeStorage
  <2> SUFFICES ASSUME NEW t \in Tenants, tenant[t] # None
               PROVE  Bytes({h \in Hashes : RefsOf(t, h) # {}})
                        <= tenant[t].used_bytes
    BY DEF NoFreeStorage, Bytes
  <2>1. ASSUME NEW h \in Hashes, RefsOf(t, h) # {}
        PROVE  h \in LinksOf(t)
    <3>1. /\ Cardinality(RefsOf(t, h)) \in Nat
          /\ Cardinality(RefsOf(t, h)) # 0
          /\ Cardinality(PutsOf(t, h)) \in Nat
      BY <2>1, NeedsFinite, FS_EmptySet
    <3>2. /\ link[<<t, h>>] \in Nat
          /\ Cardinality(RefsOf(t, h)) + Cardinality(PutsOf(t, h))
               <= link[<<t, h>>]
      BY <1>1 DEF LinkCoversRefs, TypeOK
    <3> QED
      BY <3>1, <3>2 DEF LinksOf
  <2>2. /\ {h \in Hashes : RefsOf(t, h) # {}} \in SUBSET LinksOf(t)
        /\ LinksOf(t) \in SUBSET Hashes
    BY <2>1 DEF LinksOf
  <2>3. tenant[t].used_bytes = Bytes(LinksOf(t))
    BY <1>1 DEF UsageExact, Bytes
  <2> QED
    BY <2>2, <2>3, BytesMonotone
<1> QED
  BY <1>1, TypeCorrect, LinkCoversRefsCorrect, UsageExactCorrect,
     ProvisionedIsSpec, PTL
=============================================================================
