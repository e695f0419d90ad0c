------------------------------- MODULE ClawFS -------------------------------
(***************************************************************************)
(* clawfs/core.py: the glue between a content-addressed object store and   *)
(* the SQL tables Blob, Ref, Share, Tenant and TenantBlob.                 *)
(*                                                                         *)
(* One action is one database session of one operation, with the calls on  *)
(* the object store the session makes.  put_ref is two sessions (put_blob  *)
(* and then the binding of the path), so anything may happen between them. *)
(* The object store is not part of the transaction: a session that fails   *)
(* to commit leaves its puts and deletes behind.                           *)
(*                                                                         *)
(* A content is represented by its sha256, so the bytes a key of the store *)
(* yields are the key itself.                                              *)
(***************************************************************************)
EXTENDS Integers, FiniteSets, FiniteSetsExt

CONSTANTS Tenants,        \* tenant ids
          Default,        \* the tenant of requests that name no other
          Paths,          \* user-facing ref paths
          Hashes,         \* contents, each standing for its sha256
          Size,           \* Size[h]: length in bytes of content h
          Tokens,         \* share tokens
          Writers,        \* callers that may be inside put_ref: the server's
                          \* event loop and command-line processes
          ByteQuotas,     \* quotas an administrator sets; None: leave as it is
          ObjectQuotas,
          MaxLink,        \* bound of the model: references a put may count
          None, Missing   \* an absent row, and FileNotFoundError

Keys == Tenants \X Paths

ASSUME DefaultIsTenant == Default \in Tenants
ASSUME SizesAreNat     == Size \in [Hashes -> Nat]
ASSUME QuotasAreNat    == /\ ByteQuotas \subseteq Nat \cup {None}
                          /\ ObjectQuotas \subseteq Nat \cup {None}
ASSUME FiniteWorld     == /\ IsFiniteSet(Tenants) /\ IsFiniteSet(Paths)
                          /\ IsFiniteSet(Hashes) /\ IsFiniteSet(Writers)
ASSUME BoundIsNat      == MaxLink \in Nat
VARIABLES objects,        \* keys present in the object store
          blob,           \* Blob rows
          ref,            \* Ref rows: the hash each stored path is bound to
          link,           \* TenantBlob.refcount; 0 is no row
          tenant,         \* Tenant rows
          share,          \* Share rows
          putting         \* put_ref calls between their two sessions

vars == <<objects, blob, ref, link, tenant, share, putting>>

(* ------------------------------------------------------------------------ *)
(* Rows                                                                     *)
(* ------------------------------------------------------------------------ *)
BlobRows   == [refcount: Nat, tenant_id: Tenants]
TenantRows == [used_bytes: Nat, used_objects: Nat,
               max_bytes: Nat \cup {None}, max_objects: Nat \cup {None}]
ShareRows  == [ref_path: Keys, expires: {"never", "later", "past"}]
PutCalls   == [tenant: Tenants, path: Paths, hash: Hashes]

ASSUME NoneIsNothing == /\ None \notin Hashes \cup BlobRows \cup TenantRows
                        /\ None \notin ShareRows \cup PutCalls
                        /\ None \notin [path: Keys, shows: Hashes \cup {None}]
                        /\ Missing \notin Hashes \cup {None}

(* A new Tenant row is charged nothing, whatever links its tenant has. *)
NewTenant == [used_bytes |-> 0, used_objects |-> 0,
              max_bytes |-> None, max_objects |-> None]

AtLeast0(n) == IF n < 0 THEN 0 ELSE n

(* _tpath: "<tenant>/<path>", which is injective as long as no tenant id has *)
(* a "/" in it; nothing in the code sees to that.                            *)
StoredPath(t, p) == <<t, p>>

RefsTo(h)      == {k \in Keys : ref[k] = h}
LinksOf(t)     == {h \in Hashes : link[<<t, h>>] > 0}
PutsOf(t, h)   == {w \in Writers : /\ putting[w] # None
                                   /\ putting[w].tenant = t
                                   /\ putting[w].hash = h}

(* ------------------------------------------------------------------------ *)
(* The helpers of class ClawFS, on tables passed as values                  *)
(* ------------------------------------------------------------------------ *)

(* FAULT: no floor *)
BumpNoFloor(blobs, h, delta) ==
  IF blobs[h] = None THEN blobs ELSE [blobs EXCEPT ![h].refcount = @ + delta]

(* FAULT: letting go of one ref lets go of them all *)
BumpToZero(blobs, h, delta) ==
  IF blobs[h] = None THEN blobs
  ELSE [blobs EXCEPT ![h].refcount = IF delta < 0 THEN 0 ELSE @ + delta]

(* _bump: a blob whose row is gone is left alone *)
Bump(blobs, h, delta) ==
  IF blobs[h] = None THEN blobs
  ELSE [blobs EXCEPT ![h].refcount = AtLeast0(@ + delta)]

(* FAULT: compares the usage before the write *)
WithinQuotaBefore(t, h) ==
  LET row == tenant[t] IN
  tenant[t] # None /\ link[<<t, h>>] = 0 =>
     /\ row.max_bytes # None => row.used_bytes < row.max_bytes
     /\ row.max_objects # None => row.used_objects < row.max_objects

(* _enforce_quota returns without raising *)
WithinQuota(t, h) ==
  LET row == tenant[t] IN
  tenant[t] # None /\ link[<<t, h>>] = 0 =>
     /\ row.max_bytes # None => row.used_bytes + Size[h] <= row.max_bytes
     /\ row.max_objects # None => row.used_objects + 1 <= row.max_objects

(* The tables the quota accounting changes together *)
Accounts == [link |-> link, tenant |-> tenant]

(* FAULT: an existing link is found and not counted *)
LinkIncOnce(acc, t, h) ==
  IF acc.link[<<t, h>>] > 0 THEN acc
  ELSE [link |-> [acc.link EXCEPT ![<<t, h>>] = 1],
        tenant |-> IF acc.tenant[t] = None THEN acc.tenant
                   ELSE [acc.tenant EXCEPT ![t].used_bytes = @ + Size[h],
                                           ![t].used_objects = @ + 1]]

(* FAULT: charges every put, linked already or not *)
LinkIncCharges(acc, t, h) ==
  [link |-> [acc.link EXCEPT ![<<t, h>>] = @ + 1],
   tenant |-> IF acc.tenant[t] = None THEN acc.tenant
              ELSE [acc.tenant EXCEPT ![t].used_bytes = @ + Size[h],
                                      ![t].used_objects = @ + 1]]

(* _link_inc *)
LinkInc(acc, t, h) ==
  [link |-> [acc.link EXCEPT ![<<t, h>>] = @ + 1],
   tenant |-> IF acc.link[<<t, h>>] > 0 \/ acc.tenant[t] = None
              THEN acc.tenant
              ELSE [acc.tenant EXCEPT ![t].used_bytes = @ + Size[h],
                                      ![t].used_objects = @ + 1]]

(* FAULT: the last reference goes and its charge stays *)
LinkDecKeepsCharge(acc, t, h) ==
  IF acc.link[<<t, h>>] = 0 THEN acc
  ELSE [acc EXCEPT !.link = [acc.link EXCEPT ![<<t, h>>] = @ - 1]]

(* FAULT: every reference that goes releases the charge *)
LinkDecReleases(acc, t, h) ==
  IF acc.link[<<t, h>>] = 0 THEN acc
  ELSE [link |-> [acc.link EXCEPT ![<<t, h>>] = @ - 1],
        tenant |-> IF acc.tenant[t] = None THEN acc.tenant
                   ELSE [acc.tenant EXCEPT
                           ![t].used_bytes = AtLeast0(@ - Size[h]),
                           ![t].used_objects = AtLeast0(@ - 1)]]

(* _link_dec: the last reference of a tenant to a hash releases its charge *)
LinkDec(acc, t, h) ==
  IF acc.link[<<t, h>>] = 0 THEN acc
  ELSE [link |-> [acc.link EXCEPT ![<<t, h>>] = @ - 1],
        tenant |-> IF acc.link[<<t, h>>] > 1 \/ acc.tenant[t] = None
                   THEN acc.tenant
                   ELSE [acc.tenant EXCEPT
                           ![t].used_bytes = AtLeast0(@ - Size[h]),
                           ![t].used_objects = AtLeast0(@ - 1)]]

SetAccounts(acc) == link' = acc.link /\ tenant' = acc.tenant

(* ------------------------------------------------------------------------ *)
(* Reads                                                                    *)
(* ------------------------------------------------------------------------ *)

(* Storage.get *)
Fetch(h) == IF h \in objects THEN h ELSE Missing

(* resolve_ref *)
ResolveRef(k) == IF ref[k] = None THEN None ELSE Fetch(ref[k])

(* resolve_share *)
ResolveShare(tok) ==
  IF \/ share[tok] = None
     \/ share[tok].expires = "past"
     \/ ref[share[tok].ref_path] = None
  THEN None
  ELSE Fetch(ref[share[tok].ref_path])

(* ------------------------------------------------------------------------ *)
(* Sessions                                                                 *)
(* ------------------------------------------------------------------------ *)
Init ==
  /\ objects = {}
  /\ blob = [h \in Hashes |-> None]
  /\ ref = [k \in Keys |-> None]
  /\ link = [th \in Tenants \X Hashes |-> 0]
  /\ tenant = [t \in Tenants |-> None]
  /\ share = [tok \in Tokens |-> None]
  /\ putting = [w \in Writers |-> None]

(* FAULT: trusts the row and never looks at the store *)
PutBlobNoHeal(t, h) ==
  /\ WithinQuota(t, h)
  /\ link[<<t, h>>] < MaxLink
  /\ objects' = IF blob[h] = None THEN objects \cup {h} ELSE objects
  /\ blob' = IF blob[h] # None THEN blob
             ELSE [blob EXCEPT ![h] = [refcount |-> 0, tenant_id |-> t]]
  /\ SetAccounts(LinkInc(Accounts, t, h))

(* put_blob: a known blob whose object is missing is stored again.  The     *)
(* link is counted whether or not a ref will follow.                        *)
PutBlob(t, h) ==
  /\ WithinQuota(t, h)
  /\ link[<<t, h>>] < MaxLink
  /\ objects' = objects \cup {h}
  /\ blob' = IF blob[h] # None THEN blob
             ELSE [blob EXCEPT ![h] = [refcount |-> 0, tenant_id |-> t]]
  /\ SetAccounts(LinkInc(Accounts, t, h))

(* PUT /blobs *)
PutBlobOnly(t, h) == /\ PutBlob(t, h)
                     /\ UNCHANGED <<ref, share, putting>>

(* put_blob stores the object and its session is then lost: a crash, or a   *)
(* commit that finds the database locked.                                   *)
PutBlobFails(t, h) ==
  /\ WithinQuota(t, h)
  /\ blob[h] = None \/ h \notin objects
  /\ objects' = objects \cup {h}
  /\ UNCHANGED <<blob, ref, link, tenant, share, putting>>

(* put_ref, its first session *)
PutRefStart(w, t, p, h) ==
  /\ putting[w] = None
  /\ PutBlob(t, h)
  /\ putting' = [putting EXCEPT ![w] = [tenant |-> t, path |-> p, hash |-> h]]
  /\ UNCHANGED <<ref, share>>

(* put_ref, its second session: the path is new, *)
BindNew(t, p, h) ==
  /\ ref[StoredPath(t, p)] = None
  /\ ref' = [ref EXCEPT ![StoredPath(t, p)] = h]
  /\ blob' = Bump(blob, h, 1)
  /\ UNCHANGED <<link, tenant>>

(* FAULT: the content replaced keeps its count *)
BindOtherKeepsOld(t, p, h) ==
  LET old == ref[StoredPath(t, p)] IN
  /\ old # None
  /\ old # h
  /\ ref' = [ref EXCEPT ![StoredPath(t, p)] = h]
  /\ blob' = Bump(blob, h, 1)
  /\ SetAccounts(LinkInc(LinkDec(Accounts, t, old), t, h))

(* is bound to another content, *)
BindOther(t, p, h) ==
  LET old == ref[StoredPath(t, p)] IN
  /\ old # None
  /\ old # h
  /\ ref' = [ref EXCEPT ![StoredPath(t, p)] = h]
  /\ blob' = Bump(Bump(blob, old, -1), h, 1)
  /\ LET released == LinkDec(Accounts, t, old)
     IN  SetAccounts(IF blob[h] # None THEN LinkInc(released, t, h)
                                       ELSE released)

(* FAULT: counts the ref again *)
BindSameCounts(t, p, h) ==
  /\ ref[StoredPath(t, p)] = h
  /\ blob' = Bump(blob, h, 1)
  /\ UNCHANGED <<ref, link, tenant>>

(* or is bound to this content already *)
BindSame(t, p, h) ==
  /\ ref[StoredPath(t, p)] = h
  /\ UNCHANGED <<ref, blob, link, tenant>>

PutRefBind(w) ==
  /\ putting[w] # None
  /\ LET c == putting[w]
     IN  \/ BindNew(c.tenant, c.path, c.hash)
         \/ BindOther(c.tenant, c.path, c.hash)
         \/ BindSame(c.tenant, c.path, c.hash)
  /\ putting' = [putting EXCEPT ![w] = None]
  /\ UNCHANGED <<objects, share>>

(* The caller of put_ref dies, or its second commit fails. *)
PutRefAbandon(w) ==
  /\ putting[w] # None
  /\ putting' = [putting EXCEPT ![w] = None]
  /\ UNCHANGED <<objects, blob, ref, link, tenant, share>>

(* FAULT: leaves the shares of the path behind *)
DeleteRefKeepsShares(t, p) ==
  LET k == StoredPath(t, p) IN
  /\ ref[k] # None
  /\ blob' = Bump(blob, ref[k], -1)
  /\ SetAccounts(LinkDec(Accounts, t, ref[k]))
  /\ ref' = [ref EXCEPT ![k] = None]
  /\ UNCHANGED <<objects, putting, share>>

(* delete_ref *)
DeleteRef(t, p) ==
  LET k == StoredPath(t, p) IN
  /\ ref[k] # None
  /\ blob' = Bump(blob, ref[k], -1)
  /\ SetAccounts(LinkDec(Accounts, t, ref[k]))
  /\ ref' = [ref EXCEPT ![k] = None]
  /\ share' = [tok \in Tokens |->
                 IF share[tok] # None /\ share[tok].ref_path = k
                 THEN None ELSE share[tok]]
  /\ UNCHANGED <<objects, putting>>

(* UploadManager.complete, its session, which writes the tables itself: it   *)
(* asks the quota as put_blob does, but goes by the Blob row alone and does  *)
(* not look for the object, and the link of a content it replaces stays.     *)
(* The session that finds its upload aborted is one of the default tenant    *)
(* without a target; the one that is lost leaves what PutBlobFails leaves.   *)
UploadedBlobs(t, h) ==
  IF blob[h] # None THEN blob
  ELSE [blob EXCEPT ![h] = [refcount |-> 0, tenant_id |-> t]]

UploadBlob(t, h) ==
  /\ WithinQuota(t, h)
  /\ link[<<t, h>>] < MaxLink
  /\ objects' = IF blob[h] = None THEN objects \cup {h} ELSE objects
  /\ SetAccounts(LinkInc(Accounts, t, h))
  /\ UNCHANGED <<share, putting>>

(* without a target_ref, or with one bound to this content already, *)
UploadOnly(t, h) ==
  /\ UploadBlob(t, h)
  /\ blob' = UploadedBlobs(t, h)
  /\ UNCHANGED ref

(* with a new path, *)
UploadNew(t, p, h) ==
  /\ UploadBlob(t, h)
  /\ ref[StoredPath(t, p)] = None
  /\ ref' = [ref EXCEPT ![StoredPath(t, p)] = h]
  /\ blob' = Bump(UploadedBlobs(t, h), h, 1)

(* or with a path bound to another content *)
UploadOver(t, p, h) ==
  LET old == ref[StoredPath(t, p)] IN
  /\ UploadBlob(t, h)
  /\ old \notin {None, h}
  /\ ref' = [ref EXCEPT ![StoredPath(t, p)] = h]
  /\ blob' = Bump(Bump(UploadedBlobs(t, h), old, -1), h, 1)

(* gc's argument, as the set of tenants whose blobs it may drop: POST /gc   *)
(* from the default tenant and the command line drop anyone's.              *)
GcScopes == {Tenants} \cup {{t} : t \in Tenants \ {Default}}

Unreferenced(scope) == {h \in Hashes : /\ blob[h] # None
                                       /\ blob[h].refcount = 0
                                       /\ blob[h].tenant_id \in scope}

(* gc: `deleted` are the objects really gone, for the delete of a remote    *)
(* store swallows its errors.                                               *)
Gc(scope, deleted) ==
  /\ Unreferenced(scope) # {}
  /\ deleted \subseteq Unreferenced(scope)
  /\ objects' = objects \ deleted
  /\ blob' = [h \in Hashes |-> IF h \in Unreferenced(scope) THEN None
                                                            ELSE blob[h]]
  /\ UNCHANGED <<ref, link, tenant, share, putting>>

(* gc stops before it commits: a crash, or a delete that raises *)
GcFails(scope, deleted) ==
  /\ deleted # {}
  /\ deleted \subseteq Unreferenced(scope)
  /\ objects' = objects \ deleted
  /\ UNCHANGED <<blob, ref, link, tenant, share, putting>>

(* create_share's `if ttl_seconds`: a lifetime of zero never ends *)
Ttls == {None, 0, 1}
ExpiresAt(ttl) == IF ttl \in {None, 0} THEN "never" ELSE "later"

(* create_share, with a token that no row holds *)
CreateShare(tok, t, p, ttl) ==
  /\ share[tok] = None
  /\ ref[StoredPath(t, p)] # None
  /\ share' = [share EXCEPT ![tok] = [ref_path |-> StoredPath(t, p),
                                      expires |-> ExpiresAt(ttl)]]
  /\ UNCHANGED <<objects, blob, ref, link, tenant, putting>>

(* Time passes the expires_at of a share *)
ShareExpires(tok) ==
  /\ share[tok] # None
  /\ share[tok].expires = "later"
  /\ share' = [share EXCEPT ![tok].expires = "past"]
  /\ UNCHANGED <<objects, blob, ref, link, tenant, putting>>

(* upsert_tenant leaves a quota it is not given as it is. *)
SetQuota(row, max_bytes, max_objects) ==
  [row EXCEPT !.max_bytes   = IF max_bytes = None THEN @ ELSE max_bytes,
              !.max_objects = IF max_objects = None THEN @ ELSE max_objects]

(* upsert_tenant: `admin tenant create` and `admin tenant set-quota` *)
UpsertTenant(t, max_bytes, max_objects) ==
  /\ tenant' = [tenant EXCEPT ![t] =
                  SetQuota(IF @ = None THEN NewTenant ELSE @,
                           max_bytes, max_objects)]
  /\ UNCHANGED <<objects, blob, ref, link, share, putting>>

(* cmd_tenant_delete: the refs, links and blobs of the tenant stay *)
DeleteTenant(t) ==
  /\ tenant[t] # None
  /\ tenant' = [tenant EXCEPT ![t] = None]
  /\ UNCHANGED <<objects, blob, ref, link, share, putting>>

(* ------------------------------------------------------------------------ *)
(* Specifications                                                           *)
(* ------------------------------------------------------------------------ *)
ClientNext ==
  \/ \E t \in Tenants, h \in Hashes : PutBlobOnly(t, h) \/ PutBlobFails(t, h)
  \/ \E w \in Writers, t \in Tenants, p \in Paths, h \in Hashes :
        PutRefStart(w, t, p, h)
  \/ \E w \in Writers : PutRefBind(w) \/ PutRefAbandon(w)
  \/ \E t \in Tenants, p \in Paths : DeleteRef(t, p)
  \/ \E tok \in Tokens, t \in Tenants, p \in Paths, ttl \in Ttls :
        CreateShare(tok, t, p, ttl)
  \/ \E tok \in Tokens : ShareExpires(tok)

Upload(h) == \E t \in Tenants :
                \/ UploadOnly(t, h)
                \/ \E p \in Paths : UploadNew(t, p, h) \/ UploadOver(t, p, h)

UploadNext == \E h \in Hashes : Upload(h)

GcNext == \E scope \in GcScopes : \E deleted \in SUBSET Unreferenced(scope) :
             Gc(scope, deleted) \/ GcFails(scope, deleted)

AdminNext ==
  \/ \E t \in Tenants, mb \in ByteQuotas, mo \in ObjectQuotas :
        UpsertTenant(t, mb, mo)
  \/ \E t \in Tenants : DeleteTenant(t)

Next == ClientNext \/ UploadNext \/ GcNext \/ AdminNext

Spec == Init /\ [][Next]_vars

(* Clients of the API and a gc that finishes, whenever it is started: no     *)
(* uploads, no gc interrupted half way, no administrator.                   *)
GcFinishes == \E scope \in GcScopes :
                 Gc(scope, Unreferenced(scope))
AnyTimeNext == ClientNext \/ GcFinishes
AnyTimeSpec == Init /\ [][AnyTimeNext]_vars

(* gc runs only while no put_ref is between its two sessions, and a content *)
(* whose object an interrupted gc has deleted is not uploaded.              *)
NoPutInFlight == \A w \in Writers : putting[w] = None
Intact(h)     == blob[h] = None \/ h \in objects

QuietNext == \/ ClientNext
             \/ \E h \in Hashes : Intact(h) /\ Upload(h)
             \/ NoPutInFlight /\ GcNext
             \/ AdminNext
QuietSpec == Init /\ [][QuietNext]_vars

(* No tenant is deleted, and one is created before anything is stored for   *)
(* it; quotas may be changed at any time.                                   *)
ProvisionedNext ==
  \/ ClientNext
  \/ UploadNext
  \/ GcNext
  \/ \E t \in Tenants, mb \in ByteQuotas, mo \in ObjectQuotas :
        /\ tenant[t] # None \/ LinksOf(t) = {}
        /\ UpsertTenant(t, mb, mo)
ProvisionedSpec == Init /\ [][ProvisionedNext]_vars

(* ------------------------------------------------------------------------ *)
(* Properties                                                               *)
(* ------------------------------------------------------------------------ *)

(* Every table holds rows of its schema (db.py). *)
TypeOK ==
  /\ objects \in SUBSET Hashes
  /\ blob \in [Hashes -> BlobRows \cup {None}]
  /\ ref \in [Keys -> Hashes \cup {None}]
  /\ link \in [Tenants \X Hashes -> Nat]
  /\ tenant \in [Tenants -> TenantRows \cup {None}]
  /\ share \in [Tokens -> ShareRows \cup {None}]
  /\ putting \in [Writers -> PutCalls \cup {None}]

(* No space is lost for good: the count a Blob row keeps never exceeds the  *)
(* refs bound to it, over every tenant, so a blob no ref names is at 0 and  *)
(* gc can drop it.  put_ref and delete_ref keep the count by increments in  *)
(* sessions of their own, around a gc that may remove the row between them. *)
RefcountNeverOver ==
  \A h \in Hashes :
     blob[h] # None => blob[h].refcount <= Cardinality(RefsTo(h))

(* A tenant keeps the TenantBlob link of every content one of its refs or   *)
(* put_ref calls in flight still needs, counted at least as often: releasing *)
(* a reference never releases the charge of another.                        *)
RefsOf(t, h) == {p \in Paths : ref[<<t, p>>] = h}
LinkCoversRefs ==
  \A t \in Tenants, h \in Hashes :
     Cardinality(RefsOf(t, h)) + Cardinality(PutsOf(t, h)) <= link[<<t, h>>]

(* A tenant is never charged for more than the contents it has links to,    *)
(* though its row may be deleted and created anew over them.                *)
UsageNeverOver ==
  \A t \in Tenants : tenant[t] # None =>
     /\ tenant[t].used_objects <= Cardinality(LinksOf(t))
     /\ tenant[t].used_bytes <= MapThenSumSet(LAMBDA h : Size[h], LinksOf(t))

(* Usage rises only to a value the quota in force allows.  put_ref's second *)
(* session charges without asking _enforce_quota, and must never have to.   *)
QuotaGate ==
  [][\A t \in Tenants : tenant[t] # None /\ tenant'[t] # None =>
       LET was == tenant[t]
           now == tenant'[t]
       IN  /\ now.used_bytes > was.used_bytes =>
                now.max_bytes = None \/ now.used_bytes <= now.max_bytes
           /\ now.used_objects > was.used_objects =>
                now.max_objects = None \/ now.used_objects <= now.max_objects
    ]_vars

(* Under ProvisionedSpec the charge is exactly the contents linked, each    *)
(* once however many refs name it (TenantBlob's docstring, db.py).          *)
UsageExact ==
  \A t \in Tenants : tenant[t] # None =>
     /\ tenant[t].used_objects = Cardinality(LinksOf(t))
     /\ tenant[t].used_bytes = MapThenSumSet(LAMBDA h : Size[h], LinksOf(t))

(* ... and so no tenant stores for free: what its refs name is charged.     *)
NoFreeStorage ==
  \A t \in Tenants : tenant[t] # None =>
     MapThenSumSet(LAMBDA h : Size[h], {h \in Hashes : RefsOf(t, h) # {}})
        <= tenant[t].used_bytes

(* Under QuietSpec the count is exact, over the refs of all tenants, and    *)
(* a ref or a put_ref in flight keeps the row that carries it.              *)
RefcountExact ==
  /\ \A h \in Hashes :
        blob[h] # None => blob[h].refcount = Cardinality(RefsTo(h))
  /\ \A k \in Keys : ref[k] # None => blob[ref[k]] # None

(* No reader of a ref or of a share meets FileNotFoundError: one tenant's   *)
(* delete_ref and gc never free a blob another ref still names.             *)
NoDangling ==
  /\ \A k \in Keys : ResolveRef(k) # Missing
  /\ \A tok \in Tokens : ResolveShare(tok) # Missing

(* The same promise for the refs of a tenant, whoever runs gc and whenever: *)
(* "Safe to run any time" (docs/site/operations.md).                        *)
GcSafeAnyTime == \A k \in Keys : ResolveRef(k) # Missing

(* What clients observe is a plain file system: reading a path or a token,  *)
(* through the store, is reading FileSystem's variables.  No token of a     *)
(* removed path shows what a later ref of the same path is bound to.        *)
FileView  == [k \in Keys |-> ResolveRef(k)]
GrantView == [tok \in Tokens |->
                IF share[tok] = None THEN None
                ELSE [path  |-> share[tok].ref_path,
                      shows |-> ResolveShare(tok)]]
FS == INSTANCE FileSystem WITH Contents <- Hashes,
                               file <- FileView, grant <- GrantView
FSSpec == FS!Spec
=============================================================================
