# ClawFS in TLA+

ClawFS stores files by content: bytes go into an object store under their
sha256, and a SQL database maps paths to hashes, counts references, charges
tenants and hands out share tokens. This directory models that program
(`src/clawfs`), model-checks it with TLC on small instances, and proves its most
important properties with TLAPS for every instance.

1. [The system](#the-system) – inventory of the parts
2. [Modules](#modules) – what models what
3. [The core: ClawFS](#the-core-clawfs)
4. [Its statements: Sessions](#its-statements-sessions)
5. [Uploads: Multipart](#uploads-multipart)
6. [Object stores: ObjectStore, LocalStorage, CloudStorage](#object-stores-objectstore-localstorage-cloudstorage)
7. [Who a request acts for: Auth](#who-a-request-acts-for-auth)
8. [Opening a database: Migration](#opening-a-database-migration)
9. [Runs, bounds and fairness](#runs-bounds-and-fairness)
10. [Proofs](#proofs)
11. [Where code and documents disagree](#where-code-and-documents-disagree)
12. [Not modelled, and the plan](#not-modelled-and-the-plan)

## The system

| part | state | operations | talks to |
|---|---|---|---|
| **Metadata core** `core.py` | tables Blob (refcount), Ref, Share, Tenant, TenantBlob | `put_blob`, `put_ref`, `delete_ref`, `gc`, `create_share`, `resolve_*`, `upsert_tenant` | object store, database |
| **Schema** `db.py` | the tables | `make_engine` creates what is missing, `_migrate` upgrades a 0.2.x database | database |
| **Upload manager** `uploads.py` | Upload rows, a scratch directory per upload with part files and `merged.bin` | `create`, `write_part`, `complete`, `abort` | scratch files, object store, and the core's tables, which `complete` rewrites itself |
| **Storage backends** `storage.py` | objects by hash | `put`, `put_path`, `get`, `exists`, `delete` (local, Azure, S3, GCS) | files, cloud SDKs |
| **HTTP surface** `api.py` | request counters | one handler per endpoint; `async` handlers (put_blob, put_ref, upload_part) share the event loop, the others run in a thread pool | core, uploads, auth |
| **Authentication** `auth.py`, `_resolve_tenant` | tokens from the environment and Tenant rows | `require_auth`, `_maybe_auth`, token to tenant | Tenant rows |
| **Command lines** `cli.py`, `admin.py` | none | put, rm, share, gc; tenant create, rotate, set-quota, delete | the same database, from another process |
| **TypeScript SDK** | none | one method per endpoint; `putLarge` drives an upload | HTTP |
| **Deployment** | number of replicas, restart policy | – | – |

What is hard in it, and what must hold nevertheless:

- *Two stores, one transaction.* The object store is not in the database's
  transaction: an object is put before the row that names it is committed and
  deleted before the row is. Crashes and failed commits leave either without
  the other. A reader of a ref or a share must find its object (`NoDangling`),
  and space that no ref names must stay within gc's reach (`RefcountNeverOver`).
- *`put_ref` is two sessions.* Between "blob at refcount 0" and "ref bound"
  anything may run, gc included.
- *Three kinds of counting.* Blob.refcount (refs over all tenants),
  TenantBlob.refcount (a tenant's puts and refs of a content) and the tenant's
  usage are changed in different places by increments and clamped decrements,
  and must agree whatever is overwritten, deleted, re-created or lost
  (`RefcountExact`, `LinkCoversRefs`, `UsageExact`, `UsageNeverOver`,
  `QuotaGate`, `NoFreeStorage`).
- *Tokens outlive requests.* A path may be removed and written anew while its
  tokens are out (`FSSpec`, as far as the documents agree on what those show).
- *Uploads share files.* `write_part`, `complete` and `abort` of one upload run
  side by side over one directory, and `complete` renames a file others may hold
  open into the store (`ContentMatchesHash`, `ReceiptIsStored`,
  `ReceiptIsWhole`, `AckedPartsKept`).
- *An object is several file operations, or requests that fail.* `put`,
  `put_path`, `get` and `delete` run in threads and processes over shared
  directories and one `.tmp` name per hash, or send requests whose outcome an
  error leaves open. What has been answered for must be there whole, and a put
  raise for a reason (`ReadsAreWhole`, `AnsweredIsStored`, `RaisesOnlyDisturbed`,
  `CopiesNothing`, `MissingIsNotKept`, `RaisesOnlyFailed`, and `StoreSpec`, which has both kinds
  implement one interface).
- *A session is several statements.* On SQLite what a session reads before its
  first write may be stale when it writes (`AtomicSessions`, `UsageExact`,
  `NeverFreed`).
- *A token is looked up twice*, in two places, while operators rotate it, and
  requests on an upload act for the tenant in its row, whatever token they carry
  (`RevokedStaysOut`, `ActsForOwner`, `HeldThroughout`).
- *An upgrade is not a transaction.* Processes open an old database side by side
  and are killed at any statement (`ServesComplete`, `RefsResolve`,
  `EventuallyServes`).

`PROJECT.json` lists every hazard with its line under `hazards`.

## Modules

| module | what it is |
|---|---|
| `FileSystem` | abstract: what clients can rely on – paths that hold contents, tokens that show what their path held at some time since they were made |
| `ClawFS` | the core, one action per database session |
| `Sessions` | extends `ClawFS`: the same sessions, and that of `complete`, statement by statement |
| `Multipart` | the upload manager over local files, one action per file operation that another thread can come before |
| `ObjectStore` | abstract: what a storage backend promises |
| `LocalStorage` | the local object store, one action per file operation |
| `CloudStorage` | the Azure, S3 and GCS stores, one action per request |
| `Auth` | the lookups of a request's token, against an operator |
| `Migration` | `make_engine` and `_migrate`, one action per statement, in several processes |
| `MCClawFS`, `MCSessions`, `MCMultipart`, `MCLocalStorage`, `MCCloudStorage`, `MCAuth`, `MCMigration` | small instances of these for TLC |
| `ClawFSProofs` | theorems that hold of every behaviour of `ClawFS` |
| `ClawFSQuietProofs` | theorems under `QuietSpec`, refinement of `FileSystem` included |
| `ObjectStoreProofs` | what follows from an `ObjectStore`'s promise |
| `LocalStorageProofs`, `CloudStorageProofs` | theorems about the stores, refinement of `ObjectStore` included |
| `MultipartProofs` | theorems about uploads, of any clients and of those with one call at a time |
| `AuthProofs`, `MigrationProofs` | theorems about these two |

Three pairs of a detailed and an abstract specification connect them:

- `ClawFS` implements `FileSystem` under `FileView` and `GrantView`: what reading
  each path and each token yields, through the store. The documents give two
  accounts of tokens, a snapshot and the path as it is
  ([below](#where-code-and-documents-disagree)); `FileSystem` leaves open which, and
  claims what they have in common.
- `Sessions` implements `ClawFS` where sessions take turns. It extends `ClawFS` and
  has its variables, so the mapping is the identity and the property is a
  specification of `ClawFS`.
- `LocalStorage` and `CloudStorage` implement `ObjectStore` under `Active` (the
  call each caller is in, without how far it has got) and, for the files, `Whole`
  (the hashes whose files are whole).

`ClawFS` and `Multipart` meet in `complete`: `Multipart` has its file work and
only the set of Blob rows, `ClawFS` and `Sessions` have its session on the tables.
All three take a call of the store for one step, which is what `ObjectStore` says
of it and what the two refinements entitle them to: the cloud services always, the
local files as long as gc keeps out of the way of completes (see
[LocalStorage](#localstorage)).

Definitions headed `FAULT:` are not part of any specification. Each is the
definition below it with one plausible bug, and shows that the property named
with it under `mutants` in `PROJECT.json` would notice.

## The core: ClawFS

**State.** `blob`, `ref`, `share`, `tenant` are the tables, `link` is
`TenantBlob.refcount` (0: no row), `objects` the keys of the object store and
`putting` the `put_ref` calls between their two sessions, one at most per caller
in `Writers` (the server's event loop runs one at a time; each command-line
process is another). A content is represented by its hash, so the bytes of an
object are not modelled here: that is `Multipart`'s subject.

**Actions.** One action is one committed session with the store calls it makes.

| action | code |
|---|---|
| `PutBlobOnly`, `PutBlobFails` | `put_blob`; the object stored and the session lost |
| `PutRefStart`, `PutRefBind`, `PutRefAbandon` | the two sessions of `put_ref`; its caller dies or fails between them |
| `DeleteRef` | `delete_ref`, with the tokens it revokes |
| `UploadOnly`, `UploadNew`, `UploadOver` | the session of `UploadManager.complete` |
| `Gc`, `GcFails` | `gc`, scoped by tenant or not; `deleted` are the objects really gone (remote stores swallow errors); lost before its commit |
| `CreateShare`, `ShareExpires` | `create_share`; time passing `expires_at` |
| `UpsertTenant`, `DeleteTenant` | `admin tenant create`, `set-quota`, `delete` |

The helpers `Bump`, `WithinQuota`, `LinkInc` and `LinkDec` are `_bump`,
`_enforce_quota`, `_link_inc` and `_link_dec` on tables passed as values, so
that sessions that call several of them compose.

`complete`'s session differs from `put_ref`'s where the code does: it binds the
path in the same session, goes by the Blob row alone and never looks for the
object, counts the new content once and leaves the link of the content it
replaces. A session that finds its upload aborted is `UploadOnly` of the default
tenant.

**Specifications.**

- `Spec`: everything, any time.
- `QuietSpec`: gc does not run while a `put_ref` is between its sessions, and a
  content whose object an interrupted gc has deleted is not uploaded (put again
  by `put_blob` it may be, which heals it). These are the conditions under which
  nothing dangles. The `gc_race` run shows that the first is needed; without the
  second `complete` binds a ref to nothing, for it goes by the Blob row. Crashes,
  failed commits, partial gc and every other interleaving stay.
- `AnyTimeSpec`, for `gc_race`: no uploads, no operator and only gcs that complete,
  at any time. What TLC finds there is a gc in the gap of a `put_ref` and nothing
  else: `PutRefStart`, `Gc`, `PutRefBind`.
- `ProvisionedSpec`: tenants exist before they store and are not deleted; the
  condition under which a charge can be exact, and the specification that
  `Sessions` is compared with.

**Abstractions.** A session is atomic; `Sessions` says when it may be taken to be.
`_tpath` is the pair of tenant and path, which is right as long as no tenant id
contains a `/`; neither the code nor a document rules that out (a tenant `a/b` shares
stored paths with the paths `b/…` of a tenant `a`). A share expires in one step; its remaining lifetime is not
counted. Token strings and tenant names are left out; who a token belongs to is
`Auth`'s subject.

## Its statements: Sessions

**State.** The variables of `ClawFS`, and `call`: what each caller is doing, the
next statement (`step`), and what its session has read – the Blob row (`row`), the
content its path was bound to (`old`), its tenant's link and Tenant row (`acc`).
`Writers` call `put_blob` and `put_ref` (the event loop, `clawfs write`), `Threads`
everything else (the thread pool, command lines).

**What SQLite makes of a session.** The driver opens a transaction at the first
write, so a SELECT before that takes a lock for its own duration only and sees
what is committed at that moment. SQLAlchemy sends pending changes before the
next SELECT (autoflush) or at the commit. From that first write on the session
alone may write and nobody sees what it wrote. An action is therefore a SELECT
before the first write, or the whole rest from the first write to the commit.
Which SELECTs come before it is the point of the module:

| call | read without the lock | read under it |
|---|---|---|
| `put_blob` of a new content | the quota, the Blob row | link, Tenant row |
| `put_blob` of a known content | the quota, the Blob row, link, Tenant row | – |
| `put_ref`, second session | the Ref row | all Blob rows, links, Tenant row |
| `delete_ref` | the Ref row, the Blob row, and the link if the count does not change | Tenant row, shares, and the link otherwise |
| `complete` | link and Tenant row (kept to the end), the Blob row | the Ref row, the Blob row of what it replaces |
| `gc` | the list of candidates | – |
| `create_share` | the Ref row | – |

A changed row is written by an UPDATE of the value worked out from the row read.
Where that row is gone by then the commit raises (SQLAlchemy counts the rows it
matched), as does an INSERT of a key that is there; a DELETE of a vanished row only
warns. Sessions that raise end in `Fails`, as do those of callers that die or find
the database locked too long. `gc` deletes objects one by one between its two
statements.

**Specifications.**

- `TurnsSpec`: two calls wait for each other exactly where `Clash` says. gc waits
  for everyone; so do two calls on one content or one path; and of one tenant two
  calls that charge it, or one that goes by a stale Tenant row (`complete`, a put
  of a known content) and a `delete_ref`. Everything else overlaps freely, and
  `put_ref` holds nothing between its sessions. Each clause is needed: without it
  TLC finds a behaviour that `ClawFS` does not have. `AtomicSessions` is the
  statement that with them it has none. Tenants are provisioned and
  get their quota before they put anything; a quota set later is `accounts`' subject.
- `QuietGcSpec`: `put_ref`, `put_blob`, `delete_ref` and `gc`, none of which fails;
  only gc waits for the others. This is less than `Clash` asks for, and the `free`
  run shows what comes of it.

`Clash` rules out by itself most of what could go wrong between a `put_ref`, a
`delete_ref`, a `create_share` and a `complete` of one path or content, and between
charges of one tenant: `turns` says that nothing else need be ruled out, not that
those overlaps are harmless. The program enforces no part of `Clash`. The module says what a deployment that
relies on `ClawFS`'s properties has to avoid, or the code to lock.

## Uploads: Multipart

**State.** `row` and `receipt` are the Upload rows, `dir`, `part`, `merged` the
scratch files, `object` the files of the store, `blobs` the hashes with a Blob
row. `writing`, `completing` and `aborting` are the calls under way. `sent` and
`refused` are history: what the client knows of the parts it sent, and the
uploads a quota has refused.

A handle follows its file. `completing[c].at` says where the handle that
`complete` holds on `merged.bin` leads: the file itself, an object it has been
renamed to, or nowhere once unlinked. `writing[w].linked` says the same of a part
being received. This is what makes the hazards of `complete` visible.

**Actions** follow the code in order: `Create`/`CreateFails`; `WritePartCheck`
(the row is tested), `WritePartOpen` (mkdir, truncate), `WritePartEnd` or
`WritePartBreaks` (the client goes away); `CompleteCheck`, `CompleteList`,
`CompleteOpen` (truncates `merged.bin`), `CompleteCopy` (one part),
`CompleteStore` (`put_path`, or drop the staged file) or `CompleteRefused`,
`CompleteCommit` or `CompleteFails`, `CompleteUnlink` (one part at a time),
`CompleteEnd`; `AbortRow`, `AbortFiles`; `Crash`, after which the files are as
they are and nobody cleans up.

**Specifications.** `Spec` lets any client call anything at any time.
`OneCallSpec` is a client with one call on its upload at a time, as `putLarge`
of the SDK, but for aborts, which it may send in the middle of anything; it asks
for completion when every part it sent was acknowledged, and may ask again. Two
completes of one upload at a time, and a part sent while one is merging, do not
occur in it; what comes of the former is the `retried_complete` run's subject.

**Abstractions.** The body of a part is one chunk or empty. `rmtree` is one step.
The tenant, its quota and the path are in `ClawFS`; here the quota refuses
whenever it likes. The store is `LocalStorage` with the scratch area on its
filesystem, so `put_path` renames. `expected_parts` is passed by no caller under
`src/clawfs`, and `write_part_sync` is a helper of the tests.

## Object stores: ObjectStore, LocalStorage, CloudStorage

`ObjectStore` is the interface `Storage` as the core relies on it. A call takes
effect in one step between its start and its end, or fails with or without its
effect; a content a put has answered for stays until a delete of it is called
(`KeptIsStored`).

### LocalStorage

**State.** One shard directory (`<root>/objects/<aa>`) with the hashes that fall
into it: `shard` (it exists), `object` and `tmp` (per hash: no file, a partial one,
a whole one), `source` (per upload: what its `merged.bin` holds), the `calls` under
way, and the history `kept`, the hashes a put has answered for and nobody has called
`delete` on since.

**Actions.** `Start` a call; `PutKnown`/`PutUnknown` (the `exists` test of `put` and
`put_path`), `PutMkdir`; of `put`, `PutOpen` (truncates `.tmp`), `PutWrite` or
`PutWriteFails` (a full disk), `PutRename`; of `put_path`, `PutPathRename`, or
`PutPathFallsBack` and then `copyfile`: `PutPathCopy` (opens the source),
`PutPathOnto` (truncates the object), `PutPathFill` or `PutPathFillFails`; `PutRaises`
where a file or the directory is gone; `GetCheck`, `GetRead`; `DeleteCheck`,
`DeleteUnlink`, `DeleteRmdir`; `Crash`. `Merge` and `SourceGone` are what uploads do to
`merged.bin`: a complete writes it, an abort removes it, at any time. Several
completes of one upload pass the same one. As in `Multipart`, a handle follows its
file: a put that writes while another renames their common `.tmp` goes on writing
into the object.

**The copy in place.** `put_path` takes any `OSError` of `os.replace` for a rename
between file systems and copies over the object (`storage.py:81-85`). Two other things
raise it. If the source is gone, by an abort or because another complete of the
upload has renamed it, the copy finds nothing either, and `put_path` raises
`FileNotFoundError` with no delete near. If the directory is gone, a delete having
removed it since `put_path` made it, the copy has a source, and writes the object
where it lies as soon as another put has made the directory again:

1. a complete, in `put_path` for `h`, has made the directory; a gc's delete empties
   it of another hash and removes it; the rename fails;
2. another `put` or `put_path` of `h` makes it again, renames into place and answers;
3. `copyfile` truncates that object. A reader gets part of it; on a full disk or a
   crash it stays cut short, and `put` finds it there (`storage.py:64`) and never
   writes it again.

This is one server, with one gc that overlaps one complete.

**Specifications.**

- `ServerSpec` is one server: `put` is only called from its event loop, so one at a
  time, everything else from threads. It has no run: with it TLC refutes
  `ReadsAreWhole` and `AnsweredIsStored` within 22 states, by the scenario above.
- `ApartSpec` is `ServerSpec` without a delete and a `put_path` under way at once, that
  is with gc kept apart from completes. `CopiesNothing` says that then the rename
  fails for want of the source only. The steps of the copy are therefore not in
  `ApartNext`; `CopyNeverHappens` proves that adding them adds nothing.
- `SharedSpec` adds a second process, as `clawfs write` is, which has the same
  default root as the server, and has the copy.

**Abstractions.** The bytes are partial or whole, not counted. Opening and reading
an object is one step. Scratch area and objects are on one file system (they lie under
the same root, `api.py:45-49`), so `ENOENT` is the only error of a rename. A
`merged.bin` has the content of the hash it is passed with: completes that merge over
one another are `Multipart`'s subject. `RaisesOnlyDisturbed` speaks of `put`.

### CloudStorage

**State.** `backend` (which of the three classes), `bucket` (hashes with an object),
`calls` under way, and `kept` as above. `failed` and `raced` of a call are history.

**Actions.** `PutPathReads` (the base class reads the file and calls `put`),
`PutExists`/`PutExistsFails`, `PutUpload`, `PutRefused` (Azure, told not to
overwrite), `PutUploadFails` (with or without the object stored), `PutRaises`;
`Get`, `GetFails`, `GetReturns`; `Delete` (swallows every error),
`DeleteReturns`; `Crash`.

**Abstractions.** The service is external: it carries a request out in one step,
and reads see what has been written. A request that has been given up is not
carried out later. What an SDK retries by itself is part of the request. That the `open` of
`put_path`'s source fails (`storage.py:42`), an abort having removed it, is left out:
the call raises before any request.

## Who a request acts for: Auth

**State.** `env` and `require_read` are the server's environment, `tokens` the
token lists of the Tenant rows, `request` the requests under way, `upload` the
tenant and state of each Upload row. History: `given`, the tokens the operator last
gave each tenant, and `origin`, what an upload's creator presented.

**Actions.** `Arrive`; `RequireAuth` (writes and uploads) or `MaybeAuth` (reads);
`ResolveTenant`, a second lookup in the Tenant rows, of reads, writes and
`upload_create`, whose row is then made by `CreateUpload`. Parts, aborts and completes
never look the token up again: `OpenUpload` is their session on the Upload row, which
an abort deletes, and `Merged` the one in which `complete` reads the row's tenant,
having merged the parts; `Complete` writes the receipt. `Finish` ends any other
request, or one that fails. `AbortedByAnother` is an abort that comes between.
`UpsertTenant` and `DeleteTenant` are the operator's, one command at a time, from
another process; `Restart` ends every request and takes a new environment.

A request carries as history the owners its token had at some time since it came
(`ever`) and all the time (`always`), until it acts; the properties compare the
tenant it acts for with these, or, if it is on an upload, with those of the request
that created the upload. A token rotated between the two lookups does act as
`default`, and `HeldThroughout` says for whom that cannot happen: whoever holds the
token all along. So does a complete whose upload is aborted while it merges.
`_maybe_auth` drops the word `Bearer` when reads need a token, so those resolve to
`default`, which the properties name as an exception.

## Opening a database: Migration

**State.** `schema` (tables, and the two columns 0.2.x lacks), `ref` (the stored path
of each row, with the tenant and name it was written under), where each process is,
the number of `deaths`, and `disturbed`.

**Actions.** `Start` (create_all looks for the tables), `CreateTable`, `InspectBlob`,
`InspectRef`, `AlterTable`, `Rewrite`, then `PutRef` and `Exit`; `Dies` anywhere. A
CREATE or ALTER of what another process has made by now raises, and the process
goes down. SQLite's driver opens a transaction at the UPDATE only, so every DDL
statement is committed by itself.

`disturbed` is set when a process that added `ref.tenant_id` goes down before its
`Rewrite`, or another serves before it. Refs are then left, for good in the first
case, where nobody looks for them (see [below](#where-code-and-documents-disagree)),
and `RefsResolve` claims nothing. It also leaves out legacy paths that begin with
`default/` in some spelling of case, which LIKE takes for moved ones.

**Abstractions.** Rows have no columns but the path and what a property needs of
it. Shares are left out. `PutRef` stands for every session that writes a ref.

## Runs, bounds and fairness

| run | specification | instance | what it shows |
|---|---|---|---|
| `accounts` | `Spec` of `ClawFS` | 1 tenant, 2 paths, contents of 1 and 2 bytes, quotas of 2 bytes / 1 object set at any time, 2 writers, links ≤ 3 | `TypeOK`, `RefcountNeverOver`, `LinkCoversRefs`, `UsageNeverOver`, `QuotaGate` |
| `quiet` | `QuietSpec` | 2 tenants, 1 path each, 2 contents, 1 token, 2 writers, links ≤ 2 | `RefcountExact`, `NoDangling`, refinement `FSSpec` |
| `turns` | `TurnsSpec` of `Sessions` | 1 tenant with a quota of 2 or 3 bytes, 2 paths, contents of 1 and 2 bytes, 1 token, 1 writer, 2 threads, links ≤ 2 | `UsageExact`, `NoFreeStorage`, refinement `AtomicSessions` |
| `free` | `QuietGcSpec` of `Sessions` | 2 tenants, 1 content | `NeverFreed` violated |
| `one_call` | `OneCallSpec` of `Multipart` | 2 uploads of 2 parts and 1 part that may come to the same content, 2 threads of `complete` | `TypeOK`, `ContentMatchesHash`, `ReceiptIsStored`, `ReceiptIsWhole`, `AckedPartsKept` |
| `retried_complete` | `Spec` of `Multipart` | 1 upload of 1 part, 2 threads | `SettledContent` violated |
| `local_server` | `ApartSpec` of `LocalStorage` | 2 hashes of one shard, 2 uploads, 3 calls at a time | `TypeOK`, `ReadsAreWhole`, `AnsweredIsStored`, `RaisesOnlyDisturbed`, `CopiesNothing`, refinement `StoreSpec` |
| `local_shared` | `SharedSpec` of `LocalStorage` | 1 hash, 1 upload, 2 processes | `SettledWhole` violated |
| `services` | `Spec` of `CloudStorage` | 3 backends, 2 hashes, 3 calls at a time | `RaisesOnlyFailed`, `MissingIsNotKept`, refinement `StoreSpec` |
| `upgrade` | `Spec` of `Migration` | a server and a command line, 2 deaths, 4 legacy refs | `ServesComplete`, `RefsResolve`, `EventuallyServes` |
| `rotation` | `Spec` of `Auth` | 2 tenants, 2 tokens, 1 request, 1 upload | `RevokedStaysOut`, `ActsForOwner`, `HeldThroughout` |
| `gc_race` | `AnyTimeSpec` of `ClawFS` | 1 tenant, 1 path | `GcSafeAnyTime` violated |

*Bounds.* `MaxLink` caps the puts a tenant may count on one content, in the
guards of `PutBlob` and `UploadBlob` and in `Countable` of `Sessions`; `put_ref`'s own second session is not
capped and may go past it. Link counts only matter as zero, one and more than
one (`LinkInc` and `LinkDec` look at nothing else), so 2 suffices for one path a
tenant and 3 for two. Two tenants over the same contents are what one tenant's
count can wrong another with (`quiet`); two contents are an old and a new one for
overwriting; two paths are two refs of one tenant to one content; two writers are
the server and a command line in the gap of each other's `put_ref`. Sizes 1 and 2
against a quota of 2 let either content in and not both. In `Multipart`,
`MaxPart` bounds the part numbers and `Sends` the bodies a client may send; two
parts give `complete` an order and a middle, and the second upload reaches the
content of the first upload's first part by itself, so the two can meet at one
object. One coroutine of `write_part` suffices there because a client has one
call on an upload at a time and parts of different uploads share no file.
In `LocalStorage` two hashes are the one that is stored and the one whose delete
empties their directory, three calls a put, two put_paths or deletes and a get at
once, and two uploads one whose source is gone and one whose is not.
In `Sessions` three callers are a `put_ref` and two threads, two paths and two
contents let calls that need not take turns overlap; a second tenant adds little,
for two tenants meet in a Blob row only, where `Clash` has them take turns. A quota of
2 bytes refuses the second of the two contents, also a put that overlaps the delete
that would make room for it; one of 3 admits both. In
`CloudStorage` three callers are two puts that race and a get or delete of the
same hash. Requests of `Auth` affect one another by aborts only, which `AbortedByAnother` adds,
so one suffices; either of the two tenants, `default` and a named one, may hold,
take over and lose either token, and so create an upload that the other's token
completes. In
`Migration`, two processes are the one that migrates and the one that comes
between, and two deaths cut off the upgrade and the start after it; the legacy
refs are a plain path, one under another tenant's name, and `default/` in two
spellings, one of which the rewrite of the plain path collides with.
Writers, threads, coroutines, requests, tokens, uploads, named tenants and the hashes
of a store are interchangeable (`MCSymmetry`); the run that checks liveness, `upgrade`,
uses no symmetry. Deadlock is checked in every run.

*Fairness.* Hardly anything in the program schedules work by itself: gc runs when
somebody calls it, a half-done `put_ref` or upload is never resumed, and scratch
directories are never swept, so nothing is assumed of them and `FSSpec` and
`StoreSpec` are safety specifications. The exception is the start of the server.
Its container is restarted whenever it goes down (`restart: unless-stopped`,
`scripts/clawfs-up.sh:110`), and a start runs through `make_engine` without
waiting for anyone: `Migration` has `WF_vars(Opens(Server))`. Command lines get no
fairness. `MaxDeaths` bounds how often processes are killed, for a server that is
killed at every start serves nobody.

## Proofs

For all sets of tenants, paths, contents and writers that are finite
(`FiniteWorld`), any sizes and quotas in `Nat` (`SizesAreNat`, `QuotasAreNat`),
any sets of callers, hashes, requests, tokens and processes, any legacy paths
that are not empty (`PathsAssumption`), any sets of uploads and chunks, number of
parts (`MaxPartIsPos`) and bodies sent (`SendsBodies`), and with absent rows, files
and calls distinct from those there are (`NoneIsNothing`, `MarkersMarkNothing`,
`NoTokenApart`, `EnvApart`):

| theorem | of | states |
|---|---|---|
| `TypeCorrect` | `Spec` | `TypeOK`: with the decrements clamped, every count stays a natural number |
| `RefcountNeverOverCorrect` | `Spec` | `RefcountNeverOver` |
| `LinkCoversRefsCorrect` | `Spec` | `LinkCoversRefs` |
| `QuotaGateCorrect` | `Spec` | `QuotaGate` |
| `UsageNeverOverCorrect` | `Spec` | `UsageNeverOver` |
| `UsageExactCorrect` | `ProvisionedSpec` | `UsageExact` |
| `NoFreeStorageCorrect` | `ProvisionedSpec` | `NoFreeStorage` |
| `RefcountExactCorrect` | `QuietSpec` | `RefcountExact` |
| `NoDanglingCorrect` | `QuietSpec` | `NoDangling` |
| `ImplementsFileSystem` | `QuietSpec` | `FSSpec` |
| `TypeOKCorrect` | `Spec` of `Multipart` | `TypeOK` |
| `ReceiptIsStoredCorrect` | `Spec` of `Multipart` | `ReceiptIsStored` |
| `OneCallCorrect` | `OneCallSpec` | `OneCall`: no two calls meet on one upload, and every row fits its files and calls |
| `ContentMatchesHashCorrect` | `OneCallSpec` | `ContentMatchesHash` |
| `AckedPartsKeptCorrect` | `OneCallSpec` | `AckedPartsKept` |
| `ReceiptIsWholeCorrect` | `OneCallSpec` | `ReceiptIsWhole` |
| `KeptIsStoredCorrect` | `ObjectStore` | `KeptIsStored` |
| `TypeOKCorrect` | `ApartSpec` | `TypeOK` of `LocalStorage` |
| `ReadsAreWholeCorrect` | `ApartSpec` | `ReadsAreWhole` |
| `LocalIsObjectStore` | `ApartSpec` | `StoreSpec` |
| `AnsweredIsStoredCorrect` | `ApartSpec` | `AnsweredIsStored` |
| `RaisesOnlyDisturbedCorrect` | `ApartSpec` | `RaisesOnlyDisturbed` |
| `CopiesNothingCorrect` | `ApartSpec` | `CopiesNothing` |
| `CopyNeverHappens` | `ApartSpec` with `CopyInPlace` | that it is no more than `ApartSpec` |
| `CloudIsObjectStore` | `Spec` of `CloudStorage` | `StoreSpec` |
| `RaisesOnlyFailedCorrect` | `Spec` of `CloudStorage` | `RaisesOnlyFailed` |
| `MissingIsNotKeptCorrect` | `Spec` of `CloudStorage` | `MissingIsNotKept` |
| `RevokedStaysOutCorrect` | `Spec` of `Auth` | `RevokedStaysOut` |
| `ActsForOwnerCorrect` | `Spec` of `Auth` | `ActsForOwner` |
| `HeldThroughoutCorrect` | `Spec` of `Auth` | `HeldThroughout` |
| `ServesCompleteCorrect` | `Spec` of `Migration` | `ServesComplete` |
| `RefsResolveCorrect` | `Spec` of `Migration` | `RefsResolve` |

*Core.* Every proof goes by one case per action (`NextCases`). `RefcountNeverOver` and
`LinkCoversRefs` are inductive with `TypeOK`; the arguments are in the counting
lemmas: `RebindCount` and `RebindTenantCount` (what binding or unbinding one path
does to the number of refs of each content), `PutBegins` and `PutEnds` (and to
the calls in flight), `BumpValue`, `LinkIncValue`, `LinkDecValue` (what the
helpers do to the tables). `Rebinds` abstracts the binding of `put_ref` and of
`complete`, so that both are proved once (`CountsRebind`, `ExactRebind`).

`QuotaGate` is an action property: `GateStep` shows that the only steps that raise
a usage have just passed `WithinQuota`, and that `put_ref`'s second session,
which charges without asking, never needs to – `LinkCoversRefs` says the call in
flight already holds a link, so the charge was made by its first session. That is
why the theorem rests on that invariant.

The usage theorems are about sums: `Bytes(S)` is the size of all contents of `S`,
which `MapThenSumSet` computes by recursion over the set. What that recursion
yields is proved without an induction over data. If for sets of some size no
function computed such sums, there would be a least size (`LeastNumber`, from the
well-foundedness of the naturals), and the function for the size before it gives
one (`SmallSums`, `AllSums`); what a sum is then goes by a minimal set of which it
would be wrong (`MinimalSubset`). `BytesAdd` and `BytesRemove` say what a content more or
less is to a sum, and `LinkIncCharge` and `LinkDecCharge` that a charge changes by
just that when a link comes or goes. `UsageNeverOver` and, without `DeleteTenant`,
`UsageExact` are then inductive with `TypeOK`; `Spec` keeps only the inequality
because a tenant created anew over links of its predecessor starts at 0 and its
decrements stop there (`UpsertCharge`, `DecKeepsUsage`). `NoFreeStorage` follows
from `UsageExact` and `LinkCoversRefs`: a content with a ref has a link
(`BytesMonotone`).

`NoDangling` is not inductive: a gc must not take a blob a ref names, so the counts
have to be exact, and a `put_ref` in flight must find the row and the object its
first session left. `QuietInv` says the three together – `RefcountExact`, every
bound content in the store, and for every call in flight row and object – and
gc, which takes only rows at 0, then takes none that a ref names (`QuietGc`). With
`QuietInv` a path reads what it is bound to (`ViewIsRef`), and each step is a step of
`FileSystem` or leaves its variables alone (`ViewStep`). A token that shows nothing
has expired there, for no token outlives its ref (`ShareHasRef`, a lemma of `Spec`).

*Uploads.* Of any client, `TypeInv` holds: the types, that the file of a linked
part is there (`LinksOK`), and that a handle leads to a file that is there, and
what has been copied is no longer than the parts passed (`CallsOK`), without which
a copy could run past the longest file. On top of it `StoreInv` says that what a
`complete` is about to commit is in the store. No step takes a file out of the
store (`ObjectsStay`), so it is there when the Blob row comes, and
`ReceiptIsStored` follows, retries and aborts in the middle included. What may be
in that file is another matter: a retry may write into it (`retried_complete`).

The other three are of `OneCallSpec`, and rest on `OneCall`: calls on one upload do
not meet (`Alone`), and what row, files and history of an upload may be together
(`RowsFit`). Under `Alone` the moving of other callers' handles comes to nothing, and
`CompleteAlone` turns each step of `complete` into one that concerns its own call,
files and row only (`GivesUp`, `Lists`, `Opens`, `Copies`, `Refuses`, `Stores`,
`Commits`, `Unlinks`, `Ends`). Three invariants build on it:

- `HandleInv`: a `complete` that copies has in `merged.bin` what it has hashed, or an
  abort has unlinked the file, and then nothing can be renamed; no handle is open
  on an object. Hence `ContentMatchesHash`.
- `PartInv`: of a part whose file may still change the client knows nothing yet,
  and only a completed, refused or aborted upload loses parts. Hence
  `AckedPartsKept`.
- `WholeInv`: what a `complete` has copied is what the client knows accepted up to
  some number, and the rest is what it has left. Its step needs `AckedPartsKept`
  (what is read is what was answered), and that the numbers between two listed
  parts add nothing (`UpToGap`). Hence `ReceiptIsWhole`. That `Whole`'s recursion
  over part numbers defines anything (`UpToDef`) is again proved by looking at the
  least number where it would not.

*Stores.* `CopiesNothing` needs `CopyInv`: with no delete about, the directory stays
from `put_path`'s mkdir to its rename, and a source once gone is not merged again
while a call has it. `ReadsAreWhole` needs `PutInv`: since there is one put at a time,
what it has written is whole until it renames it, and no handle leads into an object
or a source (`NoneMoved`). With `PutInv` each file operation is a step of `ObjectStore` or
leaves its variables alone (`StoreNext`), and so is each request of `CloudStorage`.
`KeptIsStored` is proved of `ObjectStore` once – a hash somebody is deleting is not
counted on (`KeptInv`) – and carried to both through the refinement
(`Promise == INSTANCE ObjectStoreProofs`): `AnsweredIsStored` and
`MissingIsNotKept` follow. `DirInv` says that files lie in the shard directory and
that a call which finds its directory gone has been shown its removal; `CloudInv`
that a put finds an object it had not found only if another stored it since.

*Auth.* `AuthInv` says of each request that `ever` and `always` bracket the owners
its token has now (`Brackets`), that it was let in for a reason (`LetIn`), that
it still presents the token it came with, but for reads that dropped it
(`Presents`), and what it was resolved to (`Stands`); and of each Upload row that its
tenant is one its creator was resolved to (`Inherits`). `RowsKeep` is what other
requests may rely on when a row changes. `GivesStep` is the case an operator's
command comes between two lookups.

*Migration.* `SchemaInv` says what each process may rely on at its step: what it has
not noted as missing is there, since nothing is taken away (`Knows`); and that the
Blob column comes before the Ref column (`BlobFirst`), on which it rests that
whoever is to move the refs is the one that added the last column. `RefInv` builds
on it: one process at most has refs to move; until it has moved them, undisturbed,
nobody serves and every ref is a legacy one; afterwards every ref resolves.

Every safety invariant and every action property of the passing runs is stated by
a theorem. Only model-checked are `AtomicSessions`, a refinement whose proof would
need an invariant for every statement of every session; `EventuallyServes`, which is
liveness and with `ENABLED` out of the prover's reach; and the violation runs.
The library's induction theorems cannot be used, since no installed prover
instantiates an operator parameter; where something is proved of all finite sets
or all numbers here, it is by a minimal counterexample.

## Where code and documents disagree

Four violation runs state what the repository says and let TLC refute it.
`PROJECT.json`, `findings`, quotes each.

- `free`: "deleting one tenant's ref never frees a blob another tenant still
  references" (`core.py:7-9`), but `_bump` (`core.py:131`) writes back a count read
  before the session has the lock, and loses the count of a ref bound in between.
- `gc_race`: "Safe to run any time" (`docs/site/operations.md:20`), but a gc
  between `put_ref`'s sessions drops the blob the ref is about to name.
- `retried_complete`: bytes read back have the hash answered (`docs/SPEC.md:309`),
  but two completes of one upload write through one `merged.bin`, which may be in
  the store by then.
- `local_shared`: the same promise, but two processes putting one content share
  its `.tmp` file, and the object can stay cut short for good.

Met while modelling, and visible in the models without a run of their own:

- A put that binds nothing new, or an overwrite by `complete`, leaves a link
  nobody releases; `db.py:76-78` says deletes know exactly when to decrement.
- Shares. A token is bound to a path: it shows what the path holds when it is opened
  (`core.py:242-245`) and is revoked when the path is removed (`core.py:122`).
  `docs/SPEC.md` has it otherwise: a share is a snapshot of the hash at its creation
  that later changes of the ref do not affect (196), it lapses by its expiry or its
  number of downloads only (272, which the code does not count), and while it is active
  the blob is kept though its ref is gone (156, 245). `FileSystem` takes neither side:
  `FSSpec` says nothing that would distinguish them.
- "Atomic rename when on the same filesystem" (`storage.py:80`): on one file system too
  the fallback can copy over an object in place, in the scenario given under
  [LocalStorage](#localstorage).
- `upload_part`, `upload_complete` and `upload_abort` accept any good token and act for
  the tenant in the Upload row (`api.py:124-156`, `uploads.py:152`): a complete binds
  that tenant's ref and charges it, whosever token it carries.
  `docs/site/large-files-and-tenants.md:74` says that the token "on each request maps
  directly to the tenant".
- `complete` trusts a Blob row whose object a lost gc has deleted
  (`uploads.py:185`); `docs/site/large-files-and-tenants.md:56` has it persist the
  content.
- A process killed between the ALTER and the UPDATE of `_migrate` leaves the refs
  where they were for good, for the columns are there at the next start;
  `docs/site/large-files-and-tenants.md:78` says "No manual step required".
- `_migrate` does not rewrite `Share.ref_path`: tokens of a 0.2.x database open
  nothing afterwards.
- With `CLAWFS_REQUIRE_AUTH_READ` set, reads accept tokens of the environment only:
  a tenant's token gets a 401, and an environment token reads as `default`
  (`api.py:33-41`), although `docs/site/large-files-and-tenants.md:74` says that
  the token "on each request maps directly to the tenant".
- `clawfs` works on local files whatever `CLAWFS_BACKEND` says (`cli.py:13`).

## Not modelled, and the plan

The plan's modules are written. What could come next:

1. The proof of `AtomicSessions`: what a session of `Sessions` has read is still
   so when it writes, as long as `Clash` keeps the others away, one lemma per
   clause of `Clash`; then each statement of `TurnsSpec` is a step of
   `ProvisionedSpec` or leaves its variables alone.
2. **Replicas** – instances of the core with a database each over one object
   store, as `azure/container-app.bicep` allows. There the first gc of a second
   replica deletes what only the first one's tables name, and little is left to
   say.
3. The copy that `put_path` makes when the scratch area is on another filesystem: it
   is then the rule, not the fallback, and every reader of a new object may meet it.

Left out for good: the cloud SDKs and the services (external), the making of
clients and containers, `iter_hashes` (called by nothing), request counters and
`/metrics`, sizes as text, deployment templates beyond the restart policy, the
SDK's other methods, the site, the designs and the tests, which are sequential.
