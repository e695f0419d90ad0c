------------------------------ MODULE Sessions ------------------------------
(***************************************************************************)
(* The sessions of ClawFS and of UploadManager.complete, statement by      *)
(* statement, over one SQLite database.                                    *)
(*                                                                         *)
(* A SELECT outside a transaction holds no lock, so what a session reads   *)
(* before its first write may be stale when it writes.  The first write is *)
(* sent by the autoflush before the next SELECT, or by the commit.  From   *)
(* then on the session holds the write lock: nobody else writes and nobody *)
(* sees what it has written, so all of it up to the commit is one step.    *)
(* SELECTs a helper makes one after the other are one step too.            *)
(*                                                                         *)
(* An UPDATE sets the values the session has worked out.  It raises if its *)
(* row is gone, an INSERT if its row is there; a DELETE does not mind.     *)
(***************************************************************************)
EXTENDS ClawFS

CONSTANT Threads          \* callers of all but put_blob and put_ref: the
                          \* server's thread pool and command lines
VARIABLE call             \* the call each caller is in

allVars == <<vars, call>>
Callers == Writers \cup Threads

ASSUME ThreadsApart == Writers \cap Threads = {}

(* `row`, `old` and `acc` are what a session keeps of a Blob row, of a Ref *)
(* row and of its tenant's link and Tenant row.                            *)
NewCall(op, step, t, p, h) ==
  [op |-> op, step |-> step, tenant |-> t, path |-> p, hash |-> h,
   row |-> None, old |-> None, acc |-> None]

At(c, op, step) == call[c] # None /\ call[c].op = op /\ call[c].step = step
Goto(c, step)   == call' = [call EXCEPT ![c].step = step]
Return(c)       == call' = [call EXCEPT ![c] = None]
KeyOf(x)        == StoredPath(x.tenant, x.path)
LinkOf(x)       == <<x.tenant, x.hash>>

(* The tables with the link and the Tenant row as the session has them *)
Seen(x) == [link |-> [link EXCEPT ![LinkOf(x)] = x.acc.link],
            tenant |-> [tenant EXCEPT ![x.tenant] = x.acc.tenant]]
Read(x) == [link |-> link[LinkOf(x)], tenant |-> tenant[x.tenant]]

(* The accounts one reference more: from the rows as they are if the session *)
(* has written before it reads them (`acc` is None), or from those it has.   *)
Counted(x) ==
  IF x.acc = None THEN LinkInc(Accounts, x.tenant, x.hash)
  ELSE [link |-> LinkInc(Seen(x), x.tenant, x.hash).link,
        tenant |-> IF x.acc.link > 0 THEN tenant
                   ELSE LinkInc(Seen(x), x.tenant, x.hash).tenant]

(* The link is where the session takes it to be, and below the bound. *)
Countable(x) ==
  /\ link[LinkOf(x)] < MaxLink
  /\ x.acc # None => (x.acc.link > 0) = (link[LinkOf(x)] > 0)

(* ------------------------------------------------------------------------ *)
(* put_blob                                                                 *)
(* ------------------------------------------------------------------------ *)
PutQuota(c) ==
  /\ At(c, "put", "quota")
  /\ IF WithinQuota(call[c].tenant, call[c].hash) THEN Goto(c, "blob")
                                                  ELSE Return(c)
  /\ UNCHANGED vars

PutLookup(c) ==
  /\ At(c, "put", "blob")
  /\ call' = [call EXCEPT ![c].row = blob[call[c].hash], ![c].step = "store"]
  /\ UNCHANGED vars

(* FAULT: a known row is taken to mean that the object is there *)
PutStoreNoHeal(c) ==
  /\ At(c, "put", "store")
  /\ objects' = IF call[c].row = None THEN objects \cup {call[c].hash}
                ELSE objects
  /\ Goto(c, IF call[c].row = None THEN "commit" ELSE "count")
  /\ UNCHANGED <<blob, ref, link, tenant, share, putting>>

(* FAULT: the accounts are read before the new row is written *)
PutStoreReadsFirst(c) ==
  /\ At(c, "put", "store")
  /\ objects' = objects \cup {call[c].hash}
  /\ Goto(c, "count")
  /\ UNCHANGED <<blob, ref, link, tenant, share, putting>>

(* The object is stored if the row or the object is missing.  A new row is   *)
(* written before _link_inc reads; a known one leaves nothing to write yet.  *)
PutStore(c) ==
  /\ At(c, "put", "store")
  /\ objects' = objects \cup {call[c].hash}
  /\ Goto(c, IF call[c].row = None THEN "commit" ELSE "count")
  /\ UNCHANGED <<blob, ref, link, tenant, share, putting>>

PutCount(c) ==
  /\ At(c, "put", "count")
  /\ call' = [call EXCEPT ![c].acc = Read(call[c]), ![c].step = "commit"]
  /\ UNCHANGED vars

(* put_ref goes on with its second session. *)
PutCommit(c) ==
  LET x == call[c] IN
  /\ At(c, "put", "commit")
  /\ Countable(x)
  /\ x.row = None => blob[x.hash] = None
  /\ blob' = IF x.row # None THEN blob
             ELSE [blob EXCEPT ![x.hash] = [refcount |-> 0,
                                            tenant_id |-> x.tenant]]
  /\ SetAccounts(Counted(x))
  /\ IF x.path = None
     THEN Return(c) /\ UNCHANGED putting
     ELSE /\ call' = [call EXCEPT ![c] =
                        NewCall("bind", "ref", x.tenant, x.path, x.hash)]
          /\ putting' = [putting EXCEPT ![c] = [tenant |-> x.tenant,
                                                path |-> x.path,
                                                hash |-> x.hash]]
  /\ UNCHANGED <<objects, ref, share>>

(* ------------------------------------------------------------------------ *)
(* put_ref, its second session                                              *)
(* ------------------------------------------------------------------------ *)

(* A path bound to the content already needs no write. *)
BindLookup(c) ==
  LET x == call[c] IN
  /\ At(c, "bind", "ref")
  /\ IF ref[KeyOf(x)] = x.hash
     THEN Return(c) /\ putting' = [putting EXCEPT ![c] = None]
     ELSE /\ call' = [call EXCEPT ![c].old = ref[KeyOf(x)],
                                  ![c].step = "commit"]
          /\ UNCHANGED putting
  /\ UNCHANGED <<objects, blob, ref, link, tenant, share>>

(* The Ref row is written first, then everything else is read. *)
BindCommit(c) ==
  LET x == call[c]
      released == LinkDec(Accounts, x.tenant, x.old)
  IN
  /\ At(c, "bind", "commit")
  /\ (x.old = None) = (ref[KeyOf(x)] = None)
  /\ ref' = [ref EXCEPT ![KeyOf(x)] = x.hash]
  /\ IF x.old = None
     THEN blob' = Bump(blob, x.hash, 1) /\ UNCHANGED <<link, tenant>>
     ELSE /\ blob' = Bump(Bump(blob, x.old, -1), x.hash, 1)
          /\ SetAccounts(IF blob[x.hash] = None THEN released
                         ELSE LinkInc(released, x.tenant, x.hash))
  /\ Return(c)
  /\ putting' = [putting EXCEPT ![c] = None]
  /\ UNCHANGED <<objects, share>>

(* ------------------------------------------------------------------------ *)
(* delete_ref                                                               *)
(* ------------------------------------------------------------------------ *)
DeleteLookup(c) ==
  LET x == call[c] IN
  /\ At(c, "delete", "ref")
  /\ IF ref[KeyOf(x)] = None THEN Return(c)
     ELSE call' = [call EXCEPT ![c].hash = ref[KeyOf(x)], ![c].step = "blob"]
  /\ UNCHANGED vars

(* _bump reads the count.  If there is none to write back, or it is 0 and   *)
(* stays so, _link_dec reads before anything is written.                    *)
DeleteBump(c) ==
  LET row == blob[call[c].hash] IN
  /\ At(c, "delete", "blob")
  /\ call' = [call EXCEPT ![c].row = row,
                ![c].step = IF row = None THEN "link"
                            ELSE IF row.refcount = 0 THEN "link" ELSE "commit"]
  /\ UNCHANGED vars

DeleteLink(c) ==
  /\ At(c, "delete", "link")
  /\ call' = [call EXCEPT ![c].acc = Read(call[c]), ![c].step = "commit"]
  /\ UNCHANGED vars

(* The count is the one read less one.  The Tenant row is read after the    *)
(* first write in either case, and so are the shares.                       *)
DeleteCommit(c) ==
  LET x == call[c] IN
  /\ At(c, "delete", "commit")
  /\ IF x.acc = None
     THEN /\ blob[x.hash] # None
          /\ blob' = [blob EXCEPT ![x.hash].refcount = x.row.refcount - 1]
          /\ SetAccounts(LinkDec(Accounts, x.tenant, x.hash))
     ELSE /\ IF x.acc.link = 0 THEN UNCHANGED <<link, tenant>>
             ELSE /\ link[LinkOf(x)] > 0
                  /\ SetAccounts(LinkDec([Seen(x) EXCEPT !.tenant = tenant],
                                         x.tenant, x.hash))
          /\ UNCHANGED blob
  /\ ref' = [ref EXCEPT ![KeyOf(x)] = None]
  /\ share' = [tok \in Tokens |->
                 IF share[tok] # None /\ share[tok].ref_path = KeyOf(x)
                 THEN None ELSE share[tok]]
  /\ Return(c)
  /\ UNCHANGED <<objects, putting>>

(* ------------------------------------------------------------------------ *)
(* The session of UploadManager.complete                                    *)
(* ------------------------------------------------------------------------ *)

(* It keeps the rows of its quota test to the end. *)
UploadQuota(c) ==
  /\ At(c, "upload", "quota")
  /\ IF WithinQuota(call[c].tenant, call[c].hash)
     THEN call' = [call EXCEPT ![c].acc = Read(call[c]), ![c].step = "blob"]
     ELSE Return(c)
  /\ UNCHANGED vars

UploadLookup(c) ==
  LET row == blob[call[c].hash] IN
  /\ At(c, "upload", "blob")
  /\ call' = [call EXCEPT ![c].row = row,
                          ![c].step = IF row = None THEN "store" ELSE "commit"]
  /\ UNCHANGED vars

UploadStore(c) ==
  /\ At(c, "upload", "store")
  /\ objects' = objects \cup {call[c].hash}
  /\ Goto(c, "commit")
  /\ UNCHANGED <<blob, ref, link, tenant, share, putting>>

(* The Ref row and the Blob row of what it was bound to are read after the  *)
(* first write, the Blob row of the content is the one read before.         *)
UploadCommit(c) ==
  LET x     == call[c]
      k     == KeyOf(x)
      binds == IF x.path = None THEN FALSE ELSE ref[k] # x.hash
      count == (IF x.row = None THEN 0 ELSE x.row.refcount)
               + (IF binds THEN 1 ELSE 0)
      freed == IF ~binds THEN blob
               ELSE IF ref[k] = None THEN blob ELSE Bump(blob, ref[k], -1)
  IN
  /\ At(c, "upload", "commit")
  /\ Countable(x)
  /\ x.row = None => blob[x.hash] = None
  /\ x.row # None /\ binds => blob[x.hash] # None
  /\ blob' = IF x.row = None
             THEN [freed EXCEPT ![x.hash] = [refcount |-> count,
                                             tenant_id |-> x.tenant]]
             ELSE IF binds THEN [freed EXCEPT ![x.hash].refcount = count]
             ELSE blob
  /\ ref' = IF binds THEN [ref EXCEPT ![k] = x.hash] ELSE ref
  /\ SetAccounts(Counted(x))
  /\ Return(c)
  /\ UNCHANGED <<objects, share, putting>>

(* ------------------------------------------------------------------------ *)
(* gc and create_share                                                      *)
(* ------------------------------------------------------------------------ *)
GcCall(scope) == [op |-> "gc", step |-> "list", scope |-> scope,
                  listed |-> {}, left |-> {}]

GcList(c) ==
  /\ At(c, "gc", "list")
  /\ LET found == Unreferenced(call[c].scope)
     IN  IF found = {} THEN Return(c)
         ELSE call' = [call EXCEPT ![c].listed = found, ![c].left = found,
                                   ![c].step = "delete"]
  /\ UNCHANGED vars

(* A remote store's delete swallows its errors. *)
GcDelete(c) ==
  /\ At(c, "gc", "delete")
  /\ \E h \in call[c].left :
        /\ call' = [call EXCEPT ![c].left = @ \ {h}]
        /\ objects' \in {objects, objects \ {h}}
  /\ UNCHANGED <<blob, ref, link, tenant, share, putting>>

(* The rows listed go, whatever has become of their counts. *)
GcCommit(c) ==
  /\ At(c, "gc", "delete")
  /\ call[c].left = {}
  /\ blob' = [h \in Hashes |-> IF h \in call[c].listed THEN None ELSE blob[h]]
  /\ Return(c)
  /\ UNCHANGED <<objects, ref, link, tenant, share, putting>>

ShareLookup(c) ==
  /\ At(c, "share", "ref")
  /\ IF ref[KeyOf(call[c])] = None THEN Return(c) ELSE Goto(c, "commit")
  /\ UNCHANGED vars

ShareCommit(c) ==
  /\ At(c, "share", "commit")
  /\ \E tok \in Tokens :
        /\ share[tok] = None
        /\ share' = [share EXCEPT ![tok] = [ref_path |-> KeyOf(call[c]),
                                            expires |-> "never"]]
  /\ Return(c)
  /\ UNCHANGED <<objects, blob, ref, link, tenant, putting>>

(* ------------------------------------------------------------------------ *)
(* Specifications                                                           *)
(* ------------------------------------------------------------------------ *)
SessionsInit == Init /\ call = [c \in Callers |-> None]

(* A row is not what the session takes it to be, the database stays locked, *)
(* or the caller dies.                                                      *)
Fails(c) ==
  /\ call[c] # None
  /\ Return(c)
  /\ putting' = [w \in Writers |-> IF w = c THEN None ELSE putting[w]]
  /\ UNCHANGED <<objects, blob, ref, link, tenant, share>>

Statement(c) ==
  \/ PutQuota(c) \/ PutLookup(c) \/ PutStore(c) \/ PutCount(c) \/ PutCommit(c)
  \/ BindLookup(c) \/ BindCommit(c)
  \/ DeleteLookup(c) \/ DeleteBump(c) \/ DeleteLink(c) \/ DeleteCommit(c)
  \/ UploadQuota(c) \/ UploadLookup(c) \/ UploadStore(c) \/ UploadCommit(c)
  \/ GcList(c) \/ GcDelete(c) \/ GcCommit(c)
  \/ ShareLookup(c) \/ ShareCommit(c)

(* The event loop runs put_blob and put_ref, one at a time; `clawfs write`  *)
(* is another writer.                                                       *)
Calls(c) ==
  IF c \in Writers
  THEN {NewCall("put", "quota", t, p, h) :
          t \in Tenants, p \in Paths \cup {None}, h \in Hashes}
  ELSE {NewCall("upload", "quota", t, p, h) :
          t \in Tenants, p \in Paths \cup {None}, h \in Hashes}
       \cup {NewCall(op, "ref", t, p, None) :
               op \in {"delete"} \cup IF Tokens = {} THEN {} ELSE {"share"},
               t \in Tenants, p \in Paths}
       \cup {GcCall(scope) : scope \in GcScopes}

Begin(c, x) == /\ call[c] = None
               /\ call' = [call EXCEPT ![c] = x]
               /\ UNCHANGED vars

(* An administrator creates the tenants and sets their quotas before they   *)
(* have put anything, while nothing is under way; ClawFS sets quotas later. *)
Idle == \A c \in Callers : call[c] = None
Provision(t, max_bytes, max_objects) ==
  /\ Idle
  /\ LinksOf(t) = {}
  /\ UpsertTenant(t, max_bytes, max_objects)
  /\ UNCHANGED call

(* What must not overlap if sessions are to be as good as atomic: anything  *)
(* with gc; two sessions on one content or one path; and of one tenant, two *)
(* that charge it, or one that releases a charge with one that goes by a    *)
(* Tenant row read before it writes (a complete, a put of a known content). *)
Charges(x)      == x.op \in {"put", "bind", "upload"}
ChargesStale(x) == \/ x.op = "upload"
                   \/ /\ x.op = "put"
                      /\ blob[x.hash] # None
ContentsOf(x)   == {x.hash, IF x.path = None THEN None ELSE ref[KeyOf(x)]}
                     \ {None}
Clash(x, y) ==
  \/ "gc" \in {x.op, y.op}
  \/ ContentsOf(x) \cap ContentsOf(y) # {}
  \/ x.path # None /\ KeyOf(x) = KeyOf(y)
  \/ /\ x.tenant = y.tenant
     /\ \/ Charges(x) /\ Charges(y)
        \/ ChargesStale(x) /\ y.op = "delete"
        \/ ChargesStale(y) /\ x.op = "delete"

(* put_ref holds nothing between its sessions, where anything may happen. *)
InSession(c) == call[c] # None /\ ~At(c, "bind", "ref")
Turn(c, x) == \A d \in Callers \ {c} : InSession(d) => ~Clash(x, call[d])

TurnsNext ==
  \/ \E c \in Callers :
        \/ /\ At(c, "bind", "ref") => Turn(c, call[c])
           /\ Statement(c)
        \/ Fails(c)
  \/ \E c \in Callers : \E x \in Calls(c) :
        /\ \A t \in Tenants : tenant[t] # None
        /\ Turn(c, x)
        /\ Begin(c, x)
  \/ \E t \in Tenants, mb \in ByteQuotas, mo \in ObjectQuotas :
        Provision(t, mb, mo)
TurnsSpec == SessionsInit /\ [][TurnsNext]_allVars

(* put_ref, delete_ref and gc, none of which fails: only gc waits for the   *)
(* others and is waited for.                                                *)
QuietGcNext ==
  \/ \E c \in Callers : Statement(c)
  \/ \E c \in Callers : \E x \in Calls(c) :
        /\ x.op \in {"put", "delete", "gc"}
        /\ \A d \in Callers : call[d] # None => "gc" \notin {x.op, call[d].op}
        /\ Begin(c, x)
QuietGcSpec == SessionsInit /\ [][QuietGcNext]_allVars

(* ------------------------------------------------------------------------ *)
(* Properties                                                               *)
(* ------------------------------------------------------------------------ *)

(* Calls that take turns as in Clash, and overlap in every other way, have  *)
(* the effects of ClawFS's sessions, each at its commit: no statement in    *)
(* between matters to another call.  This is ProvisionedSpec; most          *)
(* statements change none of its variables, and TLC need not look for them  *)
(* among its steps.                                                         *)
AtomicSessions == Init /\ [][vars' # vars /\ ProvisionedNext]_vars

(* core.py: "deleting one tenant's ref never frees a blob another tenant    *)
(* still references", with a gc that runs by itself.                        *)
NeverFreed == \A k \in Keys : ref[k] # None => ref[k] \in objects
=============================================================================
