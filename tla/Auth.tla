-------------------------------- MODULE Auth --------------------------------
(***************************************************************************)
(* Who a request acts for.                                                 *)
(*                                                                         *)
(* A token is good if it is in the server's environment or in a Tenant     *)
(* row.  require_auth (auth.py) looks it up to let a request in, and       *)
(* _resolve_tenant (api.py) looks it up again to find the tenant; between  *)
(* the two an operator, at a command line on the same database, may give   *)
(* the tenant other tokens or delete it.  The environment changes with the *)
(* server's process only.  What is done to an upload is done for the tenant *)
(* in its row, whose creator may have presented another token.             *)
(***************************************************************************)
EXTENDS Naturals, FiniteSets

CONSTANTS
  Tenants, Default,   \* tenants, and the one of requests without a tenant
  Tokens,             \* bearer tokens
  Requests,           \* requests under way at a time
  Uploads,            \* ids of uploads
  Unused, Gone,       \* an id not drawn yet, and one whose row is deleted
  NoToken,            \* a request without an Authorization header
  Env                 \* owner of the tokens in CLAWFS_API_TOKENS

ASSUME DefaultIsTenant == Default \in Tenants
ASSUME NoTokenApart == NoToken \notin Tokens
ASSUME EnvApart == Env \notin Tenants
ASSUME NoRowApart ==
  /\ Unused \notin Uploads /\ Unused # Gone
  /\ {Unused, Gone} \cap [tenant : Tenants, completed : BOOLEAN] = {}

VARIABLES
  env,          \* CLAWFS_API_TOKENS of the running server
  require_read, \* CLAWFS_REQUIRE_AUTH_READ of the running server
  tokens,       \* tokens_csv of every Tenant row; {} if there is none
  request,      \* the requests under way
  upload,       \* the Upload rows
  given,        \* history: the tokens the operator last gave each tenant
  origin        \* history: of an upload, the `ever` of the request that created
                \* it and whether the request's token was some tenant's all along

vars == <<env, require_read, tokens, request, upload, given, origin>>
others == <<env, require_read, tokens, upload, given, origin>>

TenantsWith(rows, token) == {t \in Tenants : token \in rows[t]}
Owners(rows, token) == TenantsWith(rows, token)
                         \cup (IF token \in env THEN {Env} ELSE {})

(* put_blob, put_ref, delete_ref, create_share, gc and usage are "write",   *)
(* upload_create is "create", get_ref and list_refs are "read".  The others *)
(* name an upload `on`.                                                     *)
OwnKinds    == {"write", "create", "read"}
UploadKinds == {"part", "complete", "abort"}

(* `ever` and `always` are history: who was meant to own the token at some *)
(* time, and all the time, from when the request came in until it acts.    *)
Arrived(kind, on, token) ==
  [kind |-> kind, on |-> on, token |-> token, bearer |-> token,
   step |-> "auth", acts |-> Default,
   ever |-> Owners(given, token), always |-> Owners(given, token)]

NoRequest == [kind |-> "none"]

At(r, step) == request[r] # NoRequest /\ request[r].step = step
Acting(r)   == At(r, "acts")

(* ------------------------------------------------------------------------ *)
(* A request                                                                *)
(* ------------------------------------------------------------------------ *)
Init ==
  /\ env \in SUBSET Tokens
  /\ require_read \in BOOLEAN
  /\ tokens = [t \in Tenants |-> {}]
  /\ request = [r \in Requests |-> NoRequest]
  /\ upload = [u \in Uploads |-> Unused]
  /\ given = [t \in Tenants |-> {}]
  /\ origin = [u \in Uploads |-> Unused]

Arrive(r, kind, on, token) ==
  /\ request[r] = NoRequest
  /\ request' = [request EXCEPT ![r] = Arrived(kind, on, token)]
  /\ UNCHANGED others

Goto(r, step) == request' = [request EXCEPT ![r].step = step]
Ends(r)       == request' = [request EXCEPT ![r] = NoRequest]
ActsFor(r, t) == request' = [request EXCEPT ![r].acts = t, ![r].step = "acts"]

(* The first Tenant row that has the token answers. *)
TenantForToken(token) == TenantsWith(tokens, token)

IsValid(token) == token \in env \/ TenantForToken(token) # {}

RequireAuth(r) ==
  /\ At(r, "auth")
  /\ request[r].kind # "read"
  /\ IF ~IsValid(request[r].token) THEN Ends(r)
     ELSE Goto(r, IF request[r].kind \in UploadKinds THEN "opens"
                                                    ELSE "resolve")
  /\ UNCHANGED others

(* If reads need a token it has to be one of the environment's, and is      *)
(* handed on without the word Bearer, which _resolve_tenant looks for.      *)
MaybeAuth(r) ==
  /\ At(r, "auth")
  /\ request[r].kind = "read"
  /\ IF ~require_read THEN Goto(r, "resolve")
     ELSE IF request[r].token \notin env THEN Ends(r)
     ELSE request' = [request EXCEPT ![r].bearer = NoToken,
                                     ![r].step = "resolve"]
  /\ UNCHANGED others

(* FAULT: a token of the environment goes first *)
FoundUnlessEnv(token) == IF token \in env THEN {} ELSE TenantForToken(token)

Found(token) == TenantForToken(token)

(* FAULT: falls back on any tenant there is *)
ResolveTenantAny(r) ==
  LET found == Found(request[r].bearer) IN
  /\ At(r, "resolve")
  /\ \E t \in IF found = {} THEN Tenants ELSE found : ActsFor(r, t)
  /\ UNCHANGED others

ResolveTenant(r) ==
  LET found == Found(request[r].bearer) IN
  /\ At(r, "resolve")
  /\ \E t \in IF found = {} THEN {Default} ELSE found : ActsFor(r, t)
  /\ UNCHANGED others

HasRow(u) == upload[u] \notin {Unused, Gone}

(* The token is not looked at again: a part is written and an upload        *)
(* aborted for the tenant in the row.  complete looks at the row a second   *)
(* time when it has merged the parts.                                       *)
OpenUpload(r) ==
  LET u == request[r].on IN
  /\ At(r, "opens")
  /\ IF \/ ~HasRow(u)
        \/ upload[u].completed /\ request[r].kind # "abort"
     THEN Ends(r)
     ELSE IF request[r].kind = "complete" THEN Goto(r, "merges")
     ELSE ActsFor(r, upload[u].tenant)
  /\ upload' = IF HasRow(u) /\ request[r].kind = "abort"
               THEN [upload EXCEPT ![u] = Gone] ELSE upload
  /\ UNCHANGED <<env, require_read, tokens, given, origin>>

(* complete's second session.  An upload aborted since is the default       *)
(* tenant's.                                                                *)
Merged(r) ==
  LET u == request[r].on IN
  /\ At(r, "merges")
  /\ ActsFor(r, IF HasRow(u) THEN upload[u].tenant ELSE Default)
  /\ UNCHANGED others

(* The handler runs for the tenant found, or fails, and the request is over. *)
Finish(r) ==
  /\ At(r, "merges") \/ At(r, "acts")
  /\ Ends(r)
  /\ UNCHANGED others

(* upload_create has a row in the tenant's name. *)
HasCreated(r, u, t) ==
  /\ At(r, "acts")
  /\ request[r].kind = "create"
  /\ upload[u] = Unused
  /\ upload' = [upload EXCEPT ![u] = [tenant |-> t, completed |-> FALSE]]
  /\ origin' = [origin EXCEPT ![u] =
        [ever |-> request[r].ever, held |-> request[r].always \ {Env} # {}]]
  /\ Ends(r)
  /\ UNCHANGED <<env, require_read, tokens, given>>

(* FAULT: without the tenant_id, for which create has a default *)
CreateForDefault(r, u) == HasCreated(r, u, Default)

CreateUpload(r, u) == HasCreated(r, u, request[r].acts)

(* The receipt, if the row is there to hold it. *)
Complete(r) ==
  LET u == request[r].on IN
  /\ At(r, "acts")
  /\ request[r].kind = "complete"
  /\ upload' = IF HasRow(u) THEN [upload EXCEPT ![u].completed = TRUE]
                            ELSE upload
  /\ Ends(r)
  /\ UNCHANGED <<env, require_read, tokens, given, origin>>

(* Another request's abort, of which only the session is of interest. *)
AbortedByAnother(u) ==
  /\ HasRow(u)
  /\ upload' = [upload EXCEPT ![u] = Gone]
  /\ UNCHANGED <<env, require_read, tokens, request, given, origin>>

(* ------------------------------------------------------------------------ *)
(* The operator                                                             *)
(* ------------------------------------------------------------------------ *)
Witness(rows) == [r \in Requests |->
  LET x == request[r] IN
  IF x = NoRequest \/ Acting(r) THEN x
  ELSE [x EXCEPT !.ever = x.ever \cup Owners(rows, x.token),
                 !.always = x.always \cap Owners(rows, x.token)]]

(* FAULT: the old tokens stay in the list *)
AddTokens(t, toks) == tokens' = [tokens EXCEPT ![t] = @ \cup toks]

(* `tenant create`, `tenant rotate-token` and a program that provisions:    *)
(* the new list replaces the old one.                                       *)
SetTokens(t, toks) == tokens' = [tokens EXCEPT ![t] = toks]

Gives(t, toks) ==
  /\ given' = [given EXCEPT ![t] = toks]
  /\ request' = Witness(given')
  /\ UNCHANGED <<env, require_read, upload, origin>>

UpsertTenant(t, toks) == SetTokens(t, toks) /\ Gives(t, toks)

DeleteTenant(t) == /\ tokens' = [tokens EXCEPT ![t] = {}]
                   /\ Gives(t, {})

(* Requests end with the process; rows stay. *)
Restart ==
  /\ env' \in SUBSET Tokens
  /\ require_read' \in BOOLEAN
  /\ request' = [r \in Requests |-> NoRequest]
  /\ UNCHANGED <<tokens, upload, given, origin>>

Next ==
  \/ \E r \in Requests :
       \/ \E token \in Tokens \cup {NoToken} :
             \/ \E kind \in OwnKinds : Arrive(r, kind, Unused, token)
             \/ \E kind \in UploadKinds, u \in Uploads : Arrive(r, kind, u, token)
       \/ RequireAuth(r) \/ MaybeAuth(r) \/ ResolveTenant(r)
       \/ OpenUpload(r) \/ Merged(r) \/ Finish(r) \/ Complete(r)
       \/ \E u \in Uploads : CreateUpload(r, u)
  \/ \E t \in Tenants :
       \/ \E toks \in (SUBSET Tokens) \ {{}} : UpsertTenant(t, toks)
       \/ DeleteTenant(t)
  \/ \E u \in Uploads : AbortedByAnother(u)
  \/ Restart

Spec == Init /\ [][Next]_vars

(* ------------------------------------------------------------------------ *)
(* Properties                                                               *)
(* ------------------------------------------------------------------------ *)
(* A token taken from a tenant, or from the environment, lets nobody in who *)
(* comes after: what a write or an upload presents was good at some time    *)
(* since it came in, and so was what a read presents if reads need one.     *)
RevokedStaysOut ==
  \A r \in Requests : Acting(r) /\ (request[r].kind = "read" => require_read)
                        => request[r].ever # {}

(* Tenants act for themselves, but for uploads: a request acts in a tenant's *)
(* name only with a token that was the tenant's at some time since it came   *)
(* in, and a request on an upload, with whatever good token, only if the     *)
(* request that created the upload had such a token.                         *)
ActsForOwner ==
  \A r \in Requests :
    Acting(r) /\ request[r].acts # Default
      => request[r].acts \in IF request[r].kind \in UploadKinds
                             THEN origin[request[r].on].ever ELSE request[r].ever

(* "the bearer token on each request maps directly to the tenant": with a  *)
(* token that some tenant holds all along a request acts for a tenant that  *)
(* holds it, not for `default`, in whose name gc goes through everything.   *)
(* Not so for reads when reads need a token.  And what a tenant began with  *)
(* such a token is completed in its name, unless aborted meanwhile.         *)
HeldThroughout ==
  \A r \in Requests : Acting(r) =>
    /\ /\ \/ request[r].kind \in {"write", "create"}
          \/ request[r].kind = "read" /\ ~require_read
       /\ request[r].always \ {Env} # {}
       => request[r].acts \in request[r].ever
    /\ /\ request[r].kind = "complete"
       /\ HasRow(request[r].on)
       /\ origin[request[r].on].held
       => request[r].acts \in origin[request[r].on].ever
=============================================================================
