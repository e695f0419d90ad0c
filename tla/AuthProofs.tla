----------------------------- MODULE AuthProofs -----------------------------
(***************************************************************************)
(* Theorems about Auth.                                                    *)
(***************************************************************************)
EXTENDS Auth, TLAPS

Bearers == Tokens \cup {NoToken}
Parties == Tenants \cup {Env}
RequestStates ==
  [kind : OwnKinds \cup UploadKinds, on : Uploads \cup {Unused},
   token : Bearers, bearer : Bearers,
   step : {"auth", "resolve", "opens", "merges", "acts"}, acts : Tenants,
   ever : SUBSET Parties, always : SUBSET Parties]

Rows    == [tenant : Tenants, completed : BOOLEAN]
Origins == [ever : SUBSET Parties, held : BOOLEAN]

Typed ==
  /\ env \in SUBSET Tokens
  /\ require_read \in BOOLEAN
  /\ tokens \in [Tenants -> SUBSET Tokens]
  /\ request \in [Requests -> RequestStates \cup {NoRequest}]
  /\ upload \in [Uploads -> Rows \cup {Unused, Gone}]
  /\ origin \in [Uploads -> Origins \cup {Unused}]

(* What is known of one request x: its history brackets what the operator  *)
(* has given out, it has been let in for a reason, and it was resolved from *)
(* the token it presented, unless that was dropped for a read, or from the  *)
(* row of its upload.                                                      *)
Brackets(x) == x.step # "acts" => /\ Owners(given, x.token) \subseteq x.ever
                                  /\ x.always \subseteq Owners(given, x.token)
LetIn(x)    == x.step # "auth" /\ (x.kind = "read" => require_read)
                 => x.ever # {}
Presents(x) == \/ x.bearer = x.token
               \/ x.bearer = NoToken /\ x.kind = "read" /\ require_read
Names(x)    == x.kind \in UploadKinds <=> x.on # Unused
Paths(x)    == /\ x.step = "resolve" => x.kind \in OwnKinds
               /\ x.step \in {"opens", "merges"} => x.kind \in UploadKinds
Asked(x)    == IF x.kind \in UploadKinds THEN origin[x.on].ever ELSE x.ever
Stands(x)   ==
  IF x.step # "acts" THEN x.acts = Default ELSE
  /\ x.acts # Default => x.acts \in Asked(x)
  /\ /\ \/ x.kind \in {"write", "create"}
        \/ x.kind = "read" /\ ~require_read
     /\ x.always \ {Env} # {}
     => x.acts \in x.ever
  /\ x.kind = "complete" /\ HasRow(x.on) /\ origin[x.on].held
     => x.acts \in origin[x.on].ever
Begun(x)    == x.kind \in UploadKinds /\ x.step \in {"merges", "acts"}
                 => upload[x.on] # Unused
Good(x) == /\ Brackets(x) /\ LetIn(x) /\ Presents(x) /\ Names(x)
           /\ Paths(x) /\ Stands(x) /\ Begun(x)

(* A row has the tenant its creator was resolved to. *)
Inherits(u) ==
  HasRow(u) => /\ origin[u] \in Origins
               /\ \/ upload[u].tenant \in origin[u].ever
                  \/ upload[u].tenant = Default /\ ~origin[u].held

AuthInv ==
  /\ Typed
  /\ given = tokens
  /\ \A r \in Requests : request[r] # NoRequest => Good(request[r])
  /\ \A u \in Uploads : Inherits(u)

LEMMA NoRequestApart == NoRequest \notin RequestStates
  BY DEF NoRequest, RequestStates, OwnKinds, UploadKinds

LEMMA AuthInit == Init => AuthInv
  BY DEF Init, AuthInv, Typed, Inherits, HasRow

(* What a step leaves of a request it does not touch: an id once drawn is   *)
(* not drawn again, and its history stays.                                 *)
RowsKeep ==
  \A u \in Uploads : upload[u] # Unused =>
    /\ origin'[u] = origin[u]
    /\ upload'[u] # Unused
    /\ HasRow(u)' => HasRow(u)

LEMMA Untouched ==
  ASSUME AuthInv, RowsKeep, UNCHANGED <<env, require_read, tokens, given>>,
         NEW d \in Requests, request[d] # NoRequest, request'[d] = request[d]
  PROVE  Good(request[d])'
<1>1. request[d] \in RequestStates /\ Good(request[d])
  BY DEF AuthInv, Typed
<1>2. (Brackets(request[d]) /\ LetIn(request[d]) /\ Presents(request[d])
       /\ Names(request[d]) /\ Paths(request[d]))'
  BY <1>1 DEF Good, Brackets, LetIn, Presents, Names, Paths, Owners, TenantsWith
<1>3. CASE request[d].kind \in UploadKinds /\ request[d].step \in {"merges", "acts"}
  <2>1. /\ request[d].on \in Uploads /\ upload[request[d].on] # Unused
    BY <1>1, <1>3 DEF Good, Names, Begun, RequestStates
  <2>2. /\ origin'[request[d].on] = origin[request[d].on]
        /\ upload'[request[d].on] # Unused
        /\ HasRow(request[d].on)' => HasRow(request[d].on)
    BY <2>1 DEF RowsKeep, HasRow
  <2> QED
    BY <1>1, <1>2, <2>1, <2>2 DEF Good, Stands, Asked, Begun, HasRow
<1>4. CASE ~(request[d].kind \in UploadKinds /\ request[d].step \in {"merges", "acts"})
  BY <1>1, <1>2, <1>4 DEF Good, Stands, Asked, Begun, UploadKinds
<1> QED
  BY <1>3, <1>4

(* A step that changes one request only                                    *)
LEMMA OneRequest ==
  ASSUME AuthInv, NEW r \in Requests,
         NEW x \in RequestStates \cup {NoRequest},
         request' = [request EXCEPT ![r] = x],
         x # NoRequest => Good(x),
         UNCHANGED others
  PROVE  AuthInv'
<1>1. Typed' /\ \A u \in Uploads : Inherits(u)'
  BY DEF AuthInv, Typed, others, Inherits, HasRow
<1>2. \A d \in Requests : request'[d] = IF d = r THEN x ELSE request[d]
  BY DEF AuthInv, Typed
<1>3. ASSUME NEW d \in Requests, request'[d] # NoRequest
      PROVE  Good(request'[d])
  BY <1>2, <1>3 DEF AuthInv
<1>4. ASSUME NEW d \in Requests, request'[d] # NoRequest
      PROVE  Good(request[d])'
  BY <1>3, <1>4 DEF Good, Brackets, LetIn, Presents, Names, Paths, Stands, Asked,
                    Begun, Owners, TenantsWith, HasRow, others
<1> QED
  BY <1>1, <1>4 DEF AuthInv, others

(* A step that changes one row, and ends one request at most               *)
LEMMA OneRow ==
  ASSUME AuthInv, NEW u \in Uploads,
         UNCHANGED <<env, require_read, tokens, given>>,
         \A d \in Requests : request'[d] \in {request[d], NoRequest},
         request' \in [Requests -> RequestStates \cup {NoRequest}],
         NEW row \in Rows \cup {Gone}, upload' = [upload EXCEPT ![u] = row],
         NEW from \in Origins, origin' = [origin EXCEPT ![u] = from],
         upload[u] # Unused => from = origin[u] /\ (row # Gone => HasRow(u)),
         row # Gone => \/ row.tenant \in from.ever
                       \/ row.tenant = Default /\ ~from.held
  PROVE  AuthInv'
<1>1. Typed'
  BY DEF AuthInv, Typed
<1>2. \A v \in Uploads : /\ upload'[v] = IF v = u THEN row ELSE upload[v]
                        /\ origin'[v] = IF v = u THEN from ELSE origin[v]
  BY DEF AuthInv, Typed
<1>3. RowsKeep
  BY <1>2, NoRowApart DEF RowsKeep, HasRow, Rows
<1>4. \A v \in Uploads : Inherits(v)'
  BY <1>2 DEF AuthInv, Inherits, HasRow
<1>5. ASSUME NEW d \in Requests, request'[d] # NoRequest
      PROVE  Good(request[d])'
  BY <1>3, <1>5, Untouched
<1> QED
  BY <1>1, <1>4, <1>5 DEF AuthInv

LEMMA ArriveStep ==
  ASSUME AuthInv, NEW r \in Requests, NEW token \in Bearers,
         NEW kind \in OwnKinds \cup UploadKinds, NEW on \in Uploads \cup {Unused},
         kind \in UploadKinds <=> on # Unused,
         Arrive(r, kind, on, token)
  PROVE  AuthInv'
<1> DEFINE x == Arrived(kind, on, token)
<1>1. /\ x.kind = kind /\ x.on = on /\ x.token = token /\ x.bearer = token
      /\ x.step = "auth" /\ x.acts = Default
      /\ x.ever = Owners(given, token) /\ x.always = Owners(given, token)
  BY DEF Arrived
<1>2. Owners(given, token) \subseteq Parties
  BY DEF Owners, TenantsWith, Parties
<1>3. x \in RequestStates
  BY <1>2, DefaultIsTenant DEF Arrived, RequestStates
<1>4. Good(x)
  <2> HIDE DEF x
  <2> QED
    BY <1>1 DEF Good, Brackets, LetIn, Presents, Names, Paths, Stands, Begun
<1>5. request' = [request EXCEPT ![r] = x] /\ UNCHANGED others
  BY DEF Arrive
<1> HIDE DEF x
<1> QED
  BY <1>3, <1>4, <1>5, OneRequest

LEMMA RequireAuthStep ==
  ASSUME AuthInv, NEW r \in Requests, RequireAuth(r)
  PROVE  AuthInv'
<1> DEFINE x == request[r]
           goes(step) == [x EXCEPT !.step = step]
<1>1. /\ x \in RequestStates /\ Good(x) /\ x.step = "auth" /\ x.kind # "read"
      /\ UNCHANGED others
  BY DEF RequireAuth, At, AuthInv, Typed
<1>2. CASE ~IsValid(x.token)
  <2>1. request' = [request EXCEPT ![r] = NoRequest]
    BY <1>2 DEF RequireAuth, Ends
  <2> QED
    BY <1>1, <2>1, OneRequest
<1>3. CASE IsValid(x.token)
  <2>1. x.ever # {}
    BY <1>1, <1>3 DEF Good, Brackets, IsValid, TenantForToken, Owners, AuthInv
  <2>2. PICK step \in {"resolve", "opens"} :
           /\ step = "opens" <=> x.kind \in UploadKinds
           /\ request' = [request EXCEPT ![r] = goes(step)]
    BY <1>3 DEF RequireAuth, Goto
  <2>3. goes(step) \in RequestStates
    BY <1>1 DEF RequestStates
  <2>4. Good(goes(step))
    <3>1. /\ goes(step).kind = x.kind /\ goes(step).token = x.token
          /\ goes(step).on = x.on
          /\ goes(step).bearer = x.bearer /\ goes(step).step = step
          /\ goes(step).acts = x.acts /\ goes(step).ever = x.ever
          /\ goes(step).always = x.always
      BY <1>1 DEF RequestStates
    <3> QED
      BY <1>1, <2>1, <2>2, <3>1
      DEF Good, Brackets, LetIn, Presents, Names, Paths, Stands, Begun,
          RequestStates
  <2> QED
    BY <1>1, <2>2, <2>3, <2>4, OneRequest
<1> QED
  BY <1>2, <1>3

LEMMA MaybeAuthStep ==
  ASSUME AuthInv, NEW r \in Requests, MaybeAuth(r)
  PROVE  AuthInv'
<1> DEFINE x == request[r]
           bare == [x EXCEPT !.bearer = NoToken, !.step = "resolve"]
           goes == [x EXCEPT !.step = "resolve"]
<1>1. /\ x \in RequestStates /\ Good(x) /\ x.step = "auth" /\ x.kind = "read"
      /\ require_read \in BOOLEAN
      /\ UNCHANGED others
  BY DEF MaybeAuth, At, AuthInv, Typed
<1>2. CASE ~require_read
  <2>1. request' = [request EXCEPT ![r] = goes]
    BY <1>2 DEF MaybeAuth, Goto
  <2>2. goes \in RequestStates /\ Good(goes)
    <3>1. /\ goes.kind = x.kind /\ goes.token = x.token
          /\ goes.bearer = x.bearer /\ goes.step = "resolve" /\ goes.on = x.on
          /\ goes.acts = x.acts /\ goes.ever = x.ever /\ goes.always = x.always
          /\ goes \in RequestStates
      BY <1>1 DEF RequestStates
    <3> HIDE DEF goes
    <3> QED
      BY <1>1, <1>2, <3>1
      DEF Good, Brackets, LetIn, Presents, Names, Paths, Stands, Begun,
          OwnKinds, UploadKinds
  <2> QED
    BY <1>1, <2>1, <2>2, OneRequest
<1>3. CASE require_read /\ x.token \notin env
  <2>1. request' = [request EXCEPT ![r] = NoRequest]
    BY <1>3 DEF MaybeAuth, Ends
  <2> QED
    BY <1>1, <2>1, OneRequest
<1>4. CASE require_read /\ x.token \in env
  <2>1. request' = [request EXCEPT ![r] = bare]
    BY <1>4 DEF MaybeAuth
  <2>2. x.ever # {}
    BY <1>1, <1>4 DEF Good, Brackets, Owners
  <2>3. bare \in RequestStates /\ Good(bare)
    <3>1. /\ bare.kind = x.kind /\ bare.token = x.token
          /\ bare.bearer = NoToken /\ bare.step = "resolve" /\ bare.on = x.on
          /\ bare.acts = x.acts /\ bare.ever = x.ever /\ bare.always = x.always
          /\ bare \in RequestStates
      BY <1>1 DEF RequestStates, Bearers
    <3> HIDE DEF bare
    <3> QED
      BY <1>1, <1>4, <2>2, <3>1
      DEF Good, Brackets, LetIn, Presents, Names, Paths, Stands, Begun,
          OwnKinds, UploadKinds
  <2> QED
    BY <1>1, <2>1, <2>3, OneRequest
<1> QED
  BY <1>2, <1>3, <1>4

LEMMA ResolveStep ==
  ASSUME AuthInv, NEW r \in Requests, ResolveTenant(r)
  PROVE  AuthInv'
<1> DEFINE x == request[r]
           found == TenantForToken(x.bearer)
           acts(t) == [x EXCEPT !.acts = t, !.step = "acts"]
<1>1. /\ x \in RequestStates /\ Good(x) /\ x.step = "resolve"
      /\ UNCHANGED others
      /\ tokens \in [Tenants -> SUBSET Tokens] /\ given = tokens
  BY DEF ResolveTenant, At, AuthInv, Typed
<1>2. PICK t \in IF found = {} THEN {Default} ELSE found :
         request' = [request EXCEPT ![r] = acts(t)]
  BY DEF ResolveTenant, Found, ActsFor
<1>3. t \in Tenants /\ (t = Default \/ t \in found) /\ (found # {} => t \in found)
  BY <1>2, DefaultIsTenant DEF TenantForToken, TenantsWith
<1>4. found # {} => x.bearer = x.token
  BY <1>1, NoTokenApart DEF Good, Presents, TenantForToken, TenantsWith
<1>5. t \in found => t \in x.ever
  BY <1>1, <1>4 DEF Good, Brackets, Owners, TenantForToken
<1>6. /\ \/ x.kind \in {"write", "create"}
         \/ x.kind = "read" /\ ~require_read
      /\ x.always \ {Env} # {}
      => found # {}
  BY <1>1 DEF Good, Brackets, Presents, Owners, TenantForToken
<1>7. acts(t) \in RequestStates /\ Good(acts(t))
  <2>1. /\ acts(t).kind = x.kind /\ acts(t).token = x.token
        /\ acts(t).bearer = x.bearer /\ acts(t).step = "acts"
        /\ acts(t).acts = t /\ acts(t).ever = x.ever /\ acts(t).on = x.on
        /\ acts(t).always = x.always /\ acts(t) \in RequestStates
    BY <1>1, <1>3 DEF RequestStates
  <2> HIDE DEF acts, found
  <2> QED
    BY <1>1, <1>3, <1>5, <1>6, <2>1
    DEF Good, Brackets, LetIn, Presents, Names, Paths, Stands, Asked, Begun,
        OwnKinds, UploadKinds
<1> QED
  BY <1>1, <1>2, <1>7, OneRequest

LEMMA FinishStep ==
  ASSUME AuthInv, NEW r \in Requests, Finish(r)
  PROVE  AuthInv'
  BY OneRequest DEF Finish, Ends

(* Of a row there is the history of its creation, and it has not changed. *)
LEMMA RowHistory ==
  ASSUME AuthInv, NEW u \in Uploads, HasRow(u)
  PROVE  /\ upload[u] \in Rows /\ origin[u] \in Origins /\ upload[u] # Unused
         /\ upload[u].tenant # Default => upload[u].tenant \in origin[u].ever
         /\ origin[u].held => upload[u].tenant \in origin[u].ever
  BY DEF AuthInv, Typed, Inherits, HasRow

LEMMA OpenStep ==
  ASSUME AuthInv, NEW r \in Requests, OpenUpload(r)
  PROVE  AuthInv'
<1> DEFINE x == request[r]
           u == x.on
           merges == [x EXCEPT !.step = "merges"]
           acts == [x EXCEPT !.acts = upload[u].tenant, !.step = "acts"]
<1>1. /\ x \in RequestStates /\ Good(x) /\ x.step = "opens"
      /\ x.kind \in UploadKinds /\ u \in Uploads
      /\ UNCHANGED <<env, require_read, tokens, given, origin>>
      /\ request \in [Requests -> RequestStates \cup {NoRequest}]
      /\ upload \in [Uploads -> Rows \cup {Unused, Gone}]
  BY DEF OpenUpload, At, AuthInv, Typed, Good, Names, Paths, RequestStates
<1>2. CASE \/ ~HasRow(u)
           \/ upload[u].completed /\ x.kind # "abort"
  <2>1. request' = [request EXCEPT ![r] = NoRequest] /\ UNCHANGED others
    BY <1>2 DEF OpenUpload, Ends, others
  <2> QED
    BY <2>1, OneRequest
<1>3. CASE /\ HasRow(u) /\ x.kind = "complete" /\ ~upload[u].completed
  <2>1. request' = [request EXCEPT ![r] = merges] /\ UNCHANGED others
    BY <1>3 DEF OpenUpload, Goto, others
  <2>2. /\ merges \in RequestStates
        /\ merges.kind = x.kind /\ merges.on = u /\ merges.token = x.token
        /\ merges.bearer = x.bearer /\ merges.step = "merges"
        /\ merges.acts = x.acts /\ merges.ever = x.ever
        /\ merges.always = x.always
    BY <1>1 DEF RequestStates
  <2>3. Good(merges)
    <3> HIDE DEF merges
    <3> QED
      BY <1>1, <1>3, <2>2, RowHistory
      DEF Good, Brackets, LetIn, Presents, Names, Paths, Stands, Begun
  <2> QED
    BY <2>1, <2>2, <2>3, OneRequest
<1>4. CASE /\ HasRow(u) /\ x.kind # "complete"
           /\ upload[u].completed => x.kind = "abort"
  <2>1. request' = [request EXCEPT ![r] = acts]
    BY <1>4 DEF OpenUpload, ActsFor
  <2>2. /\ acts \in RequestStates
        /\ acts.kind = x.kind /\ acts.on = u /\ acts.token = x.token
        /\ acts.bearer = x.bearer /\ acts.step = "acts"
        /\ acts.acts = upload[u].tenant /\ acts.ever = x.ever
        /\ acts.always = x.always
    BY <1>1, <1>4, RowHistory DEF RequestStates, Rows
  <2>3. Good(acts)
    <3> HIDE DEF acts
    <3> QED
      BY <1>1, <1>4, <2>2, RowHistory
      DEF Good, Brackets, LetIn, Presents, Names, Paths, Stands, Asked, Begun,
          UploadKinds
  <2>4. CASE x.kind # "abort"
    <3>1. UNCHANGED others
      BY <2>4 DEF OpenUpload, others
    <3> QED
      BY <2>1, <2>2, <2>3, <3>1, OneRequest
  <2>5. CASE x.kind = "abort"
    <3>1. upload' = [upload EXCEPT ![u] = Gone]
      BY <1>4, <2>5 DEF OpenUpload
    <3>2. Typed'
      BY <1>1, <2>1, <2>2, <3>1 DEF AuthInv, Typed
    <3>3. RowsKeep
      BY <1>1, <3>1, NoRowApart DEF RowsKeep, HasRow
    <3>4. \A v \in Uploads : Inherits(v)'
      BY <1>1, <3>1 DEF AuthInv, Inherits, HasRow
    <3>5. ASSUME NEW d \in Requests, d # r, request'[d] # NoRequest
          PROVE  Good(request[d])'
      <4>1. request'[d] = request[d]
        BY <1>1, <2>1, <3>5
      <4> QED
        BY <1>1, <3>3, <3>5, <4>1, Untouched
    <3>6. Good(request[r])'
      <4>1. /\ request'[r].kind = "abort" /\ request'[r].on = u
            /\ request'[r].token = x.token /\ request'[r].bearer = x.bearer
            /\ request'[r].step = "acts" /\ request'[r].acts = acts.acts
            /\ request'[r].ever = x.ever /\ request'[r].always = x.always
        BY <1>1, <2>1, <2>2, <2>5
      <4>2. origin' = origin /\ upload'[u] # Unused /\ require_read' = require_read
        BY <1>1, <3>1, NoRowApart
      <4> HIDE DEF acts, u, x
      <4> QED
        BY <1>1, <2>2, <2>3, <2>5, <4>1, <4>2
        DEF Good, Brackets, LetIn, Presents, Names, Paths, Stands, Asked, Begun,
            UploadKinds
    <3> QED
      BY <1>1, <3>2, <3>4, <3>5, <3>6 DEF AuthInv
  <2> QED
    BY <2>4, <2>5
<1> QED
  BY <1>2, <1>3, <1>4

LEMMA MergedStep ==
  ASSUME AuthInv, NEW r \in Requests, Merged(r)
  PROVE  AuthInv'
<1> DEFINE x == request[r]
           u == x.on
           t == IF HasRow(u) THEN upload[u].tenant ELSE Default
           acts == [x EXCEPT !.acts = t, !.step = "acts"]
<1>1. /\ x \in RequestStates /\ Good(x) /\ x.step = "merges"
      /\ x.kind \in UploadKinds /\ u \in Uploads
      /\ UNCHANGED others
      /\ request' = [request EXCEPT ![r] = acts]
  BY DEF Merged, ActsFor, At, AuthInv, Typed, Good, Names, Paths, RequestStates
<1>2. /\ t \in Tenants
      /\ t # Default => t \in origin[u].ever
      /\ HasRow(u) /\ origin[u].held => t \in origin[u].ever
  BY <1>1, RowHistory, DefaultIsTenant DEF Rows
<1>3. /\ acts \in RequestStates
      /\ acts.kind = x.kind /\ acts.on = u /\ acts.token = x.token
      /\ acts.bearer = x.bearer /\ acts.step = "acts" /\ acts.acts = t
      /\ acts.ever = x.ever /\ acts.always = x.always
  <2> HIDE DEF t
  <2> QED
    BY <1>1, <1>2 DEF RequestStates
<1>4. Good(acts)
  <2> HIDE DEF acts, t
  <2> QED
    BY <1>1, <1>2, <1>3
    DEF Good, Brackets, LetIn, Presents, Names, Paths, Stands, Asked, Begun,
        UploadKinds
<1> QED
  BY <1>1, <1>3, <1>4, OneRequest

LEMMA CreateStep ==
  ASSUME AuthInv, NEW r \in Requests, NEW u \in Uploads, CreateUpload(r, u)
  PROVE  AuthInv'
<1> DEFINE x == request[r]
           row == [tenant |-> x.acts, completed |-> FALSE]
           from == [ever |-> x.ever, held |-> x.always \ {Env} # {}]
<1>1. /\ x \in RequestStates /\ Good(x) /\ x.step = "acts" /\ x.kind = "create"
      /\ request \in [Requests -> RequestStates \cup {NoRequest}]
      /\ request' = [request EXCEPT ![r] = NoRequest]
      /\ upload[u] = Unused
      /\ upload' = [upload EXCEPT ![u] = row]
      /\ origin' = [origin EXCEPT ![u] = from]
      /\ UNCHANGED <<env, require_read, tokens, given>>
  BY DEF CreateUpload, HasCreated, Ends, At, AuthInv, Typed
<1>2. row \in Rows /\ from \in Origins
  BY <1>1 DEF RequestStates, Rows, Origins
<1>3. \/ row.tenant \in from.ever
      \/ row.tenant = Default /\ ~from.held
  BY <1>1 DEF Good, Stands, Asked, UploadKinds
<1>4. /\ \A d \in Requests : request'[d] \in {request[d], NoRequest}
      /\ request' \in [Requests -> RequestStates \cup {NoRequest}]
  BY <1>1
<1> HIDE DEF row, from
<1> QED
  BY <1>1, <1>2, <1>3, <1>4, OneRow

LEMMA CompleteStep ==
  ASSUME AuthInv, NEW r \in Requests, Complete(r)
  PROVE  AuthInv'
<1> DEFINE x == request[r]
           u == x.on
           row == [upload[u] EXCEPT !.completed = TRUE]
<1>1. /\ x \in RequestStates /\ u \in Uploads
      /\ request \in [Requests -> RequestStates \cup {NoRequest}]
      /\ origin \in [Uploads -> Origins \cup {Unused}]
      /\ request' = [request EXCEPT ![r] = NoRequest]
      /\ UNCHANGED <<env, require_read, tokens, given, origin>>
  BY DEF Complete, Ends, At, AuthInv, Typed, Good, Names, RequestStates,
         UploadKinds
<1>2. CASE ~HasRow(u)
  <2>1. UNCHANGED others
    BY <1>1, <1>2 DEF Complete, others
  <2> QED
    BY <1>1, <2>1, OneRequest
<1>3. CASE HasRow(u)
  <2>1. upload' = [upload EXCEPT ![u] = row]
    BY <1>3 DEF Complete
  <2>2. /\ upload[u] \in Rows /\ row \in Rows /\ row.tenant = upload[u].tenant
        /\ origin[u] \in Origins
        /\ \/ upload[u].tenant \in origin[u].ever
           \/ upload[u].tenant = Default /\ ~origin[u].held
    BY <1>1, <1>3, RowHistory DEF Rows
  <2>3. origin' = [origin EXCEPT ![u] = origin[u]]
    BY <1>1
  <2>4. /\ \A d \in Requests : request'[d] \in {request[d], NoRequest}
        /\ request' \in [Requests -> RequestStates \cup {NoRequest}]
    BY <1>1
  <2>5. UNCHANGED <<env, require_read, tokens, given>>
    BY <1>1
  <2>6. u \in Uploads
    BY <1>1
  <2>7. PICK new \in Rows : new = row
    BY <2>2
  <2>8. PICK from \in Origins : from = origin[u]
    BY <2>2
  <2>9. /\ upload' = [upload EXCEPT ![u] = new]
        /\ origin' = [origin EXCEPT ![u] = from]
        /\ \/ new.tenant \in from.ever
           \/ new.tenant = Default /\ ~from.held
    BY <2>1, <2>2, <2>3, <2>7, <2>8
  <2> HIDE DEF row, u
  <2> QED
    BY <1>3, <2>4, <2>5, <2>6, <2>8, <2>9, OneRow
<1> QED
  BY <1>2, <1>3

LEMMA AbortedStep ==
  ASSUME AuthInv, NEW u \in Uploads, AbortedByAnother(u)
  PROVE  AuthInv'
<1>1. /\ origin[u] \in Origins /\ origin' = [origin EXCEPT ![u] = origin[u]]
      /\ HasRow(u)
  BY RowHistory DEF AbortedByAnother, AuthInv, Typed
<1> QED
  BY <1>1, OneRow DEF AbortedByAnother, AuthInv, Typed

(* The operator's commands: histories go along until a request acts, and   *)
(* nothing else in it changes.                                             *)
LEMMA GivesStep ==
  ASSUME AuthInv, NEW t \in Tenants, NEW toks \in SUBSET Tokens,
         tokens' = [tokens EXCEPT ![t] = toks], Gives(t, toks)
  PROVE  AuthInv'
<1>1. /\ tokens' \in [Tenants -> SUBSET Tokens] /\ given' = tokens'
      /\ UNCHANGED <<env, require_read, upload, origin>>
      /\ request' = Witness(given')
  BY DEF Gives, AuthInv, Typed
<1>2. ASSUME NEW r \in Requests, request[r] # NoRequest, ~Acting(r)
      PROVE  /\ request'[r] \in RequestStates
             /\ Good(request[r])'
  <2> DEFINE x == request[r]
             now == Owners(given', x.token)
             y == [x EXCEPT !.ever = x.ever \cup now,
                            !.always = x.always \cap now]
  <2>1. x \in RequestStates /\ Good(x) /\ x.step # "acts"
    BY <1>2 DEF AuthInv, Typed, Acting, At
  <2>2. request'[r] = y
    BY <1>1, <1>2 DEF Witness
  <2>3. now \subseteq Parties
    BY DEF Owners, TenantsWith, Parties
  <2>4. /\ y.kind = x.kind /\ y.token = x.token /\ y.bearer = x.bearer
        /\ y.step = x.step /\ y.acts = x.acts /\ y.on = x.on
        /\ y.ever = x.ever \cup now /\ y.always = x.always \cap now
        /\ y \in RequestStates
    <3> HIDE DEF now
    <3> QED
      BY <2>1, <2>3 DEF RequestStates
  <2>5. Owners(given, request[r].token)' = now
    <3>1. request'[r].token = x.token
      BY <2>2, <2>4
    <3> HIDE DEF y
    <3> QED
      BY <1>1, <3>1 DEF Owners, TenantsWith
  <2> HIDE DEF y, now
  <2>6. Brackets(request[r])'
    BY <2>1, <2>2, <2>4, <2>5 DEF Good, Brackets
  <2>7. (/\ LetIn(request[r]) /\ Presents(request[r]) /\ Names(request[r])
         /\ Paths(request[r]) /\ Stands(request[r]) /\ Begun(request[r]))'
    BY <1>1, <2>1, <2>2, <2>4
    DEF Good, LetIn, Presents, Names, Paths, Stands, Begun
  <2> QED
    BY <2>2, <2>4, <2>6, <2>7 DEF Good
<1>3. ASSUME NEW r \in Requests, request[r] = NoRequest \/ Acting(r)
      PROVE  request'[r] = request[r]
  BY <1>1, <1>3 DEF Witness
<1>4. request' \in [Requests -> RequestStates \cup {NoRequest}]
  <2>1. request' = [r \in Requests |-> request'[r]]
    BY <1>1 DEF Witness
  <2>2. \A r \in Requests : request'[r] \in RequestStates \cup {NoRequest}
    BY <1>2, <1>3 DEF AuthInv, Typed
  <2> QED
    BY <2>1, <2>2
<1>5. ASSUME NEW r \in Requests, request[r] # NoRequest, Acting(r)
      PROVE  Good(request[r])'
  <2>1. request[r] \in RequestStates /\ Good(request[r])
    BY <1>5 DEF AuthInv, Typed
  <2>2. request'[r] = request[r] /\ request[r].step = "acts"
    BY <1>3, <1>5 DEF Acting, At
  <2> QED
    BY <1>1, <2>1, <2>2
    DEF Good, Brackets, LetIn, Presents, Names, Paths, Stands, Asked, Begun, HasRow
<1>6. \A u \in Uploads : Inherits(u)'
  BY <1>1 DEF AuthInv, Inherits, HasRow
<1> QED
  BY <1>1, <1>2, <1>3, <1>4, <1>5, <1>6 DEF AuthInv, Typed

LEMMA AuthStep == AuthInv /\ [Next]_vars => AuthInv'
<1> SUFFICES ASSUME AuthInv, [Next]_vars PROVE AuthInv'
  OBVIOUS
<1>0. ASSUME NEW r \in Requests, NEW kind \in OwnKinds,
             NEW token \in Tokens \cup {NoToken}, Arrive(r, kind, Unused, token)
      PROVE  AuthInv'
  BY <1>0, ArriveStep DEF Bearers, OwnKinds, UploadKinds
<1>1. ASSUME NEW r \in Requests, NEW kind \in UploadKinds, NEW u \in Uploads,
             NEW token \in Tokens \cup {NoToken}, Arrive(r, kind, u, token)
      PROVE  AuthInv'
  BY <1>1, ArriveStep, NoRowApart DEF Bearers
<1>2. ASSUME NEW r \in Requests, RequireAuth(r) PROVE AuthInv'
  BY <1>2, RequireAuthStep
<1>3. ASSUME NEW r \in Requests, MaybeAuth(r) PROVE AuthInv'
  BY <1>3, MaybeAuthStep
<1>4. ASSUME NEW r \in Requests, ResolveTenant(r) PROVE AuthInv'
  BY <1>4, ResolveStep
<1>5. ASSUME NEW r \in Requests, Finish(r) PROVE AuthInv'
  BY <1>5, FinishStep
<1>6. ASSUME NEW t \in Tenants, NEW toks \in (SUBSET Tokens) \ {{}},
             UpsertTenant(t, toks)
      PROVE  AuthInv'
  BY <1>6, GivesStep DEF UpsertTenant, SetTokens
<1>7. ASSUME NEW t \in Tenants, DeleteTenant(t) PROVE AuthInv'
  BY <1>7, GivesStep DEF DeleteTenant
<1>8. ASSUME Restart PROVE AuthInv'
  BY <1>8 DEF Restart, AuthInv, Typed, Inherits, HasRow
<1>9. CASE UNCHANGED vars
  BY <1>9 DEF vars, AuthInv, Typed, Inherits, HasRow, Good, Brackets, LetIn,
              Presents, Names, Paths, Stands, Asked, Begun, Owners, TenantsWith
<1>10. ASSUME NEW r \in Requests, OpenUpload(r) PROVE AuthInv'
  BY <1>10, OpenStep
<1>11. ASSUME NEW r \in Requests, Merged(r) PROVE AuthInv'
  BY <1>11, MergedStep
<1>12. ASSUME NEW r \in Requests, NEW u \in Uploads, CreateUpload(r, u)
       PROVE  AuthInv'
  BY <1>12, CreateStep
<1>13. ASSUME NEW r \in Requests, Complete(r) PROVE AuthInv'
  BY <1>13, CompleteStep
<1>14. ASSUME NEW u \in Uploads, AbortedByAnother(u) PROVE AuthInv'
  BY <1>14, AbortedStep
<1> QED
  BY <1>0, <1>1, <1>2, <1>3, <1>4, <1>5, <1>6, <1>7, <1>8, <1>9, <1>10, <1>11,
     <1>12, <1>13, <1>14 DEF Next

LEMMA AuthAlways == Spec => []AuthInv
  BY AuthInit, AuthStep, PTL DEF Spec

(* A token that was taken away before a request came in never lets it in,  *)
(* for any number of tenants, tokens and requests.                         *)
THEOREM RevokedStaysOutCorrect == Spec => []RevokedStaysOut
<1>1. AuthInv => RevokedStaysOut
  BY DEF AuthInv, Good, LetIn, RevokedStaysOut, Acting, At
<1> QED
  BY <1>1, AuthAlways, PTL

(* Nobody acts in the name of a tenant whose token it has not presented, or *)
(* the creator of its upload had not.                                      *)
THEOREM ActsForOwnerCorrect == Spec => []ActsForOwner
<1>1. AuthInv => ActsForOwner
  BY DEF AuthInv, Good, Stands, Asked, ActsForOwner, Acting, At
<1> QED
  BY <1>1, AuthAlways, PTL

(* A request becomes the default tenant's only if its token was no         *)
(* tenant's at some moment before, and so does the completion of an upload  *)
(* that is still there only if its creator's was.                          *)
THEOREM HeldThroughoutCorrect == Spec => []HeldThroughout
<1>1. AuthInv => HeldThroughout
  BY DEF AuthInv, Good, Stands, HeldThroughout, Acting, At
<1> QED
  BY <1>1, AuthAlways, PTL
=============================================================================
