----------------------------- MODULE FileSystem -----------------------------
(***************************************************************************)
(* What a client of ClawFS can rely on, with no blob, no reference count   *)
(* and no garbage collector in sight.  A path reads back the content last  *)
(* written to it until it is removed, whatever other tenants do.           *)
(*                                                                         *)
(* Of what a share token shows after its path changed, docs/SPEC.md gives  *)
(* two accounts: a snapshot of the content shared, or the path as it is    *)
(* now.  This module leaves the choice open and says what both have in     *)
(* common: a token shows a content its own path had since the token was    *)
(* given, and one that has stopped showing anything never shows again.     *)
(***************************************************************************)

CONSTANTS Keys,        \* the paths of every tenant
          Contents,    \* the byte strings clients write
          Tokens,      \* share tokens
          None

VARIABLES file,        \* file[k]: the content at path k, or None
          grant        \* grant[tok]: the path of tok and what tok shows

fsvars == <<file, grant>>

Grants == [path: Keys, shows: Contents \cup {None}]

TypeOK == /\ file \in [Keys -> Contents \cup {None}]
          /\ grant \in [Tokens -> Grants \cup {None}]

Init == /\ file = [k \in Keys |-> None]
        /\ grant = [tok \in Tokens |-> None]

TokensOf(k) == {tok \in Tokens : grant[tok] # None /\ grant[tok].path = k}
Showing(k)  == {tok \in TokensOf(k) : grant[tok].shows # None}

(* Any of the tokens that show something may follow their path. *)
Write(k, c) ==
  /\ file' = [file EXCEPT ![k] = c]
  /\ \E followers \in SUBSET Showing(k) :
        grant' = [tok \in Tokens |-> IF tok \in followers
                                     THEN [path |-> k, shows |-> c]
                                     ELSE grant[tok]]

(* Any of the tokens may go with their path or stop showing anything. *)
Remove(k) ==
  /\ file[k] # None
  /\ file' = [file EXCEPT ![k] = None]
  /\ \E revoked \in SUBSET TokensOf(k) : \E shut \in SUBSET TokensOf(k) :
        grant' = [tok \in Tokens |->
                    IF tok \in revoked THEN None
                    ELSE IF tok \in shut THEN [path |-> k, shows |-> None]
                    ELSE grant[tok]]

Grant(tok, k) ==
  /\ grant[tok] = None
  /\ file[k] # None
  /\ grant' = [grant EXCEPT ![tok] = [path |-> k, shows |-> file[k]]]
  /\ UNCHANGED file

Expire(tok) ==
  /\ grant[tok] # None
  /\ grant' = [grant EXCEPT ![tok].shows = None]
  /\ UNCHANGED file

Next == \/ \E k \in Keys, c \in Contents : Write(k, c)
        \/ \E k \in Keys : Remove(k)
        \/ \E tok \in Tokens, k \in Keys : Grant(tok, k)
        \/ \E tok \in Tokens : Expire(tok)

Spec == Init /\ [][Next]_fsvars
=============================================================================
