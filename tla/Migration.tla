----------------------------- MODULE Migration ------------------------------
(***************************************************************************)
(* What every process does with the SQLite file before it serves:          *)
(* make_engine creates the tables that are missing, and _migrate adds the  *)
(* columns a 0.2.x database lacks and puts its refs under `default`.       *)
(*                                                                         *)
(* Processes share the file: the server, which is started again whenever   *)
(* it goes down, and command lines, each of which opens the database anew. *)
(* SQLite commits every CREATE and every ALTER by itself, whatever         *)
(* engine.begin() says: the driver opens a transaction at the UPDATE.      *)
(***************************************************************************)
EXTENDS Integers, Sequences, FiniteSets

CONSTANTS
  Processes,        \* the processes that open the database
  Server,           \* the one that is restarted
  Tenants, Default, \* tenants, and the one legacy refs belong to
  Alike,            \* names LIKE takes for `default`: it ignores case
  Legacy,           \* refs of the 0.2.x database: sequences of names
  NewPaths,         \* what is written once a process serves
  MaxDeaths         \* bound: how often processes are killed

ASSUME ServerOpens == Server \in Processes
ASSUME DefaultAlike == Default \in Tenants \cap Alike
ASSUME DeathsAssumption == MaxDeaths \in Nat
ASSUME PathsAssumption == \A p \in Legacy \cup NewPaths : Len(p) > 0

Tables    == {"blob", "ref", "share", "tenant", "tenantblob", "upload"}
OldTables == {"blob", "ref", "share"}
Columns   == {"blob.tenant_id", "ref.tenant_id"}
ColumnOf  == {<<"blob", "blob.tenant_id">>, <<"ref", "ref.tenant_id">>}

VARIABLES
  schema,     \* the tables, and the added columns, that are there
  ref,        \* rows of Ref: the stored path, and the tenant and the name
              \* each was written under
  proc,       \* where each process is, and what it means to add
  deaths,     \* how many have been killed
  disturbed   \* history: somebody added ref.tenant_id and went down before
              \* the refs were moved, or somebody served before they were

vars == <<schema, ref, proc, deaths, disturbed>>

At(i, step) == proc[i].step = step
Moving(i)   == At(i, "rewrite")

(* ------------------------------------------------------------------------ *)
(* make_engine                                                              *)
(* ------------------------------------------------------------------------ *)

(* A 0.2.x database with some of the legacy refs, or none *)
Init ==
  /\ \/ /\ schema = OldTables
        /\ \E paths \in SUBSET Legacy :
              ref = {[path |-> p, tenant |-> Default, name |-> p] : p \in paths}
     \/ schema = {} /\ ref = {}
  /\ proc = [i \in Processes |-> [step |-> "down", adds |-> {}]]
  /\ deaths = 0
  /\ disturbed = FALSE

Goto(i, step, adds) ==
  proc' = [proc EXCEPT ![i] = [step |-> step, adds |-> adds]]

GoesDown(i) ==
  /\ Goto(i, "down", {})
  /\ disturbed' = (disturbed \/ Moving(i))

(* create_all looks for every table first and then makes what it missed. *)
Start(i) ==
  /\ At(i, "down")
  /\ Goto(i, "create", Tables \ schema)
  /\ UNCHANGED <<schema, ref, deaths, disturbed>>

(* A new table has all its columns. *)
Creates(table) == {table} \cup {c \in Columns : <<table, c>> \in ColumnOf}

CreateTable(i) ==
  /\ At(i, "create")
  /\ \E table \in proc[i].adds :
        IF table \in schema THEN GoesDown(i) /\ UNCHANGED schema
        ELSE /\ schema' = schema \cup Creates(table)
             /\ Goto(i, "create", proc[i].adds \ {table})
             /\ UNCHANGED disturbed
  /\ UNCHANGED <<ref, deaths>>

(* ------------------------------------------------------------------------ *)
(* _migrate                                                                 *)
(* ------------------------------------------------------------------------ *)
(* FAULT: adds the column without looking for it *)
InspectBlobNot(i) ==
  /\ At(i, "create")
  /\ proc[i].adds = {}
  /\ Goto(i, "inspect", {"blob.tenant_id"})
  /\ UNCHANGED <<schema, ref, deaths, disturbed>>

InspectBlob(i) ==
  /\ At(i, "create")
  /\ proc[i].adds = {}
  /\ Goto(i, "inspect", {"blob.tenant_id"} \ schema)
  /\ UNCHANGED <<schema, ref, deaths, disturbed>>

(* FAULT: takes both columns to be there if Blob's is *)
InspectRefNot(i) ==
  LET adds == IF proc[i].adds = {} THEN {} ELSE Columns IN
  /\ At(i, "inspect")
  /\ Goto(i, IF adds = {} THEN "serving" ELSE "alter", adds)
  /\ disturbed' = (disturbed \/ (adds = {} /\ \E j \in Processes : Moving(j)))
  /\ UNCHANGED <<schema, ref, deaths>>

InspectRef(i) ==
  LET adds == proc[i].adds \cup ({"ref.tenant_id"} \ schema) IN
  /\ At(i, "inspect")
  /\ Goto(i, IF adds = {} THEN "serving" ELSE "alter", adds)
  /\ disturbed' = (disturbed \/ (adds = {} /\ \E j \in Processes : Moving(j)))
  /\ UNCHANGED <<schema, ref, deaths>>

(* Blob's column first; one that is there by now raises. *)
AlterTable(i) ==
  /\ At(i, "alter")
  /\ LET column == IF "blob.tenant_id" \in proc[i].adds
                   THEN "blob.tenant_id" ELSE "ref.tenant_id"
         left   == proc[i].adds \ {column}
     IN  IF column \in schema THEN GoesDown(i) /\ UNCHANGED schema
         ELSE /\ schema' = schema \cup {column}
              /\ Goto(i, IF left = {} THEN "rewrite" ELSE "alter", left)
              /\ UNCHANGED disturbed
  /\ UNCHANGED <<ref, deaths>>

(* FAULT: path NOT LIKE '%/%', as if any tenant's name came first *)
PrefixedAny(p) == Len(p) > 1

(* path NOT LIKE 'default/%' *)
Prefixed(p) == Len(p) > 1 /\ Head(p) \in Alike
Moved(p)    == IF Prefixed(p) THEN p ELSE <<Default>> \o p

(* The path is the key of its row. *)
Collides == \E r, s \in ref : r # s /\ Moved(r.path) = Moved(s.path)

Rewrite(i) ==
  /\ At(i, "rewrite")
  /\ IF Collides THEN GoesDown(i) /\ UNCHANGED ref
     ELSE /\ ref' = {[r EXCEPT !.path = Moved(r.path)] : r \in ref}
          /\ Goto(i, "serving", {})
          /\ UNCHANGED disturbed
  /\ UNCHANGED <<schema, deaths>>

(* ------------------------------------------------------------------------ *)
(* Afterwards                                                               *)
(* ------------------------------------------------------------------------ *)
Stored(t, name) == <<t>> \o name

PutRef(i, t, name) ==
  /\ At(i, "serving")
  /\ ref' = {r \in ref : r.path # Stored(t, name)}
              \cup {[path |-> Stored(t, name), tenant |-> t, name |-> name]}
  /\ UNCHANGED <<schema, proc, deaths, disturbed>>

(* A command line has done its work. *)
Exit(i) ==
  /\ i # Server
  /\ At(i, "serving")
  /\ GoesDown(i)
  /\ UNCHANGED <<schema, ref, deaths>>

(* A process is killed, or finds the database locked for too long. *)
Dies(i) ==
  /\ ~At(i, "down")
  /\ deaths < MaxDeaths
  /\ deaths' = deaths + 1
  /\ GoesDown(i)
  /\ UNCHANGED <<schema, ref>>

Opens(i) ==
  \/ Start(i) \/ CreateTable(i)
  \/ InspectBlob(i) \/ InspectRef(i) \/ AlterTable(i) \/ Rewrite(i)

Next ==
  \E i \in Processes :
    \/ Opens(i)
    \/ \E t \in Tenants, name \in NewPaths : PutRef(i, t, name)
    \/ Exit(i)
    \/ Dies(i)

(* The restart policy starts the server again; nothing starts or finishes a *)
(* command line.                                                            *)
Spec == Init /\ [][Next]_vars /\ WF_vars(Opens(Server))

(* ------------------------------------------------------------------------ *)
(* Properties                                                               *)
(* ------------------------------------------------------------------------ *)
(* db.py: an upgrade "would otherwise crash at first query".  Whoever is    *)
(* killed, and whoever else starts, a process that serves has every table   *)
(* and every column.                                                        *)
ServesComplete ==
  \A i \in Processes : At(i, "serving") => Tables \cup Columns \subseteq schema

(* "so the multi-tenant code path can resolve them": once a process serves, *)
(* every ref is where its tenant looks for it.  Not so if the upgrade was   *)
(* disturbed, nor for a legacy path that LIKE takes for one under default/. *)
Lookalikes == {r \in ref : r.path = r.name /\ Head(r.name) \in Alike}
RefsResolve ==
  (\E i \in Processes : At(i, "serving")) /\ ~disturbed =>
     \A r \in ref \ Lookalikes : r.path = Stored(r.tenant, r.name)

(* An upgrade that is killed, or beaten to it by another process, does not  *)
(* have the server failing at every start: it serves in the end, for good.  *)
EventuallyServes == <>[]At(Server, "serving")
=============================================================================
