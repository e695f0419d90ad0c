-------------------------- MODULE MigrationProofs ---------------------------
(***************************************************************************)
(* Theorems about Migration.                                               *)
(***************************************************************************)
EXTENDS Migration, TLAPS

Schema == Tables \cup Columns
States == [step : {"down", "create", "inspect", "alter", "rewrite", "serving"},
           adds : SUBSET Schema]

Typed ==
  /\ schema \subseteq Schema
  /\ proc \in [Processes -> States]
  /\ disturbed \in BOOLEAN

(* What process x may rely on, by the step it is at: nothing it has not    *)
(* noted as missing is missing, for nothing is ever taken away.            *)
Knows(x, tables) ==
  /\ x.step = "create" => x.adds \subseteq Tables /\ Tables \subseteq tables \cup x.adds
  /\ x.step = "inspect" => /\ Tables \subseteq tables
                           /\ x.adds \subseteq {"blob.tenant_id"}
                           /\ "blob.tenant_id" \in tables \cup x.adds
  /\ x.step = "alter" => /\ Tables \subseteq tables
                         /\ x.adds \subseteq Columns
                         /\ x.adds # {}
                         /\ Columns \subseteq tables \cup x.adds
  /\ x.step \in {"rewrite", "serving"} => Schema \subseteq tables

(* Blob's column is there before Ref's, in whatever order the tables were  *)
(* made, and a database without a Ref table has no refs.                   *)
BlobFirst ==
  /\ "blob" \in schema /\ "ref.tenant_id" \in schema => "blob.tenant_id" \in schema
  /\ "ref" \notin schema => /\ ref = {}
                            /\ "ref.tenant_id" \notin schema
                            /\ "blob" \in schema => "blob.tenant_id" \in schema

SchemaInv == Typed /\ BlobFirst /\ \A i \in Processes : Knows(proc[i], schema)

LEMMA SchemaInit == Init => SchemaInv
<1> SUFFICES ASSUME Init PROVE SchemaInv
  OBVIOUS
<1>1. Typed
  BY DEF Init, Typed, States, Schema, OldTables, Tables
<1>2. BlobFirst
  BY DEF Init, BlobFirst, OldTables
<1> QED
  BY <1>1, <1>2 DEF SchemaInv, Init, Knows

(* A step of one process that takes nothing out of the schema              *)
LEMMA SchemaKept ==
  ASSUME SchemaInv, NEW i \in Processes, NEW x \in States,
         proc' = [proc EXCEPT ![i] = x],
         schema \subseteq schema', schema' \subseteq Schema,
         disturbed' \in BOOLEAN,
         BlobFirst',
         Knows(x, schema')
  PROVE  SchemaInv'
<1>1. Typed'
  BY DEF SchemaInv, Typed
<1>2. ASSUME NEW j \in Processes PROVE Knows(proc[j], schema)'
  <2>1. CASE j = i
    <3>1. proc'[j] = x
      BY <2>1 DEF SchemaInv, Typed
    <3> QED
      BY <3>1 DEF Knows
  <2>2. CASE j # i
    <3>1. proc'[j] = proc[j] /\ Knows(proc[j], schema)
      BY <2>2 DEF SchemaInv, Typed
    <3> QED
      BY <3>1 DEF Knows
  <2> QED
    BY <2>1, <2>2
<1> QED
  BY <1>1, <1>2 DEF SchemaInv

LEMMA GoesDownKept ==
  ASSUME SchemaInv, NEW i \in Processes, GoesDown(i),
         schema' = schema, ref' = ref
  PROVE  SchemaInv'
<1>1. /\ proc' = [proc EXCEPT ![i] = [step |-> "down", adds |-> {}]]
      /\ disturbed' \in BOOLEAN
  BY DEF GoesDown, Goto, SchemaInv, Typed
<1>2. [step |-> "down", adds |-> {}] \in States
  BY DEF States
<1>3. BlobFirst'
  BY DEF SchemaInv, BlobFirst
<1>4. Knows([step |-> "down", adds |-> {}], schema')
  BY DEF Knows
<1> QED
  BY <1>1, <1>2, <1>3, <1>4, SchemaKept DEF SchemaInv, Typed

LEMMA SchemaStep ==
  ASSUME SchemaInv, NEW i \in Processes,
         Opens(i) \/ (\E t \in Tenants, name \in NewPaths : PutRef(i, t, name))
           \/ Exit(i) \/ Dies(i)
  PROVE  SchemaInv'
<1>t. /\ proc[i] \in States /\ Knows(proc[i], schema) /\ BlobFirst /\ Typed
      /\ schema \subseteq Schema
  BY DEF SchemaInv, Typed
<1> DEFINE y(s, a) == [step |-> s, adds |-> a]
<1>1. CASE Start(i)
  <2>1. Goto(i, "create", Tables \ schema) /\ UNCHANGED <<schema, ref, disturbed>>
    BY <1>1 DEF Start
  <2>2. y("create", Tables \ schema) \in States
    BY DEF States, Schema
  <2>3. Knows(y("create", Tables \ schema), schema')
    BY <2>1 DEF Knows
  <2>4. BlobFirst'
    BY <1>t, <2>1 DEF BlobFirst
  <2> QED
    BY <1>t, <2>1, <2>2, <2>3, <2>4, SchemaKept DEF Goto, Typed
<1>2. CASE CreateTable(i)
  <2> PICK table \in proc[i].adds :
         IF table \in schema THEN GoesDown(i) /\ UNCHANGED schema
         ELSE /\ schema' = schema \cup Creates(table)
              /\ Goto(i, "create", proc[i].adds \ {table})
              /\ UNCHANGED disturbed
    BY <1>2 DEF CreateTable
  <2>0. ref' = ref /\ proc[i].step = "create" /\ table \in Tables
    BY <1>2, <1>t DEF CreateTable, At, Knows
  <2>1. CASE table \in schema
    BY <2>0, <2>1, GoesDownKept
  <2>2. CASE table \notin schema
    <3> DEFINE x == y("create", proc[i].adds \ {table})
    <3>1. x \in States
      BY <1>t DEF States
    <3>2. schema \subseteq schema' /\ schema' \subseteq Schema /\ table \in schema'
      BY <1>t, <2>0, <2>2 DEF Creates, Schema
    <3>3. Knows(x, schema')
      BY <1>t, <2>0, <3>2 DEF Knows
    <3>4. BlobFirst'
      <4>1. /\ schema' = schema \cup {table} \cup {c \in Columns : <<table, c>> \in ColumnOf}
            /\ table \in Tables
        BY <2>0, <2>2 DEF Creates
      <4>2. CASE table = "blob"
        BY <1>t, <2>0, <4>1, <4>2 DEF BlobFirst, ColumnOf, Columns
      <4>3. CASE table = "ref"
        BY <1>t, <2>0, <2>2, <4>1, <4>3 DEF BlobFirst, ColumnOf, Columns
      <4>4. CASE table \notin {"blob", "ref"}
        <5>1. schema' = schema \cup {table}
          BY <4>1, <4>4 DEF ColumnOf
        <5> QED
          BY <1>t, <2>0, <4>4, <5>1, <4>1 DEF BlobFirst, Tables
      <4> QED
        BY <4>2, <4>3, <4>4
    <3> HIDE DEF x
    <3>5. proc' = [proc EXCEPT ![i] = x] /\ disturbed' = disturbed
      BY <2>2 DEF Goto, x
    <3> QED
      BY <1>t, <3>1, <3>2, <3>3, <3>4, <3>5, SchemaKept DEF Typed
  <2> QED
    BY <2>1, <2>2
<1>3. CASE InspectBlob(i)
  <2> DEFINE x == y("inspect", {"blob.tenant_id"} \ schema)
  <2>1. /\ Goto(i, "inspect", {"blob.tenant_id"} \ schema)
        /\ UNCHANGED <<schema, ref, disturbed>>
        /\ Tables \subseteq schema
    BY <1>3, <1>t DEF InspectBlob, At, Knows
  <2>2. x \in States
    BY DEF States, Schema, Columns
  <2>3. Knows(x, schema')
    BY <2>1 DEF Knows
  <2>4. BlobFirst'
    BY <1>t, <2>1 DEF BlobFirst
  <2> QED
    BY <1>t, <2>1, <2>2, <2>3, <2>4, SchemaKept DEF Goto, Typed
<1>4. CASE InspectRef(i)
  <2> DEFINE adds == proc[i].adds \cup ({"ref.tenant_id"} \ schema)
             x == y(IF adds = {} THEN "serving" ELSE "alter", adds)
  <2>1. /\ proc' = [proc EXCEPT ![i] = x]
        /\ UNCHANGED <<schema, ref>>
        /\ proc[i].step = "inspect"
        /\ disturbed' \in BOOLEAN
    BY <1>4, <1>t DEF InspectRef, At, Goto, Typed
  <2>2. x \in States
    BY <1>t DEF States, Schema, Columns
  <2>3. Knows(x, schema')
    BY <1>t, <2>1 DEF Knows, Columns, Schema
  <2>4. BlobFirst'
    BY <1>t, <2>1 DEF BlobFirst
  <2> HIDE DEF x
  <2> QED
    BY <1>t, <2>1, <2>2, <2>3, <2>4, SchemaKept
<1>5. CASE AlterTable(i)
  <2> DEFINE column == IF "blob.tenant_id" \in proc[i].adds
                       THEN "blob.tenant_id" ELSE "ref.tenant_id"
             left == proc[i].adds \ {column}
             x == y(IF left = {} THEN "rewrite" ELSE "alter", left)
  <2>0. ref' = ref /\ proc[i].step = "alter"
    BY <1>5 DEF AlterTable, At
  <2>1. CASE column \in schema
    <3>1. GoesDown(i) /\ schema' = schema
      BY <1>5, <2>1 DEF AlterTable
    <3> QED
      BY <2>0, <3>1, GoesDownKept
  <2>2. CASE column \notin schema
    <3>1. /\ schema' = schema \cup {column}
          /\ proc' = [proc EXCEPT ![i] = x]
          /\ disturbed' = disturbed
      BY <1>5, <2>2 DEF AlterTable, Goto
    <3>2. x \in States
      BY <1>t DEF States
    <3>3. Knows(x, schema')
      BY <1>t, <2>0, <3>1 DEF Knows, Columns, Schema
    <3>4. schema' \subseteq Schema
      BY <1>t, <3>1 DEF Schema, Columns
    <3>5. BlobFirst'
      BY <1>t, <2>0, <2>2, <3>1 DEF BlobFirst, Knows, Columns, Tables
    <3> HIDE DEF x
    <3> QED
      BY <1>t, <3>1, <3>2, <3>3, <3>4, <3>5, SchemaKept DEF Typed
  <2> QED
    BY <2>1, <2>2
<1>6. CASE Rewrite(i)
  <2>0. proc[i].step = "rewrite" /\ schema' = schema /\ Schema \subseteq schema
    BY <1>6, <1>t DEF Rewrite, At, Knows
  <2>1. CASE Collides
    BY <1>6, <2>0, <2>1, GoesDownKept DEF Rewrite
  <2>2. CASE ~Collides
    <3>1. proc' = [proc EXCEPT ![i] = y("serving", {})] /\ disturbed' = disturbed
      BY <1>6, <2>2 DEF Rewrite, Goto
    <3>2. y("serving", {}) \in States
      BY DEF States
    <3>3. Knows(y("serving", {}), schema')
      BY <2>0 DEF Knows
    <3>4. BlobFirst'
      BY <2>0 DEF BlobFirst, Schema, Tables, Columns
    <3> QED
      BY <1>t, <2>0, <3>1, <3>2, <3>3, <3>4, SchemaKept DEF Typed
  <2> QED
    BY <2>1, <2>2
<1>7. CASE \E t \in Tenants, name \in NewPaths : PutRef(i, t, name)
  <2>1. /\ proc[i].step = "serving"
        /\ UNCHANGED <<schema, proc, disturbed>>
    BY <1>7 DEF PutRef, At
  <2>2. Schema \subseteq schema
    BY <1>t, <2>1 DEF Knows
  <2> QED
    BY <2>1, <2>2 DEF SchemaInv, Typed, BlobFirst, Knows, Schema, Tables, Columns
<1>8. CASE Exit(i) \/ Dies(i)
  BY <1>8, GoesDownKept DEF Exit, Dies
<1> QED
  BY <1>1, <1>2, <1>3, <1>4, <1>5, <1>6, <1>7, <1>8 DEF Opens

LEMMA SchemaNext == SchemaInv /\ [Next]_vars => SchemaInv'
<1>1. ASSUME SchemaInv, Next PROVE SchemaInv'
  BY <1>1, SchemaStep DEF Next
<1>2. ASSUME SchemaInv, UNCHANGED vars PROVE SchemaInv'
  BY <1>2 DEF vars, SchemaInv, Typed, BlobFirst, Knows
<1> QED
  BY <1>1, <1>2

(* What each process relies on of the schema holds at every step.           *)
THEOREM SchemaCorrect == Spec => []SchemaInv
BY SchemaInit, SchemaNext, PTL DEF Spec

(* db.py: an upgrade "would otherwise crash at first query".  Whoever is    *)
(* killed, and whoever else starts, a process that serves has every table   *)
(* and every column, however many processes open the database.              *)
THEOREM ServesCompleteCorrect == Spec => []ServesComplete
<1>1. SchemaInv => ServesComplete
  BY DEF SchemaInv, ServesComplete, Knows, At, Schema
<1> QED
  BY <1>1, SchemaCorrect, PTL

(* ------------------------------------------------------------------------ *)
(* The refs are moved                                                       *)
(* ------------------------------------------------------------------------ *)
HasTenant   == "ref.tenant_id" \in schema
SomeMoves   == \E i \in Processes : Moving(i)
SomeServes  == \E i \in Processes : At(i, "serving")

IsLegacy(r) == r = [path |-> r.name, tenant |-> Default, name |-> r.name]
Resolves(r) == \/ r.path = Stored(r.tenant, r.name)
               \/ r.path = r.name /\ Head(r.name) \in Alike

(* One process at most has the refs to move; until it has moved them, or    *)
(* somebody disturbs it, nobody serves and every ref is a legacy one; then  *)
(* every ref is where its tenant looks for it.                              *)
RefInv ==
  /\ \A i, j \in Processes : Moving(i) /\ Moving(j) => i = j
  /\ SomeMoves /\ ~disturbed => ~SomeServes
  /\ ~HasTenant \/ (SomeMoves /\ ~disturbed) => \A r \in ref : IsLegacy(r)
  /\ HasTenant /\ ~SomeMoves /\ ~disturbed => \A r \in ref : Resolves(r)

LEMMA RefInit == Init => RefInv
<1> SUFFICES ASSUME Init PROVE RefInv
  OBVIOUS
<1>1. ~HasTenant
  BY DEF Init, HasTenant, OldTables
<1>2. ~SomeMoves
  BY DEF Init, SomeMoves, Moving, At
<1>3. \A r \in ref : IsLegacy(r)
  BY DEF Init, IsLegacy
<1>4. \A i \in Processes : ~Moving(i)
  BY <1>2 DEF SomeMoves
<1> QED
  BY <1>1, <1>2, <1>3, <1>4 DEF RefInv

(* Whoever moves the refs, or serves, has seen the column.                  *)
LEMMA ColumnSeen == SchemaInv => (SomeMoves \/ SomeServes => HasTenant)
BY DEF SchemaInv, Knows, Schema, Columns, SomeMoves, SomeServes, Moving, At,
       HasTenant

(* A step that leaves the refs alone and has nobody move or serve           *)
LEMMA RefKept ==
  ASSUME SchemaInv, RefInv, NEW i \in Processes, NEW x,
         proc' = [proc EXCEPT ![i] = x],
         x.step # "rewrite", x.step # "serving",
         ref' = ref,
         (HasTenant' <=> HasTenant) \/ ref = {},
         HasTenant => HasTenant',
         disturbed' = (disturbed \/ Moving(i))
  PROVE  RefInv'
<1>1. proc'[i] = x /\ \A j \in Processes \ {i} : proc'[j] = proc[j]
  BY DEF SchemaInv, Typed
<1>2. \A j \in Processes : Moving(j)' => Moving(j)
  BY <1>1 DEF Moving, At
<1>3. SomeServes' => SomeServes
  BY <1>1 DEF SomeServes, At
<1>4. SomeMoves' => SomeMoves
  BY <1>2 DEF SomeMoves
<1>5. SomeMoves => SomeMoves' \/ disturbed'
  BY <1>1 DEF SomeMoves, Moving, At
<1>6. disturbed => disturbed'
  OBVIOUS
<1>7. \A k, j \in Processes : Moving(k)' /\ Moving(j)' => k = j
  BY <1>2 DEF RefInv
<1>8. (SomeMoves /\ ~disturbed => ~SomeServes)'
  BY <1>3, <1>4, <1>6 DEF RefInv
<1>9. (~HasTenant \/ (SomeMoves /\ ~disturbed) => \A r \in ref : IsLegacy(r))'
  BY <1>4, <1>6 DEF RefInv, IsLegacy
<1>10. (HasTenant /\ ~SomeMoves /\ ~disturbed => \A r \in ref : Resolves(r))'
  BY <1>5, <1>6 DEF RefInv, Resolves, Stored
<1> QED
  BY <1>7, <1>8, <1>9, <1>10 DEF RefInv

LEMMA RefGoesDown ==
  ASSUME SchemaInv, RefInv, NEW i \in Processes, GoesDown(i),
         ref' = ref, schema' = schema
  PROVE  RefInv'
<1>1. /\ proc' = [proc EXCEPT ![i] = [step |-> "down", adds |-> {}]]
      /\ disturbed' = (disturbed \/ Moving(i))
  BY DEF GoesDown, Goto
<1>2. HasTenant' <=> HasTenant
  BY DEF HasTenant
<1>3. PICK x : x = [step |-> "down", adds |-> {}]
  OBVIOUS
<1>4. x.step # "rewrite" /\ x.step # "serving"
  BY <1>3
<1>5. proc' = [proc EXCEPT ![i] = x]
  BY <1>1, <1>3
<1> QED
  BY <1>1, <1>2, <1>4, <1>5, RefKept

LEMMA RefStep ==
  ASSUME SchemaInv, RefInv, NEW i \in Processes,
         Opens(i) \/ (\E t \in Tenants, name \in NewPaths : PutRef(i, t, name))
           \/ Exit(i) \/ Dies(i)
  PROVE  RefInv'
<1>t. /\ proc[i] \in States /\ Knows(proc[i], schema) /\ BlobFirst
      /\ schema \subseteq Schema /\ disturbed \in BOOLEAN
      /\ proc \in [Processes -> States]
  BY DEF SchemaInv, Typed
<1>k. ASSUME NEW x, x.step # "rewrite", x.step # "serving",
             proc' = [proc EXCEPT ![i] = x], ref' = ref,
             schema \subseteq schema',
             (HasTenant' <=> HasTenant) \/ ref = {},
             disturbed' = disturbed, ~Moving(i)
      PROVE  RefInv'
  <2>1. disturbed' = (disturbed \/ Moving(i))
    BY <1>k, <1>t
  <2>2. HasTenant => HasTenant'
    BY <1>k DEF HasTenant
  <2> QED
    BY <1>k, <2>1, <2>2, RefKept
<1>1. CASE Start(i)
  <2>1. PICK x : x = [step |-> "create", adds |-> Tables \ schema]
    OBVIOUS
  <2> QED
    BY <1>1, <1>k, <2>1 DEF Start, Goto, HasTenant, Moving, At
<1>2. CASE CreateTable(i)
  <2> PICK table \in proc[i].adds :
         IF table \in schema THEN GoesDown(i) /\ UNCHANGED schema
         ELSE /\ schema' = schema \cup Creates(table)
              /\ Goto(i, "create", proc[i].adds \ {table})
              /\ UNCHANGED disturbed
    BY <1>2 DEF CreateTable
  <2>0. ref' = ref /\ proc[i].step = "create" /\ table \in Tables
    BY <1>2, <1>t DEF CreateTable, At, Knows
  <2>1. CASE table \in schema
    BY <2>0, <2>1, RefGoesDown
  <2>2. CASE table \notin schema
    <3>1. PICK x : x = [step |-> "create", adds |-> proc[i].adds \ {table}]
      OBVIOUS
    <3>2. /\ proc' = [proc EXCEPT ![i] = x]
          /\ disturbed' = disturbed /\ schema \subseteq schema'
          /\ schema' = schema \cup {table} \cup
                          {c \in Columns : <<table, c>> \in ColumnOf}
      BY <2>2, <3>1 DEF Goto, Creates
    <3>3. CASE table = "ref"
      <4>1. ref = {}
        BY <1>t, <2>2, <3>3 DEF BlobFirst
      <4> QED
        BY <1>k, <2>0, <3>1, <3>2, <4>1 DEF Moving, At
    <3>4. CASE table # "ref"
      <4>1. HasTenant' <=> HasTenant
        BY <2>0, <3>2, <3>4 DEF HasTenant, ColumnOf, Tables
      <4> QED
        BY <1>k, <2>0, <3>1, <3>2, <4>1 DEF Moving, At
    <3> QED
      BY <3>3, <3>4
  <2> QED
    BY <2>1, <2>2
<1>3. CASE InspectBlob(i)
  <2>1. PICK x : x = [step |-> "inspect", adds |-> {"blob.tenant_id"} \ schema]
    OBVIOUS
  <2> QED
    BY <1>3, <1>k, <2>1 DEF InspectBlob, Goto, HasTenant, Moving, At
<1>4. CASE InspectRef(i)
  <2> DEFINE adds == proc[i].adds \cup ({"ref.tenant_id"} \ schema)
  <2>1. PICK x : x = [step |-> IF adds = {} THEN "serving" ELSE "alter",
                      adds |-> adds]
    OBVIOUS
  <2>2. /\ proc' = [proc EXCEPT ![i] = x]
        /\ schema' = schema /\ ref' = ref
        /\ proc[i].step = "inspect"
        /\ disturbed' = (disturbed \/ (adds = {} /\ SomeMoves))
    BY <1>4, <2>1 DEF InspectRef, At, Goto, SomeMoves
  <2>3. CASE adds # {}
    <3>1. x.step = "alter"
      BY <2>1, <2>3
    <3>2. disturbed' = disturbed
      BY <1>t, <2>2, <2>3
    <3> QED
      BY <1>k, <2>2, <3>1, <3>2 DEF HasTenant, Moving, At
  <2>4. CASE adds = {}
    <3>1. x.step = "serving"
      BY <2>1, <2>4
    <3>2. disturbed' = (disturbed \/ SomeMoves)
      BY <2>2, <2>4
    <3>3. /\ \A j \in Processes : Moving(j)' <=> Moving(j)
          /\ SomeMoves' <=> SomeMoves
      BY <1>t, <2>2, <3>1 DEF Moving, At, SomeMoves
    <3>4. /\ \A k, j \in Processes : Moving(k)' /\ Moving(j)' => k = j
          /\ (SomeMoves /\ ~disturbed => ~SomeServes)'
      BY <3>2, <3>3 DEF RefInv
    <3>5. (~HasTenant \/ (SomeMoves /\ ~disturbed) => \A r \in ref : IsLegacy(r))'
      BY <2>2, <3>2, <3>3 DEF RefInv, HasTenant, IsLegacy
    <3>6. (HasTenant /\ ~SomeMoves /\ ~disturbed => \A r \in ref : Resolves(r))'
      BY <2>2, <3>2, <3>3 DEF RefInv, HasTenant, Resolves, Stored
    <3> QED
      BY <3>4, <3>5, <3>6 DEF RefInv
  <2> QED
    BY <2>3, <2>4
<1>5. CASE AlterTable(i)
  <2> DEFINE column == IF "blob.tenant_id" \in proc[i].adds
                       THEN "blob.tenant_id" ELSE "ref.tenant_id"
             left == proc[i].adds \ {column}
  <2>0. ref' = ref /\ proc[i].step = "alter"
    BY <1>5 DEF AlterTable, At
  <2>1. CASE column \in schema
    <3>1. GoesDown(i) /\ schema' = schema
      BY <1>5, <2>1 DEF AlterTable
    <3> QED
      BY <2>0, <3>1, RefGoesDown
  <2>2. CASE column \notin schema
    <3>0. PICK x : x = [step |-> IF left = {} THEN "rewrite" ELSE "alter",
                        adds |-> left]
      OBVIOUS
    <3>1. /\ schema' = schema \cup {column}
          /\ proc' = [proc EXCEPT ![i] = x]
          /\ disturbed' = disturbed
      BY <1>5, <2>2, <3>0 DEF AlterTable, Goto
    <3>2. CASE left # {}
      <4>1. x.step = "alter" /\ column = "blob.tenant_id"
        BY <1>t, <2>0, <3>0, <3>2 DEF Knows, Columns
      <4>2. HasTenant' <=> HasTenant
        BY <3>1, <4>1 DEF HasTenant
      <4> QED
        BY <1>k, <2>0, <3>1, <4>1, <4>2 DEF Moving, At
    <3>3. CASE left = {}
      <4>1. x.step = "rewrite"
        BY <3>0, <3>3
      <4>2. column = "ref.tenant_id"
        BY <1>t, <2>0, <2>2, <3>3 DEF Knows, Columns, BlobFirst, Tables
      <4>3. ~HasTenant /\ ~SomeMoves /\ ~SomeServes /\ HasTenant'
        BY <2>2, <3>1, <4>2, ColumnSeen DEF HasTenant
      <4>4. /\ \A j \in Processes : Moving(j)' => j = i
            /\ Moving(i)' /\ ~SomeServes'
        BY <1>t, <3>1, <4>1, <4>3 DEF SomeMoves, SomeServes, Moving, At
      <4>5. \A r \in ref : IsLegacy(r)
        BY <4>3 DEF RefInv
      <4>6. (\A r \in ref : IsLegacy(r))'
        BY <2>0, <4>5 DEF IsLegacy
      <4> QED
        BY <4>3, <4>4, <4>6 DEF RefInv, SomeMoves
    <3> QED
      BY <3>2, <3>3
  <2> QED
    BY <2>1, <2>2
<1>6. CASE Rewrite(i)
  <2>0. Moving(i) /\ schema' = schema /\ SomeMoves /\ HasTenant
    BY <1>6, ColumnSeen DEF Rewrite, Moving, SomeMoves
  <2>1. CASE Collides
    BY <1>6, <2>0, <2>1, RefGoesDown DEF Rewrite
  <2>2. CASE ~Collides
    <3>1. PICK x : x = [step |-> "serving", adds |-> {}]
      OBVIOUS
    <3>2. /\ proc' = [proc EXCEPT ![i] = x] /\ disturbed' = disturbed
          /\ ref' = {[r EXCEPT !.path = Moved(r.path)] : r \in ref}
      BY <1>6, <2>2, <3>1 DEF Rewrite, Goto
    <3>3. \A j \in Processes : ~Moving(j)'
      BY <1>t, <2>0, <3>1, <3>2 DEF RefInv, Moving, At
    <3>4. ~SomeMoves' /\ HasTenant'
      BY <2>0, <3>3 DEF SomeMoves, HasTenant
    <3>5. ASSUME ~disturbed' PROVE \A r \in ref' : Resolves(r)
      <4> SUFFICES ASSUME NEW q \in ref PROVE Resolves([q EXCEPT !.path = Moved(q.path)])
        BY <3>2
      <4>1. IsLegacy(q)
        BY <2>0, <3>2, <3>5 DEF RefInv
      <4>2. /\ [q EXCEPT !.path = Moved(q.path)]
                  = [path |-> Moved(q.name), tenant |-> Default, name |-> q.name]
        BY <4>1 DEF IsLegacy
      <4>3. Moved(q.name) = Stored(Default, q.name)
              \/ (Moved(q.name) = q.name /\ Head(q.name) \in Alike)
        BY DEF Moved, Prefixed, Stored
      <4> QED
        BY <4>2, <4>3 DEF Resolves
    <3> QED
      BY <3>3, <3>4, <3>5 DEF RefInv, Resolves, Stored
  <2> QED
    BY <2>1, <2>2
<1>7. CASE \E t \in Tenants, name \in NewPaths : PutRef(i, t, name)
  <2> PICK t \in Tenants, name \in NewPaths : PutRef(i, t, name)
    BY <1>7
  <2>1. PICK new : new = [path |-> Stored(t, name), tenant |-> t, name |-> name]
    OBVIOUS
  <2>2. /\ UNCHANGED <<schema, proc, disturbed>>
        /\ ref' \subseteq ref \cup {new}
        /\ SomeServes
    BY <2>1 DEF PutRef, SomeServes
  <2>3. Resolves(new)
    BY <2>1 DEF Resolves
  <2>4. /\ HasTenant /\ HasTenant' /\ SomeServes'
        /\ SomeMoves' <=> SomeMoves
        /\ \A j \in Processes : Moving(j)' <=> Moving(j)
    BY <2>2, ColumnSeen DEF HasTenant, SomeServes, SomeMoves, Moving, At
  <2>5. (HasTenant /\ ~SomeMoves /\ ~disturbed => \A r \in ref : Resolves(r))'
    BY <2>2, <2>3, <2>4 DEF RefInv, Resolves, Stored
  <2> QED
    BY <2>2, <2>4, <2>5 DEF RefInv
<1>8. CASE Exit(i) \/ Dies(i)
  BY <1>8, RefGoesDown DEF Exit, Dies
<1> QED
  BY <1>1, <1>2, <1>3, <1>4, <1>5, <1>6, <1>7, <1>8 DEF Opens

LEMMA RefNext == SchemaInv /\ RefInv /\ [Next]_vars => RefInv'
<1>1. ASSUME SchemaInv, RefInv, Next PROVE RefInv'
  BY <1>1, RefStep DEF Next
<1>2. ASSUME RefInv, UNCHANGED vars PROVE RefInv'
  BY <1>2 DEF vars, RefInv, HasTenant, SomeMoves, SomeServes, Moving, At,
              IsLegacy, Resolves, Stored
<1> QED
  BY <1>1, <1>2

(* "so the multi-tenant code path can resolve them": once a process serves, *)
(* every ref is where its tenant looks for it, unless the upgrade was       *)
(* disturbed; a legacy path that LIKE takes for one under default/ is not.  *)
THEOREM RefsResolveCorrect == Spec => []RefsResolve
<1>1. SchemaInv /\ RefInv => RefsResolve
  <2> SUFFICES ASSUME SchemaInv, RefInv, SomeServes, ~disturbed,
                      NEW r \in ref \ Lookalikes
               PROVE  r.path = Stored(r.tenant, r.name)
    BY DEF RefsResolve, SomeServes
  <2>1. HasTenant /\ ~SomeMoves
    BY ColumnSeen DEF RefInv
  <2> QED
    BY <2>1 DEF RefInv, Resolves, Lookalikes
<1> QED
  BY <1>1, RefInit, RefNext, SchemaCorrect, PTL DEF Spec
=============================================================================
