------------------------------- MODULE Schema -------------------------------
(* The database schema: the one migration that creates its 13 tables or      *)
(* drops them (alembic/versions/0001_initial_schema.py, run by               *)
(* alembic/env.py), several of which may run at once, fail or be killed; and *)
(* what a deletion does to the other rows, once by the database's ON DELETE  *)
(* rules and once through the ORM's relationships (app/db/models).           *)
(*                                                                           *)
(* Nothing in the repository deletes rows: deletions are what an operator,   *)
(* or the code the models are prepared for, may do.  A row is its table, a   *)
(* number and its foreign keys; columns and indexes are left out.  A         *)
(* statement on rows is one transaction.                                     *)
EXTENDS Integers, Sequences, FiniteSets, SequencesExt

CONSTANTS
    Migrators,       \* processes that may run alembic
    MaxMigrations,   \* bound: migrations started
    MaxRows,         \* bound: rows in the database
    Twice,           \* tables that may hold two rows; the others hold one
    None

ASSUME SchemaAssumption ==
    MaxMigrations \in Nat /\ None \notin {1, 2} /\ None \notin {"upgrade", "downgrade"}

VARIABLES
    tables,      \* the committed tables
    version,     \* the committed row of alembic_version
    goal,        \* migrator -> "upgrade", "downgrade" or None
    done,        \* migrator -> statements of its script it has executed
    migrations,  \* migrations started so far
    rows         \* the committed rows

vars == <<tables, version, goal, done, migrations, rows>>
-----------------------------------------------------------------------------
(* The tables in the order upgrade() creates them, each with the tables its  *)
(* foreign keys name and what ON DELETE does.  The columns of CASCADE keys   *)
(* are NOT NULL, those of SET NULL keys nullable.                            *)
Table(name, references) == [name |-> name, references |-> references]

AccountTables ==
    <<Table("users", {}),
      Table("organizations", {}),
      Table("user_organizations", {<<"users", "CASCADE">>, <<"organizations", "CASCADE">>}),
      Table("projects", {<<"organizations", "CASCADE">>}),
      Table("api_keys", {<<"projects", "CASCADE">>})>>

TelemetryTables ==
    <<Table("services", {<<"projects", "CASCADE">>}),
      Table("endpoints", {<<"services", "CASCADE">>}),
      Table("telemetry_events", {<<"services", "CASCADE">>, <<"endpoints", "SET NULL">>}),
      Table("metric_aggregates", {<<"services", "CASCADE">>, <<"endpoints", "SET NULL">>})>>

IncidentTablesDeletingAnomalies ==
    <<Table("incidents", {<<"projects", "CASCADE">>, <<"services", "CASCADE">>}),
      Table("anomalies", {<<"services", "CASCADE">>, <<"endpoints", "SET NULL">>,
                          <<"metric_aggregates", "CASCADE">>, <<"incidents", "SET NULL">>}),
      Table("incident_evidence", {<<"incidents", "CASCADE">>}),
      Table("ai_explanations", {<<"incidents", "CASCADE">>})>>

IncidentTables ==
    <<Table("incidents", {<<"projects", "CASCADE">>, <<"services", "CASCADE">>}),
      Table("anomalies", {<<"services", "CASCADE">>, <<"endpoints", "SET NULL">>,
                          <<"metric_aggregates", "SET NULL">>, <<"incidents", "SET NULL">>}),
      Table("incident_evidence", {<<"incidents", "CASCADE">>}),
      Table("ai_explanations", {<<"incidents", "CASCADE">>})>>

Upgrade == AccountTables \o TelemetryTables \o IncidentTables

Downgrade ==
    <<"ai_explanations", "incident_evidence", "anomalies", "incidents",
      "metric_aggregates", "telemetry_events", "endpoints", "services", "api_keys",
      "projects", "user_organizations", "organizations", "users">>

Tables == {Upgrade[i].name : i \in DOMAIN Upgrade}

References(t) == UNION {table.references : table \in {u \in ToSet(Upgrade) : u.name = t}}

Parents(t) == {ref[1] : ref \in References(t)}

(* The foreign keys of one ON DELETE rule: a table and the one it names.     *)
Keys(rule) == {key \in Tables \X Tables : <<key[2], rule>> \in References(key[1])}

Cascading == Keys("CASCADE")
Nullable == Keys("SET NULL")

Statements(g) == IF g = "upgrade" THEN [i \in DOMAIN Upgrade |-> Upgrade[i].name] ELSE Downgrade

(* The relationships of the models: the rows of the second table that belong *)
(* to a row of the first, and whether session.delete() deletes them with it  *)
(* ("all, delete-orphan") or sets their foreign key to NULL.                 *)
UserRelationships == {<<"users", "user_organizations", "delete">>}

OrganizationRelationships ==
    {<<"organizations", "user_organizations", "delete">>, <<"organizations", "projects", "delete">>}

ProjectRelationships ==
    {<<"projects", "services", "delete">>, <<"projects", "api_keys", "delete">>}

ServiceRelationships ==
    {<<"services", "endpoints", "delete">>, <<"services", "telemetry_events", "delete">>,
     <<"services", "metric_aggregates", "delete">>, <<"services", "anomalies", "delete">>}

EndpointRelationships ==
    {<<"endpoints", "telemetry_events", "nullify">>,
     <<"endpoints", "metric_aggregates", "nullify">>, <<"endpoints", "anomalies", "nullify">>}

IncidentRelationshipsWithoutCascade ==
    {<<"incidents", "anomalies", "nullify">>, <<"incidents", "incident_evidence", "nullify">>,
     <<"incidents", "ai_explanations", "delete">>}

IncidentRelationships ==
    {<<"incidents", "anomalies", "nullify">>, <<"incidents", "incident_evidence", "delete">>,
     <<"incidents", "ai_explanations", "delete">>}

Relationships ==
    UserRelationships \cup OrganizationRelationships \cup ProjectRelationships
        \cup ServiceRelationships \cup EndpointRelationships \cup IncidentRelationships

(* The foreign keys the ORM deletes along, or sets to NULL.                  *)
OrmKeys(what) == {<<rel[2], rel[1]>> : rel \in {x \in Relationships : x[3] = what}}
-----------------------------------------------------------------------------
Ids(t) == IF t \in Twice THEN {1, 2} ELSE {1}

RowsOf(t) == [table : {t}, id : Ids(t), refs : [Parents(t) -> {1, 2, None}]]

(* r's foreign key to the table of p names p.                                *)
PointsTo(r, p) == p.table \in DOMAIN r.refs /\ r.refs[p.table] = p.id

Changed(m) == {Statements(goal[m])[i] : i \in 1..done[m]}

(* Catalogs are read committed: a migration sees the committed tables and    *)
(* its own changes.                                                          *)
Visible(m) == IF goal[m] = "upgrade" THEN tables \cup Changed(m) ELSE tables \ Changed(m)

(* Dropping a table locks it and the tables its foreign keys name.           *)
Locked ==
    UNION {UNION {{t} \cup Parents(t) : t \in Changed(m)} :
             m \in {n \in Migrators : goal[n] = "downgrade"}}

(* No two migrations have changed one table at once: the second waits.       *)
TypeOK ==
    /\ tables \subseteq Tables
    /\ version \in {None, "0001"}
    /\ goal \in [Migrators -> {"upgrade", "downgrade", None}]
    /\ done \in [Migrators -> 0..Len(Downgrade)]
    /\ migrations \in 0..MaxMigrations
    /\ \A r \in rows : r.table \in Tables /\ r \in RowsOf(r.table)
    /\ \A m, n \in Migrators :
         m # n /\ goal[m] # None /\ goal[n] # None => Changed(m) \cap Changed(n) = {}

Init ==
    /\ tables = {} /\ version = None /\ rows = {}
    /\ goal = [m \in Migrators |-> None]
    /\ done = [m \in Migrators |-> 0]
    /\ migrations = 0
-----------------------------------------------------------------------------
(* alembic upgrade head, or downgrade base: it reads the version first and   *)
(* has nothing to do when that is already the goal.                          *)
Start(m, g) ==
    /\ goal[m] = None
    /\ migrations < MaxMigrations
    /\ version = (IF g = "upgrade" THEN None ELSE "0001")
    /\ goal' = [goal EXCEPT ![m] = g]
    /\ migrations' = migrations + 1
    /\ UNCHANGED <<tables, version, done, rows>>

Running(m, g) == goal[m] = g /\ done[m] < Len(Statements(g))

Statement(m) == Statements(goal[m])[done[m] + 1]

(* The name is free, or the table there, and no foreign key hangs in the air.*)
Executable(m) ==
    LET t == Statement(m) IN
    IF goal[m] = "upgrade"
    THEN t \notin Visible(m) /\ Parents(t) \subseteq Visible(m)
    ELSE t \in Visible(m) /\ \A u \in Visible(m) : t \notin Parents(u)

(* Another migration has created or dropped the table and not yet ended.     *)
Waits(m) == \E n \in Migrators \ {m} : goal[n] # None /\ Statement(m) \in Changed(n)

Advance(m) ==
    /\ done' = [done EXCEPT ![m] = @ + 1]
    /\ UNCHANGED <<tables, version, goal, migrations, rows>>

CreateWithoutWaiting(m) ==
    Running(m, "upgrade") /\ Executable(m) /\ Advance(m)

Create(m) == Running(m, "upgrade") /\ ~Waits(m) /\ Executable(m) /\ Advance(m)

Drop(m) == Running(m, "downgrade") /\ ~Waits(m) /\ Executable(m) /\ Advance(m)

End(m) ==
    /\ goal' = [goal EXCEPT ![m] = None]
    /\ done' = [done EXCEPT ![m] = 0]
    /\ UNCHANGED migrations

(* One transaction holds all statements and the version: an error of one, or *)
(* the end of the process or its connection, undoes them all.                *)
RollBackKeepingTables(m) ==
    /\ goal[m] # None
    /\ tables' = Visible(m)
    /\ End(m) /\ UNCHANGED <<version, rows>>

RollBack(m) == goal[m] # None /\ End(m) /\ UNCHANGED <<tables, version, rows>>

Fails(m) == goal[m] # None /\ Running(m, goal[m]) /\ ~Waits(m) /\ ~Executable(m)

Fail(m) == Fails(m) /\ RollBack(m)

Kill(m) == RollBack(m)

Finish(m) ==
    /\ goal[m] # None
    /\ done[m] = Len(Statements(goal[m]))
    /\ tables' = Visible(m)
    /\ version' = IF goal[m] = "upgrade" THEN "0001" ELSE None
    /\ rows' = {r \in rows : r.table \in Visible(m)}
    /\ End(m)
-----------------------------------------------------------------------------
(* The rows a row hangs on.                                                  *)
Ancestors(r) == {p \in rows : PointsTo(r, p)}

(* What a row names besides its service belongs to that service, and an      *)
(* incident's service to its project.                                        *)
Consistent(r) ==
    \A p \in Ancestors(r) : \A t \in DOMAIN r.refs \cap DOMAIN p.refs :
      <<p.table, t>> \in Cascading => p.refs[t] = r.refs[t]

Insert(t) ==
    /\ t \in tables
    /\ Cardinality(rows) < MaxRows
    /\ ({t} \cup Parents(t)) \cap Locked = {}
    /\ \E r \in RowsOf(t) :
         /\ \A q \in rows : q.table = t => q.id # r.id
         /\ \A p \in Parents(t) :
              \/ r.refs[p] = None /\ <<t, p>> \in Nullable
              \/ \E q \in rows : q.table = p /\ q.id = r.refs[p]
         /\ Consistent(r)
         /\ rows' = rows \cup {r}
    /\ UNCHANGED <<tables, version, goal, done, migrations>>

(* r and the rows of S that hang on it by the keys given, and those that hang*)
(* on these, and so on: as a table refers only to tables created before it,  *)
(* exactly one set is its own source.                                        *)
Closure(S, r, keys) ==
    CHOOSE gone \in SUBSET (S \cup {r}) :
      /\ r \in gone
      /\ \A q \in S \ {r} :
           q \in gone <=> \E p \in gone : PointsTo(q, p) /\ <<q.table, p.table>> \in keys

(* r when the rows in gone are: its keys among those given become NULL.      *)
Nullified(r, gone, keys) ==
    [r EXCEPT !.refs = [t \in DOMAIN @ |->
       IF <<r.table, t>> \in keys /\ \E p \in gone : p.table = t /\ PointsTo(r, p)
       THEN None ELSE @[t]]]

(* DELETE FROM: the rows that are left.                                      *)
AfterDelete(r) ==
    LET gone == Closure(rows, r, Cascading)
    IN {Nullified(q, gone, Nullable) : q \in rows \ gone}

(* session.delete(): the related rows are loaded and deleted, or their key   *)
(* set to NULL; what is left that refers to a deleted row is the database's. *)
AfterOrmDelete(r) ==
    LET loaded == Closure(rows, r, OrmKeys("delete"))
        written == {Nullified(q, loaded, OrmKeys("nullify")) : q \in rows \ loaded}
        cascaded == {q \in written : \E p \in loaded :
                       PointsTo(q, p) /\ <<q.table, p.table>> \in Cascading}
        gone == loaded \cup UNION {Closure(written, q, Cascading) : q \in cascaded}
    IN {Nullified(q, gone, Nullable) : q \in written \ gone}

(* The tables whose rows a deletion in t may reach.                          *)
Reach(t) ==
    FoldLeft(LAMBDA reach, table :
               IF Parents(table.name) \cap reach = {} THEN reach ELSE reach \cup {table.name},
             {t}, Upgrade)

NotNull == \A r \in rows : \A t \in DOMAIN r.refs : r.refs[t] = None => <<r.table, t>> \in Nullable

Delete(r) ==
    /\ Reach(r.table) \cap Locked = {}
    /\ \/ rows' = AfterDelete(r)
       \/ rows' = AfterOrmDelete(r) /\ NotNull'
    /\ UNCHANGED <<tables, version, goal, done, migrations>>
-----------------------------------------------------------------------------
Next ==
    \/ \E m \in Migrators :
         \/ \E g \in {"upgrade", "downgrade"} : Start(m, g)
         \/ Create(m) \/ Drop(m) \/ Fail(m) \/ Kill(m) \/ Finish(m)
    \/ \E t \in Tables : Insert(t)
    \/ \E r \in rows : Delete(r)

Spec == Init /\ [][Next]_vars
-----------------------------------------------------------------------------
(* However migrations overlap, fail or are killed, the 13 tables and the     *)
(* version row appear and disappear together, every foreign key names a row, *)
(* and a migration fails only because another has reached its goal before:   *)
(* upgrade() creates and downgrade() drops the tables in an order in which   *)
(* every statement can be executed.                                          *)
SchemaIsWhole ==
    /\ tables \in {{}, Tables}
    /\ version = (IF tables = {} THEN None ELSE "0001")
    /\ \A r \in rows : r.table \in tables
    /\ \A r \in rows : \A t \in DOMAIN r.refs :
         IF r.refs[t] = None THEN <<r.table, t>> \in Nullable
         ELSE \E p \in rows : PointsTo(r, p) /\ p.table = t
    /\ \A m \in Migrators :
         Fails(m) => version = (IF goal[m] = "upgrade" THEN "0001" ELSE None)

(* "anomalies outlive incidents for audit purposes" (incident.py), are       *)
(* "Preserved for audit" when their aggregate is cleaned up (anomaly.py), and*)
(* "we keep telemetry even if endpoint record changes" (endpoint.py): while  *)
(* its service stays, an anomaly or an event leaves only by its own deletion,*)
(* and when other rows are deleted it forgets those and nothing else.        *)
DeletionsKeepHistory ==
    [][tables' = tables =>
         \A r \in rows :
           /\ r.table \in {"anomalies", "telemetry_events"}
           /\ rows' # rows \ {r}
           /\ \E p \in rows' : p.table = "services" /\ PointsTo(r, p)
           => \E q \in rows' :
                /\ q.table = r.table /\ q.id = r.id
                /\ \A t \in DOMAIN r.refs :
                     \/ q.refs[t] = r.refs[t]
                     \/ q.refs[t] = None /\ ~\E p \in rows' : p.table = t /\ PointsTo(r, p)]_vars

(* The relationships of the models and the ON DELETE rules of the migration  *)
(* say the same twice: whichever deletes a row, the same rows are left, and  *)
(* the ORM never sets a NOT NULL key to NULL.                                *)
OrmDeletesLikeSql == \A r \in rows : AfterOrmDelete(r) = AfterDelete(r)
=============================================================================
