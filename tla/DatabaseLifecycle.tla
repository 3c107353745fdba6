-------------------------- MODULE DatabaseLifecycle --------------------------
(***************************************************************************)
(* A database over its life: migrations up and down, the application       *)
(* writing to it meanwhile, and the tools under scripts/setup.             *)
(*                                                                         *)
(* `alembic upgrade` and `downgrade` run every revision they pass in one   *)
(* transaction (alembic/env.py): statements act on a copy that is          *)
(* committed at the end, a failing statement discards it, and the tables   *)
(* they have touched are locked until then.  One operator at a time runs   *)
(* a migration or a tool; the application runs all the time.               *)
(***************************************************************************)
EXTENDS OrmModels

CONSTANTS
    Stops,      \* the revisions an operator names as target, by position
    Uploads     \* the kinds of upload: "plain", "repeated" (one number twice)

ASSUME StopsAssumption == Stops \subseteq 0..HeadRevision
ASSUME UploadsAssumption == Uploads \subseteq {"plain", "repeated"}

VARIABLES
    db,         \* what is committed: revision, schema and rows
    run,        \* the migration under way: direction, statement, copy, locks
    tool,       \* how far a tool that commits in several steps has come
    failed      \* the statement the last migration failed at, if it did

dbVars == <<db, run, tool, failed>>

Writers == {"app", "kb", "seed", "demo", "acme"}
Row(by, nulls, repeats) == [by |-> by, nulls |-> nulls, repeats |-> repeats]
Plain(by, T) == [t \in T |-> Row(by, {}, {})]

NoRun == [dir |-> "none", next |-> 1, db |-> <<>>, locked |-> {}]
NoFailure == [dir |-> "none"]

DbInit ==
    /\ db = [rev |-> 0, schema |-> EmptySchema, rows |-> [t \in AllTables |-> {}]]
    /\ run = NoRun
    /\ tool = "none"
    /\ failed = NoFailure

-----------------------------------------------------------------------------
(* Migrations. *)

Running == run.dir # "none"
Statements ==
    IF run.dir = "up" THEN Revisions[run.db.rev + 1].upgrade ELSE Revisions[run.db.rev].downgrade
MoreRevisions == IF run.dir = "up" THEN run.db.rev < HeadRevision ELSE run.db.rev > 0
Allowed(op) == SchemaAllows(op, run.db.schema) /\ RowsAllow(op, run.db.rows)

StartRun(dir) ==
    /\ ~Running /\ tool = "none"
    /\ IF dir = "up" THEN db.rev < HeadRevision ELSE db.rev > 0
    /\ run' = [dir |-> dir, next |-> 1, db |-> db, locked |-> {}]
    /\ failed' = NoFailure
    /\ UNCHANGED <<db, tool>>

ExecuteStatement ==
    /\ Running /\ MoreRevisions /\ run.next <= Len(Statements)
    /\ LET op == Statements[run.next] IN
       /\ Allowed(op)
       /\ run' = [run EXCEPT !.next = @ + 1,
                             !.db.schema = Statement(op, @),
                             !.db.rows = OnRows(op, @),
                             !.locked = @ \cup Locks(op, run.db.schema)]
    /\ UNCHANGED <<db, tool, failed>>

FinishRevision ==
    /\ Running /\ MoreRevisions /\ run.next > Len(Statements)
    /\ run' = [run EXCEPT !.next = 1, !.db.rev = IF run.dir = "up" THEN @ + 1 ELSE @ - 1]
    /\ UNCHANGED <<db, tool, failed>>

CommitRun ==
    /\ Running /\ run.next = 1 /\ run.db.rev \in Stops \ {db.rev}
    /\ db' = run.db
    /\ run' = NoRun
    /\ UNCHANGED <<tool, failed>>

(* The database refuses a statement: everything since the start is undone. *)
RefuseStatement ==
    /\ Running /\ MoreRevisions /\ run.next <= Len(Statements)
    /\ LET op == Statements[run.next] IN
       /\ ~Allowed(op)
       /\ failed' = [dir |-> run.dir, rev |-> run.db.rev, op |-> op,
                     schema |-> SchemaAllows(op, run.db.schema)]
    /\ run' = NoRun
    /\ UNCHANGED <<db, tool>>

-----------------------------------------------------------------------------
(* Writing rows.  A batch maps tables to the row a transaction adds there. *)

Accepts(s, t, row) ==
    /\ Serves(s, t)
    /\ row.nulls \subseteq Nullable(s, t)
    /\ row.repeats \cap DOMAIN s.indexes = {}

(* A row is also read-locked by the foreign keys that point to it. *)
Unlocked(s, t) == ({t} \cup {k[2] : k \in s.tables[t].refs}) \cap run.locked = {}

CanInsert(batch) ==
    \A t \in DOMAIN batch : Accepts(db.schema, t, batch[t]) /\ Unlocked(db.schema, t)

WithRows(rows, batch) ==
    [t \in AllTables |-> IF t \in DOMAIN batch THEN rows[t] \cup {batch[t]} ELSE rows[t]]

Insert(batch) ==
    /\ CanInsert(batch)
    /\ db' = [db EXCEPT !.rows = WithRows(@, batch)]
    /\ run' = IF Running THEN [run EXCEPT !.db.rows = WithRows(@, batch)] ELSE run

Wrote(by, t) == \E r \in db.rows[t] : r.by = by

-----------------------------------------------------------------------------
(* The application: an upload, and the analysis of what was uploaded. *)

ClauseOf(kind) ==
    Row("app", {"clause_type", "clause_number"},
        IF kind = "repeated" THEN {"clauses_version_number_key"} ELSE {})

UploadRows(kind) ==
    Plain("app", {"companies", "users", "policy_versions", "stored_files", "compliance_audit_logs"})
    ++ [policies |-> Row("app", {"owning_department_id"}, {}), clauses |-> ClauseOf(kind)]

Upload(kind) ==
    /\ Insert(UploadRows(kind))
    /\ UNCHANGED <<tool, failed>>

KnowledgeRows == Plain("kb", {"regulatory_frameworks", "regulatory_clauses"})

AnalysisRows ==
    Plain("app", {"obligations", "regulatory_mappings", "conflicts", "recommendations",
                  "compliance_audit_logs"})
    ++ KnowledgeRows

Analyse ==
    /\ Wrote("app", "clauses")
    /\ Insert(AnalysisRows)
    /\ UNCHANGED <<tool, failed>>

-----------------------------------------------------------------------------
(* The tools of scripts/setup. *)

NoOperator == ~Running /\ tool = "none"

(* seed_database: nothing if its marker company is there, else everything in
   one transaction.  Its frameworks have editions, so that a second copy of
   them breaks the unique index on name and edition. *)
SeedOrganisation == [companies |-> 2, departments |-> 5, users |-> 5]
SeedPolicies == [policies |-> 6, policy_versions |-> 12]
SeedFrameworks == [regulatory_frameworks |-> 3, regulatory_clauses |-> 7]
SeedCounts == SeedOrganisation ++ SeedPolicies ++ SeedFrameworks
SeedTables == DOMAIN SeedCounts
MarkerPresent == Wrote("seed", "companies")
SeedCollides == \E t \in SeedTables : Wrote("seed", t)

SeedDatabase ==
    /\ NoOperator /\ ~MarkerPresent /\ ~SeedCollides
    /\ Insert(Plain("seed", SeedTables))
    /\ UNCHANGED <<tool, failed>>

(* TRUNCATE ... CASCADE: also every table that refers to a truncated one. *)
TruncatedTables == {"companies", "users", "policies", "policy_versions", "clauses", "obligations",
                    "regulatory_mappings", "conflicts", "recommendations", "compliance_audit_logs"}
CascadeNot(s, T) == T       \* a faulty variant: CASCADE forgotten, checks off
Closed(s, T) == \A t \in T : Referencing(s, t) \subseteq T
Cascade(s, T) ==            \* the smallest closed set that contains T
    T \cup {t \in Tables(s) \ T :
               \A D \in SUBSET (Tables(s) \ T) : Closed(s, T \cup D) => t \in D}
CanTruncate == TruncatedTables \subseteq Tables(db.schema)
Truncated ==
    LET emptied == Cascade(db.schema, TruncatedTables) IN
    [db EXCEPT !.rows = [t \in AllTables |-> IF t \in emptied THEN {} ELSE @[t]]]

(* reset_db_clean: truncate and commit, then two companies and their users. *)
ResetTruncate ==
    /\ NoOperator /\ CanTruncate
    /\ db' = Truncated
    /\ tool' = "reset"
    /\ UNCHANGED <<run, failed>>

AcmeRows == Plain("acme", {"companies", "users"})
ResetInsert ==
    /\ tool = "reset"
    /\ IF CanInsert(AcmeRows) THEN Insert(AcmeRows) ELSE UNCHANGED <<db, run>>
    /\ tool' = "none"
    /\ UNCHANGED failed

(* seed_demo_data: truncate, or go on where that fails; the knowledge base,
   which commits; then everything else in one transaction. *)
DemoTruncate ==
    /\ NoOperator
    /\ db' = IF CanTruncate THEN Truncated ELSE db
    /\ tool' = "demo"
    /\ UNCHANGED <<run, failed>>

DemoKnowledge ==
    /\ tool = "demo"
    /\ IF CanInsert(KnowledgeRows) THEN Insert(KnowledgeRows) /\ tool' = "demo_rows"
       ELSE UNCHANGED <<db, run>> /\ tool' = "none"
    /\ UNCHANGED failed

DemoPolicies ==
    Plain("demo", {"companies", "users", "policy_versions", "obligations"})
    ++ [policies |-> Row("demo", {"owning_department_id"}, {}),
        clauses |-> Row("demo", {"clause_type"}, {})]
DemoFindings == Plain("demo", {"regulatory_mappings", "conflicts", "recommendations"})
DemoRows == DemoPolicies ++ DemoFindings
DemoInsert ==
    /\ tool = "demo_rows"
    /\ IF CanInsert(DemoRows) THEN Insert(DemoRows) ELSE UNCHANGED <<db, run>>
    /\ tool' = "none"
    /\ UNCHANGED failed

(* A migration or a tool is killed. *)
Kill ==
    /\ ~NoOperator
    /\ run' = NoRun
    /\ tool' = "none"
    /\ UNCHANGED <<db, failed>>

DbNext ==
    \/ \E dir \in {"up", "down"} : StartRun(dir)
    \/ ExecuteStatement \/ FinishRevision \/ CommitRun \/ RefuseStatement
    \/ \E kind \in Uploads : Upload(kind)
    \/ Analyse
    \/ SeedDatabase \/ ResetTruncate \/ ResetInsert
    \/ DemoTruncate \/ DemoKnowledge \/ DemoInsert
    \/ Kill

DbSpec == DbInit /\ [][DbNext]_dbVars

-----------------------------------------------------------------------------
(* verify_database: the worst of its checks.  Its look-ups of single seed rows
   by name, which can only make it stricter, are left out. *)

(* How many rows a writer leaves in a table, where the verification counts. *)
Counts ==
    [by \in Writers |->
        CASE by = "seed" -> SeedCounts
          [] by = "demo" -> [companies |-> 5, users |-> 5, policies |-> 15, policy_versions |-> 15]
          [] by = "acme" -> [companies |-> 2, users |-> 2]
          [] by = "kb"   -> [regulatory_frameworks |-> 4, regulatory_clauses |-> 10]
          [] by = "app"  -> [companies |-> 1, users |-> 1, policies |-> 1, policy_versions |-> 1]]
Minimum == [companies |-> 2, departments |-> 5, users |-> 5, policies |-> 6, policy_versions |-> 12,
            regulatory_frameworks |-> 3, regulatory_clauses |-> 7]
Count(t) ==
    FoldSet(LAMBDA by, n : n + (IF Wrote(by, t) THEN Counts[by][t] ELSE 0), 0,
            {by \in Writers : t \in DOMAIN Counts[by]})

CheckMigrationStatus == db.rev = HeadRevision
CheckTables == AllTables \subseteq Tables(db.schema)
CheckForeignKeys ==
    ExpectedForeignKeys \subseteq
        UNION {{<<t, k[1], k[2]>> : k \in db.schema.tables[t].refs} : t \in Tables(db.schema)}
CheckSeedDataOfTenants ==   \* a faulty variant: counts what every tenant has
    \A t \in {"companies", "users", "policies", "policy_versions"} : Count(t) >= Minimum[t]
CheckSeedData == (\A t \in DOMAIN Minimum : Count(t) >= Minimum[t]) /\ MarkerPresent
VerifyPasses == CheckMigrationStatus /\ CheckTables /\ CheckForeignKeys /\ CheckSeedData

-----------------------------------------------------------------------------
(* Properties. *)

(* Whatever way a database has come, no migration ever trips over the schema
   it finds.  Upgrades fail only where the migration says it assumes an empty
   table (881fa18357a3), downgrades only where rows written since cannot be
   expressed any more. *)
FailuresAreAboutData ==
    failed # NoFailure =>
        /\ failed.schema
        /\ <<failed.dir, failed.rev, failed.op.table>> \in
               {<<"up", 1, "policy_versions">>, <<"down", 2, "policies">>,
                <<"down", 3, "clauses">>, <<"down", 14, "clauses">>}

(* At the head revision every ORM model can be written and read, also after
   downgrades that are not the inverse of their upgrade. *)
HeadServesModels == db.rev = HeadRevision => \A t \in AllTables : Serves(db.schema, t)

(* Committed rows keep the constraints of the committed schema, although the
   application writes while a migration that adds constraints is under way,
   and every row has its parents, whatever was truncated or recreated. *)
RowsFitSchema ==
    \A t \in AllTables : \A r \in db.rows[t] :
        /\ t \in Tables(db.schema)
        /\ r.nulls \subseteq Nullable(db.schema, t)
        /\ r.repeats \cap DOMAIN db.schema.indexes = {}
        /\ \A k \in db.schema.tables[t].refs :
              k[1] \notin Nullable(db.schema, t) => Wrote(r.by, k[2])

(* When the verification passes, the database serves the application and holds
   the whole seed, so that seeding again does nothing. *)
VerifyIsSound ==
    VerifyPasses => HeadServesModels /\ \A t \in SeedTables : Wrote("seed", t)

(* Migrating loses no rows but obligations, where both schemas have the table. *)
OnlyObligationsAreLost ==
    [][CommitRun => \A t \in (Tables(db.schema) \cap Tables(db'.schema)) \ {"obligations"} :
           {r.by : r \in db.rows[t]} = {r.by : r \in db'.rows[t]}]_dbVars

=============================================================================
