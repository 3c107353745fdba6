# Verification of PolicySentinel

PolicySentinel takes policy documents, cuts them into clauses, extracts an
obligation from each clause with a language model, compares the obligations of
all policies of a company, and stores duplicates, contradictions and gaps as
conflicts.  This directory holds TLA+ models of its backend (`src/backend`),
the TLC configurations that check them, and TLAPS proofs about them.

Paths below are relative to `src/backend` unless they begin with `src/`.

## The system

| part | keeps | operations | talks to |
|---|---|---|---|
| Upload (`api/v1/endpoints/uploads.py`, `services/persist_policy_upload_service.py`) | companies, users, policies, versions, stored files, clauses, audit rows | `POST /uploads/policies` | clause repository, file storage, starts the analysis thread |
| Analysis thread (`_run_async_ai_pipeline` in the same file) | nothing between runs | extraction, comparison, graph sync | the two pipelines, its own session |
| Extraction pipeline (`services/ai/obligation_extraction_pipeline_service.py`) | obligations, regulatory mappings | `run_pipeline` | language model, knowledge base |
| Comparison pipeline (`services/comparison/*`) | conflicts, recommendations | `run_pipeline`, `compare_versions`, `detect_conflicts` | embeddings, language model |
| Clause repository (`repositories/clause_repository.py`) | clauses (soft delete) | `save_all` (commits), `delete_for_policy_version` (does not) | - |
| Re-segmentation (`api/v1/endpoints/clauses.py`) | - | `POST /clauses/resegment` | clause repository, segmentation |
| Policy management (`services/policy_management_service.py`) | soft-delete flags | list, get, download, `delete_policy` | clause repository |
| Knowledge base and mapping (`services/regulatory_knowledge_base_service.py`, `services/ai/regulatory_mapping_service.py`) | frameworks, their clauses, mappings | seed, map, re-map | language model |
| Language model client (`services/ai/gemini_client.py`) | process-wide circuit breaker | create, trip | remote service |
| Review (`services/conflict_management_service.py`, `services/recommendation_management_service.py`, findings) | statuses, audit rows | status updates | - |
| Scores and dashboard (`services/policy_health_score_engine.py`, `services/compliance_risk_score_engine.py`, `services/compliance_dashboard_service.py`) | a ten-second cache | `calculate_health_score`, `get_executive_summary` | the rows of all the others |
| Migrations (`alembic/`) and models (`models/`) | the schema | upgrade, downgrade | the application writes meanwhile |
| Setup (`src/scripts/setup/`) | - | seed, demo data, reset, verify | truncates and fills the same tables |
| Graph (`graph/*`) | Neo4j nodes and edges | `sync_policy`, `sync_all`, queries | Neo4j |
| Segmentation (`services/clause_segmentation_service.py`, `services/ai/ai_clause_segmentation_service.py`) | the clauses, the stack and the paragraph of one scan | `segment`: rules, then the model or a fallback | language model |
| Normalization, parsing, validation | - | pure functions | - |
| Frontend, deployment | - | - | HTTP API |

What makes it hard:

* Every upload starts a daemon thread; threads of one company run side by side,
  read each other's half-finished results, and race with uploads, deletions and
  re-segmentations.  A thread that dies is never restarted.
* Helpers commit where the caller does not expect it: `save_all` commits the
  whole upload, `seed_default_frameworks` commits in the middle of the
  extraction loop, and the inner handler of `persist` commits what a failed step
  left behind.
* Both loops of an analysis log a failed query and go on, in a transaction that
  PostgreSQL has aborted by then and whose COMMIT it answers with a rollback that
  raises nothing.
* Handlers read, spend minutes in calls to a language model, and then act on
  what they read.
* Scores, the dashboard and the graph are computed by series of queries, each
  of which sees another moment, and are then kept: in a cache, or in Neo4j.
* The schema changes under running requests: a migration is one transaction of
  up to a hundred statements, and it locks a table only once it touches it.
* The database runs at READ COMMITTED: a statement sees what is committed when
  it starts, and an UPDATE that waited for a row looks at that row again, but
  never sees rows inserted meanwhile.

What correct means, part by part: an upload is visible whole or not at all
(upload); obligations are complete once they are audited, but for one clause
where a failure was logged and passed over, and never change afterwards
(extraction); comparisons are stored whole or not at all, and of two policies of a
company that were compared without a failure at least one comparison reflects all
that is stored of both (comparison); the clauses of a
live version never disappear and a deletion is whole (clauses, policy
management); no text is lost or moved and clauses nest as their levels say
(segmentation); the graph answers what the database would (graph); the audit
trail tells each decision and a served score is not older than it claims to be
(review, scores); frameworks appear whole and a mapping cites what exists (knowledge base);
a tripped breaker ends the calls and vectors of two kinds are not compared
(language model client); whatever way the schema has come, at the head it serves the
models and the rows fit it (migrations, setup).  The hazards behind these, each at its line, are in
`PROJECT.json`.

## Modules

| module | models | proofs |
|---|---|---|
| `PolicyPipeline` | analysis threads, uploads, re-segmentations, deletions | `PolicyPipelineProofs` |
| `PolicyUpload` | one call of `persist`, statement by statement | `PolicyUploadProofs` |
| `UploadAtomicity` | what an upload promises; `PolicyUpload` refines it | - |
| `ClauseLifecycle` | re-segmentation and deletion with row locks | `ClauseProofs` |
| `ClauseReplacement` | what readers see of these; `ClauseLifecycle` refines it | - |
| `ClauseSegmentation` | how a text becomes nested clauses, by rules or by the model's answer | `ClauseProofs` |
| `KnowledgeGraph` | overlapping synchronisations of Neo4j and the endpoints that read it | `KnowledgeGraphProofs` |
| `ComplianceReview` | reviews with their audit trail, the scores and their cache, the summary | `ComplianceReviewProofs` |
| `KnowledgeBase` | seeding of the frameworks, mapping, mapping again, side by side | `KnowledgeBaseProofs` |
| `KnowledgePublication` | what readers see of these; `KnowledgeBase` refines it | - |
| `LanguageModel` | clients, the circuit breaker, retries, the switch of the embeddings | `ClauseProofs` |
| `Ddl` | what a DDL statement needs, does and locks in PostgreSQL (external) | - |
| `DatabaseSchema` | the fourteen migrations as sequences of statements | `DatabaseScriptProofs` |
| `OrmModels` | the tables as the ORM models declare them | - |
| `DatabaseLifecycle` | migrations, application and setup tools on one database | `DatabaseLifecycleProofs` |
| `DatabaseInvariant` | the schema at every place of a migration, and the inductive invariants (no code of its own) | both |
| `MC...` | instances of the nine component modules for TLC | - |

The component modules meet at their edges.  `PolicyUpload` shows that an
upload becomes visible in one step and that the thread starts only after that;
`PolicyPipeline` therefore has one action `Upload`.  `ClauseLifecycle` shows
(`RequestsAreSteps`) that a deletion is one step for readers, and so is a
re-segmentation, which replaces what its snapshot matched: all visible clauses, if
it does not overlap with another;
`PolicyPipeline` has one action `DeletePolicy` and one `Resegment`.
`ClauseSegmentation` is what happens inside the step `Segment`
of `PolicyUpload` and before the UPDATE of a re-segmentation; it has no effect on
the database.  `KnowledgeBase` is what happens between the steps
`StageObligation` of `PolicyPipeline`: its `CommitSeed` is `SeedCommit` there.
`LanguageModel` is what every call of the model in the others goes through.

### PolicyPipeline

One policy is one upload with one version, which is what `persist` creates.
`pc[p]` walks along `_run_async_ai_pipeline`; `fate[p]` says whether that still
runs.  An obligation is named by its clause, since the loop stores one for each
clause it read.

| code | action |
|---|---|
| `save_all` commits; or no clauses are stored | `Upload`, `UploadUnsegmented` |
| second commit, `Thread(...).start()` | `StartThread` |
| the extraction loop: read, flush, the commit inside `map_obligation`, end | `ReadClauses`, `StageObligation`, `SeedCommit`, `FinishExtraction` |
| `except Exception as map_err` | `MappingFails` |
| audit row and commit | `AuditExtraction`, `AuditComparison` |
| `existing_policies` | `SnapshotPeers` |
| `compare_versions` of one peer | `CompareVersions` |
| `detect_conflicts` and the flushes of its rows | `RecordConflicts` |
| `except Exception` of the comparison loop: before, or while records are flushed | `SkipPeer`, `RecordFewerConflicts` |
| `run_pipeline`'s commit | `CommitConflicts` |
| `delete_policy` | `DeletePolicy` |
| `resegment_clauses` | `Resegment` |
| a statement fails and its exception ends the thread | `DbFailure`, `HitAbortedTransaction` |
| the process dies | `Crash` |

Choices worth knowing:

* *Scores are constants.*  `Score`, `TargetMatch` and `SameTerms` stand for the
  embeddings and the text comparisons of `detect_conflicts`, in percent for the
  floats.  The thresholds 0.60, 0.70 and 0.90 are the code's.  When the
  embeddings may change kind in the middle of a run is the subject of
  `LanguageModel`.
* *What a failed statement does.*  The extractor and the explanation services fall
  back to rules instead of raising, so what can fail is the database.  A failed
  flush or a lost connection leaves the session unusable and expires its objects;
  the `except` blocks of both loops touch such objects (`clause.id`,
  `existing_policy.id`) and raise again, which ends the thread (`DbFailure`).  A
  failed SELECT on a connection that lives (a deadlock victim, a cancelled query)
  leaves the session usable, and the handlers log it (`logged`) and go on.  But
  nobody rolls back: the transaction is aborted (`tx`), every later statement of
  it fails, and `commit()` is a rollback without an error, after which the session
  works again.  In the comparison every later peer is skipped then and the commit
  takes back the rows of all peers, though the audit row follows; if there were no
  rows there is no commit, and the audit row itself fails.  In the extraction the
  next clause ends the thread; there is none after the last one, so the commit
  takes back its obligation and the audit row follows.  The thread's session is a
  plain `Session`, which flushes before each query, so nothing is left for the
  commit of an aborted transaction to flush, and fail at.
* *Deleted clauses count.*  The queries of the comparison do not look at
  `Clause.deleted_at`, so `ObligationsOf` does not either.
* *The columns a language model fills, recommendations and regulatory mappings*
  are left out; no property reads them.
* *Clauses are replaced* at any moment: `visible[p]` is what a query finds,
  `clauses[p]` what the thread has read.  The thread goes on with what it read,
  and no analysis is started for the new clauses, so the obligations may be those
  of clauses that are deleted by now.  What remains true is
  `AuditedExtractionIsComplete`: they are the obligations of one whole
  segmentation, but for a clause whose mapping failed.  The reference of the
  comparison is therefore what is stored for the two policies.
* *A commit whose outcome is unknown* (the connection is lost during it) is not
  modelled: a commit happens or fails.

### PolicyUpload

The state of one call of `persist` is its position, the rows its transaction
holds (`tx`) and what it resolved; `db` is what is committed.  `Fail` is the
outer handler, `Salvage` the inner one.  Calls do not overlap: the endpoint is
`async def`, `persist` never awaits, and `src/docker/backend/Dockerfile` starts
one worker.  `Begin` has that as its guard, and the mutant of
`OneCompanyPerName` shows what a second worker would do.  The file is a row of
the same transaction because `api/dependencies/uploads.py` wires the Postgres
repository.  `CREATE`-by-id (`auto_create_missing`) is unreachable from the
endpoint and left out.  Rejected clauses (`IntegrityError`) are kept although
the unique index that used to cause them is gone.

### ClauseLifecycle

One policy, its version, and batches of clauses (all clauses one request
inserted).  `StartUpdate`, `VisitBatch`, `FinishUpdate` are one SQL UPDATE:
snapshot, row by row, done.  `lock` and `versionLock` are Postgres row locks,
which also mark the rows an open transaction has changed.  `Rank` is the order
in which rows are visited; it is the same for all statements because they are
the same statement on the same index.  Without that assumption Postgres itself
would break cycles of waiting requests by failing one (`Fail`).  A process crash
is a `Fail` of every open request.

### ClauseSegmentation

The scan of `_segment_rules` is a machine whose input is the next line.  A line
is reduced to what `_match_marker` makes of it: its kind, its depth and whether
anything follows the marker; a line of text is named by its number.  `document`
records the lines read, for the properties only.

| code | action |
|---|---|
| a blank line | `ReadBlank` |
| `_match_marker` returns `None` | `ReadText` |
| flush, `_resolve_level`, pop, new clause, push | `ReadMarker(m)` |
| the last flush | `EndOfText` |
| `is_poor_segmentation`, `segment_with_ai` | `KeepRules`, `AskModel` |
| one turn of the loop of `_to_policy_clauses` | `ToPolicyClause(l)` |
| one turn of `_heuristic_segmentation_fallback` | `ParagraphClause` |
| `if len(ai_clauses) >= 1` | `EndOfAnswer` |

A clause has the number of its marker's line as `line`, which the code does not
keep.  A title that is split off a heading stays with the clause as its heading;
the rest of the line goes to the paragraph, as the whole line does otherwise.
The model may answer any levels; what its clauses say is left out.  A subheading
that skips a level may end up below a list item: the code nests by level alone,
and so does `RulesNest`.

### KnowledgeGraph

`rows` is the database, `graph` is Neo4j, `sync[s]` is one call of `sync_policy`:
its position, its policy and what its queries have returned.

| code | action |
|---|---|
| the policy is looked up, `initialize_constraints` | `StartSync` |
| the five queries | `ReadClauses`, `ReadObligations`, `ReadMappings`, `ReadConflicts`, `ReadRecommendations` |
| one `UNWIND ... MERGE` each | `MergePolicy`, `MergeClauses`, `MergeObligations`, `MergeRegulations`, `MergeFindings`, `MergeRecommendations` |
| the loop over the conflicts, three statements a turn | `LinkSource`, `LinkTarget`, `RelateEnds` |
| `except Exception` | `FailSync` |
| commits of the other components | `StorePolicy`, `StoreObligation`, `StoreConflict`, `Resegment`, `Remap`, `DeletePolicy` |

Each statement is a transaction of its own, because the code uses auto-commit
(`session.run`).  The operators `Graph...` are the Cypher queries of the
endpoints and `Sql...` are their fallbacks.  `changed` and `retracted` are history
variables: a synchronisation is only accountable for a policy whose rows stayed
as they were since it began, and the graph never forgets anything.  What each
component does to the rows is taken as one commit; `PolicyPipeline` and
`ClauseLifecycle` say when that is so.  A property of a node or relation (texts,
scores) is left out.

### ComplianceReview

| code | action |
|---|---|
| `get_recommendation_details`, then the UPDATE and the audit row in one commit | `ReadRecommendation`, `CommitReview`, `AbandonReview` |
| `update_conflict_status` | `UpdateConflictStatus` |
| `calculate_health_score`: the clock, the cache, one query at a time, the cache | `TakeTime`, `ServeCached` or `FindPolicy`, `ReadConflicts`, `ReadObligations`, `ReadMapping`, `ReadVersions`, `ReadAccepted`, `StoreScore` |
| `get_executive_summary` | `ReadPolicies`, `ReadCompanyConflicts`, `ReadRecommendations`, then the above for each policy |
| its `except` around one policy | `FailQuery` |

SQLAlchemy writes only attributes that differ from what was read, so a decision
that repeats the status read leaves the stored one alone (`CommitReview`).
Scores are integers: tenths of a point, with hundredths for the parts, rounded
half up where the code rounds floats.  The caps that the code states and the formula can never reach are
left out, with a comment.  A conflict has at most one recommendation, which is
what the pipeline creates.  Staleness of a version is a choice of `ReadVersions`:
it depends on the text and the date.  The session is `get_db_session`'s; after a
failed query nothing of it can be used, and the summary goes on with the
remaining policies.

### KnowledgeBase

`call[c]` is the session of a thread at one obligation, of a request to map an
obligation again, or of a listing: its position and the rows it has added and
not committed.  A statement sees those and what is committed.

| code | action |
|---|---|
| the loop of `run_pipeline` reaches an obligation | `BeginExtraction` |
| `remap_obligation`, `list_regulatory_frameworks` | `BeginRemap`, `RefuseRemap` (404), `BeginListing` |
| `seed_default_frameworks`: one framework looked up or added, its clauses, the commit | `FindFramework`, `AddClauses`, `CommitSeed` |
| the query of the listing | `ListFrameworks` |
| the model's answer or `_get_rule_based_mapping` | `MapObligation` |
| the regulation of that name and reference | `FetchRegulation` |
| the mapping row: of a thread, of a request | `InsertMapping`; `CheckExisting`, then `UpdateMapping` or `InsertMapping` |
| a statement fails, the process dies | `Fail` |

The keywords of the rules are reduced to the first rule that matches
(`FirstRule`); what the model cites is one of `ModelAnswers`, known or not.  The
clauses of one framework are added in one step, since only seeding writes them.
The flush of a mapping and its commit are one step: the row is locked or not
yet visible in between.  SQLAlchemy writes the columns that differ from what was loaded,
and `UpdateMapping` does so.  `confidence` and `explanation` are left out.
`overlapped` is a history variable: mappings written by a call that had loaded
an older version.  `add_framework` and `add_clause` have no caller.

### LanguageModel

| code | action |
|---|---|
| `create_gemini_client` in the constructor of a service | `Construct` |
| the guard of a task, and its local answer | `AnswerLocally` |
| the call; its answer; an error that names a quota; a transient error; any other | `Call`, `Reply`, `RefuseForQuota`, `FailTransiently` and `CallAgain`, `FailOtherwise` |
| `compare_versions` embeds the obligations of two versions | `BeginComparison`, `EndComparison` |
| the process starts | `Restart` |

A service is reduced to three facts, read off its code (`Policy`): whether it
looks at the breaker before a call, whether a refusal trips it, and how often a
transient failure lets it call.  (The extractor passes `max_retries=1`, which is
one call and no retry.)  The remote service is a choice of outcomes, so an
action stands for every reason the code does not tell apart.  The order in
which services are constructed and used is free, which is more than the
pipelines do.  `refused` and `after` are history.
`reset_circuit_breaker` has no caller.

### DatabaseLifecycle

A schema (`Ddl`) is tables with columns, types, foreign keys, checks and
triggers; indexes; enum types; functions.  A statement has a condition on the
schema, one on the rows, an effect on both and the tables it locks.
`DatabaseSchema` writes each migration in these statements, in the order of the
file, `InitialUpgrade` table by table.  `OrmModels` writes each model as the
columns it fills, may leave null, and leaves to the server.

| code | action |
|---|---|
| `alembic upgrade` or `downgrade` to a revision, one transaction (`alembic/env.py`) | `StartRun`, `ExecuteStatement`, `FinishRevision`, `CommitRun`, `RefuseStatement` |
| an upload, an analysis | `Upload`, `Analyse` |
| `seed_database.py` | `SeedDatabase` |
| `reset_db_clean.py`: two transactions | `ResetTruncate`, `ResetInsert` |
| `seed_demo_data.py`: three transactions | `DemoTruncate`, `DemoKnowledge`, `DemoInsert` |
| any of these is killed | `Kill` |
| `verify_database.py` | the operators `Check...`, `VerifyPasses` |

Rows are told apart by who wrote them, by the nullable columns they leave null
and by the unique indexes they would break; values are left out.  The tools run
one at a time and not during a migration, which is how one operator works
(`NoOperator`); the application never stops.  A batch of the application that meets a
locked table is simply not taken yet.  `DbInit` is the empty database before the
first migration.

## Runs

| run | instance | checks | shows |
|---|---|---|---|
| `pipeline` | two policies with threads and three clauses, which a fourth replaces; a third of their company and one of another without clauses; fairness; two mishaps of any kind | five invariants, two action properties, two liveness properties | extraction and comparison are safe under every interleaving with each other and a re-segmentation, every failure and crash; every step of a thread brings it nearer to its end, and threads end; each pair is reported |
| `gap_race` | two policies | `GapRowsAreTrue` | violated, see below |
| `upload` | three of four kinds of request in sequence, two of them lost | three invariants, the refinement | an upload is atomic |
| `upload_orphan` | four requests | `FailedUploadLeavesNothing` | violated, see below |
| `clauses` | three re-segmentations and two deletions, fairness | four invariants, the refinement, one liveness property | replacement and deletion are single steps for readers; no waiting in a circle, nor for ever |
| `resegment_race` | two and two | `DeletedPolicyShowsNoClauses` | violated, see below |
| `segmentation` | every text of up to five lines (six with the one that ends it) of seven sorts, every answer of up to four levels | four invariants | text keeps its place; clauses nest |
| `schema` | eight of the fifteen revisions as targets, two kinds of upload | four invariants, one action property | which statements of a migration can fail; the head serves the models; rows fit the schema; `verify` is sound |
| `graph` | two synchronisations, two policies with a contradiction and a gap row | two invariants | overlapping synchronisations lose no link; graph and fallback agree |
| `review` | two reviews, two requests, two policies, two ticks of the clock | two invariants, one action property | decisions are audited; served scores are recent; scores move the right way |
| `knowledge` | two extractions, two requests to map again, a listing; two at a time | four invariants, the refinement | frameworks appear whole, seeding again adds nothing, mappings cite what exists and come after it |
| `breaker` | two threads, one service of each way to treat the breaker | two invariants | the unlocked breaker ends the calls; where vectors of two kinds meet |

The type invariants, and `ListingIsComplete`, are proved for all values of the
constants and not in a run.

**Bounds.**  Sets of requests and policies are finite; nothing else is bounded
in `clauses` and the three violation runs.  `pipeline` has the constraint
`FewThreads`: the policies `Bare` are there from the start, have no clauses, no thread
and are not deleted; one is of another company, to be left alone, the other
of the same company, to be a second peer of one comparison.  With the other two
at most two `Mishaps` occur, where a deletion, a re-segmentation, a policy whose
thread fails or logs a failure each count one, and a failed comparison and a crash
two: so any two kinds of the former meet, in any order, and the latter meet every
interleaving of the threads.  The policy with two clauses is segmented once more, into a
single one: a mixture of the two segmentations would be neither.
Two policies with threads suffice for the races between a pair,
which is what the properties relate.  `upload` bounds the requests
and the lost ones by `MaxRequests` and `MaxLostRequests`.  The clauses are chosen so
that every rule of the conflict engine fires: two clauses that are duplicates,
two that contradict each other, similar by target only, and clauses without
counterpart.  Four kinds of request cover the
ways to name a company and an uploader; a company that two of them create is
the case that needs three.  Three re-segmentations and two deletions give chains
of waiting in which every lock holder may fail.  `segmentation` bounds the lines and the clauses of an
answer by `MaxLines` and `MaxAnswer`; depths 2 and 3 let a text skip a level, and
five lines hold a skipped level, a list below it and a return to an earlier one.
`schema` has no bound on the number of migrations, uploads and tools that follow
each other; `MCStops` are the revisions around the migrations that need or
remove something of the rows; every statement is still executed on the way past
the others.  `graph` and `review` cut the order in which rows are stored with a
constraint, `FewRows` and `FewEvents`, whose comments say how: a policy and its
obligation come before the other's, only one of two is deleted or mapped.  Two
synchronisations are the least that overlap, and a contradiction and a gap row the least that make a loop
over conflicts with and without both ends.  `TTL = 2` and `MaxTime = 2` let an
entry be stored late, served and expire.
`knowledge` has the constraint `TwoAtATime`: two calls hold a session at a time,
which is what a race over one framework or one mapping takes, and the others
follow; two answers of the model, one of which cites a clause of another
framework.  `breaker` takes three of the eleven services: one that checks and
trips the breaker (nine of them do), segmentation, which retries, and embedding.
The proofs remove the bounds for all safety properties.

**Deadlock checking** is on in `schema`, where a migration can always be run, and in
`breaker`, where a service can always be constructed.  It
is off in all other runs: every system there is a finite set of
requests that stops when all have ended, possibly early (a thread that was
killed), or one text that has been segmented.  That the requests
never all wait for each other is the invariant `NeverAllWaiting` instead, and that
nobody waits for ever the liveness properties `ThreadEnds` and `RequestsEnd`.

**Fairness.**  A started thread and a request that has begun are operating
system threads, which are scheduled: weak fairness of `Thread(p)` and of the
steps of a begun request.  Uploads, deletions, failures and crashes are never
fair.  Weak fairness suffices for `RequestsEnd` although a request may lose the
race for a row again and again, because each winner ends.

### Disagreements with what the code says of itself

* **`gap_race`**: a comparison reads every active policy of the company, also
  those whose extraction has only begun.  It then stores "missing" rows for
  obligations that the peer does cover, and nothing revises them, although the
  comment in `conflict_detection_engine.py:148` promises obligations "not
  present in B".  `OneOrientationExact` says what remains true.
* **`upload_orphan`**: `save_all` commits everything; when a later statement of
  `persist` fails, the client gets an error and the policy stays, with clauses
  and file and without analysis.  The module docstring
  (`persist_policy_upload_service.py:19-20`) and the system documentation
  (`src/docs/POLICY_SENTINEL_SYSTEM_DOCUMENTATION.md:201`) say otherwise.
  `PublishedTogether` and `UploadIsAtomic` say what remains true.
* **`resegment_race`**: a re-segmentation that read its version before a
  deletion committed inserts clauses of a deleted policy, which `GET /clauses`
  then shows; `policy_management_service.py:161-162` excludes that.  (The
  docstring of `api/v1/endpoints/clauses.py` also says that clauses disappear
  only through `DELETE /policies/{policy_id}`; re-segmentation, in the same
  file, deletes them too.)
Two more.  The silent rollback described under `PolicyPipeline`:
`services/comparison/comparison_pipeline_service.py:271` logs "Successfully committed %s
conflict records" and `services/persist_policy_upload_service.py:381` records
"Successfully completed semantic comparison and conflict detection" where none is
stored, and the commit "all successfully extracted obligations"
(`services/ai/obligation_extraction_pipeline_service.py:133`) leaves one of them out.
It has no run of its own: `pipeline` contains these behaviours, and
`ComparisonIsAtomic` and `AuditedExtractionIsComplete` say exactly how much they
take.  The other has none because it is about who calls whom and not about a
state: `repositories/clause_repository.py:13-15` says that the pipeline never
calls the AI layer, so that every row is marked `RULE_BASED`; `segment` does call
it (`AskModel`), and its clauses are marked the same.

Found while modelling, and kept out of the properties or in their exceptions:

* Two calls that overlap both find a framework absent and both add it: the unique
  index is on name and edition, and seeding leaves the edition null.
  `seed_default_frameworks` (`regulatory_knowledge_base_service.py:113`)
  promises to seed "if not already populated".  `FrameworksAreWhole` and
  `SeedingIsIdempotent` say what remains true: both rows get all their clauses,
  and nobody adds a third.
* A thread commits an obligation before its mapping exists, and then inserts the
  mapping without looking.  A request to map it again in between sees none and
  inserts one, although it did "Check if a mapping record already exists"
  (`api/v1/endpoints/regulatory_mappings.py:112`), so an obligation may have two.
  `MappedInTheEnd` therefore asks for one at least.
* Of two requests that overlap the second writes only the columns that differ
  from those it loaded, so a mapping may keep the framework of one answer and the
  clause of the other.  The endpoint "commits updates"
  (`regulatory_mappings.py:83`).  `MappingsAreHonest` leaves such rows out
  (`overlapped`).
* `gemini_client.py:21` says a tripped breaker causes "all subsequent AI operations
  to immediately use local fallbacks"; `get_embedding` and `segment_with_ai` do
  not look at it.  `src/backend/ai/README.md:5` says it also monitors "connection
  failures"; none trips it, nor does any failure of segmentation or embedding.
  `QuotaErrorsAreFew` is about the services that trip it.
* `models/mixins.py:34` says a trigger bumps `updated_at`; the tables
  `obligations` (since f82fa18357a5), `conflicts`, `recommendations` and
  `regulatory_mappings` have no such trigger (no `UpdatedAtTrigger` in their
  migrations).
* `src/docker/postgres/README.md:8` calls seeding repeatable.  After seed and
  reset it fails: the reset removes the marker company and leaves the frameworks,
  whose name and edition are unique (`SeedCollides`).
* The TRUNCATE of the reset and demo tools empties `audit_logs` by CASCADE, although
  that table is append-only (`models/audit_log.py:3-7`): its trigger is for
  UPDATE and DELETE.
* After a downgrade to 517c2ef6e254 with versions stored, no upgrade succeeds
  any more: 881fa18357a3 adds required columns without default.  Its comment
  assumes an empty table, and `FailuresAreAboutData` has this as an exception,
  next to the downgrades that meet rows the older schema cannot hold.
* The graph keeps what was deleted, segmented anew or mapped anew, hence
  `retracted`.  Of the impacted policies, the graph answers those linked by
  `CONFLICTS_WITH` and the fallback those of all conflicts (`SqlImpacted`), so only an
  inclusion holds.  `get_policy_graph` promises findings
  (`api/v1/endpoints/graph.py:39`) and its fallback has none.
* A conflict committed after the peer's synchronisation read its rows, and linked
  before the peer's obligations were in the graph, is not related until the next
  synchronisation: `BothEndsLinked` needs both to have read it.
* The health score counts resolved conflicts although its comment says "active"
  (`services/policy_health_score_engine.py:94`), and still scores deleted
  policies.  Deductions of the compliance score stay below 55 points, so the
  risk level "Critical" is never reached.  A summary whose queries fail reports
  an average health of 100.
* `core/lifespan.py:8` calls the Neo4j driver an extension point that is not
  wired; it is.

## Proofs

TLAPS proves the following for all values of the constants, from the named
assumptions `CompanyAssumption`, `ClauseAssumption`, `SimilarityAssumption`,
`RequestAssumption`, `LevelAssumption`, `ShapeAssumption`, `NoneAssumption`,
`DisjointAssumption` (a policy is not a clause),
`CallsAssumption`, `AnswersAssumption`, `ServicesAssumption`, `ThreadsAssumption`,
`DocumentAssumption`, `ScanAssumption` and `UploadAssumption` only, which say that the
constants have the types they are used at, that threads are finitely many, that one
segmentation of a document finds finitely many clauses, and that all UPDATEs visit
rows in one order; the last is used for `NoCircularWait` alone.  The theorems about
`DatabaseLifecycle` use none: `StopsAssumption` and `UploadsAssumption` only say what
its runs may choose.  The specifications of `ClauseLifecycle`, `LanguageModel` and
`DatabaseLifecycle` have names of their own (`LifecycleSpec`, `LmSpec`, `DbSpec`),
because `ClauseProofs` extends two of them.

`PolicyPipelineProofs`: `TypeCorrect`, `RereadIsSafe`, `ExtractionAuditIsTrue`,
`ComparisonAtomicity`, `ConflictsWellFounded`, `NoPairIsMissed`,
`ObligationsAreSettled`, `ThreadsGetNearer`.  The inductive invariant `Inv` has eight parts:

* `TypeOK`;
* `SegmentationInv`: what is visible, and what a thread has read, is one whole
  segmentation, or nothing of a deleted policy (`Whole`);
* `ExtractionInv`: stored, staged and still-to-visit clauses together are the
  clauses the thread has read, however often they are replaced; past the loop
  only the stored ones are left, and a single clause may be missing among them if
  a failed mapping was logged (`Extracted`);
* `TransactionInv`: where the transaction of a thread is aborted a failure has been
  logged, and in the loop over the peers also the other way round;
* `AuditInv`: audit rows exist only past the stage that writes them;
* `ComparisonInv`: peers are other policies of the company, what was read is
  still stored, collected rows are well founded and come from visited peers;
* `CommitInv`: the stored rows of a thread are none before its commit, and after it
  all it collected, or none if it has logged a failed comparison;
* `ViewInv`: of two live policies of a company whose threads have taken their
  snapshot of the peers and logged no failed comparison, one *has the other in view*: it still has to visit it,
  or is comparing with all its obligations read, or has recorded exactly the
  reference rows.

`ViewInv` is why `OneOrientationExact` holds and needs the others to be
inductive: the thread that takes its snapshot second finds a first one that is
past its extraction, and from then on its obligations never change
(`ObligationsGrow`, `ExtractionInv`), so both reads return them all.  A thread
whose log is clean has a transaction that is not aborted (`TransactionInv`), so it
visited every peer and its commit stored what it collected.

`ThreadsGetNearer` is what can be proved of `ThreadEnds`, the liveness property
itself being outside the prover: the safety half, that a thread cannot go
round for ever.  Its measure is lexicographic, the stages of the thread ahead
(`StagesAhead`) and within a loop the turns ahead (`TurnsAhead`), which counts
clauses and peers still to visit.  Cardinalities mean something for finite sets
only, hence `FiniteInv`: the policies that have been uploaded, and what each
thread has left to do, are finitely many.  Where the sets of a next state come from
(`Sources`) is one lemma about the steps, how a step turns a thread (`Turn`)
another; that turns lower the measure is then arithmetic (`TurnsBringNearer`).
Nothing others do raises it, because what a thread has left is its own copy of
what it read.

`PolicyUploadProofs`: `Typed`, `UploadsAreWhole`, `ThreadsFindTheirRows`,
`NamesAreUnique`, and `Atomic`, the refinement of `UploadAtomicity`.  The
inductive invariant `IInv` says stage by stage of a call (`CallOf`) what is
committed and what is pending: nothing of it before the first commit
(`PreparedOf`), all of it after (`WholeIn`), and one or the other wherever the
inner handler can be entered (`SalvageableOf`).  `PublishedTogether` alone is not
inductive, because what a commit publishes is what earlier flushes have left in
the transaction.  A step of one call leaves the others alone (`StepAlone`), so each
action is examined for its own call only.  `NameInv` adds what unique names rest
on: calls do not overlap (`Serial`), so the lookup of a call sees every company
there is or will be until it commits.

`ClauseProofs` has three parts.  About `ClauseLifecycle`: `UpdatesAreTyped`, `DeletionIsAtomic`,
`ClausesAreReplacedAtomically`, `UpdatesAreComplete`, `NoCircularWait`,
`ReadersSeeSteps`.  The inductive invariant
adds to the properties that a batch exists exactly when its request is done,
that each batch an UPDATE saw is still to be visited, locked or deleted
(`EachSeenAccounted`), and that a deletion past its UPDATE of the versions has
the version to itself or comes after another (`VersionIsGoing`).

`NoCircularWait` takes `LockInv` besides: the rows a request has locked are all of
lower rank than those it still has to visit (`LocksAreBehind`); who has locked the
version is past it (`VersionOwnerIsActive`).  If all requests under way waited, the
owner of the highest row that is locked would wait for one that ranks higher
still.  There is a highest because stored batches are finitely many
(`FewStored`), whatever the number of requests.

`ReadersSeeSteps` is the refinement of `ClauseReplacement`.  A commit shows
what the abstract step says because what a request has locked and what it saw
and is still visible are then the same batches (`MineAreSeen`, from `LocksAreBehind`
and `EachSeenAccounted`): those it waited for in vain were deleted by another commit
and are missing on both sides.  A deletion that finds no version to delete takes
note of nothing, which is a step of its own because the policy is deleted by then
(`UnlistedIsDeleted`).

About `ClauseSegmentation`: `TypeCorrect`, `RulesNestAlways`, `ListsStay`,
`AnswerNestsAlways`, `TextStaysInPlace`.  The parent of a clause is the `Max` of
a set of positions; the invariants say without `Max` that it is the last of them
(`IsLastOf`), and `MaxIs` translates.  Two invariants are proved:

* `NestInv`: the stack is a subsequence of the clauses, later and deeper towards
  the top (`StackMatches`); every clause is covered by an entry that is not
  before it and not deeper (`LevelsCovered`), so the entry that is left on top
  after popping is the last clause of a lower level; and every clause of a kind
  lists hang from is covered by an entry of such a kind (`KindCovered`), so the
  last of them is still open when an item arrives.  `MapMatches` and `MapCovers`
  say the same of the map from levels to clauses;
* `TextInv`: what `TextKeepsItsPlace` says, and that everything in a clause or
  pending has been read and pending lines have content.  A flush
  (`FlushKeepsText`), a line (`LineKeepsText`) and a marker (`MarkerKeepsText`)
  each preserve it.

About `LanguageModel`: `TypesHold`, `QuotaErrorsStayFew`, `MixingIsConfined`.
`QuotaInv` counts: once the breaker is tripped, the calls that were refused and
the calls that may still be are of different threads, because a service that
trips the breaker looks at it (`PolicyFacts`).  `MixInv` says for each comparison
where its vectors come from: from the model until the flag is set or with a
client, locally otherwise.

`KnowledgeGraphProofs`: `TypesHold`, `ConflictsAreLinkedOnBothSides` and
`GraphAndRowsAgree`. The inductive invariant `LinkInv` says, for each
synchronisation, that the graph holds the obligations it has merged and hangs
each conflict it has visited on them (`HoldsMerged`), and for two of them and a
conflict both have visited, that its ends are related (`RelatedByEither`). The
latter is the point: the statement that relates the ends is silent when a node
is missing, but whichever of the two runs it later finds the other's
obligations, because these were merged before any linking and the graph only
grows (`Grows`). `GraphAgreesWithRows` takes `AgreeInv` besides. Three parts
bound the graph from above: rows cite rows (`RowsFit`), what a synchronisation
carries from its queries to its statements is of rows (`ReadIsOfRows`), so all
of the graph is (`GraphIsOfRows`); mappings are the exception, for a row may be
replaced between query and statement, and then its policy counts as
`retracted`. Two bound it from below: while no row of its policy changes, what
a synchronisation has read is what its queries would still return
(`ReadIsCurrent`), and the graph holds what it has merged (`GraphHolds`),
whatever others write. An operation on rows touches only policies it names,
whose synchronisations it marks as `changed` (`RowStepChange`), so each of the
others reads on as if alone.

`ComplianceReviewProofs`: `TypesHold`, which includes that every score stays in
its range, `AuditTrailIsComplete`, `ServedScoresAreRecent` and `ScoresAreMonotone`.
`TrailTellsDecision` is inductive by itself, because a review that repeats the
status it read does not write it.  For the age of scores the inductive invariant is
`RecentInv`: what a request computes with, what an entry of the cache holds and
what was served all cover the conflicts committed before a time (`Covers`): the
time the request took, the stamp of the entry, and the time asked for less
`TTL`.
`ScoresAreMonotone` is about the formulas: what a step does to the numbers of
rows, and that each part of a score is monotone in them.  The quotients of products
are non-linear; the lemmas on division reduce them to the order of the
products.

`KnowledgeBaseProofs`: the four invariants of `knowledge`, `TypesHold`,
`ListingsAreComplete`, and `PublicationIsOrdered`, the refinement of
`KnowledgePublication`.  The inductive invariant
`Inv` has four parts: the types; `StoreInv` (committed clauses belong to committed
frameworks, committed frameworks are whole, and where one is committed all are
named); for each call `SessionInv` (what its session adds is whole together with what it sees,
but for the framework it is at; it has seen to every entry before that; a call
that began after a commit adds nothing) and `MappingInv` (its regulation is that
of its answer, its row is one of its obligation).  One commit then takes
`SessionInv` over to `StoreInv`, whatever others have committed meanwhile, because
rows are never removed.  That the rules cite only what is seeded
(`RulesAreInCatalogue`) is about the two literal lists of the source.  The refinement takes
`PublishedInv` besides: a call that is past the seeding maps an obligation that is
published.  A later commit of the seeding changes nothing of what can be cited,
although it may add rows of the same names.

`DatabaseScriptProofs` and `DatabaseLifecycleProofs` prove of the migrations
everything `schema` checks, for any stops and any uploads: `ScriptsPlaced`,
`RowsAlwaysFit`, `MigratingKeepsRows`, `FailuresAlwaysAboutData`,
`HeadAlwaysServes`, `VerifyAlwaysSound`.  `schema` computes schemas one after the
other; a prover cannot, for no step of it can hold a schema of eighteen tables.
So `DatabaseInvariant` says what the schema is without computing it.  A *place* is a
direction, a revision and the number of the next statement.  For each place it says
in closed form which tables, columns, nullable columns, defaults, types, checks, keys,
named indexes, labels and functions there are (`Fits`): a part stands between the
statement of an upgrade that makes it and the statement of a downgrade that removes it
(`Stands`).  It shows where a downgrade is not the inverse of its upgrade: the old
table obligations has its index on clauses only until it is recreated (`Unsure`).

`Placed` says what a statement must be to lead from its place to the next: what it
needs is there (`ReadyTable`, `ReadyColumn`, `ReadyOther`), and it moves exactly the parts
that begin or end there (`MovesTables` and its like).  `ScriptsPlaced` shows it of each
of the 213 statements, script by script (`...Placed`).  `DatabaseLifecycleProofs` then
never looks into a script: from `Placed` follow that the schema allows the statement
and that `Fits` moves on with it.  Three inductive invariants carry the theorems:

* `RowsInv`: rows suit the schema, both the committed ones and the ones a migration
  under way works on, and the two databases differ in locked tables only.
  `RowsFitSchema` alone is not inductive: the application inserts on the strength of
  the committed schema into a database that a commit will replace.  That the locks
  of `Ddl` reach far enough is the heart of it: whatever a statement changes, or
  makes rows depend on, is locked from then on, so a batch that is let through meets
  tables that are the same in both.  Of the scripts this part knows only `Regular`,
  what each of their statements keeps to, and the keys that tables are made with
  (`Refers`, `Others`, `Blank`);
* `WritersInv`: what a migration under way has done to the rows of a table other
  than obligations is known by who wrote them, which is what
  `OnlyObligationsAreLost` compares at the commit;
* `FitsInv`: the schema, committed and under way, is that of its place, and so are the
  rows as far as failures depend on it (`RowsFit`): none before the first upgrade,
  the rows of the seed all or none, no clause without a policy except between two
  statements of one upgrade.

`HeadServesModels` is then a comparison of `Fits` at the last place with the models,
table by table, and `VerifyIsSound` follows from it and `RowsFit`: where the marker
company of the seed is, the rest of the seed is.  `FitsInv` and its parts
quantify over all names, which TLC cannot enumerate; they were tried on `schema` first with
the quantifiers bounded by the names that occur.

Only model-checked: liveness (`ThreadEnds`, `EveryPairReported`, `RequestsEnd`),
which is outside the prover.  Every safety property of a passing run has its
theorem.

## Plan

1. Done: `PolicyPipeline`, `PolicyUpload` with `UploadAtomicity`,
   `ClauseLifecycle` with `ClauseReplacement`, `ClauseSegmentation`, `KnowledgeGraph`,
   `ComplianceReview`, `DatabaseLifecycle` with `DatabaseSchema`, `OrmModels`
   and `Ddl`, `KnowledgeBase` with `KnowledgePublication`, `LanguageModel`, and the
   proofs above.
2. To keep up: a migration that is appended to `DatabaseSchema` needs its places in the
   closed forms of `DatabaseInvariant` and its lemmas in `DatabaseScriptProofs`; the
   invariants of `DatabaseLifecycleProofs` and their steps can stay.

## Not modelled

The parts `PROJECT.json` lists as `not_modelled`, with the reason for each: text
normalization and file parsing (pure functions of a document), the frontend and
the deployment files.  Of modelled parts: listings and other endpoints that only
read; `sync_all` and the search endpoint of the graph; the layout of the report;
values of rows; the order in which the audit list shows rows of transactions that
overlap (it sorts by the time the transaction began); which of two overlapping
reviewers is stored as the reviewer of a decision.
