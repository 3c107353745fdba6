---------------------------- MODULE PolicyUpload ----------------------------
(***************************************************************************)
(* POST /uploads/policies: one call of PersistPolicyUploadService.persist. *)
(*                                                                         *)
(* The call resolves the company and the uploader, flushes the policy, the *)
(* file, the version and two audit rows into one transaction, and lets     *)
(* ClauseRepository.save_all commit it; a second commit follows for the    *)
(* last audit row, and then the analysis thread is started.  An inner      *)
(* handler (around segmentation, the two commits and the thread) commits   *)
(* what is left; an outer one rolls back.                                  *)
(*                                                                         *)
(* The endpoint is `async def' and persist never awaits, so the single     *)
(* worker runs one call at a time.  The file is a row of the same database *)
(* (PostgresFileStorageRepository, the repository the application wires).  *)
(***************************************************************************)

CONSTANTS
    Upload,         \* upload requests
    CompanyName,
    DefaultName,    \* "Default Organization"
    NameOf,         \* the company name (or the name of the id) a request gives
    LookupOf,       \* how a request refers to its company
    GivesUserId     \* the requests that name their uploader by id

ASSUME UploadAssumption ==
    /\ DefaultName \in CompanyName
    /\ NameOf \in [Upload -> CompanyName]
    /\ LookupOf \in [Upload -> {"name", "id", "none"}]
    /\ GivesUserId \subseteq Upload

VARIABLES
    pc,         \* where the call of a request is
    company,    \* the company it resolved, as <<name, creating request>>
    uploader,   \* the user row it resolved
    text,       \* whether text was extracted
    tx,         \* rows of its transaction that are not committed
    db,         \* committed rows
    threads,    \* requests whose analysis thread was started
    answer      \* the response of a request

vars == <<pc, company, uploader, text, tx, db, threads, answer>>

CompanyKey == CompanyName \X Upload

\* The last three are the audit rows, by the action they record.
Table == {"company", "user", "policy", "stored_files", "version", "clauses",
          "policy_upload", "text_extraction", "clause_segmentation"}

Row(table, key, u) == [table |-> table, key |-> key, by |-> u]

\* The row of one of the tables that an upload adds exactly one row to.
Own(table, u) == Row(table, company[u], u)

Resting == {"idle", "answered", "dead"}

\* Where an error ends in the outer handler: at a flush or a commit of the
\* session, in the inner handler's commit too, since an earlier error has
\* left the session unusable.
Fallible == {"company", "uploader", "policy", "store", "version", "audit",
             "clauses", "audit_segmentation", "commit_again", "salvage",
             "commit"}

Stage == Resting \cup Fallible \cup {"extract", "segment", "launch", "respond"}

-----------------------------------------------------------------------------
Init ==
    /\ pc = [u \in Upload |-> "idle"]
    /\ company = [u \in Upload |-> <<DefaultName, u>>]
    /\ uploader = [u \in Upload |-> Own("user", u)]
    /\ text = [u \in Upload |-> FALSE]
    /\ tx = [u \in Upload |-> {}]
    /\ db = {}
    /\ threads = {}
    /\ answer = [u \in Upload |-> "none"]

Go(u, from, to) == pc[u] = from /\ pc' = [pc EXCEPT ![u] = to]

Flush(u, rows) == tx' = [tx EXCEPT ![u] = @ \cup rows]

Commit(u, rows) ==
    /\ db' = db \cup tx[u] \cup rows
    /\ tx' = [tx EXCEPT ![u] = {}]

\* Mutant: a second worker process runs another call meanwhile.
BeginConcurrently(u) ==
    /\ Go(u, "idle", "company")
    /\ UNCHANGED <<company, uploader, text, tx, db, threads, answer>>

Begin(u) ==
    /\ \A v \in Upload : pc[v] \in Resting
    /\ Go(u, "idle", "company")
    /\ UNCHANGED <<company, uploader, text, tx, db, threads, answer>>

\* The companies the lookup of a request can return.
Candidates(u) ==
    {k \in CompanyKey : Row("company", k, k[2]) \in db
                        /\ (LookupOf[u] # "none" => k[1] = NameOf[u])}

FindCompany(u) ==
    /\ Go(u, "company", "uploader")
    /\ \E k \in Candidates(u) : company' = [company EXCEPT ![u] = k]
    /\ UNCHANGED <<uploader, text, tx, db, threads, answer>>

CreateCompany(u) ==
    LET name == IF LookupOf[u] = "none" THEN DefaultName ELSE NameOf[u]
    IN  /\ Go(u, "company", "uploader")
        /\ Candidates(u) = {}
        /\ LookupOf[u] # "id"
        /\ company' = [company EXCEPT ![u] = <<name, u>>]
        /\ Flush(u, {Row("company", <<name, u>>, u)})
        /\ UNCHANGED <<uploader, text, db, threads, answer>>

\* A user found by id need not belong to the company.
FindUploader(u) ==
    /\ Go(u, "uploader", "policy")
    /\ \E r \in db :
          /\ r.table = "user"
          /\ u \notin GivesUserId => r.key = company[u]
          /\ uploader' = [uploader EXCEPT ![u] = r]
    /\ UNCHANGED <<company, text, tx, db, threads, answer>>

\* The company has no such user yet; an unknown id is refused instead.
CreateUploader(u) ==
    /\ Go(u, "uploader", "policy")
    /\ u \notin GivesUserId
    /\ uploader' = [uploader EXCEPT ![u] = Own("user", u)]
    /\ Flush(u, {Own("user", u)})
    /\ UNCHANGED <<company, text, db, threads, answer>>

AddPolicy(u) ==
    /\ Go(u, "policy", "store")
    /\ Flush(u, {Own("policy", u)})
    /\ UNCHANGED <<company, uploader, text, db, threads, answer>>

\* Mutant: the storage repository commits what it saves.
StoreFileCommitting(u) ==
    /\ Go(u, "store", "extract")
    /\ Commit(u, {Own("stored_files", u)})
    /\ UNCHANGED <<company, uploader, text, threads, answer>>

StoreFile(u) ==
    /\ Go(u, "store", "extract")
    /\ Flush(u, {Own("stored_files", u)})
    /\ UNCHANGED <<company, uploader, text, db, threads, answer>>

\* Parsing may fail or find nothing; both are tolerated.
ExtractText(u) ==
    /\ Go(u, "extract", "version")
    /\ \E t \in BOOLEAN : text' = [text EXCEPT ![u] = t]
    /\ UNCHANGED <<company, uploader, tx, db, threads, answer>>

AddVersion(u) ==
    /\ Go(u, "version", "audit")
    /\ Flush(u, {Own("version", u)})
    /\ UNCHANGED <<company, uploader, text, db, threads, answer>>

\* Mutant: the audit helper commits.
AuditUploadCommitting(u) ==
    /\ Go(u, "audit", IF text[u] THEN "segment" ELSE "commit")
    /\ Commit(u, {Own("policy_upload", u)})
    /\ UNCHANGED <<company, uploader, text, threads, answer>>

AuditUpload(u) ==
    /\ Go(u, "audit", IF text[u] THEN "segment" ELSE "commit")
    /\ Flush(u, {Own("policy_upload", u)} \cup
                IF text[u] THEN {Own("text_extraction", u)} ELSE {})
    /\ UNCHANGED <<company, uploader, text, db, threads, answer>>

\* No text: the policy is committed without clauses.
CommitBare(u) ==
    /\ Go(u, "commit", "respond")
    /\ Commit(u, {})
    /\ UNCHANGED <<company, uploader, text, threads, answer>>

\* Mutant: the thread is started before the clauses are stored.
SegmentAndLaunch(u) ==
    /\ Go(u, "segment", "clauses")
    /\ threads' = threads \cup {u}
    /\ UNCHANGED <<company, uploader, text, tx, db, answer>>

Segment(u) ==
    /\ Go(u, "segment", "clauses")
    /\ UNCHANGED <<company, uploader, text, tx, db, threads, answer>>

SegmentFails(u) ==
    /\ Go(u, "segment", "salvage")
    /\ UNCHANGED <<company, uploader, text, tx, db, threads, answer>>

\* save_all adds the clauses and commits the whole transaction ...
SaveClauses(u) ==
    /\ Go(u, "clauses", "audit_segmentation")
    /\ Commit(u, {Own("clauses", u)})
    /\ UNCHANGED <<company, uploader, text, threads, answer>>

\* ... or an IntegrityError rolls all of it back, and the inner handler goes
\* on with an empty session.
SaveClausesRejected(u) ==
    /\ Go(u, "clauses", "salvage")
    /\ tx' = [tx EXCEPT ![u] = {}]
    /\ UNCHANGED <<company, uploader, text, db, threads, answer>>

\* Reading the stored clauses back fails, which leaves the session usable.
ReadBackFails(u) ==
    /\ Go(u, "audit_segmentation", "salvage")
    /\ UNCHANGED <<company, uploader, text, tx, db, threads, answer>>

AuditSegmentation(u) ==
    /\ Go(u, "audit_segmentation", "commit_again")
    /\ Flush(u, {Own("clause_segmentation", u)})
    /\ UNCHANGED <<company, uploader, text, db, threads, answer>>

SecondCommit(u) ==
    /\ Go(u, "commit_again", "launch")
    /\ Commit(u, {})
    /\ UNCHANGED <<company, uploader, text, threads, answer>>

LaunchThread(u) ==
    /\ Go(u, "launch", "respond")
    /\ threads' = threads \cup {u}
    /\ UNCHANGED <<company, uploader, text, tx, db, answer>>

LaunchFails(u) ==
    /\ Go(u, "launch", "salvage")
    /\ UNCHANGED <<company, uploader, text, tx, db, threads, answer>>

\* The inner handler logs the error and commits whatever is pending.
Salvage(u) ==
    /\ Go(u, "salvage", "respond")
    /\ Commit(u, {})
    /\ UNCHANGED <<company, uploader, text, threads, answer>>

Respond(u) ==
    /\ Go(u, "respond", "answered")
    /\ answer' = [answer EXCEPT ![u] = "created"]
    /\ UNCHANGED <<company, uploader, text, tx, db, threads>>

\* The outer handler: a flush or commit failed, or the company or the
\* uploader asked for does not exist.  The rollback cannot take back what an
\* earlier commit published, and deleting the file row is never committed.
Fail(u) ==
    /\ pc[u] \in Fallible
    /\ pc' = [pc EXCEPT ![u] = "answered"]
    /\ tx' = [tx EXCEPT ![u] = {}]
    /\ answer' = [answer EXCEPT ![u] = "failed"]
    /\ UNCHANGED <<company, uploader, text, db, threads>>

\* The process dies; the server comes back without the calls in progress.
Crash(u) ==
    /\ pc[u] \notin Resting
    /\ pc' = [pc EXCEPT ![u] = "dead"]
    /\ tx' = [tx EXCEPT ![u] = {}]
    /\ UNCHANGED <<company, uploader, text, db, threads, answer>>

Next ==
    \E u \in Upload :
        \/ Begin(u)
        \/ FindCompany(u) \/ CreateCompany(u)
        \/ FindUploader(u) \/ CreateUploader(u)
        \/ AddPolicy(u) \/ StoreFile(u) \/ ExtractText(u) \/ AddVersion(u)
        \/ AuditUpload(u) \/ CommitBare(u)
        \/ Segment(u) \/ SegmentFails(u)
        \/ SaveClauses(u) \/ SaveClausesRejected(u)
        \/ ReadBackFails(u) \/ AuditSegmentation(u) \/ SecondCommit(u)
        \/ LaunchThread(u) \/ LaunchFails(u) \/ Salvage(u)
        \/ Respond(u) \/ Fail(u) \/ Crash(u)

Spec == Init /\ [][Next]_vars

-----------------------------------------------------------------------------
\* Type invariant.
TypeOK ==
    LET Rows == [table : Table, key : CompanyKey, by : Upload]
    IN  /\ pc \in [Upload -> Stage]
        /\ company \in [Upload -> CompanyKey]
        /\ uploader \in [Upload -> Rows]
        /\ text \in [Upload -> BOOLEAN]
        /\ tx \in [Upload -> SUBSET Rows]
        /\ db \subseteq Rows
        /\ threads \subseteq Upload
        /\ answer \in [Upload -> {"none", "created", "failed"}]

Stored(table, u) == Own(table, u) \in db

\* The four rows every upload consists of, and the company and uploader they
\* refer to, become visible together: no failure, crash or handler leaves a
\* policy without version, file or audit entry, a file or audit entry without
\* policy, or any of them in a company that was rolled back.  And whichever of
\* the two handlers ended the call, the audit trail claims segmentation only
\* where the clauses are stored.
PublishedTogether ==
    \A u \in Upload :
        \A t \in {"policy", "stored_files", "version", "policy_upload", "clauses",
                  "text_extraction", "clause_segmentation"} :
            Stored(t, u) =>
                /\ \A s \in {"policy", "stored_files", "version", "policy_upload"} :
                      Stored(s, u)
                /\ Row("company", company[u], company[u][2]) \in db
                /\ uploader[u] \in db
                /\ t = "clause_segmentation" => Stored("clauses", u)

\* An analysis thread is started only for an upload whose rows other sessions
\* can already read; the thread would silently end otherwise.
ThreadFindsItsRows ==
    \A u \in threads :
        \A t \in {"company", "version", "clauses", "clause_segmentation"} :
            IF t = "company" THEN Row(t, company[u], company[u][2]) \in db
                             ELSE Stored(t, u)

\* Nothing in the schema makes company names unique; that no name is ever
\* registered twice rests on persist running one call at a time.
OneCompanyPerName ==
    \A r, s \in db : r.table = "company" /\ s.table = "company"
                     /\ r.key[1] = s.key[1] => r = s

\* "a failed upload never leaves an orphan behind in either the database or
\* storage" (persist_policy_upload_service.py:19-20).
FailedUploadLeavesNothing ==
    \A u \in Upload : answer[u] = "failed" => \A r \in db : r.by # u

\* What is visible of an upload.
Shown == [u \in Upload |->
            IF ~ Stored("policy", u) THEN "nothing"
            ELSE IF Stored("clauses", u) THEN "document and clauses"
            ELSE "document"]

\* An upload becomes visible in one step, before its client is answered, and
\* what is visible of it never changes afterwards.
Atomicity == INSTANCE UploadAtomicity WITH shown <- Shown

UploadIsAtomic == Atomicity!Spec

=============================================================================
