--------------------------- MODULE PolicyPipeline ---------------------------
(***************************************************************************)
(* The background AI pipeline of PolicySentinel.                           *)
(*                                                                         *)
(* An upload commits a policy, its version and its clauses and then starts *)
(* one daemon thread for it.  The thread extracts one obligation from each *)
(* clause, committing them one by one (the regulatory mapper commits the   *)
(* session while it seeds its knowledge base), and then compares the       *)
(* policy with every other policy of the company: it takes a snapshot of   *)
(* those policies, and for each of them reads both obligation sets,        *)
(* scores every pair, reads both sets again and derives conflict records.  *)
(* All conflict records of a thread are committed together.                *)
(*                                                                         *)
(* Threads run concurrently with each other, with uploads, with            *)
(* DELETE /policies/{id} and with POST /clauses/resegment, which replaces  *)
(* the clauses of a policy; a thread dies with the process, or of an error *)
(* it does not catch.  Nobody ever restarts one.                           *)
(*                                                                         *)
(* A failed query need not end a thread: both loops log it and go on.  The *)
(* transaction is then aborted: Postgres refuses every statement of it and *)
(* answers its COMMIT with a rollback, which raises no error.              *)
(*                                                                         *)
(* The database is Postgres at READ COMMITTED: each query sees what is     *)
(* committed when it runs.  `obligations', `conflicts' and `audit' are the *)
(* committed rows; `staged', `read' and `found' live in one session.       *)
(***************************************************************************)
EXTENDS Integers, FiniteSets

CONSTANTS
    Policy,         \* the policies that may be uploaded
    Company,
    CompanyOf,      \* the company a policy is uploaded for
    Clause,         \* the clauses segmentation finds in all the policies
    PolicyOf,       \* the policy a clause belongs to
    SegmentationOf, \* which segmentation of its policy finds a clause
    NoClause,       \* the NULL of a conflict's obligation columns
    Score,          \* similarity of two obligations, in percent
    TargetMatch,    \* same subject, and actions or objects that overlap
    SameTerms       \* same modality and same time constraint

ASSUME CompanyAssumption == CompanyOf \in [Policy -> Company]

ASSUME ClauseAssumption ==
    /\ PolicyOf \in [Clause -> Policy]
    /\ SegmentationOf \in [Clause -> Nat \ {0}]
    /\ NoClause \notin Clause

\* One segmentation of one document finds finitely many clauses.
ASSUME DocumentAssumption ==
    \A d \in Clause :
        IsFiniteSet({c \in Clause : PolicyOf[c] = PolicyOf[d]
                                      /\ SegmentationOf[c] = SegmentationOf[d]})

ASSUME SimilarityAssumption ==
    /\ Score \in [Clause \X Clause -> 0 .. 100]
    /\ TargetMatch \in [Clause \X Clause -> BOOLEAN]
    /\ SameTerms \in [Clause \X Clause -> BOOLEAN]

VARIABLES
    row,            \* the policy row (with its version)
    pc,             \* how far the upload and then the thread of a policy got
    fate,           \* whether that upload or thread still runs
    segmentations,  \* how often the clauses of a policy have been stored
    visible,        \* the clauses of a policy that are not deleted
    clauses,        \* the clauses a thread has read
    todo,           \* clauses the extraction loop has still to visit
    staged,         \* obligations flushed, not yet committed
    obligations,    \* committed obligation rows, named by their clause
    peers,          \* existing policies the comparison loop has still to visit
    peer,           \* the existing policy being compared
    read,           \* obligations compare_versions read
    found,          \* all_conflicts: the conflict rows of the session
    conflicts,      \* committed conflict rows
    audit,          \* committed audit rows of the threads
    tx,             \* what Postgres makes of the transaction of a session
    logged          \* failures a thread has logged and passed over

vars == <<row, pc, fate, segmentations, visible, clauses, todo, staged,
          obligations, peers, peer, read, found, conflicts, audit, tx, logged>>

clauseVars == <<segmentations, visible, clauses>>

compareVars == <<peers, peer, read, found, conflicts>>

txVars == <<tx, logged>>

-----------------------------------------------------------------------------
\* What the n-th segmentation of p stores.
ClausesOf(p, n) == {c \in Clause : PolicyOf[c] = p /\ SegmentationOf[c] = n}

\* The query shared by compare_versions and detect_conflicts: obligations
\* joined to the clauses of one version, deleted clauses included.
ObligationsOf(p) == {o \in obligations : PolicyOf[o] = p}

SameCompany(p, q) == CompanyOf[p] = CompanyOf[q]

\* Mutant: only policies whose own analysis is over are compared against.
ActivePeersAnalysed(p) ==
    {q \in Policy \ {p} : SameCompany(p, q) /\ row[q] = "live" /\ pc[q] = "done"}

\* Mutant: the company filter is forgotten.
ActivePeersEverywhere(p) == {q \in Policy \ {p} : row[q] = "live"}

\* The existing active policies of run_pipeline.
ActivePeers(p) ==
    {q \in Policy \ {p} : SameCompany(p, q) /\ row[q] = "live"}

SimilarScore == 60
CoveredScore == 70
DuplicateScore == 90

Similar(a, b) == Score[<<a, b>>] >= SimilarScore \/ TargetMatch[<<a, b>>]

Duplicate(a, b) ==
    Similar(a, b) /\ SameTerms[<<a, b>>] /\ Score[<<a, b>>] >= DuplicateScore

Contradiction(a, b) == Similar(a, b) /\ ~SameTerms[<<a, b>>]

ConflictRow(q, p, type, a, b) ==
    [source |-> q, target |-> p, type |-> type, a |-> a, b |-> b]

\* The rows derived for the obligations A of q and B of p when the scored
\* pairs are those of As \X Bs.
Derived(q, p, As, Bs, A, B) ==
    {ConflictRow(q, p, "duplicate", ab[1], ab[2]) :
        ab \in {x \in As \X Bs : Duplicate(x[1], x[2])}}
    \cup {ConflictRow(q, p, "contradiction", ab[1], ab[2]) :
        ab \in {x \in As \X Bs : Contradiction(x[1], x[2])}}
    \cup {ConflictRow(q, p, "missing", a, NoClause) :
        a \in {x \in A : ~ \E b \in Bs : x \in As /\ Score[<<x, b>>] >= CoveredScore}}
    \cup {ConflictRow(q, p, "missing", NoClause, b) :
        b \in {x \in B : ~ \E a \in As : x \in Bs /\ Score[<<a, x>>] >= CoveredScore}}

\* A scored obligation that the second read does not return is a KeyError,
\* and the handler of the loop skips the peer.
DetectConflicts(q, p, As, Bs, A, B) ==
    IF As \X Bs \subseteq A \X B THEN Derived(q, p, As, Bs, A, B) ELSE {}

ConflictType == {"duplicate", "contradiction", "missing"}

Conflict ==
    [source : Policy, target : Policy, type : ConflictType,
     a : Clause \cup {NoClause}, b : Clause \cup {NoClause}]

AuditEvent == {"Obligation Extraction", "Recommendation Generation",
               "Conflict Detection"}

\* "Failed to run regulatory mapping for obligation ...", and "Failed to run
\* comparison between version ..." or "Failed to generate AI recommendation ...".
LoggedFailure == {"mapping", "comparison"}

Stage == {"absent", "unsegmented", "saved", "started", "extract", "extracted",
          "compare", "peers", "detect", "compared", "sync", "done"}

-----------------------------------------------------------------------------
Init ==
    /\ row = [p \in Policy |-> "absent"]
    /\ pc = [p \in Policy |-> "absent"]
    /\ fate = [p \in Policy |-> "running"]
    /\ segmentations = [p \in Policy |-> 0]
    /\ visible = [p \in Policy |-> {}]
    /\ clauses = [p \in Policy |-> {}]
    /\ todo = [p \in Policy |-> {}]
    /\ staged = [p \in Policy |-> {}]
    /\ obligations = {}
    /\ peers = [p \in Policy |-> {}]
    /\ peer = [p \in Policy |-> p]
    /\ read = [p \in Policy |-> [a |-> {}, b |-> {}]]
    /\ found = [p \in Policy |-> {}]
    /\ conflicts = {}
    /\ audit = {}
    /\ tx = [p \in Policy |-> "healthy"]
    /\ logged = [p \in Policy |-> {}]

Advance(p, from, to) ==
    /\ fate[p] = "running"
    /\ pc[p] = from
    /\ pc' = [pc EXCEPT ![p] = to]

\* The next statement of the session is executed.
Healthy(p) == tx[p] = "healthy"

\* A query fails and a handler logs it: the transaction stays aborted.
PassOver(p, failure) ==
    /\ tx' = [tx EXCEPT ![p] = "aborted"]
    /\ logged' = [logged EXCEPT ![p] = @ \cup {failure}]

\* Clauses of p are stored in place of those that are visible.
StoreClauses(p) ==
    /\ segmentations' = [segmentations EXCEPT ![p] = @ + 1]
    /\ visible' = [visible EXCEPT ![p] = ClausesOf(p, segmentations'[p])]

\* save_all commits the policy, its version and its clauses.
Upload(p) ==
    /\ Advance(p, "absent", "saved")
    /\ row' = [row EXCEPT ![p] = "live"]
    /\ StoreClauses(p)
    /\ UNCHANGED <<fate, clauses, todo, staged, obligations, compareVars,
                   audit, txVars>>

\* No text could be extracted, or segmentation failed: the policy and its
\* version are committed without clauses, and no thread is started.
UploadUnsegmented(p) ==
    /\ Advance(p, "absent", "unsegmented")
    /\ row' = [row EXCEPT ![p] = "live"]
    /\ UNCHANGED <<fate, clauseVars, todo, staged, obligations, compareVars,
                   audit, txVars>>

\* The upload's second commit succeeds and the thread starts.
StartThread(p) ==
    /\ Advance(p, "saved", "started")
    /\ UNCHANGED <<row, fate, clauseVars, todo, staged, obligations,
                   compareVars, audit, txVars>>

\* Mutant: deleting a policy also deletes its obligations.
DeletePolicyCascading(p) ==
    /\ row[p] = "live"
    /\ row' = [row EXCEPT ![p] = "deleted"]
    /\ visible' = [visible EXCEPT ![p] = {}]
    /\ obligations' = obligations \ ObligationsOf(p)
    /\ UNCHANGED <<pc, fate, segmentations, clauses, todo, staged, compareVars,
                   audit, txVars>>

\* DELETE /policies/{id}: policy, version and clauses in one transaction.
DeletePolicy(p) ==
    /\ row[p] = "live"
    /\ row' = [row EXCEPT ![p] = "deleted"]
    /\ visible' = [visible EXCEPT ![p] = {}]
    /\ UNCHANGED <<pc, fate, segmentations, clauses, todo, staged, obligations,
                   compareVars, audit, txVars>>

\* POST /clauses/resegment deletes the clauses and stores new ones, in one
\* transaction.  It read the version before, so the policy may be deleted by
\* now.  Requests for one policy that overlap, each of which leaves its own
\* clauses visible, are in ClauseLifecycle.  Bound: as long as there are
\* clauses to find.
Resegment(p) ==
    /\ row[p] # "absent"
    /\ ClausesOf(p, segmentations[p] + 1) # {}
    /\ StoreClauses(p)
    /\ UNCHANGED <<row, pc, fate, clauses, todo, staged, obligations,
                   compareVars, audit, txVars>>

\* Mutant: deleted clauses are read as well.
ReadClausesDeleted(p) ==
    /\ Advance(p, "started", "extract")
    /\ clauses' = [clauses EXCEPT ![p] =
                     UNION {ClausesOf(p, n) : n \in 1 .. segmentations[p]}]
    /\ todo' = [todo EXCEPT ![p] = clauses'[p]]
    /\ UNCHANGED <<row, fate, segmentations, visible, staged, obligations,
                   compareVars, audit, txVars>>

\* The thread reads the clauses of its version that are not deleted.
ReadClauses(p) ==
    /\ Advance(p, "started", "extract")
    /\ clauses' = [clauses EXCEPT ![p] = visible[p]]
    /\ todo' = [todo EXCEPT ![p] = visible[p]]
    /\ UNCHANGED <<row, fate, segmentations, visible, staged, obligations,
                   compareVars, audit, txVars>>

\* Mutant: an aborted transaction is rolled back and the loop starts again
\* with the next clause.
StageObligationRollingBack(p) ==
    /\ Advance(p, "extract", "extract")
    /\ staged[p] = {} \/ ~Healthy(p)
    /\ \E c \in todo[p] :
          /\ staged' = [staged EXCEPT ![p] = {c}]
          /\ todo' = [todo EXCEPT ![p] = @ \ {c}]
    /\ tx' = [tx EXCEPT ![p] = "healthy"]
    /\ UNCHANGED <<row, fate, clauseVars, obligations, compareVars, audit, logged>>

\* One turn of the extraction loop flushes the obligation of one clause ...
StageObligation(p) ==
    /\ Advance(p, "extract", "extract")
    /\ Healthy(p)
    /\ staged[p] = {}
    /\ \E c \in todo[p] :
          /\ staged' = [staged EXCEPT ![p] = {c}]
          /\ todo' = [todo EXCEPT ![p] = @ \ {c}]
    /\ UNCHANGED <<row, fate, clauseVars, obligations, compareVars, audit,
                   txVars>>

\* ... and the knowledge base seeding of map_obligation commits it.
SeedCommit(p) ==
    /\ Advance(p, "extract", "extract")
    /\ Healthy(p)
    /\ staged[p] # {}
    /\ obligations' = obligations \cup staged[p]
    /\ staged' = [staged EXCEPT ![p] = {}]
    /\ UNCHANGED <<row, fate, clauseVars, todo, compareVars, audit, txVars>>

\* A query of the seeding fails before that commit, and the handler of the
\* mapping logs it.  (One that fails after the commit costs the mapping row
\* only, or ends the thread at the next clause like DbFailure.)
MappingFails(p) ==
    /\ Advance(p, "extract", "extract")
    /\ Healthy(p)
    /\ staged[p] # {}
    /\ PassOver(p, "mapping")
    /\ UNCHANGED <<row, fate, clauseVars, todo, staged, obligations,
                   compareVars, audit>>

\* The commit after the loop.  Nothing is staged then, unless the mapping of
\* the last clause failed: its obligation is rolled back.
FinishExtraction(p) ==
    /\ Advance(p, "extract", "extracted")
    /\ todo[p] = {}
    /\ staged[p] = {} \/ ~Healthy(p)
    /\ staged' = [staged EXCEPT ![p] = {}]
    /\ tx' = [tx EXCEPT ![p] = "healthy"]
    /\ UNCHANGED <<row, fate, clauseVars, todo, obligations, compareVars, audit,
                   logged>>

AuditExtraction(p) ==
    /\ Advance(p, "extracted", "compare")
    /\ audit' = audit \cup {<<p, "Obligation Extraction">>}
    /\ UNCHANGED <<row, fate, clauseVars, todo, staged, obligations,
                   compareVars, txVars>>

SnapshotPeers(p) ==
    /\ Advance(p, "compare", "peers")
    /\ peers' = [peers EXCEPT ![p] = ActivePeers(p)]
    /\ UNCHANGED <<row, fate, clauseVars, todo, staged, obligations, peer,
                   read, found, conflicts, audit, txVars>>

\* Mutant: the loop variable does not advance.
CompareVersionsAgain(p) ==
    /\ Advance(p, "peers", "detect")
    /\ Healthy(p)
    /\ \E q \in peers[p] :
          /\ peer' = [peer EXCEPT ![p] = q]
          /\ read' = [read EXCEPT ![p] =
                        [a |-> ObligationsOf(q), b |-> ObligationsOf(p)]]
    /\ UNCHANGED <<row, fate, clauseVars, todo, staged, obligations, peers,
                   found, conflicts, audit, txVars>>

\* compare_versions reads the obligations of both versions and scores them.
CompareVersions(p) ==
    /\ Advance(p, "peers", "detect")
    /\ Healthy(p)
    /\ \E q \in peers[p] :
          /\ peer' = [peer EXCEPT ![p] = q]
          /\ peers' = [peers EXCEPT ![p] = @ \ {q}]
          /\ read' = [read EXCEPT ![p] =
                        [a |-> ObligationsOf(q), b |-> ObligationsOf(p)]]
    /\ UNCHANGED <<row, fate, clauseVars, todo, staged, obligations, found,
                   conflicts, audit, txVars>>

\* A query of compare_versions fails, as every query of an aborted transaction
\* does; the handler of the loop logs it and the peer is skipped.
SkipPeer(p) ==
    /\ Advance(p, "peers", "peers")
    /\ \E q \in peers[p] : peers' = [peers EXCEPT ![p] = @ \ {q}]
    /\ PassOver(p, "comparison")
    /\ UNCHANGED <<row, fate, clauseVars, todo, staged, obligations, peer, read,
                   found, conflicts, audit>>

\* Mutant: the records of each peer are committed at once.
RecordConflictsCommitting(p) ==
    /\ Advance(p, "detect", "peers")
    /\ LET new == DetectConflicts(peer[p], p, read[p].a, read[p].b,
                                  ObligationsOf(peer[p]), ObligationsOf(p))
       IN  /\ found' = [found EXCEPT ![p] = @ \cup new]
           /\ conflicts' = conflicts \cup new
    /\ UNCHANGED <<row, fate, clauseVars, todo, staged, obligations, peers,
                   peer, read, audit, txVars>>

\* Mutant: all_conflicts is emptied for each peer.
RecordConflictsOfLastPeer(p) ==
    /\ Advance(p, "detect", "peers")
    /\ found' = [found EXCEPT ![p] =
                    DetectConflicts(peer[p], p, read[p].a, read[p].b,
                                    ObligationsOf(peer[p]), ObligationsOf(p))]
    /\ UNCHANGED <<row, fate, clauseVars, todo, staged, obligations, peers,
                   peer, read, conflicts, audit, txVars>>

\* detect_conflicts reads both sets again; its records are flushed.
RecordConflicts(p) ==
    /\ Advance(p, "detect", "peers")
    /\ LET q == peer[p]
       IN  found' = [found EXCEPT ![p] = @ \cup
                       DetectConflicts(q, p, read[p].a, read[p].b,
                                       ObligationsOf(q), ObligationsOf(p))]
    /\ UNCHANGED <<row, fate, clauseVars, todo, staged, obligations, peers,
                   peer, read, conflicts, audit, txVars>>

\* A query of detect_conflicts fails, or a later one when some of the records
\* have been flushed; the handlers log it and leave those in all_conflicts.
RecordFewerConflicts(p) ==
    /\ Advance(p, "detect", "peers")
    /\ LET q == peer[p]
       IN  \E new \in SUBSET DetectConflicts(q, p, read[p].a, read[p].b,
                                             ObligationsOf(q), ObligationsOf(p)) :
              found' = [found EXCEPT ![p] = @ \cup new]
    /\ PassOver(p, "comparison")
    /\ UNCHANGED <<row, fate, clauseVars, todo, staged, obligations, peers, peer,
                   read, conflicts, audit>>

\* The single commit of run_pipeline, after the last peer and only if there are
\* conflicts.  Of an aborted transaction it is a rollback.
CommitConflicts(p) ==
    /\ Advance(p, "peers", "compared")
    /\ peers[p] = {}
    /\ conflicts' = IF Healthy(p) THEN conflicts \cup found[p] ELSE conflicts
    /\ tx' = [tx EXCEPT ![p] = IF found[p] = {} THEN @ ELSE "healthy"]
    /\ UNCHANGED <<row, fate, clauseVars, todo, staged, obligations, peers, peer,
                   read, found, audit, logged>>

\* The thread's last commit publishes the audit row of the comparison and,
\* if there were conflicts, the one run_pipeline added after its commit.
AuditComparison(p) ==
    /\ Advance(p, "compared", "sync")
    /\ Healthy(p)
    /\ audit' = audit \cup {<<p, "Conflict Detection">>}
                      \cup {e \in {<<p, "Recommendation Generation">>} :
                               found[p] # {}}
    /\ UNCHANGED <<row, fate, clauseVars, todo, staged, obligations,
                   compareVars, txVars>>

\* sync_policy writes to Neo4j only; whatever it raises is swallowed.
SyncGraph(p) ==
    /\ Advance(p, "sync", "done")
    /\ UNCHANGED <<row, fate, clauseVars, todo, staged, obligations,
                   compareVars, audit, txVars>>

\* The upload request or the thread of p is at work.
Working(p) == fate[p] = "running" /\ pc[p] \notin {"absent", "unsegmented", "done"}

\* A statement fails and the exception ends the thread (or the upload request):
\* one that nothing catches, or a flush or a lost connection, after which the
\* session refuses further work and the handlers of the loops, which touch
\* expired instances, raise as well.
DbFailure(p) ==
    /\ Working(p)
    /\ fate' = [fate EXCEPT ![p] = "aborted"]
    /\ staged' = [staged EXCEPT ![p] = {}]
    /\ tx' = [tx EXCEPT ![p] = "healthy"]
    /\ UNCHANGED <<row, pc, clauseVars, todo, obligations, compareVars, audit,
                   logged>>

\* In an aborted transaction the next clause cannot be read or its obligation
\* flushed, nor the audit row of a comparison that had nothing to commit.
HitAbortedTransaction(p) ==
    /\ ~Healthy(p)
    /\ pc[p] = "compared" \/ (pc[p] = "extract" /\ todo[p] # {})
    /\ DbFailure(p)

\* The process dies and restarts; its daemon threads are gone.
Crash ==
    /\ \E p \in Policy : Working(p)
    /\ fate' = [p \in Policy |-> IF Working(p) THEN "killed" ELSE fate[p]]
    /\ staged' = [p \in Policy |-> {}]
    /\ tx' = [p \in Policy |-> "healthy"]
    /\ UNCHANGED <<row, pc, clauseVars, todo, obligations, compareVars, audit,
                   logged>>

-----------------------------------------------------------------------------
\* What the thread of p does by itself, unless a query fails.
Thread(p) ==
    \/ ReadClauses(p)
    \/ StageObligation(p)
    \/ SeedCommit(p)
    \/ FinishExtraction(p)
    \/ AuditExtraction(p)
    \/ SnapshotPeers(p)
    \/ CompareVersions(p)
    \/ ~Healthy(p) /\ SkipPeer(p)
    \/ RecordConflicts(p)
    \/ CommitConflicts(p)
    \/ AuditComparison(p)
    \/ SyncGraph(p)
    \/ HitAbortedTransaction(p)

Failure(p) ==
    \/ MappingFails(p)
    \/ SkipPeer(p)
    \/ RecordFewerConflicts(p)
    \/ DbFailure(p)

Next ==
    \/ \E p \in Policy :
          \/ Upload(p)
          \/ UploadUnsegmented(p)
          \/ StartThread(p)
          \/ DeletePolicy(p)
          \/ Resegment(p)
          \/ Thread(p)
          \/ Failure(p)
    \/ Crash

Spec == Init /\ [][Next]_vars

\* A started thread is scheduled by the operating system; nothing obliges
\* anyone to upload or delete, and no failure is obliged to happen.
FairSpec == Spec /\ \A p \in Policy : WF_vars(Thread(p))

-----------------------------------------------------------------------------
\* Type invariant: every column and every thread-local value has its kind.
TypeOK ==
    /\ row \in [Policy -> {"absent", "live", "deleted"}]
    /\ pc \in [Policy -> Stage]
    /\ fate \in [Policy -> {"running", "aborted", "killed"}]
    /\ segmentations \in [Policy -> Nat]
    /\ visible \in [Policy -> SUBSET Clause]
    /\ clauses \in [Policy -> SUBSET Clause]
    /\ todo \in [Policy -> SUBSET Clause]
    /\ staged \in [Policy -> SUBSET Clause]
    /\ obligations \subseteq Clause
    /\ peers \in [Policy -> SUBSET Policy]
    /\ peer \in [Policy -> Policy]
    /\ read \in [Policy -> [a : SUBSET Clause, b : SUBSET Clause]]
    /\ found \in [Policy -> SUBSET Conflict]
    /\ conflicts \subseteq Conflict
    /\ audit \subseteq Policy \X AuditEvent
    /\ tx \in [Policy -> {"healthy", "aborted"}]
    /\ logged \in [Policy -> SUBSET LoggedFailure]

Audited(p, event) == <<p, event>> \in audit

\* The rows that mention q as the existing and p as the new policy.
Rows(q, p) == {c \in conflicts : c.source = q /\ c.target = p}

\* The rows that the obligations of q and p call for.
Reference(q, p) ==
    Derived(q, p, ObligationsOf(q), ObligationsOf(p),
            ObligationsOf(q), ObligationsOf(p))

\* p is recorded as compared, and its log tells of no failed comparison.
Compared(p) == Audited(p, "Conflict Detection") /\ "comparison" \notin logged[p]

\* Two uploads of one company run their threads concurrently, and each may
\* read the other's obligations before they are all there.  Once both
\* threads have recorded that conflict detection completed and neither has
\* logged a failed comparison, and while neither policy is deleted, at least
\* one of the two comparisons saw the final obligations of both: its stored
\* rows are exactly the reference.  So no duplicate, contradiction or gap
\* between the two is missed, although the rows of the other orientation may
\* be wrong or repeat it.
OneOrientationExact ==
    \A p, q \in Policy :
        /\ p # q /\ SameCompany(p, q)
        /\ row[p] = "live" /\ row[q] = "live"
        /\ Compared(p) /\ Compared(q)
        => \/ Rows(q, p) = Reference(q, p)
           \/ Rows(p, q) = Reference(p, q)

\* detect_conflicts indexes dictionaries built from its own, second read
\* with the obligations of the first read of compare_versions.  Whatever
\* commits in between, the second read returns everything the first did, so
\* the KeyError that would silently skip the peer cannot happen.
RereadCoversRead ==
    \A p \in Policy :
        pc[p] = "detect" => /\ read[p].a \subseteq ObligationsOf(peer[p])
                            /\ read[p].b \subseteq ObligationsOf(p)

\* What the "Obligation Extraction" audit row ("Successfully extracted
\* compliance obligations") is worth: the policy then has the obligations of
\* all the clauses of one segmentation, never of two although the clauses are
\* replaced meanwhile, or, if it was deleted before its thread read the clauses,
\* none.  A thread that failed half way never leaves that row behind; but where
\* a failed mapping was logged and passed over, the silent rollback may have
\* cost the obligation of one clause, and no more.
AuditedExtractionIsComplete ==
    \A p \in Policy : Audited(p, "Obligation Extraction") =>
        \/ \E n \in 1 .. segmentations[p] :
              LET lost == ClausesOf(p, n) \ ObligationsOf(p)
              IN  /\ ObligationsOf(p) \subseteq ClausesOf(p, n)
                  /\ \A c, d \in lost : c = d
                  /\ lost # {} => "mapping" \in logged[p]
        \/ ObligationsOf(p) = {} /\ row[p] = "deleted"

\* A comparison is stored whole or not at all, whichever peer the thread or
\* the process failed at.  Behind a "Conflict Detection" audit row ("Successfully
\* completed semantic comparison and conflict detection") it is there whole,
\* unless a failed comparison was logged and passed over: then all the records
\* that were flushed, of every peer, have been rolled back.
ComparisonIsAtomic ==
    \A p \in Policy :
        LET mine == {c \in conflicts : c.target = p}
        IN  /\ mine \in {{}, found[p]}
            /\ mine # {} => /\ pc[p] \in {"compared", "sync", "done"}
                            /\ "comparison" \notin logged[p]
            /\ Audited(p, "Conflict Detection") /\ mine # found[p] =>
                 "comparison" \in logged[p]

\* Conflict rows never cross companies, never relate a policy to itself, and
\* cite obligations that are stored and belong to the policies they name.
ConflictsAreWellFounded ==
    \A c \in conflicts :
        /\ c.source # c.target /\ SameCompany(c.source, c.target)
        /\ c.a # NoClause => c.a \in ObligationsOf(c.source)
        /\ c.b # NoClause => c.b \in ObligationsOf(c.target)
        /\ c.a # NoClause \/ c.b # NoClause

\* What conflict_detection_engine.py says of its gap rows ("Obligations in
\* Version A not present in B"): no obligation of the other version covers the
\* one a stored gap row cites.  Required only of live policies whose threads
\* both completed without a failed query, and still not so: a peer that was
\* being extracted when it was read leaves gap rows behind that nothing
\* corrects.
GapRowsAreTrue ==
    \A c \in conflicts :
        /\ c.type = "missing"
        /\ \A p \in {c.source, c.target} :
              row[p] = "live" /\ Compared(p)
        => /\ \A b \in ObligationsOf(c.target) :
                 c.a # NoClause => Score[<<c.a, b>>] < CoveredScore
           /\ \A a \in ObligationsOf(c.source) :
                 c.b # NoClause => Score[<<a, c.b>>] < CoveredScore

\* Once a policy's extraction has been audited its obligations never change
\* again, whatever uploads, deletions, failures and crashes follow: readers
\* that come later all read the same set.
ObligationsSettle ==
    [][\A p \in Policy : Audited(p, "Obligation Extraction") =>
            ObligationsOf(p)' = ObligationsOf(p)]_vars

\* The stages a thread has ahead, and the turns of the loop it is in: a clause
\* is staged and committed, a peer is read twice.
StagesAhead ==
    [absent |-> 9, unsegmented |-> 8, saved |-> 8, started |-> 7, extract |-> 6,
     extracted |-> 5, compare |-> 4, peers |-> 3, detect |-> 3, compared |-> 2,
     sync |-> 1, done |-> 0]

TurnsAhead(p) ==
    2 * Cardinality(todo[p]) + Cardinality(staged[p]) + 2 * Cardinality(peers[p])
        + IF pc[p] = "detect" THEN 1 ELSE 0

Nearer(p) ==
    \/ StagesAhead[pc[p]'] < StagesAhead[pc[p]]
    \/ StagesAhead[pc[p]'] = StagesAhead[pc[p]] /\ TurnsAhead(p)' < TurnsAhead(p)

\* Whatever a thread does brings it nearer to its end, and nothing that anyone
\* else does and no failed query takes it further away: clauses that are replaced
\* and policies that arrive after it has read clauses and peers do not prolong
\* its loops.
ThreadsWindDown ==
    [][\A p \in Policy :
          Nearer(p) \/ UNCHANGED <<pc[p], clauses[p], todo[p], staged[p], peers[p],
                                  peer[p], read[p], found[p]>>]_vars

\* A started thread finishes, fails or is killed: the loops over clauses and
\* peers end although new policies keep arriving.
ThreadEnds ==
    \A p \in Policy : pc[p] = "started" ~> (pc[p] = "done" \/ fate[p] # "running")

\* Two policies of a company whose threads have both started are eventually
\* both recorded as compared, and reported on from all the obligations that are
\* stored for them, unless a thread dies or logs a failed comparison, or a policy
\* goes.
EveryPairReported ==
    \A p, q \in Policy :
        p # q /\ SameCompany(p, q) =>
            (pc[p] = "started" /\ pc[q] = "started")
            ~> \/ /\ \A r \in {p, q} : Audited(r, "Conflict Detection")
                  /\ \/ Rows(q, p) = Reference(q, p)
                     \/ Rows(p, q) = Reference(p, q)
               \/ \E r \in {p, q} : \/ fate[r] # "running"
                                     \/ "comparison" \in logged[r]
                                     \/ row[r] = "deleted"

=============================================================================
