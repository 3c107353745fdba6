-------------------------- MODULE ClauseLifecycle --------------------------
(***************************************************************************)
(* The clauses of one uploaded policy under concurrent                     *)
(* POST /clauses/resegment and DELETE /policies/{id}.                      *)
(*                                                                         *)
(* A resegmentation reads the version, segments its text (which may take a *)
(* call to the language model), soft-deletes the version's clauses with    *)
(* one UPDATE and inserts the new ones, all in one transaction.  A deletion *)
(* reads the policy and its versions, soft-deletes the versions and their  *)
(* clauses with UPDATEs and, at the commit, the policy.  Both handlers are *)
(* plain `def' endpoints, so the server runs them in parallel threads.     *)
(*                                                                         *)
(* Postgres at READ COMMITTED: an UPDATE visits the rows its snapshot      *)
(* matches, waits for a row another transaction has changed, looks at it   *)
(* again when that one has ended, and keeps what it changed locked until   *)
(* its own transaction ends.  Clauses inserted by one transaction share    *)
(* their fate: they are one batch, named by the request that stored it.    *)
(***************************************************************************)
EXTENDS Naturals

CONSTANTS
    Resegment,    \* resegmentation requests for the version
    Delete,       \* deletion requests for the policy
    Original,     \* the batch of clauses the upload stored
    Rank,         \* the order in which an UPDATE visits batches
    Nobody        \* the owner of a row that is not locked

Request == Resegment \cup Delete

Batch == Resegment \cup {Original}

ASSUME RequestAssumption ==
    /\ Resegment \cap Delete = {}
    /\ Original \notin Request
    /\ Nobody \notin Request

\* All UPDATEs of clauses scan the same index in the same direction.
ASSUME ScanAssumption ==
    /\ Rank \in [Batch -> Nat]
    /\ \A a, b \in Batch : Rank[a] = Rank[b] => a = b

VARIABLES
    policy,       \* the committed policy row
    version,      \* the committed version row
    batch,        \* the committed clause rows
    versionLock,  \* who has an uncommitted change of the version row
    lock,         \* who has an uncommitted change of the rows of a batch
    pc,           \* where the handler of a request is
    listed,       \* whether a deletion's version_ids holds the version
    seen,         \* batches the snapshot of a request's UPDATE matched
    todo          \* those of them it has still to visit

lifecycleVars == <<policy, version, batch, versionLock, lock, pc, listed, seen, todo>>

Ended == {"refused", "failed", "done"}

Stage == Ended \cup {"idle", "versions", "update versions", "update", "scan",
                     "commit"}

LifecycleInit ==
    /\ policy = "live"
    /\ version = "live"
    /\ batch \in {[b \in Batch |-> IF b = Original THEN s ELSE "none"] :
                    s \in {"none", "live"}}
    /\ versionLock = Nobody
    /\ lock = [b \in Batch |-> Nobody]
    /\ pc = [r \in Request |-> "idle"]
    /\ listed = [d \in Delete |-> FALSE]
    /\ seen = [r \in Request |-> {}]
    /\ todo = [r \in Request |-> {}]

Go(r, from, to) == pc[r] = from /\ pc' = [pc EXCEPT ![r] = to]

Visible == {b \in Batch : batch[b] = "live"}

Mine(r) == {b \in Batch : lock[b] = r}

\* The end of r's transaction gives up its row locks.
Unlock(r) ==
    /\ lock' = [b \in Batch |-> IF lock[b] = r THEN Nobody ELSE lock[b]]
    /\ versionLock' = IF versionLock = r THEN Nobody ELSE versionLock

-----------------------------------------------------------------------------
\* The resegmentation looks its version up and segments the text it read;
\* no row is locked.
ReadVersion(r) ==
    /\ Go(r, "idle", IF version = "live" THEN "update" ELSE "refused")
    /\ UNCHANGED <<policy, version, batch, versionLock, lock, listed, seen, todo>>

\* delete_for_policy_version starts: the UPDATE takes its snapshot.
StartUpdate(r) ==
    /\ Go(r, "update", "scan")
    /\ seen' = [seen EXCEPT ![r] = Visible]
    /\ todo' = [todo EXCEPT ![r] = Visible]
    /\ UNCHANGED <<policy, version, batch, versionLock, lock, listed>>

\* Mutant: the UPDATE skips rows that are locked.
VisitBatchSkipping(r) ==
    /\ Go(r, "scan", "scan")
    /\ \E b \in todo[r] :
          /\ \A c \in todo[r] : Rank[b] <= Rank[c]
          /\ todo' = [todo EXCEPT ![r] = @ \ {b}]
          /\ lock' = IF lock[b] = Nobody /\ batch[b] = "live"
                     THEN [lock EXCEPT ![b] = r] ELSE lock
    /\ UNCHANGED <<policy, version, batch, versionLock, listed, seen>>

\* Mutant: the UPDATE visits rows in no particular order.
VisitBatchAnywhere(r) ==
    /\ Go(r, "scan", "scan")
    /\ \E b \in todo[r] :
          /\ lock[b] = Nobody
          /\ todo' = [todo EXCEPT ![r] = @ \ {b}]
          /\ lock' = IF batch[b] = "live" THEN [lock EXCEPT ![b] = r] ELSE lock
    /\ UNCHANGED <<policy, version, batch, versionLock, listed, seen>>

\* The UPDATE reaches the next row; the row must be free, and is changed if
\* it is still not deleted.
VisitBatch(r) ==
    /\ Go(r, "scan", "scan")
    /\ \E b \in todo[r] :
          /\ \A c \in todo[r] : Rank[b] <= Rank[c]
          /\ lock[b] = Nobody
          /\ todo' = [todo EXCEPT ![r] = @ \ {b}]
          /\ lock' = IF batch[b] = "live" THEN [lock EXCEPT ![b] = r] ELSE lock
    /\ UNCHANGED <<policy, version, batch, versionLock, listed, seen>>

\* Mutant: delete_for_policy_version commits.
FinishUpdateCommitting(r) ==
    /\ Go(r, "scan", "commit")
    /\ todo[r] = {}
    /\ batch' = [b \in Batch |-> IF b \in Mine(r) THEN "deleted" ELSE batch[b]]
    /\ Unlock(r)
    /\ UNCHANGED <<policy, version, listed, seen, todo>>

FinishUpdate(r) ==
    /\ Go(r, "scan", "commit")
    /\ todo[r] = {}
    /\ UNCHANGED <<policy, version, batch, versionLock, lock, listed, seen, todo>>

\* save_all inserts the new clauses and commits.
CommitResegment(r) ==
    /\ Go(r, "commit", "done")
    /\ batch' = [b \in Batch |-> IF b = r THEN "live"
                                 ELSE IF b \in Mine(r) THEN "deleted" ELSE batch[b]]
    /\ Unlock(r)
    /\ UNCHANGED <<policy, version, listed, seen, todo>>

-----------------------------------------------------------------------------
ReadPolicy(d) ==
    /\ Go(d, "idle", IF policy = "live" THEN "versions" ELSE "refused")
    /\ UNCHANGED <<policy, version, batch, versionLock, lock, listed, seen, todo>>

\* The list of version ids is read before any row is changed.
ReadVersions(d) ==
    /\ Go(d, "versions", "update versions")
    /\ listed' = [listed EXCEPT ![d] = version = "live"]
    /\ UNCHANGED <<policy, version, batch, versionLock, lock, seen, todo>>

\* Mutant: the versions are committed before their clauses are looked at.
UpdateVersionsCommitting(d) ==
    /\ Go(d, "update versions", IF listed[d] THEN "update" ELSE "commit")
    /\ version' = "deleted"
    /\ UNCHANGED <<policy, batch, versionLock, lock, listed, seen, todo>>

\* The UPDATE of the versions; it waits for another deletion's.
UpdateVersions(d) ==
    /\ Go(d, "update versions", IF listed[d] THEN "update" ELSE "commit")
    /\ \/ /\ version = "live"
          /\ versionLock = Nobody
          /\ versionLock' = d
       \/ /\ version = "deleted"
          /\ UNCHANGED versionLock
    /\ UNCHANGED <<policy, version, batch, lock, listed, seen, todo>>

\* The policy row is written when the session flushes, at the commit.
CommitDelete(d) ==
    /\ Go(d, "commit", "done")
    /\ policy' = "deleted"
    /\ version' = IF versionLock = d THEN "deleted" ELSE version
    /\ batch' = [b \in Batch |-> IF b \in Mine(d) THEN "deleted" ELSE batch[b]]
    /\ Unlock(d)
    /\ UNCHANGED <<listed, seen, todo>>

-----------------------------------------------------------------------------
\* Mutant: the session of a failed request is never closed.
FailUnclosed(r) ==
    /\ pc[r] \notin Ended \cup {"idle"}
    /\ pc' = [pc EXCEPT ![r] = "failed"]
    /\ UNCHANGED <<policy, version, batch, versionLock, lock, listed, seen, todo>>

\* A statement or the commit fails, or the process dies: the transaction is
\* rolled back.
Fail(r) ==
    /\ pc[r] \notin Ended \cup {"idle"}
    /\ pc' = [pc EXCEPT ![r] = "failed"]
    /\ Unlock(r)
    /\ UNCHANGED <<policy, version, batch, listed, seen, todo>>

\* The UPDATE of the clauses, which both handlers run.
ClauseUpdate(r) == StartUpdate(r) \/ VisitBatch(r) \/ FinishUpdate(r)

Resegmentation(r) == ReadVersion(r) \/ ClauseUpdate(r) \/ CommitResegment(r)

Deletion(d) ==
    ReadPolicy(d) \/ ReadVersions(d) \/ UpdateVersions(d) \/ ClauseUpdate(d)
    \/ CommitDelete(d)

LifecycleNext ==
    \/ \E r \in Resegment : Resegmentation(r)
    \/ \E d \in Delete : Deletion(d)
    \/ \E r \in Request : Fail(r)

LifecycleSpec == LifecycleInit /\ [][LifecycleNext]_lifecycleVars

\* A handler that has begun runs on its own thread of the server.
FairSpec ==
    /\ LifecycleSpec
    /\ \A r \in Resegment : WF_lifecycleVars(Resegmentation(r) /\ pc[r] # "idle")
    /\ \A d \in Delete : WF_lifecycleVars(Deletion(d) /\ pc[d] # "idle")

-----------------------------------------------------------------------------
\* Type invariant.  A row is locked only while it is not deleted, and only by
\* a handler between its UPDATE and the end of its transaction.
LifecycleTypeOK ==
    /\ policy \in {"live", "deleted"}
    /\ version \in {"live", "deleted"}
    /\ batch \in [Batch -> {"none", "live", "deleted"}]
    /\ versionLock \in Delete \cup {Nobody}
    /\ lock \in [Batch -> Request \cup {Nobody}]
    /\ pc \in [Request -> Stage]
    /\ listed \in [Delete -> BOOLEAN]
    /\ seen \in [Request -> SUBSET Batch]
    /\ todo \in [Request -> SUBSET Batch]
    /\ \A b \in Batch : lock[b] # Nobody =>
          batch[b] = "live" /\ pc[lock[b]] \in {"scan", "commit"}

\* A policy and its version are deleted together: no failure of a deletion,
\* and no second deletion that overlaps it, leaves one without the other.
DeletedTogether == (policy = "deleted") = (version = "deleted")

\* As the repository interface promises, no failure "leaves clauses deleted for
\* a version that ends up not being removed" (clause_repository_interface.py:
\* 97-99): whatever overlaps, a version that ever had visible clauses has some
\* until it is deleted, so the gap between the UPDATE and the INSERT of a
\* resegmentation is never seen.
NeverWithoutClauses ==
    version = "live" /\ (\E b \in Batch : batch[b] # "none") => Visible # {}

\* A request that completed has removed every clause its UPDATE saw, even
\* those that another transaction held at the time and let go again.
ReplacesWhatItSaw ==
    \A r \in Request : pc[r] = "done" => \A b \in seen[r] : batch[b] = "deleted"

\* "a deleted policy doesn't leave orphaned, still-visible clauses behind"
\* (policy_management_service.py:161-162).
DeletedPolicyShowsNoClauses == policy = "deleted" => Visible = {}

\* What keeps a request from going on: the next row of its UPDATE is locked.
Waits(r) ==
    \/ /\ pc[r] = "scan"
       /\ \E b \in todo[r] : lock[b] # Nobody /\ \A c \in todo[r] : Rank[b] <= Rank[c]
    \/ pc[r] = "update versions" /\ version = "live" /\ versionLock # Nobody

\* The transactions never wait for one another in a circle, although each
\* keeps its locks while it waits for more and the versions are locked before
\* the clauses (_delete_policy, delete_for_policy_version): while requests are
\* under way, one of them can go on.
NeverAllWaiting ==
    LET active == {r \in Request : pc[r] \notin Ended \cup {"idle"}}
    IN  active # {} => \E r \in active : ~Waits(r)

\* Readers see each request as one step: locks, waiting and uncommitted rows
\* never show.  At its commit a resegmentation has put its batch in the place
\* of exactly the clauses its UPDATE's snapshot matched, a deletion has removed
\* those with the policy, and a request that failed has changed nothing.
Replacement == INSTANCE ClauseReplacement WITH
    deleted <- version = "deleted",
    visible <- Visible,
    noted <- seen,
    stage <- [r \in Request |->
        IF pc[r] \in {"idle", "versions", "update versions", "update"} THEN "new"
        ELSE IF pc[r] \in {"scan", "commit"} THEN "noted"
        ELSE IF pc[r] = "done" THEN "done" ELSE "abandoned"]

RequestsAreSteps == Replacement!Spec

\* No request waits for ever for another's locks.
RequestsEnd ==
    \A r \in Request : pc[r] # "idle" ~> pc[r] \in Ended

=============================================================================
