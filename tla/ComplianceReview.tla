-------------------------- MODULE ComplianceReview --------------------------
(***************************************************************************)
(* What people do with the conflicts an analysis finds, and the scores     *)
(* computed from them: reviewers accept or reject recommendations, each    *)
(* decision with a row in the audit trail; a policy's health score is      *)
(* computed by a series of queries and kept in a cache of the process; the *)
(* dashboard of a company reads the conflicts and recommendations of its   *)
(* policies, and asks for the health of each.                              *)
(*                                                                         *)
(* Requests run in threads of their own.  A query sees what is committed   *)
(* when it runs (READ COMMITTED), so one score mixes several moments.      *)
(* Scores are in tenths of a point, their parts in hundredths.             *)
(***************************************************************************)
EXTENDS Integers, Sequences, FiniteSets

CONSTANTS
    Policies, Obligations, Conflicts,
    Reviews,        \* calls that set the status of a recommendation
    Requests,       \* threads that serve scores
    PolicyOf,       \* the policy of an obligation
    Source, Target, \* the policies of a conflict
    Severity,       \* of a conflict
    Missing,        \* the conflicts of type "missing"
    Revisions,      \* number of versions of a policy
    TTL,            \* ticks a cached score is served for
    MaxTime,        \* bound on the clock
    None

Severities == {"critical", "high", "medium", "low"}

ASSUME ShapeAssumption ==
    /\ IsFiniteSet(Conflicts) /\ IsFiniteSet(Obligations)
    /\ PolicyOf \in [Obligations -> Policies]
    /\ Source \in [Conflicts -> Policies] /\ Target \in [Conflicts -> Policies]
    /\ Severity \in [Conflicts -> Severities]
    /\ Missing \subseteq Conflicts
    /\ Revisions \in [Policies -> Nat]
    /\ TTL \in Nat \ {0} /\ MaxTime \in Nat
ASSUME NoneAssumption == None \notin Policies \cup Conflicts \cup Reviews

VARIABLES
    db,         \* the rows
    trail,      \* the audit trail of reviews, in the order of commits
    review,     \* how far each review is
    clock,      \* the time of day
    cache,      \* _HEALTH_SCORE_CACHE
    request,    \* how far each request is
    storedAt    \* history: when a conflict was committed

vars == <<db, trail, review, clock, cache, request, storedAt>>

Between(low, high, x) == IF x < low THEN low ELSE IF x > high THEN high ELSE x

-----------------------------------------------------------------------------
(* The scores. *)

Of(severity, C) == Cardinality({c \in C : Severity[c] = severity})

\* Faulty variant: the damping upside down.
ConflictScoreReversed(C) ==
    LET raw == 15 * Of("critical", C) + 8 * Of("high", C) + 3 * Of("medium", C) + Of("low", C)
    IN  IF raw = 0 THEN 10000 ELSE 10000 - (7500 * 50) \div (raw + 50)

\* The penalty tends to 75 points: the code's own bounds are never reached.
ConflictScore(C) ==
    LET raw == 15 * Of("critical", C) + 8 * Of("high", C) + 3 * Of("medium", C) + Of("low", C)
    IN  10000 - (7500 * raw) \div (raw + 50)

MappingScore(mapped, total) == IF total = 0 THEN 10000 ELSE (10000 * mapped) \div total

Freshness(versions, stale) ==
    IF versions = 0 THEN 7000 ELSE Between(4000, 10000, 10000 - 3000 * stale)

HealthScore(C, mapped, total, freshness, accepted) ==
    LET weighted == (40 * ConflictScore(C) + 35 * MappingScore(mapped, total) + 25 * freshness) \div 100
        bonus == Between(0, 1000, 250 * accepted)
    IN  Between(50, 1000, (weighted + bonus + 5) \div 10)

Grade(score) == CASE score >= 850 -> "A" [] score >= 700 -> "B" [] score >= 550 -> "C"
                  [] score >= 400 -> "D" [] OTHER -> "F"

\* C: the conflicts not resolved.
ComplianceScore(C, pending, rejected) ==
    LET raw == 400 * Of("high", C) + 150 * Of("medium", C) + 50 * Of("low", C)
                   + 200 * Cardinality(C \cap Missing)
        deductions == (4000 * raw) \div (raw + 10000)
                          + Between(0, 1000, 10 * pending) + Between(0, 500, 100 * rejected)
    IN  Between(350, 1000, (10000 - deductions + 5) \div 10)

RiskLevel(compliance) ==
    LET risk == 1000 - compliance
    IN  CASE risk <= 200 -> "Low" [] risk <= 450 -> "Medium" [] risk <= 750 -> "High"
          [] OTHER -> "Critical"

-----------------------------------------------------------------------------
Statuses == {"Pending", "Accepted", "Rejected"}
ConflictStatuses == {"Open", "Reviewed", "Resolved"}

NoReview == [pc |-> "idle", recommendation |-> None, read |-> "Pending", choice |-> "Pending",
             named |-> FALSE]

\* A request that has no policy in hand.
Waiting(pc, kind, todo, answers, compliance, session) ==
    [pc |-> pc, kind |-> kind, todo |-> todo, policy |-> None, now |-> 0,
     conflicts |-> {}, active |-> {}, left |-> {}, obligations |-> 0, mapped |-> 0, freshness |-> 0,
     accepted |-> 0, answers |-> answers, compliance |-> compliance, session |-> session]

Begun(pc, kind, todo) == Waiting(pc, kind, todo, {}, 1000, "sound")

Init ==
    /\ db = [policies |-> {}, deleted |-> {}, obligations |-> {}, mapped |-> {},
             conflicts |-> {}, recommendations |-> {},
             status |-> [c \in Conflicts |-> "Open"],
             decision |-> [c \in Conflicts |-> "Pending"],
             reviewer |-> [c \in Conflicts |-> None]]
    /\ trail = <<>>
    /\ review = [v \in Reviews |-> NoReview]
    /\ clock = 0
    /\ cache = [p \in Policies |-> None]
    /\ request = [r \in Requests |-> Begun("idle", "health", {})]
    /\ storedAt = [c \in Conflicts |-> 0]

Tick ==
    /\ clock < MaxTime
    /\ clock' = clock + 1
    /\ UNCHANGED <<db, trail, review, cache, request, storedAt>>

-----------------------------------------------------------------------------
(* The rows. *)

Rows(new) == db' = new /\ UNCHANGED <<trail, review, clock, cache, request>>

StorePolicy(p) ==
    /\ p \notin db.policies
    /\ Rows([db EXCEPT !.policies = @ \cup {p}]) /\ UNCHANGED storedAt

\* The obligation's mapping comes with it: to a regulation, or to "NONE".
StoreObligation(o, real) ==
    /\ PolicyOf[o] \in db.policies /\ o \notin db.obligations
    /\ Rows([db EXCEPT !.obligations = @ \cup {o}, !.mapped = IF real THEN @ \cup {o} ELSE @])
    /\ UNCHANGED storedAt

Remap(o, real) ==
    /\ o \in db.obligations
    /\ Rows([db EXCEPT !.mapped = IF real THEN @ \cup {o} ELSE @ \ {o}]) /\ UNCHANGED storedAt

\* One comparison commits its conflicts together, with the recommendations
\* R it could write; a failed recommendation leaves its conflict without.
StoreConflicts(C, R) ==
    /\ C # {} /\ C \cap db.conflicts = {} /\ R \subseteq C
    /\ \A c \in C : {Source[c], Target[c]} \subseteq db.policies
    /\ \A c, d \in C : Target[c] = Target[d]
    /\ Rows([db EXCEPT !.conflicts = @ \cup C, !.recommendations = @ \cup R])
    /\ storedAt' = [c \in Conflicts |-> IF c \in C THEN clock ELSE storedAt[c]]

\* The versions and clauses go with the policy; obligations and conflicts stay.
DeletePolicy(p) ==
    /\ p \in db.policies \ db.deleted
    /\ Rows([db EXCEPT !.deleted = @ \cup {p}]) /\ UNCHANGED storedAt

\* Reading the row first changes nothing here: the status is written unless
\* it equals the one read, and no other row depends on it.
UpdateConflictStatus(c, status) ==
    /\ c \in db.conflicts
    /\ Rows([db EXCEPT !.status[c] = status]) /\ UNCHANGED storedAt

-----------------------------------------------------------------------------
(* Reviews: update_recommendation_status. *)

ReadRecommendation(v, c, choice, named) ==
    /\ review[v].pc = "idle" /\ c \in db.recommendations
    /\ review' = [review EXCEPT ![v] = [pc |-> "read", recommendation |-> c, read |-> db.decision[c],
                                        choice |-> choice, named |-> named]]
    /\ UNCHANGED <<db, trail, clock, cache, request, storedAt>>

\* The UPDATE and the audit row are one transaction.  Only attributes that
\* differ from what was read are in the UPDATE.
Commit(v, written) ==
    LET w == review[v]
        c == w.recommendation
        by == IF w.named THEN v ELSE None
    IN  /\ w.pc = "read"
        /\ db' = [db EXCEPT !.decision[c] = written, !.reviewer[c] = IF w.named THEN v ELSE @]
        /\ trail' = Append(trail, [recommendation |-> c, from |-> w.read, to |-> w.choice, by |-> by])
        /\ review' = [review EXCEPT ![v].pc = "done"]
        /\ UNCHANGED <<clock, cache, request, storedAt>>

\* Faulty variant: an UPDATE that always sets the status.
CommitReviewAlways(v) == Commit(v, review[v].choice)

CommitReview(v) ==
    LET w == review[v]
    IN  Commit(v, IF w.choice = w.read THEN db.decision[w.recommendation] ELSE w.choice)

\* A failure before the commit: nothing is stored.
AbandonReview(v) ==
    /\ review[v].pc = "read"
    /\ review' = [review EXCEPT ![v].pc = "done"]
    /\ UNCHANGED <<db, trail, clock, cache, request, storedAt>>

-----------------------------------------------------------------------------
(* Requests for the health of a policy, and for a company's summary. *)

\* A step of r from pc, to the record new.
Step(r, pc, new) ==
    /\ request[r].pc = pc
    /\ request' = [request EXCEPT ![r] = new]
    /\ UNCHANGED <<db, trail, review, clock, storedAt>>

Ask(r, kind, p, pc) ==
    /\ request[r].pc \in {"idle", "served"}
    /\ request' = [request EXCEPT ![r] = Begun(pc, kind, {p} \ {None})]
    /\ UNCHANGED <<db, trail, review, clock, cache, storedAt>>

AskHealth(r, p) == Ask(r, "health", p, "next policy")
AskSummary(r) == Ask(r, "summary", None, "read policies")

ReadPolicies(r) ==
    LET live == db.policies \ db.deleted
    IN  /\ Step(r, "read policies",
                [request[r] EXCEPT !.todo = live,
                                   !.pc = IF live = {} THEN "served" ELSE "read company conflicts"])
        /\ UNCHANGED cache

\* Only conflicts that have one of the policies as target.
ReadCompanyConflicts(r) ==
    /\ Step(r, "read company conflicts",
            [request[r] EXCEPT !.conflicts = {c \in db.conflicts : Target[c] \in request[r].todo},
                               !.active = {c \in db.conflicts : /\ Target[c] \in request[r].todo
                                                                /\ db.status[c] # "Resolved"},
                               !.pc = "read recommendations"])
    /\ UNCHANGED cache

ReadRecommendations(r) ==
    LET known == request[r].conflicts \cap db.recommendations
        In(decision) == Cardinality({c \in known : db.decision[c] = decision})
    IN  /\ Step(r, "read recommendations",
                [request[r] EXCEPT !.compliance = ComplianceScore(request[r].active, In("Pending"), In("Rejected")),
                                   !.conflicts = {}, !.active = {}, !.pc = "next policy"])
        /\ UNCHANGED cache

(* calculate_health_score: the time, the cache, then the queries.  An answer
   is what was served for a policy, and when it was asked for. *)

TakeTime(r, p) ==
    /\ p \in request[r].todo
    /\ Step(r, "next policy", [request[r] EXCEPT !.policy = p, !.now = clock, !.pc = "look up"])
    /\ UNCHANGED cache

\* The record of r once the policy in hand is dealt with.
Dealt(r, answers, session) ==
    LET left == request[r].todo \ {request[r].policy}
    IN  Waiting(IF left = {} THEN "served" ELSE "next policy", request[r].kind, left, answers,
                request[r].compliance, session)

Answered(r, result) ==
    Dealt(r, request[r].answers \cup
               {[policy |-> request[r].policy, at |-> request[r].now, result |-> result]},
          request[r].session)

Hit(r) ==
    LET entry == cache[request[r].policy]
    IN  entry # None /\ request[r].now - entry.stamp < TTL

ServeCached(r) ==
    /\ request[r].pc = "look up" /\ Hit(r)
    /\ Step(r, "look up", Answered(r, cache[request[r].policy].result))
    /\ UNCHANGED cache

NotFound == [score |-> 0, grade |-> "F", counted |-> {}]

\* A deleted policy is found: the lookup is by primary key.
FindPolicy(r) ==
    /\ request[r].pc = "look up" /\ ~Hit(r) /\ request[r].session = "sound"
    /\ Step(r, "look up", IF request[r].policy \in db.policies
                          THEN [request[r] EXCEPT !.pc = "read conflicts"]
                          ELSE Answered(r, NotFound))
    /\ UNCHANGED cache

\* Resolved conflicts are among them.
ReadConflicts(r) ==
    /\ Step(r, "read conflicts",
            [request[r] EXCEPT !.conflicts = {c \in db.conflicts : request[r].policy \in {Source[c], Target[c]}},
                               !.pc = "read obligations"])
    /\ UNCHANGED cache

ReadObligations(r) ==
    LET found == {o \in db.obligations : PolicyOf[o] = request[r].policy}
    IN  /\ Step(r, "read obligations",
                [request[r] EXCEPT !.left = found, !.obligations = Cardinality(found),
                                   !.pc = IF found = {} THEN "read versions" ELSE "read mappings"])
        /\ UNCHANGED cache

\* One query per obligation.
ReadMapping(r, o) ==
    LET left == request[r].left \ {o}
    IN  /\ o \in request[r].left
        /\ Step(r, "read mappings",
                [request[r] EXCEPT !.left = left, !.mapped = IF o \in db.mapped THEN @ + 1 ELSE @,
                                   !.pc = IF left = {} THEN "read versions" ELSE @])
        /\ UNCHANGED cache

VersionsOf(p) == IF p \in db.deleted THEN 0 ELSE Revisions[p]

\* Which versions are stale depends on the date and on the language model.
ReadVersions(r) ==
    /\ request[r].pc = "read versions"
    /\ \E stale \in 0..VersionsOf(request[r].policy) :
         Step(r, "read versions",
              [request[r] EXCEPT !.freshness = Freshness(VersionsOf(request[r].policy), stale),
                                 !.left = request[r].conflicts,
                                 !.pc = IF request[r].conflicts = {} THEN "store" ELSE "read accepted"])
    /\ UNCHANGED cache

\* One query per conflict.
ReadAccepted(r, c) ==
    LET left == request[r].left \ {c}
        accepted == c \in db.recommendations /\ db.decision[c] = "Accepted"
    IN  /\ c \in request[r].left
        /\ Step(r, "read accepted",
                [request[r] EXCEPT !.left = left, !.accepted = IF accepted THEN @ + 1 ELSE @,
                                   !.pc = IF left = {} THEN "store" ELSE @])
        /\ UNCHANGED cache

Result(r) ==
    LET q == request[r]
        score == HealthScore(q.conflicts, q.mapped, q.obligations, q.freshness, q.accepted)
    IN  [score |-> score, grade |-> Grade(score), counted |-> q.conflicts]

StoreAt(r, stamp) ==
    /\ Step(r, "store", Answered(r, Result(r)))
    /\ cache' = [cache EXCEPT ![request[r].policy] = [result |-> Result(r), stamp |-> stamp]]

\* Faulty variant: the entry is stamped when it is stored.
StoreScoreNow(r) == StoreAt(r, clock)

\* The entry is stamped with the time taken before anything was read.
StoreScore(r) == StoreAt(r, request[r].now)

HealthQueries == {"look up", "read conflicts", "read obligations", "read mappings",
                  "read versions", "read accepted"}
SummaryQueries == {"read policies", "read company conflicts", "read recommendations"}

\* A query fails, which ends the call, except that a summary goes on without
\* the policy in hand; from then on its session fails every query.
FailQuery(r) ==
    /\ request[r].pc \in HealthQueries \cup SummaryQueries
    /\ request[r].pc = "look up" => ~Hit(r)
    /\ Step(r, request[r].pc,
            IF request[r].kind = "summary" /\ request[r].pc \in HealthQueries
            THEN Dealt(r, request[r].answers, "failed")
            ELSE Begun("served", "health", {}))
    /\ UNCHANGED cache

Request(r) ==
    \/ \E p \in Policies : AskHealth(r, p)
    \/ AskSummary(r)
    \/ ReadPolicies(r) \/ ReadCompanyConflicts(r) \/ ReadRecommendations(r)
    \/ \E p \in Policies : TakeTime(r, p)
    \/ ServeCached(r) \/ FindPolicy(r) \/ ReadConflicts(r) \/ ReadObligations(r)
    \/ \E o \in Obligations : ReadMapping(r, o)
    \/ ReadVersions(r)
    \/ \E c \in Conflicts : ReadAccepted(r, c)
    \/ StoreScore(r)
    \/ FailQuery(r)

Review(v) ==
    \/ \E c \in Conflicts, choice \in Statuses, named \in BOOLEAN : ReadRecommendation(v, c, choice, named)
    \/ CommitReview(v)
    \/ AbandonReview(v)

Row ==
    \/ \E p \in Policies : StorePolicy(p) \/ DeletePolicy(p)
    \/ \E o \in Obligations, real \in BOOLEAN : StoreObligation(o, real) \/ Remap(o, real)
    \/ \E C, R \in SUBSET Conflicts : StoreConflicts(C, R)
    \/ \E c \in Conflicts, status \in ConflictStatuses : UpdateConflictStatus(c, status)

Next ==
    \/ Tick
    \/ Row
    \/ \E v \in Reviews : Review(v)
    \/ \E r \in Requests : Request(r)

Spec == Init /\ [][Next]_vars

-----------------------------------------------------------------------------
(* Properties. *)

Times == 0..MaxTime
Kinds == {"health", "summary"}
Sessions == {"sound", "failed"}
Compliances == 350..1000

ResultType == [score : 0..1000, grade : {"A", "B", "C", "D", "F"}, counted : SUBSET Conflicts]

Stages == {"idle", "next policy", "store", "served"} \cup HealthQueries \cup SummaryQueries

RequestType ==
    [pc : Stages,
     kind : Kinds, todo : SUBSET Policies, policy : Policies \cup {None}, now : Times,
     conflicts : SUBSET Conflicts, active : SUBSET Conflicts, left : SUBSET (Conflicts \cup Obligations),
     obligations : Nat, mapped : Nat, freshness : Nat, accepted : Nat,
     answers : SUBSET [policy : Policies, at : Times, result : ResultType],
     compliance : Compliances, session : Sessions]

\* Every variable has its type; a request that looks for a policy's rows has a
\* policy in hand, and a review in progress a recommendation.
TypeOK ==
    /\ db \in [policies : SUBSET Policies, deleted : SUBSET Policies,
               obligations : SUBSET Obligations, mapped : SUBSET Obligations,
               conflicts : SUBSET Conflicts, recommendations : SUBSET Conflicts,
               status : [Conflicts -> ConflictStatuses], decision : [Conflicts -> Statuses],
               reviewer : [Conflicts -> Reviews \cup {None}]]
    /\ trail \in Seq([recommendation : Conflicts, from : Statuses, to : Statuses,
                      by : Reviews \cup {None}])
    /\ review \in [Reviews -> [pc : {"idle", "read", "done"}, recommendation : Conflicts \cup {None},
                               read : Statuses, choice : Statuses, named : BOOLEAN]]
    /\ \A v \in Reviews : review[v].pc = "read" => review[v].recommendation \in db.recommendations
    /\ clock \in Times
    /\ cache \in [Policies -> {None} \cup [result : ResultType, stamp : Times]]
    /\ request \in [Requests -> RequestType]
    /\ \A r \in Requests : request[r].pc \in HealthQueries \cup {"store"} => request[r].policy \in Policies
    /\ storedAt \in [Conflicts -> Times]

Changes(c) == {i \in DOMAIN trail : trail[i].recommendation = c /\ trail[i].from # trail[i].to}

\* The audit trail tells the stored decision: it is the one of the last
\* committed row that changed anything, or "Pending" when there is none.
\* Reviews of one recommendation overlap, each with the status it read: rows
\* that claim to change nothing come last, and rows may start from a status
\* that is no longer stored (update_recommendation_status).
TrailTellsDecision ==
    \A c \in Conflicts :
        \/ Changes(c) = {} /\ db.decision[c] = "Pending"
        \/ \E i \in Changes(c) : /\ \A j \in Changes(c) : j <= i
                                 /\ db.decision[c] = trail[i].to

\* A served score counts every conflict of the policy committed TTL or more
\* before it was asked for, however long its computation and the one that
\* filled the cache took (calculate_health_score: ten seconds).
ServedScoreIsRecent ==
    \A r \in Requests : \A a \in request[r].answers : \A c \in db.conflicts :
        a.policy \in {Source[c], Target[c]} /\ storedAt[c] + TTL <= a.at => c \in a.result.counted

\* What the scores are when nothing moves while they are computed.
Health(p, d, stale) ==
    LET C == {c \in d.conflicts : p \in {Source[c], Target[c]}}
        O == {o \in d.obligations : PolicyOf[o] = p}
        versions == IF p \in d.deleted THEN 0 ELSE Revisions[p]
    IN  HealthScore(C, Cardinality(O \cap d.mapped), Cardinality(O), Freshness(versions, stale),
                    Cardinality({c \in C \cap d.recommendations : d.decision[c] = "Accepted"}))

Compliance(d) ==
    LET C == {c \in d.conflicts : Target[c] \in d.policies \ d.deleted}
        In(decision) == Cardinality({c \in C \cap d.recommendations : d.decision[c] = decision})
    IN  ComplianceScore({c \in C : d.status[c] # "Resolved"}, In("Pending"), In("Rejected"))

\* A step and its two scores, before and after.
MovesTheRightWay ==
    \A p \in Policies : \A stale \in 0..Revisions[p] :
       LET before == Health(p, db, stale)
           after == Health(p, db', stale)
       IN  /\ db'.conflicts # db.conflicts =>
                  after <= before /\ Compliance(db') <= Compliance(db)
           /\ (\/ \E c \in Conflicts : db.decision[c] # "Accepted" /\ db'.decision[c] = "Accepted"
               \/ \E c \in Conflicts : db.status[c] # "Resolved" /\ db'.status[c] = "Resolved"
               \/ db'.obligations = db.obligations /\ ~(db'.mapped \subseteq db.mapped))
              => after >= before /\ Compliance(db') >= Compliance(db)

\* A new conflict, with or without its recommendation, never makes a policy
\* look healthier or the company more compliant; accepting a recommendation,
\* resolving a conflict and mapping an obligation to a regulation never do the
\* opposite (the formulas of the two score engines over the same rows).
ScoresMoveTheRightWay == [][MovesTheRightWay]_db

=============================================================================
