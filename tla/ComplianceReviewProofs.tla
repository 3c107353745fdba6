----------------------- MODULE ComplianceReviewProofs -----------------------
(***************************************************************************)
(* Proofs about ComplianceReview, for every number of policies, conflicts, *)
(* reviews and requests, every time to live and every bound on the clock.  *)
(***************************************************************************)
EXTENDS ComplianceReview, FiniteSetTheorems, TLAPS

-----------------------------------------------------------------------------
(* The scores stay in their ranges. *)

\* Clamping an integer between two others gives one in between.
LEMMA BetweenTyped ==
    ASSUME NEW low \in Int, NEW high \in Int, low <= high, NEW x \in Int
    PROVE  Between(low, high, x) \in low..high
BY DEF Between

\* Rows of a finite table are counted by a natural number.
LEMMA CountTyped ==
    ASSUME NEW S, IsFiniteSet(S), NEW T \in SUBSET S
    PROVE  Cardinality(T) \in Nat
BY FS_Subset, FS_CardinalityType

\* So are the conflicts of one severity.
LEMMA OfTyped ==
    ASSUME ShapeAssumption, NEW C \in SUBSET Conflicts, NEW severity
    PROVE  Of(severity, C) \in Nat
<1>1. {c \in C : Severity[c] = severity} \in SUBSET Conflicts
  OBVIOUS
<1> QED
  BY <1>1, CountTyped DEF Of, ShapeAssumption

\* The division of an integer by a positive one is an integer.
LEMMA DivTyped ==
    ASSUME NEW x \in Int, NEW y \in Nat \ {0}
    PROVE  x \div y \in Int
OBVIOUS

\* The conflict part of the score is an integer.
LEMMA ConflictScoreTyped ==
    ASSUME ShapeAssumption, NEW C \in SUBSET Conflicts
    PROVE  ConflictScore(C) \in Int
<1> DEFINE raw == 15 * Of("critical", C) + 8 * Of("high", C) + 3 * Of("medium", C) + Of("low", C)
<1>1. raw \in Nat
  BY OfTyped
<1> HIDE DEF raw
<1>2. (7500 * raw) \div (raw + 50) \in Int
  BY <1>1, DivTyped
<1>3. ConflictScore(C) = 10000 - (7500 * raw) \div (raw + 50)
  BY DEF ConflictScore, raw
<1> QED
  BY <1>2, <1>3

\* A health score lies between 5 and 100 points.
LEMMA HealthScoreTyped ==
    ASSUME ShapeAssumption, NEW C \in SUBSET Conflicts, NEW mapped \in Nat, NEW total \in Nat,
           NEW freshness \in Nat, NEW accepted \in Nat
    PROVE  HealthScore(C, mapped, total, freshness, accepted) \in 50..1000
<1> DEFINE sum == 40 * ConflictScore(C) + 35 * MappingScore(mapped, total) + 25 * freshness
           bonus == Between(0, 1000, 250 * accepted)
<1>1. MappingScore(mapped, total) \in Int
  BY DivTyped DEF MappingScore
<1>2. sum \in Int
  BY <1>1, ConflictScoreTyped
<1>3. bonus \in Int
  BY BetweenTyped
<1> HIDE DEF sum, bonus
<1>4. sum \div 100 + bonus + 5 \in Int
  BY <1>2, <1>3, DivTyped
<1>5. (sum \div 100 + bonus + 5) \div 10 \in Int
  BY <1>4, DivTyped
<1>6. HealthScore(C, mapped, total, freshness, accepted)
        = Between(50, 1000, (sum \div 100 + bonus + 5) \div 10)
  BY DEF HealthScore, sum, bonus
<1> DEFINE x == (sum \div 100 + bonus + 5) \div 10
<1> HIDE DEF x
<1>7. x \in Int => Between(50, 1000, x) \in 50..1000
  BY DEF Between
<1> QED
  BY <1>5, <1>6, <1>7 DEF x

\* A compliance score lies between 35 and 100 points.
LEMMA ComplianceScoreTyped ==
    ASSUME ShapeAssumption, NEW C \in SUBSET Conflicts, NEW pending \in Nat, NEW rejected \in Nat
    PROVE  ComplianceScore(C, pending, rejected) \in 350..1000
<1> DEFINE raw == 400 * Of("high", C) + 150 * Of("medium", C) + 50 * Of("low", C)
                    + 200 * Cardinality(C \cap Missing)
           penalty == (4000 * raw) \div (raw + 10000)
           others == Between(0, 1000, 10 * pending)
           more == Between(0, 500, 100 * rejected)
<1>1. raw \in Nat
  BY OfTyped, CountTyped DEF ShapeAssumption
<1> HIDE DEF raw
<1>2. penalty \in Int
  BY <1>1, DivTyped
<1>3. others \in Int /\ more \in Int
  BY BetweenTyped
<1> HIDE DEF penalty, others, more
<1>4. 10000 - (penalty + others + more) + 5 \in Int
  BY <1>2, <1>3
<1>5. (10000 - (penalty + others + more) + 5) \div 10 \in Int
  BY <1>4, DivTyped
<1>6. ComplianceScore(C, pending, rejected)
        = Between(350, 1000, (10000 - (penalty + others + more) + 5) \div 10)
  BY DEF ComplianceScore, raw, penalty, others, more
<1> DEFINE x == (10000 - (penalty + others + more) + 5) \div 10
<1> HIDE DEF x
<1>7. x \in Int => Between(350, 1000, x) \in 350..1000
  BY DEF Between
<1> QED
  BY <1>5, <1>6, <1>7 DEF x

\* Freshness is a number of hundredths.
LEMMA FreshnessTyped ==
    ASSUME NEW versions \in Nat, NEW stale \in Nat
    PROVE  Freshness(versions, stale) \in Nat
BY DEF Freshness, Between

\* A grade is one of five letters.
LEMMA GradeTyped ==
    ASSUME NEW score \in Int
    PROVE  Grade(score) \in {"A", "B", "C", "D", "F"}
BY DEF Grade

-----------------------------------------------------------------------------
(* Types. *)

RowsType ==
    [policies : SUBSET Policies, deleted : SUBSET Policies,
     obligations : SUBSET Obligations, mapped : SUBSET Obligations,
     conflicts : SUBSET Conflicts, recommendations : SUBSET Conflicts,
     status : [Conflicts -> ConflictStatuses], decision : [Conflicts -> Statuses],
     reviewer : [Conflicts -> Reviews \cup {None}]]

ReviewType ==
    [pc : {"idle", "read", "done"}, recommendation : Conflicts \cup {None},
     read : Statuses, choice : Statuses, named : BOOLEAN]

TrailRow == [recommendation : Conflicts, from : Statuses, to : Statuses, by : Reviews \cup {None}]

AnswerType == [policy : Policies, at : Times, result : ResultType]

\* A request that has no policy in hand is well typed.
LEMMA WaitingTyped ==
    ASSUME ShapeAssumption, NEW stage \in Stages, NEW what \in Kinds,
           NEW rest \in SUBSET Policies, NEW known \in SUBSET AnswerType, NEW percent \in Compliances,
           NEW sound \in Sessions
    PROVE  Waiting(stage, what, rest, known, percent, sound) \in RequestType
<1>1. 0 \in Times
  BY DEF ShapeAssumption, Times
<1> HIDE ShapeAssumption
<1> QED
  BY <1>1 DEF Waiting, RequestType, AnswerType

\* So is one that begins, or that has failed.
LEMMA BegunTyped ==
    ASSUME ShapeAssumption, NEW stage \in Stages, NEW what \in Kinds,
           NEW rest \in SUBSET Policies
    PROVE  /\ Begun(stage, what, rest) \in RequestType
           /\ Begun(stage, what, rest).pc = stage
           /\ Begun(stage, what, rest).answers = {}
<1>1. Waiting(stage, what, rest, {}, 1000, "sound") \in RequestType
  <2>1. 1000 \in Compliances /\ "sound" \in Sessions
    BY DEF Compliances, Sessions
  <2> QED
    BY <2>1, WaitingTyped
<1>2. /\ Waiting(stage, what, rest, {}, 1000, "sound").pc = stage
      /\ Waiting(stage, what, rest, {}, 1000, "sound").answers = {}
  BY DEF Waiting
<1> QED
  BY <1>1, <1>2 DEF Begun

\* The initial state has the types.
LEMMA InitTyped ==
    ASSUME ShapeAssumption, Init
    PROVE  TypeOK
<1> DEFINE Idle == Begun("idle", "health", {})
<1>1. Idle \in RequestType /\ Idle.pc = "idle"
  BY BegunTyped DEF Stages, Kinds
<1>2. NoReview \in ReviewType /\ NoReview.pc = "idle"
  BY DEF NoReview, ReviewType, Statuses
<1>3. db \in RowsType
  BY DEF Init, RowsType, ConflictStatuses, Statuses
<1>4. clock \in Times /\ storedAt \in [Conflicts -> Times]
  BY DEF Init, ShapeAssumption, Times
<1>5. request = [r \in Requests |-> Idle] /\ review = [v \in Reviews |-> NoReview]
  BY DEF Init
<1>6. trail = <<>> /\ cache = [p \in Policies |-> None]
  BY DEF Init
<1>7. trail \in Seq(TrailRow)
  BY <1>6
<1>8. \A r \in Requests : request[r].pc \notin HealthQueries \cup {"store"}
  BY <1>1, <1>5 DEF HealthQueries
<1> QED
  BY <1>1, <1>2, <1>3, <1>4, <1>5, <1>6, <1>7, <1>8
  DEF TypeOK, RowsType, ReviewType, TrailRow

\* What a change of the rows leaves well typed: no row of a recommendation goes.
LEMMA RowsTyped ==
    ASSUME TypeOK, NEW new \in RowsType, Rows(new),
           db.recommendations \subseteq new.recommendations,
           storedAt' \in [Conflicts -> Times]
    PROVE  TypeOK'
BY DEF TypeOK, Rows, RowsType

\* Every change of the rows keeps the types.
LEMMA RowTyped ==
    ASSUME ShapeAssumption, TypeOK, Row
    PROVE  TypeOK'
<1>0. db \in RowsType /\ storedAt \in [Conflicts -> Times] /\ clock \in Times
  BY DEF TypeOK, RowsType
<1>1. ASSUME NEW p \in Policies, StorePolicy(p)
      PROVE  TypeOK'
  <2>1. [db EXCEPT !.policies = @ \cup {p}] \in RowsType
    BY <1>0 DEF RowsType
  <2> QED
    BY <1>0, <1>1, <2>1, RowsTyped DEF StorePolicy, RowsType
<1>2. ASSUME NEW p \in Policies, DeletePolicy(p)
      PROVE  TypeOK'
  <2>1. [db EXCEPT !.deleted = @ \cup {p}] \in RowsType
    BY <1>0 DEF RowsType
  <2> QED
    BY <1>0, <1>2, <2>1, RowsTyped DEF DeletePolicy, RowsType
<1>3. ASSUME NEW o \in Obligations, NEW real \in BOOLEAN, StoreObligation(o, real)
      PROVE  TypeOK'
  <2>1. [db EXCEPT !.obligations = @ \cup {o}, !.mapped = IF real THEN @ \cup {o} ELSE @] \in RowsType
    BY <1>0 DEF RowsType
  <2> QED
    BY <1>0, <1>3, <2>1, RowsTyped DEF StoreObligation, RowsType
<1>4. ASSUME NEW o \in Obligations, NEW real \in BOOLEAN, Remap(o, real)
      PROVE  TypeOK'
  <2>1. [db EXCEPT !.mapped = IF real THEN @ \cup {o} ELSE @ \ {o}] \in RowsType
    BY <1>0 DEF RowsType
  <2> QED
    BY <1>0, <1>4, <2>1, RowsTyped DEF Remap, RowsType
<1>5. ASSUME NEW C \in SUBSET Conflicts, NEW R \in SUBSET Conflicts, StoreConflicts(C, R)
      PROVE  TypeOK'
  <2>1. [db EXCEPT !.conflicts = @ \cup C, !.recommendations = @ \cup R] \in RowsType
    BY <1>0 DEF RowsType
  <2>2. storedAt' \in [Conflicts -> Times]
    BY <1>0, <1>5 DEF StoreConflicts
  <2> QED
    BY <1>0, <1>5, <2>1, <2>2, RowsTyped DEF StoreConflicts, RowsType
<1>6. ASSUME NEW c \in Conflicts, NEW status \in ConflictStatuses, UpdateConflictStatus(c, status)
      PROVE  TypeOK'
  <2>1. [db EXCEPT !.status[c] = status] \in RowsType
    BY <1>0 DEF RowsType
  <2> QED
    BY <1>0, <1>6, <2>1, RowsTyped DEF UpdateConflictStatus, RowsType
<1> QED
  BY <1>1, <1>2, <1>3, <1>4, <1>5, <1>6 DEF Row

\* Every step of a review keeps the types.
LEMMA ReviewTyped ==
    ASSUME TypeOK, NEW v \in Reviews, Review(v)
    PROVE  TypeOK'
<1>0. /\ db \in RowsType /\ review \in [Reviews -> ReviewType] /\ trail \in Seq(TrailRow)
      /\ review[v] \in ReviewType
  BY DEF TypeOK, RowsType, ReviewType, TrailRow
<1>1. ASSUME NEW c \in Conflicts, NEW choice \in Statuses, NEW named \in BOOLEAN,
             ReadRecommendation(v, c, choice, named)
      PROVE  TypeOK'
  <2> DEFINE new == [pc |-> "read", recommendation |-> c, read |-> db.decision[c],
                     choice |-> choice, named |-> named]
  <2>1. new \in ReviewType /\ new.recommendation = c
    BY <1>0 DEF RowsType, ReviewType
  <2>2. /\ review' = [review EXCEPT ![v] = new]
        /\ c \in db.recommendations
        /\ UNCHANGED <<db, trail, clock, cache, request, storedAt>>
    BY <1>1 DEF ReadRecommendation
  <2> HIDE DEF new
  <2> QED
    BY <2>1, <2>2 DEF TypeOK, ReviewType
<1>2. CASE CommitReview(v)
  <2> DEFINE c == review[v].recommendation
             written == IF review[v].choice = review[v].read THEN db.decision[c] ELSE review[v].choice
             by == IF review[v].named THEN v ELSE None
             rows == [db EXCEPT !.decision[c] = written,
                                !.reviewer[c] = IF review[v].named THEN v ELSE @]
             row == [recommendation |-> c, from |-> review[v].read, to |-> review[v].choice, by |-> by]
             new == [review[v] EXCEPT !.pc = "done"]
  <2>1. c \in Conflicts
    BY <1>0, <1>2 DEF CommitReview, Commit, TypeOK, RowsType
  <2>2. written \in Statuses /\ by \in Reviews \cup {None}
    BY <1>0, <2>1 DEF RowsType, ReviewType
  <2>3. row \in TrailRow
    BY <1>0, <2>1, <2>2 DEF TrailRow, ReviewType
  <2>4. new \in ReviewType /\ new.pc = "done"
    BY <1>0 DEF ReviewType
  <2>5. rows \in RowsType /\ rows.recommendations = db.recommendations
    BY <1>0, <2>1, <2>2 DEF RowsType
  <2>6. /\ db' = rows /\ trail' = Append(trail, row)
        /\ review' = [review EXCEPT ![v] = new]
        /\ UNCHANGED <<clock, cache, request, storedAt>>
    BY <1>0, <1>2 DEF CommitReview, Commit
  <2> HIDE DEF rows, row, new
  <2>7. trail' \in Seq(TrailRow)
    BY <1>0, <2>3, <2>6
  <2> QED
    BY <1>0, <2>4, <2>5, <2>6, <2>7 DEF TypeOK, RowsType, ReviewType, TrailRow
<1>3. CASE AbandonReview(v)
  <2> DEFINE new == [review[v] EXCEPT !.pc = "done"]
  <2>1. new \in ReviewType /\ new.pc = "done"
    BY <1>0 DEF ReviewType
  <2>2. review' = [review EXCEPT ![v] = new] /\ UNCHANGED <<db, trail, clock, cache, request, storedAt>>
    BY <1>0, <1>3 DEF AbandonReview
  <2> HIDE DEF new
  <2> QED
    BY <2>1, <2>2 DEF TypeOK, ReviewType
<1> QED
  BY <1>1, <1>2, <1>3 DEF Review

\* What a step of a request leaves well typed.
LEMMA StepTyped ==
    ASSUME TypeOK, NEW r \in Requests, NEW new \in RequestType,
           new.pc \in HealthQueries \cup {"store"} => new.policy \in Policies,
           request' = [request EXCEPT ![r] = new],
           cache' \in [Policies -> {None} \cup [result : ResultType, stamp : Times]],
           UNCHANGED <<db, trail, review, clock, storedAt>>
    PROVE  TypeOK'
BY DEF TypeOK

\* The fields of a request.
LEMMA FieldsTyped ==
    ASSUME NEW q \in RequestType
    PROVE  /\ q.kind \in Kinds /\ q.session \in Sessions
           /\ q.todo \in SUBSET Policies /\ q.now \in Times
           /\ q.conflicts \in SUBSET Conflicts
           /\ q.active \in SUBSET Conflicts
           /\ q.left \in SUBSET (Conflicts \cup Obligations)
           /\ q.obligations \in Nat /\ q.mapped \in Nat
           /\ q.freshness \in Nat /\ q.accepted \in Nat
           /\ q.answers \in SUBSET AnswerType
           /\ q.compliance \in Compliances
BY DEF RequestType, AnswerType

\* A policy has been dealt with: what was answered stays an answer.
LEMMA DealtTyped ==
    ASSUME ShapeAssumption, TypeOK, NEW r \in Requests, NEW known \in SUBSET AnswerType,
           NEW sound \in Sessions
    PROVE  /\ Dealt(r, known, sound) \in RequestType
           /\ Dealt(r, known, sound).pc \in {"served", "next policy"}
           /\ Dealt(r, known, sound).answers = known
<1> DEFINE rest == request[r].todo \ {request[r].policy}
           stage == IF rest = {} THEN "served" ELSE "next policy"
           what == request[r].kind
           percent == request[r].compliance
<1>1. request[r] \in RequestType
  BY DEF TypeOK
<1>2. what \in Kinds /\ rest \in SUBSET Policies /\ percent \in Compliances
  BY <1>1, FieldsTyped
<1>3. stage \in {"served", "next policy"}
  OBVIOUS
<1>4. stage \in Stages
  BY <1>3 DEF Stages
<1>5. Dealt(r, known, sound) = Waiting(stage, what, rest, known, percent, sound)
  BY DEF Dealt
<1> HIDE DEF stage, what, rest, percent
<1>6. Waiting(stage, what, rest, known, percent, sound) \in RequestType
  BY <1>2, <1>4, WaitingTyped
<1>7. /\ Waiting(stage, what, rest, known, percent, sound).pc = stage
      /\ Waiting(stage, what, rest, known, percent, sound).answers = known
  BY DEF Waiting
<1> QED
  BY <1>3, <1>5, <1>6, <1>7

\* So does answering for the policy in hand.
LEMMA AnsweredTyped ==
    ASSUME ShapeAssumption, TypeOK, NEW r \in Requests, request[r].policy \in Policies,
           NEW found \in ResultType
    PROVE  /\ Answered(r, found) \in RequestType
           /\ Answered(r, found).pc \in {"served", "next policy"}
           /\ Answered(r, found).answers =
                request[r].answers \cup
                  {[policy |-> request[r].policy, at |-> request[r].now, result |-> found]}
<1> DEFINE new == [policy |-> request[r].policy, at |-> request[r].now, result |-> found]
           known == request[r].answers \cup {new}
           sound == request[r].session
<1>1. request[r] \in RequestType
  BY DEF TypeOK
<1>2. /\ request[r].answers \in SUBSET AnswerType /\ request[r].now \in Times
      /\ sound \in Sessions
  BY <1>1, FieldsTyped
<1>3. new \in AnswerType
  BY <1>2 DEF AnswerType
<1>4. known \in SUBSET AnswerType
  BY <1>2, <1>3
<1>5. Answered(r, found) = Dealt(r, known, sound)
  BY DEF Answered
<1> HIDE DEF known, sound
<1>6. /\ Dealt(r, known, sound) \in RequestType
      /\ Dealt(r, known, sound).pc \in {"served", "next policy"}
      /\ Dealt(r, known, sound).answers = known
  BY <1>2, <1>4, DealtTyped
<1> QED
  BY <1>5, <1>6 DEF known

\* A computed result has its type.
LEMMA ResultTyped ==
    ASSUME ShapeAssumption, TypeOK, NEW r \in Requests
    PROVE  Result(r) \in ResultType
<1>1. \A q \in RequestType :
        LET score == HealthScore(q.conflicts, q.mapped, q.obligations, q.freshness, q.accepted)
        IN  [score |-> score, grade |-> Grade(score), counted |-> q.conflicts] \in ResultType
  <2> TAKE q \in RequestType
  <2>1. /\ q.conflicts \in SUBSET Conflicts /\ q.mapped \in Nat /\ q.obligations \in Nat
        /\ q.freshness \in Nat /\ q.accepted \in Nat
    BY FieldsTyped
  <2> DEFINE score == HealthScore(q.conflicts, q.mapped, q.obligations, q.freshness, q.accepted)
  <2>3. score \in 50..1000
    BY <2>1, HealthScoreTyped
  <2> HIDE DEF score
  <2>4. Grade(score) \in {"A", "B", "C", "D", "F"}
    BY <2>3, GradeTyped
  <2>5. [score |-> score, grade |-> Grade(score), counted |-> q.conflicts] \in ResultType
    BY <2>1, <2>3, <2>4 DEF ResultType
  <2> QED
    BY <2>5 DEF score
<1>2. request[r] \in RequestType
  BY DEF TypeOK
<1> QED
  BY <1>1, <1>2 DEF Result

\* Every step of a request keeps the types.
LEMMA RequestTyped ==
    ASSUME ShapeAssumption, NoneAssumption, TypeOK, NEW r \in Requests, Request(r)
    PROVE  TypeOK'
<1> DEFINE Entries == [Policies -> {None} \cup [result : ResultType, stamp : Times]]
<1>0. /\ request[r] \in RequestType /\ db \in RowsType /\ cache \in Entries /\ clock \in Times
      /\ request[r].pc \in HealthQueries \cup {"store"} => request[r].policy \in Policies
  BY DEF TypeOK, RowsType
<1>1. ASSUME NEW what \in Kinds, NEW p \in Policies \cup {None},
             NEW pc \in {"next policy", "read policies"}, Ask(r, what, p, pc)
      PROVE  TypeOK'
  <2> DEFINE new == Begun(pc, what, {p} \ {None})
  <2>1. {p} \ {None} \in SUBSET Policies
    OBVIOUS
  <2>2. pc \in Stages /\ pc \notin HealthQueries \cup {"store"}
    BY DEF Stages, SummaryQueries, HealthQueries
  <2>3. new \in RequestType /\ new.pc = pc
    BY <2>1, <2>2, BegunTyped
  <2>4. request' = [request EXCEPT ![r] = new] /\ UNCHANGED <<db, trail, review, clock, cache, storedAt>>
    BY <1>1 DEF Ask
  <2> HIDE DEF new
  <2> QED
    BY <1>0, <2>2, <2>3, <2>4, StepTyped
<1>2. CASE ReadPolicies(r)
  <2> DEFINE live == db.policies \ db.deleted
             stage == IF live = {} THEN "served" ELSE "read company conflicts"
             new == [request[r] EXCEPT !.todo = live, !.pc = stage]
  <2>1. live \in SUBSET Policies /\ stage \in {"served", "read company conflicts"}
    BY <1>0 DEF RowsType
  <2>2. stage \in Stages /\ stage \notin HealthQueries \cup {"store"}
    BY <2>1 DEF Stages, SummaryQueries, HealthQueries
  <2>3. request' = [request EXCEPT ![r] = new] /\ UNCHANGED <<db, trail, review, clock, cache, storedAt>>
    BY <1>2 DEF ReadPolicies, Step
  <2> HIDE DEF live, stage
  <2>4. new \in RequestType /\ new.pc = stage
    BY <1>0, <2>1, <2>2 DEF RequestType
  <2> HIDE DEF new
  <2> QED
    BY <1>0, <2>2, <2>3, <2>4, StepTyped
<1>3. CASE ReadCompanyConflicts(r)
  <2> DEFINE C == {c \in db.conflicts : Target[c] \in request[r].todo}
             A == {c \in db.conflicts : Target[c] \in request[r].todo /\ db.status[c] # "Resolved"}
             new == [request[r] EXCEPT !.conflicts = C, !.active = A, !.pc = "read recommendations"]
  <2>1. C \in SUBSET Conflicts /\ A \in SUBSET Conflicts
    BY <1>0 DEF RowsType
  <2>2. "read recommendations" \in Stages /\ "read recommendations" \notin HealthQueries \cup {"store"}
    BY DEF Stages, SummaryQueries, HealthQueries
  <2>3. request' = [request EXCEPT ![r] = new] /\ UNCHANGED <<db, trail, review, clock, cache, storedAt>>
    BY <1>3 DEF ReadCompanyConflicts, Step
  <2> HIDE DEF C, A
  <2>4. new \in RequestType /\ new.pc = "read recommendations"
    BY <1>0, <2>1, <2>2 DEF RequestType
  <2> HIDE DEF new
  <2> QED
    BY <1>0, <2>2, <2>3, <2>4, StepTyped
<1>4. CASE ReadRecommendations(r)
  <2> DEFINE known == request[r].conflicts \cap db.recommendations
             In(decision) == Cardinality({c \in known : db.decision[c] = decision})
             percent == ComplianceScore(request[r].active, In("Pending"), In("Rejected"))
             new == [request[r] EXCEPT !.compliance = percent, !.conflicts = {}, !.active = {},
                                       !.pc = "next policy"]
  <2>1. known \in SUBSET Conflicts
    BY <1>0 DEF RowsType
  <2>2. In("Pending") \in Nat /\ In("Rejected") \in Nat
    BY <2>1, CountTyped DEF ShapeAssumption
  <2>3. request[r].active \in SUBSET Conflicts
    BY <1>0, FieldsTyped
  <2>4. percent \in Compliances
    <3> HIDE DEF In
    <3>1. ComplianceScore(request[r].active, In("Pending"), In("Rejected")) \in 350..1000
      BY <2>2, <2>3, ComplianceScoreTyped
    <3> QED
      BY <3>1 DEF Compliances
  <2>5. "next policy" \in Stages /\ "next policy" \notin HealthQueries \cup {"store"}
    BY DEF Stages, HealthQueries
  <2>6. request' = [request EXCEPT ![r] = new] /\ UNCHANGED <<db, trail, review, clock, cache, storedAt>>
    BY <1>4 DEF ReadRecommendations, Step
  <2> HIDE DEF percent
  <2>7. new \in RequestType /\ new.pc = "next policy"
    BY <1>0, <2>4, <2>5 DEF RequestType
  <2> HIDE DEF new
  <2> QED
    BY <1>0, <2>5, <2>6, <2>7, StepTyped
<1>5. ASSUME NEW p \in Policies, TakeTime(r, p)
      PROVE  TypeOK'
  <2> DEFINE new == [request[r] EXCEPT !.policy = p, !.now = clock, !.pc = "look up"]
  <2>1. "look up" \in Stages
    BY DEF Stages, HealthQueries
  <2>2. request' = [request EXCEPT ![r] = new] /\ UNCHANGED <<db, trail, review, clock, cache, storedAt>>
    BY <1>5 DEF TakeTime, Step
  <2>3. new \in RequestType /\ new.policy = p
    BY <1>0, <2>1 DEF RequestType
  <2> HIDE DEF new
  <2> QED
    BY <1>0, <2>2, <2>3, StepTyped
<1>6. ASSUME request[r].pc \in HealthQueries \cup {"store"}, NEW found \in ResultType
      PROVE  /\ Answered(r, found) \in RequestType
             /\ Answered(r, found).pc \notin HealthQueries \cup {"store"}
  <2>1. request[r].policy \in Policies
    BY <1>0, <1>6
  <2>2. /\ Answered(r, found) \in RequestType
        /\ Answered(r, found).pc \in {"served", "next policy"}
    BY <2>1, AnsweredTyped
  <2> QED
    BY <2>2 DEF HealthQueries
<1>7. CASE ServeCached(r)
  <2> DEFINE found == cache[request[r].policy].result
             new == Answered(r, found)
  <2>1. request[r].pc \in HealthQueries
    BY <1>7 DEF ServeCached, HealthQueries
  <2>2. found \in ResultType
    BY <1>0, <1>7, <2>1 DEF ServeCached, Hit
  <2>3. new \in RequestType /\ new.pc \notin HealthQueries \cup {"store"}
    BY <1>6, <2>1, <2>2
  <2>4. request' = [request EXCEPT ![r] = new] /\ UNCHANGED <<db, trail, review, clock, cache, storedAt>>
    BY <1>7 DEF ServeCached, Step
  <2> HIDE DEF new
  <2> QED
    BY <1>0, <2>3, <2>4, StepTyped
<1>8. CASE FindPolicy(r)
  <2>1. request[r].pc \in HealthQueries
    BY <1>8 DEF FindPolicy, HealthQueries
  <2>2. NotFound \in ResultType
    BY DEF NotFound, ResultType
  <2>3. /\ Answered(r, NotFound) \in RequestType
        /\ Answered(r, NotFound).pc \notin HealthQueries \cup {"store"}
    BY <1>6, <2>1, <2>2
  <2> DEFINE on == [request[r] EXCEPT !.pc = "read conflicts"]
             new == IF request[r].policy \in db.policies THEN on ELSE Answered(r, NotFound)
  <2>4. "read conflicts" \in Stages
    BY DEF Stages, HealthQueries
  <2>5. on \in RequestType /\ on.policy = request[r].policy
    BY <1>0, <2>4 DEF RequestType
  <2>6. request' = [request EXCEPT ![r] = new] /\ UNCHANGED <<db, trail, review, clock, cache, storedAt>>
    BY <1>8 DEF FindPolicy, Step
  <2>7. request[r].policy \in Policies
    BY <1>0, <2>1
  <2> HIDE DEF on
  <2>8. new \in RequestType /\ (new.pc \in HealthQueries \cup {"store"} => new.policy \in Policies)
    BY <2>3, <2>5, <2>7
  <2> HIDE DEF new
  <2> QED
    BY <1>0, <2>6, <2>8, StepTyped
<1>9. CASE ReadConflicts(r)
  <2> DEFINE C == {c \in db.conflicts : request[r].policy \in {Source[c], Target[c]}}
             new == [request[r] EXCEPT !.conflicts = C, !.pc = "read obligations"]
  <2>1. C \in SUBSET Conflicts
    BY <1>0 DEF RowsType
  <2>2. "read obligations" \in Stages /\ request[r].policy \in Policies
    BY <1>0, <1>9 DEF ReadConflicts, Step, Stages, HealthQueries
  <2>3. request' = [request EXCEPT ![r] = new] /\ UNCHANGED <<db, trail, review, clock, cache, storedAt>>
    BY <1>9 DEF ReadConflicts, Step
  <2> HIDE DEF C
  <2>4. new \in RequestType /\ new.policy = request[r].policy
    BY <1>0, <2>1, <2>2 DEF RequestType
  <2> HIDE DEF new
  <2> QED
    BY <1>0, <2>2, <2>3, <2>4, StepTyped
<1>10. CASE ReadObligations(r)
  <2> DEFINE found == {o \in db.obligations : PolicyOf[o] = request[r].policy}
             count == Cardinality(found)
             stage == IF found = {} THEN "read versions" ELSE "read mappings"
             new == [request[r] EXCEPT !.left = found, !.obligations = count, !.pc = stage]
  <2>1. found \in SUBSET Obligations
    BY <1>0 DEF RowsType
  <2>2. count \in Nat
    BY <2>1, CountTyped DEF ShapeAssumption
  <2>3. stage \in Stages /\ request[r].policy \in Policies
    BY <1>0, <1>10 DEF ReadObligations, Step, Stages, HealthQueries
  <2>4. request' = [request EXCEPT ![r] = new] /\ UNCHANGED <<db, trail, review, clock, cache, storedAt>>
    BY <1>10 DEF ReadObligations, Step
  <2> HIDE DEF count, stage, found
  <2>5. new \in RequestType /\ new.policy = request[r].policy
    BY <1>0, <2>1, <2>2, <2>3 DEF RequestType
  <2> HIDE DEF new
  <2> QED
    BY <1>0, <2>3, <2>4, <2>5, StepTyped
<1>11. ASSUME NEW o \in Obligations, ReadMapping(r, o)
       PROVE  TypeOK'
  <2> DEFINE rest == request[r].left \ {o}
             count == IF o \in db.mapped THEN request[r].mapped + 1 ELSE request[r].mapped
             stage == IF rest = {} THEN "read versions" ELSE request[r].pc
             new == [request[r] EXCEPT !.left = rest, !.mapped = count, !.pc = stage]
  <2>1. /\ request[r].left \in SUBSET (Conflicts \cup Obligations)
        /\ request[r].mapped \in Nat
    BY <1>0, FieldsTyped
  <2>2. rest \in SUBSET (Conflicts \cup Obligations) /\ count \in Nat
    BY <2>1
  <2>3. stage \in Stages /\ request[r].policy \in Policies
    BY <1>0, <1>11 DEF ReadMapping, Step, Stages, HealthQueries
  <2>4. request' = [request EXCEPT ![r] = new] /\ UNCHANGED <<db, trail, review, clock, cache, storedAt>>
    BY <1>11 DEF ReadMapping, Step
  <2> HIDE DEF rest, count, stage
  <2>5. new \in RequestType /\ new.policy = request[r].policy
    BY <1>0, <2>2, <2>3 DEF RequestType
  <2> HIDE DEF new
  <2> QED
    BY <1>0, <2>3, <2>4, <2>5, StepTyped
<1>12. CASE ReadVersions(r)
  <2> DEFINE versions == VersionsOf(request[r].policy)
             stage == IF request[r].conflicts = {} THEN "store" ELSE "read accepted"
  <2>1. stage \in Stages /\ request[r].policy \in Policies
    BY <1>0, <1>12 DEF ReadVersions, Stages, HealthQueries
  <2>2. versions \in Nat
    BY <2>1 DEF VersionsOf, ShapeAssumption
  <2>3. PICK stale \in 0..versions :
          Step(r, "read versions",
               [request[r] EXCEPT !.freshness = Freshness(versions, stale),
                                  !.left = request[r].conflicts, !.pc = stage])
    BY <1>12 DEF ReadVersions
  <2> HIDE DEF versions, stage
  <2> DEFINE fresh == Freshness(versions, stale)
             new == [request[r] EXCEPT !.freshness = fresh, !.left = request[r].conflicts, !.pc = stage]
  <2>4. fresh \in Nat
    BY <2>2, FreshnessTyped
  <2>5. request' = [request EXCEPT ![r] = new] /\ UNCHANGED <<db, trail, review, clock, cache, storedAt>>
    BY <1>12, <2>3 DEF ReadVersions, Step
  <2> HIDE DEF fresh
  <2>6. new \in RequestType /\ new.policy = request[r].policy
    BY <1>0, <2>1, <2>4 DEF RequestType
  <2> HIDE DEF new
  <2> QED
    BY <1>0, <2>1, <2>5, <2>6, StepTyped
<1>13. ASSUME NEW c \in Conflicts, ReadAccepted(r, c)
       PROVE  TypeOK'
  <2> DEFINE rest == request[r].left \ {c}
             count == IF c \in db.recommendations /\ db.decision[c] = "Accepted"
                      THEN request[r].accepted + 1 ELSE request[r].accepted
             stage == IF rest = {} THEN "store" ELSE request[r].pc
             new == [request[r] EXCEPT !.left = rest, !.accepted = count, !.pc = stage]
  <2>1. /\ request[r].left \in SUBSET (Conflicts \cup Obligations)
        /\ request[r].accepted \in Nat
    BY <1>0, FieldsTyped
  <2>2. rest \in SUBSET (Conflicts \cup Obligations) /\ count \in Nat
    BY <2>1
  <2>3. stage \in Stages /\ request[r].policy \in Policies
    BY <1>0, <1>13 DEF ReadAccepted, Step, Stages, HealthQueries
  <2>4. request' = [request EXCEPT ![r] = new] /\ UNCHANGED <<db, trail, review, clock, cache, storedAt>>
    BY <1>13 DEF ReadAccepted, Step
  <2> HIDE DEF rest, count, stage
  <2>5. new \in RequestType /\ new.policy = request[r].policy
    BY <1>0, <2>2, <2>3 DEF RequestType
  <2> HIDE DEF new
  <2> QED
    BY <1>0, <2>3, <2>4, <2>5, StepTyped
<1>14. CASE StoreScore(r)
  <2> DEFINE new == Answered(r, Result(r))
             entry == [result |-> Result(r), stamp |-> request[r].now]
  <2>1. request[r].pc = "store"
    BY <1>14 DEF StoreScore, StoreAt, Step
  <2>2. Result(r) \in ResultType /\ request[r].now \in Times
    BY <1>0, ResultTyped, FieldsTyped
  <2>3. new \in RequestType /\ new.pc \notin HealthQueries \cup {"store"}
    BY <1>6, <2>1, <2>2
  <2>4. /\ request' = [request EXCEPT ![r] = new]
        /\ UNCHANGED <<db, trail, review, clock, storedAt>>
        /\ cache' = [cache EXCEPT ![request[r].policy] = entry]
    BY <1>14 DEF StoreScore, StoreAt, Step
  <2>5. cache' \in Entries
    BY <1>0, <2>2, <2>4
  <2> HIDE DEF new
  <2> QED
    BY <2>3, <2>4, <2>5, StepTyped
<1>15. CASE FailQuery(r)
  <2> DEFINE lost == Dealt(r, request[r].answers, "failed")
             over == Begun("served", "health", {})
             new == IF request[r].kind = "summary" /\ request[r].pc \in HealthQueries
                    THEN lost ELSE over
  <2>1. request[r].answers \in SUBSET AnswerType
    BY <1>0, FieldsTyped
  <2>2. lost \in RequestType /\ lost.pc \in {"served", "next policy"}
    BY <2>1, DealtTyped DEF Sessions
  <2>3. over \in RequestType /\ over.pc = "served"
    BY BegunTyped DEF Stages, Kinds
  <2>4. request' = [request EXCEPT ![r] = new] /\ UNCHANGED <<db, trail, review, clock, cache, storedAt>>
    BY <1>15 DEF FailQuery, Step
  <2> HIDE DEF lost, over
  <2>5. new \in RequestType /\ new.pc \notin HealthQueries \cup {"store"}
    BY <2>2, <2>3 DEF HealthQueries
  <2> HIDE DEF new
  <2> QED
    BY <1>0, <2>4, <2>5, StepTyped
<1> QED
  BY <1>1, <1>2, <1>3, <1>4, <1>5, <1>7, <1>8, <1>9, <1>10, <1>11, <1>12, <1>13, <1>14, <1>15
  DEF Request, AskHealth, AskSummary, Kinds

\* The types hold in every state, for every number of policies, conflicts,
\* reviews and requests (the types of the tables and of the cached entries).
THEOREM TypesHold ==
    ASSUME ShapeAssumption, NoneAssumption
    PROVE  Spec => []TypeOK
<1>1. Init => TypeOK
  BY InitTyped
<1>2. ASSUME TypeOK, [Next]_vars
      PROVE  TypeOK'
  <2>1. CASE Tick
    BY <1>2, <2>1 DEF TypeOK, Tick, Times, ShapeAssumption
  <2>2. CASE Row
    BY <1>2, <2>2, RowTyped
  <2>3. ASSUME NEW v \in Reviews, Review(v)
        PROVE  TypeOK'
    BY <1>2, <2>3, ReviewTyped
  <2>4. ASSUME NEW r \in Requests, Request(r)
        PROVE  TypeOK'
    BY <1>2, <2>4, RequestTyped
  <2>5. CASE UNCHANGED vars
    BY <1>2, <2>5 DEF TypeOK, vars, Changes
  <2> QED
    BY <1>2, <2>1, <2>2, <2>3, <2>4, <2>5 DEF Next
<1> QED
  BY <1>1, <1>2, PTL DEF Spec

-----------------------------------------------------------------------------
(* The audit trail.  TrailTellsDecision is inductive: only the commit of a
   review touches the trail or a decision.  It appends a row that changes
   something exactly when it writes the decision. *)

\* Requests only read.
LEMMA RequestLeavesRows ==
    ASSUME NEW r \in Requests, Request(r)
    PROVE  UNCHANGED <<db, trail, review, clock, storedAt>>
BY DEF Request, AskHealth, AskSummary, Ask, ReadPolicies, ReadCompanyConflicts,
       ReadRecommendations, TakeTime, ServeCached, FindPolicy, ReadConflicts, ReadObligations,
       ReadMapping, ReadVersions, ReadAccepted, StoreScore, StoreAt, FailQuery, Step

\* What leaves the trail and the decisions alone leaves it true.
LEMMA TrailKept ==
    ASSUME TrailTellsDecision, trail' = trail, db'.decision = db.decision
    PROVE  TrailTellsDecision'
BY DEF TrailTellsDecision, Changes

\* The commit of a review keeps it.
LEMMA CommitKeepsTrail ==
    ASSUME TypeOK, TrailTellsDecision, NEW v \in Reviews, CommitReview(v)
    PROVE  TrailTellsDecision'
<1> DEFINE w == review[v]
           c == w.recommendation
           row == [recommendation |-> c, from |-> w.read, to |-> w.choice,
                   by |-> IF w.named THEN v ELSE None]
           n == Len(trail)
<1>1. /\ db \in RowsType /\ trail \in Seq(TrailRow) /\ w.pc = "read"
      /\ c \in db.recommendations
  BY DEF CommitReview, Commit, TypeOK, RowsType, TrailRow
<1>2. trail' = Append(trail, row)
  BY DEF CommitReview, Commit
<1>3. /\ n \in Nat /\ DOMAIN trail = 1..n
      /\ DOMAIN trail' = 1..(n + 1)
      /\ \A i \in 1..n : trail'[i] = trail[i]
      /\ trail'[n + 1] = row
  BY <1>1, <1>2
<1>4. c \in Conflicts
  BY <1>1 DEF RowsType
<1>5. /\ row.recommendation = c /\ row.from = w.read /\ row.to = w.choice
  OBVIOUS
<1>6. /\ \A d \in Conflicts : d # c => db'.decision[d] = db.decision[d]
      /\ w.choice = w.read => db'.decision[c] = db.decision[c]
      /\ w.choice # w.read => db'.decision[c] = w.choice
  BY <1>1, <1>4 DEF CommitReview, Commit, RowsType
<1> HIDE DEF row, n
<1>7. ASSUME NEW d \in Conflicts, d # c \/ w.choice = w.read
      PROVE  Changes(d)' = Changes(d)
  <2>1. trail'[n + 1].recommendation # d \/ trail'[n + 1].from = trail'[n + 1].to
    BY <1>3, <1>5, <1>7
  <2> QED
    BY <1>3, <2>1 DEF Changes
<1>8. ASSUME NEW d \in Conflicts
      PROVE  \/ Changes(d)' = {} /\ db'.decision[d] = "Pending"
             \/ \E i \in Changes(d)' : /\ \A j \in Changes(d)' : j <= i
                                       /\ db'.decision[d] = trail'[i].to
  <2>1. CASE d # c \/ w.choice = w.read
    <3>1. Changes(d)' = Changes(d) /\ db'.decision[d] = db.decision[d]
      BY <1>6, <1>7, <2>1
    <3>2. \A i \in Changes(d) : trail'[i] = trail[i]
      BY <1>3 DEF Changes
    <3> QED
      BY <3>1, <3>2 DEF TrailTellsDecision
  <2>2. CASE d = c /\ w.choice # w.read
    <3>1. n + 1 \in Changes(d)'
      BY <1>3, <1>5, <2>2 DEF Changes
    <3>2. \A j \in Changes(d)' : j <= n + 1
      BY <1>3 DEF Changes
    <3>3. db'.decision[d] = trail'[n + 1].to
      BY <1>3, <1>5, <1>6, <2>2
    <3> QED
      BY <3>1, <3>2, <3>3
  <2> QED
    BY <2>1, <2>2
<1> QED
  BY <1>8 DEF TrailTellsDecision

\* The audit trail tells every stored decision, however many reviews overlap
\* (update_recommendation_status and its audit row are one transaction).
THEOREM AuditTrailIsComplete ==
    ASSUME ShapeAssumption, NoneAssumption
    PROVE  Spec => []TrailTellsDecision
<1>1. Init => TrailTellsDecision
  BY DEF Init, TrailTellsDecision, Changes
<1>2. ASSUME TypeOK, TrailTellsDecision, [Next]_vars
      PROVE  TrailTellsDecision'
  <2>1. CASE Tick
    BY <1>2, <2>1, TrailKept DEF Tick
  <2>2. CASE Row
    <3>1. trail' = trail
      BY <2>2 DEF Row, StorePolicy, DeletePolicy, StoreObligation, Remap, StoreConflicts,
                  UpdateConflictStatus, Rows
    <3>2. db'.decision = db.decision
      BY <1>2, <2>2 DEF Row, StorePolicy, DeletePolicy, StoreObligation, Remap, StoreConflicts,
                        UpdateConflictStatus, Rows, TypeOK
    <3> QED
      BY <1>2, <3>1, <3>2, TrailKept
  <2>3. ASSUME NEW v \in Reviews, Review(v)
        PROVE  TrailTellsDecision'
    <3>1. CASE CommitReview(v)
      BY <1>2, <3>1, CommitKeepsTrail
    <3>2. CASE ~CommitReview(v)
      <4>1. trail' = trail /\ db' = db
        BY <2>3, <3>2 DEF Review, ReadRecommendation, AbandonReview
      <4> QED
        BY <1>2, <4>1, TrailKept
    <3> QED
      BY <3>1, <3>2
  <2>4. ASSUME NEW r \in Requests, Request(r)
        PROVE  TrailTellsDecision'
    <3>1. trail' = trail /\ db' = db
      BY <2>4, RequestLeavesRows
    <3> QED
      BY <1>2, <3>1, TrailKept
  <2>5. CASE UNCHANGED vars
    BY <1>2, <2>5, TrailKept DEF vars
  <2> QED
    BY <1>2, <2>1, <2>2, <2>3, <2>4, <2>5 DEF Next
<1> QED
  BY <1>1, <1>2, TypesHold, PTL DEF Spec

-----------------------------------------------------------------------------
(* The cache.  Whatever a score is computed from was read after the time the
   computation took at its start, so it counts every conflict committed before
   that time; the entry keeps that time, and an entry that is served is less
   than TTL old. *)

\* A set that counts all conflicts of p committed before a time.
Covers(p, time, counted) ==
    \A c \in db.conflicts : p \in {Source[c], Target[c]} /\ storedAt[c] < time => c \in counted

\* What ServedScoreIsRecent says of one answer.
Recent(a) ==
    /\ a.at <= clock
    /\ \A c \in db.conflicts :
        a.policy \in {Source[c], Target[c]} /\ storedAt[c] + TTL <= a.at => c \in a.result.counted

Computing == {"read obligations", "read mappings", "read versions", "read accepted", "store"}

RequestInv(r) ==
    /\ request[r].pc \in HealthQueries \cup {"store"} => request[r].now <= clock
    /\ request[r].pc \in Computing =>
         Covers(request[r].policy, request[r].now, request[r].conflicts)
    /\ \A a \in request[r].answers : Recent(a)

EntryInv(p) ==
    cache[p] # None =>
        cache[p].stamp <= clock /\ Covers(p, cache[p].stamp, cache[p].result.counted)

RecentInv ==
    /\ \A c \in db.conflicts : {Source[c], Target[c]} \subseteq db.policies /\ storedAt[c] <= clock
    /\ \A p \in Policies : EntryInv(p)
    /\ \A r \in Requests : RequestInv(r)

\* The types the argument needs.
LEMMA TimesTyped ==
    ASSUME ShapeAssumption, TypeOK
    PROVE  /\ clock \in Nat /\ TTL \in Nat \ {0}
           /\ db.conflicts \in SUBSET Conflicts
           /\ \A c \in Conflicts : storedAt[c] \in Nat
           /\ \A p \in Policies : cache[p] # None => cache[p].stamp \in Nat
           /\ \A r \in Requests : request[r].now \in Nat
           /\ \A r \in Requests : \A a \in request[r].answers : a.at \in Nat
<1>1. \A t \in Times : t \in Nat
  BY DEF Times, ShapeAssumption
<1>2. \A r \in Requests : request[r].now \in Times /\ request[r].answers \in SUBSET AnswerType
  <2> TAKE r \in Requests
  <2>1. request[r] \in RequestType
    BY DEF TypeOK
  <2> QED
    BY <2>1, FieldsTyped
<1>3. \A r \in Requests : \A a \in request[r].answers : a.at \in Times
  BY <1>2 DEF AnswerType
<1>4. /\ clock \in Times /\ db.conflicts \in SUBSET Conflicts
      /\ storedAt \in [Conflicts -> Times]
      /\ cache \in [Policies -> {None} \cup [result : ResultType, stamp : Times]]
  BY DEF TypeOK
<1>5. \A p \in Policies : cache[p] # None => cache[p].stamp \in Nat
  BY <1>1, <1>4
<1> QED
  BY <1>1, <1>2, <1>3, <1>4, <1>5 DEF ShapeAssumption

\* A step that only adds rows and lets time pass: a conflict is new at the
\* present time, which no request and no entry is ahead of.
LEMMA RowsKeepRecent ==
    ASSUME ShapeAssumption, TypeOK, RecentInv,
           db.policies \subseteq db'.policies, clock' \in Nat, clock <= clock',
           \A c \in db'.conflicts :
              \/ c \in db.conflicts /\ storedAt'[c] = storedAt[c]
              \/ /\ storedAt'[c] = clock
                 /\ {Source[c], Target[c]} \subseteq db.policies,
           UNCHANGED <<request, cache>>
    PROVE  RecentInv'
<1>0. /\ clock \in Nat /\ TTL \in Nat \ {0}
      /\ \A c \in db.conflicts : storedAt[c] \in Nat
      /\ \A p \in Policies : cache[p] # None => cache[p].stamp \in Nat
      /\ \A r \in Requests : request[r].now \in Nat
      /\ \A r \in Requests : \A a \in request[r].answers : a.at \in Nat
  BY TimesTyped
<1>1. ASSUME NEW p, NEW time \in Nat, NEW counted, time <= clock, Covers(p, time, counted)
      PROVE  Covers(p, time, counted)'
  BY <1>0, <1>1 DEF Covers
<1>2. \A p \in Policies : EntryInv(p)'
  <2> SUFFICES ASSUME NEW p \in Policies, cache'[p] # None
               PROVE  /\ cache'[p].stamp <= clock'
                      /\ Covers(p, cache[p].stamp, cache[p].result.counted)'
    BY DEF EntryInv
  <2>1. cache'[p] = cache[p] /\ cache[p] # None
    OBVIOUS
  <2>2. /\ cache[p].stamp \in Nat /\ cache[p].stamp <= clock
        /\ Covers(p, cache[p].stamp, cache[p].result.counted)
    BY <1>0, <2>1 DEF RecentInv, EntryInv
  <2>3. Covers(p, cache[p].stamp, cache[p].result.counted)'
    BY <1>1, <2>1, <2>2 DEF Covers
  <2> QED
    BY <1>0, <2>1, <2>2, <2>3
<1>3. ASSUME NEW r \in Requests
      PROVE  RequestInv(r)'
  <2>1. request' = request /\ RequestInv(r)
    BY <1>3 DEF RecentInv
  <2>2. request[r].pc \in HealthQueries \cup {"store"} => request[r].now <= clock'
    BY <1>0, <2>1 DEF RequestInv
  <2>3. request[r].pc \in Computing =>
          Covers(request[r].policy, request[r].now, request[r].conflicts)'
    <3>1. request[r].pc \in Computing => request[r].now <= clock
      BY <2>1 DEF RequestInv, Computing, HealthQueries
    <3> QED
      BY <1>0, <2>1, <3>1 DEF RequestInv, Covers
  <2>4. ASSUME NEW a \in request[r].answers
        PROVE  Recent(a)'
    <3>1. Recent(a) /\ a.at \in Nat
      BY <1>0, <2>1, <2>4 DEF RequestInv
    <3> QED
      BY <1>0, <3>1 DEF Recent
  <2> QED
    BY <2>1, <2>2, <2>3, <2>4 DEF RequestInv
<1>4. \A c \in db'.conflicts : {Source[c], Target[c]} \subseteq db'.policies /\ storedAt'[c] <= clock'
  BY <1>0 DEF RecentInv
<1> QED
  BY <1>2, <1>3, <1>4 DEF RecentInv

\* A step of a request keeps it when the new answers are recent and the
\* conflicts in hand cover the time it began.
LEMMA StepKeepsRecent ==
    ASSUME RecentInv, TypeOK, NEW r \in Requests, NEW new,
           new.pc \in HealthQueries \cup {"store"} => new.now <= clock,
           new.pc \in Computing => Covers(new.policy, new.now, new.conflicts),
           \A a \in new.answers : Recent(a),
           request' = [request EXCEPT ![r] = new],
           UNCHANGED <<db, clock, storedAt>>,
           \A p \in Policies : EntryInv(p)'
    PROVE  RecentInv'
<1>1. request \in [Requests -> RequestType]
  BY DEF TypeOK
<1>2. request'[r] = new /\ \A s \in Requests \ {r} : request'[s] = request[s]
  BY <1>1
<1>3. ASSUME NEW s \in Requests
      PROVE  RequestInv(s)'
  <2>1. CASE s = r
    BY <1>2, <2>1 DEF RequestInv, Covers, Recent
  <2>2. CASE s # r
    <3>1. request'[s] = request[s] /\ RequestInv(s)
      BY <1>2, <2>2 DEF RecentInv
    <3> QED
      BY <3>1 DEF RequestInv, Covers, Recent
  <2> QED
    BY <2>1, <2>2
<1> QED
  BY <1>3 DEF RecentInv

\* An answer with what covers a time less than TTL before it was asked for,
\* or that time itself, is recent.
LEMMA CoveringIsRecent ==
    ASSUME ShapeAssumption, TypeOK, NEW a, NEW time \in Nat, a.at \in Nat, a.at <= clock,
           a.at - time < TTL, Covers(a.policy, time, a.result.counted)
    PROVE  Recent(a)
<1>1. TTL \in Nat \ {0} /\ \A c \in db.conflicts : storedAt[c] \in Nat
  BY TimesTyped
<1>2. \A c \in db.conflicts : storedAt[c] + TTL <= a.at => storedAt[c] < time
  BY <1>1
<1> QED
  BY <1>2 DEF Recent, Covers

\* Every step of a request keeps it.
LEMMA RequestKeepsRecent ==
    ASSUME ShapeAssumption, NoneAssumption, TypeOK, RecentInv, NEW r \in Requests, Request(r)
    PROVE  RecentInv'
<1>1. /\ UNCHANGED <<db, trail, review, clock, storedAt>>
      /\ RequestInv(r)
      /\ \A a \in request[r].answers : Recent(a)
      /\ request[r] \in RequestType
      /\ request[r].pc \in HealthQueries \cup {"store"} => request[r].policy \in Policies
  BY RequestLeavesRows DEF RecentInv, RequestInv, TypeOK
<1>2. /\ clock \in Nat /\ TTL \in Nat \ {0} /\ request[r].now \in Nat
      /\ db.conflicts \in SUBSET Conflicts
  BY TimesTyped
<1>3. cache' = cache => \A p \in Policies : EntryInv(p)'
  BY <1>1 DEF RecentInv, EntryInv, Covers
\* A step outside a computation.
<1>4. ASSUME NEW new, new.pc \notin HealthQueries \cup {"store"}, \A a \in new.answers : Recent(a),
             request' = [request EXCEPT ![r] = new], \A p \in Policies : EntryInv(p)'
      PROVE  RecentInv'
  <2>1. new.pc \notin Computing
    BY <1>4 DEF Computing, HealthQueries
  <2> QED
    BY <1>1, <1>4, <2>1, StepKeepsRecent
\* A step within one, that keeps the conflicts read and the time taken.
<1>5. ASSUME NEW new, request[r].pc \in Computing, new.answers = request[r].answers,
             new.policy = request[r].policy, new.now = request[r].now,
             new.conflicts = request[r].conflicts,
             request' = [request EXCEPT ![r] = new], cache' = cache
      PROVE  RecentInv'
  <2>1. /\ request[r].now <= clock
        /\ Covers(request[r].policy, request[r].now, request[r].conflicts)
    BY <1>1, <1>5 DEF RequestInv, Computing, HealthQueries
  <2> QED
    BY <1>1, <1>3, <1>5, <2>1, StepKeepsRecent
\* The answers of a policy dealt with.
<1>6. ASSUME NEW found \in ResultType, request[r].pc \in HealthQueries \cup {"store"},
             request' = [request EXCEPT ![r] = Answered(r, found)],
             NEW time \in Nat, request[r].now - time < TTL,
             Covers(request[r].policy, time, found.counted), \A p \in Policies : EntryInv(p)'
      PROVE  RecentInv'
  <2> DEFINE a == [policy |-> request[r].policy, at |-> request[r].now, result |-> found]
             new == Answered(r, found)
  <2>1. request[r].policy \in Policies /\ request[r].now <= clock
    BY <1>1, <1>6 DEF RequestInv
  <2>2. /\ a.at \in Nat /\ a.at <= clock /\ a.at - time < TTL
        /\ Covers(a.policy, time, a.result.counted)
    BY <1>2, <1>6, <2>1
  <2>3. Recent(a)
    BY <1>6, <2>2, CoveringIsRecent
  <2>4. new.pc \in {"served", "next policy"} /\ new.answers = request[r].answers \cup {a}
    BY <1>6, <2>1, AnsweredTyped
  <2>5. new.pc \notin HealthQueries \cup {"store"}
    BY <2>4 DEF HealthQueries
  <2> HIDE DEF a, new
  <2>6. \A b \in new.answers : Recent(b)
    BY <1>1, <2>3, <2>4
  <2> QED
    BY <1>4, <1>6, <2>5, <2>6 DEF new
<1>7. ASSUME NEW what \in Kinds, NEW p \in Policies \cup {None},
             NEW pc \in {"next policy", "read policies"}, Ask(r, what, p, pc)
      PROVE  RecentInv'
  <2> DEFINE new == Begun(pc, what, {p} \ {None})
  <2>1. {p} \ {None} \in SUBSET Policies /\ pc \in Stages
    BY DEF Stages, SummaryQueries
  <2>2. new.pc = pc /\ new.answers = {}
    BY <2>1, BegunTyped
  <2>3. new.pc \notin HealthQueries \cup {"store"}
    BY <2>2 DEF HealthQueries
  <2>4. request' = [request EXCEPT ![r] = new] /\ cache' = cache
    BY <1>7 DEF Ask
  <2> HIDE DEF new
  <2> QED
    BY <1>3, <1>4, <2>2, <2>3, <2>4
<1>8. CASE ReadPolicies(r)
  <2> DEFINE live == db.policies \ db.deleted
             stage == IF live = {} THEN "served" ELSE "read company conflicts"
             new == [request[r] EXCEPT !.todo = live, !.pc = stage]
  <2>1. request' = [request EXCEPT ![r] = new] /\ cache' = cache
    BY <1>8 DEF ReadPolicies, Step
  <2>2. stage \notin HealthQueries \cup {"store"}
    BY DEF HealthQueries
  <2> HIDE DEF live, stage
  <2>3. new.pc = stage /\ new.answers = request[r].answers
    BY <1>1 DEF RequestType
  <2> HIDE DEF new
  <2> QED
    BY <1>1, <1>3, <1>4, <2>1, <2>2, <2>3
<1>9. CASE ReadCompanyConflicts(r)
  <2> DEFINE C == {c \in db.conflicts : Target[c] \in request[r].todo}
             A == {c \in db.conflicts : Target[c] \in request[r].todo /\ db.status[c] # "Resolved"}
             new == [request[r] EXCEPT !.conflicts = C, !.active = A, !.pc = "read recommendations"]
  <2>1. request' = [request EXCEPT ![r] = new] /\ cache' = cache
    BY <1>9 DEF ReadCompanyConflicts, Step
  <2>2. "read recommendations" \notin HealthQueries \cup {"store"}
    BY DEF HealthQueries
  <2> HIDE DEF C, A
  <2>3. new.pc = "read recommendations" /\ new.answers = request[r].answers
    BY <1>1 DEF RequestType
  <2> HIDE DEF new
  <2> QED
    BY <1>1, <1>3, <1>4, <2>1, <2>2, <2>3
<1>10. CASE ReadRecommendations(r)
  <2> DEFINE known == request[r].conflicts \cap db.recommendations
             In(decision) == Cardinality({c \in known : db.decision[c] = decision})
             percent == ComplianceScore(request[r].active, In("Pending"), In("Rejected"))
             new == [request[r] EXCEPT !.compliance = percent, !.conflicts = {}, !.active = {},
                                       !.pc = "next policy"]
  <2>1. request' = [request EXCEPT ![r] = new] /\ cache' = cache
    BY <1>10 DEF ReadRecommendations, Step
  <2>2. "next policy" \notin HealthQueries \cup {"store"}
    BY DEF HealthQueries
  <2> HIDE DEF percent
  <2>3. new.pc = "next policy" /\ new.answers = request[r].answers
    BY <1>1 DEF RequestType
  <2> HIDE DEF new
  <2> QED
    BY <1>1, <1>3, <1>4, <2>1, <2>2, <2>3
<1>11. ASSUME NEW p \in Policies, TakeTime(r, p)
       PROVE  RecentInv'
  <2> DEFINE new == [request[r] EXCEPT !.policy = p, !.now = clock, !.pc = "look up"]
  <2>1. request' = [request EXCEPT ![r] = new] /\ cache' = cache
    BY <1>11 DEF TakeTime, Step
  <2>2. new.pc = "look up" /\ new.now = clock /\ new.answers = request[r].answers
    BY <1>1 DEF RequestType
  <2> HIDE DEF new
  <2>3. new.now <= clock
    <3>1. clock <= clock
      BY <1>2
    <3> QED
      BY <2>2, <3>1
  <2>4. new.pc \notin Computing
    BY <2>2 DEF Computing
  <2> QED
    BY <1>1, <1>3, <2>1, <2>2, <2>3, <2>4, StepKeepsRecent
<1>12. CASE ServeCached(r)
  <2> DEFINE entry == cache[request[r].policy]
  <2>1. request[r].pc \in HealthQueries /\ entry # None /\ request[r].now - entry.stamp < TTL
    BY <1>12 DEF ServeCached, Hit, HealthQueries
  <2>2. request[r].policy \in Policies
    BY <1>1, <2>1
  <2>3. /\ entry.result \in ResultType /\ entry.stamp \in Nat
        /\ Covers(request[r].policy, entry.stamp, entry.result.counted)
    <3>1. cache \in [Policies -> {None} \cup [result : ResultType, stamp : Times]]
      BY DEF TypeOK
    <3>2. entry \in [result : ResultType, stamp : Times]
      BY <2>1, <2>2, <3>1
    <3> QED
      BY <2>1, <2>2, <3>2, TimesTyped DEF RecentInv, EntryInv
  <2>4. request' = [request EXCEPT ![r] = Answered(r, entry.result)] /\ cache' = cache
    BY <1>12 DEF ServeCached, Step
  <2> QED
    BY <1>3, <1>6, <2>1, <2>3, <2>4
<1>13. CASE FindPolicy(r)
  <2>1. request[r].pc \in HealthQueries
    BY <1>13 DEF FindPolicy, HealthQueries
  <2>2. cache' = cache
    BY <1>13 DEF FindPolicy
  <2>3. CASE request[r].policy \in db.policies
    <3> DEFINE new == [request[r] EXCEPT !.pc = "read conflicts"]
    <3>1. request' = [request EXCEPT ![r] = new]
      BY <1>13, <2>3 DEF FindPolicy, Step
    <3>2. new.pc = "read conflicts" /\ new.now = request[r].now /\ new.answers = request[r].answers
      BY <1>1 DEF RequestType
    <3> HIDE DEF new
    <3>3. new.now <= clock /\ new.pc \notin Computing
      BY <1>1, <2>1, <3>2 DEF Computing, RequestInv
    <3> QED
      BY <1>1, <1>3, <2>2, <3>1, <3>2, <3>3, StepKeepsRecent
  <2>4. CASE request[r].policy \notin db.policies
    <3>1. request' = [request EXCEPT ![r] = Answered(r, NotFound)]
      BY <1>13, <2>4 DEF FindPolicy, Step
    <3>2. NotFound \in ResultType
      BY DEF NotFound, ResultType
    <3>3. Covers(request[r].policy, request[r].now, NotFound.counted)
      BY <2>4 DEF RecentInv, Covers
    <3>4. request[r].now - request[r].now < TTL
      BY <1>2
    <3> QED
      BY <1>2, <1>3, <1>6, <2>1, <2>2, <3>1, <3>2, <3>3, <3>4
  <2> QED
    BY <2>3, <2>4
<1>14. CASE ReadConflicts(r)
  <2> DEFINE C == {c \in db.conflicts : request[r].policy \in {Source[c], Target[c]}}
             new == [request[r] EXCEPT !.conflicts = C, !.pc = "read obligations"]
  <2>1. request[r].pc \in HealthQueries
    BY <1>14 DEF ReadConflicts, Step, HealthQueries
  <2>2. request' = [request EXCEPT ![r] = new] /\ cache' = cache
    BY <1>14 DEF ReadConflicts, Step
  <2>3. Covers(request[r].policy, request[r].now, C)
    BY DEF Covers
  <2> HIDE DEF C
  <2>4. /\ new.now = request[r].now /\ new.policy = request[r].policy
        /\ new.conflicts = C /\ new.answers = request[r].answers
    BY <1>1 DEF RequestType
  <2> HIDE DEF new
  <2>5. new.now <= clock /\ Covers(new.policy, new.now, new.conflicts)
    BY <1>1, <2>1, <2>3, <2>4 DEF RequestInv
  <2> QED
    BY <1>1, <1>3, <2>2, <2>4, <2>5, StepKeepsRecent
<1>15. CASE ReadObligations(r)
  <2> DEFINE found == {o \in db.obligations : PolicyOf[o] = request[r].policy}
             count == Cardinality(found)
             stage == IF found = {} THEN "read versions" ELSE "read mappings"
             new == [request[r] EXCEPT !.left = found, !.obligations = count, !.pc = stage]
  <2>1. /\ request[r].pc \in Computing
        /\ request' = [request EXCEPT ![r] = new] /\ cache' = cache
    BY <1>15 DEF ReadObligations, Step, Computing
  <2> HIDE DEF count, stage, found
  <2>2. /\ new.answers = request[r].answers /\ new.policy = request[r].policy
        /\ new.now = request[r].now /\ new.conflicts = request[r].conflicts
    BY <1>1 DEF RequestType
  <2> HIDE DEF new
  <2> QED
    BY <1>5, <2>1, <2>2
<1>16. ASSUME NEW o \in Obligations, ReadMapping(r, o)
       PROVE  RecentInv'
  <2> DEFINE rest == request[r].left \ {o}
             count == IF o \in db.mapped THEN request[r].mapped + 1 ELSE request[r].mapped
             stage == IF rest = {} THEN "read versions" ELSE request[r].pc
             new == [request[r] EXCEPT !.left = rest, !.mapped = count, !.pc = stage]
  <2>1. /\ request[r].pc \in Computing
        /\ request' = [request EXCEPT ![r] = new] /\ cache' = cache
    BY <1>16 DEF ReadMapping, Step, Computing
  <2> HIDE DEF rest, count, stage
  <2>2. /\ new.answers = request[r].answers /\ new.policy = request[r].policy
        /\ new.now = request[r].now /\ new.conflicts = request[r].conflicts
    BY <1>1 DEF RequestType
  <2> HIDE DEF new
  <2> QED
    BY <1>5, <2>1, <2>2
<1>17. CASE ReadVersions(r)
  <2>1. PICK fresh, stage :
          Step(r, "read versions",
               [request[r] EXCEPT !.freshness = fresh, !.left = request[r].conflicts, !.pc = stage])
    BY <1>17 DEF ReadVersions
  <2> DEFINE new == [request[r] EXCEPT !.freshness = fresh, !.left = request[r].conflicts, !.pc = stage]
  <2>2. /\ request[r].pc \in Computing
        /\ request' = [request EXCEPT ![r] = new] /\ cache' = cache
    BY <1>17, <2>1 DEF ReadVersions, Step, Computing
  <2>3. /\ new.answers = request[r].answers /\ new.policy = request[r].policy
        /\ new.now = request[r].now /\ new.conflicts = request[r].conflicts
    BY <1>1 DEF RequestType
  <2> HIDE DEF new
  <2> QED
    BY <1>5, <2>2, <2>3
<1>18. ASSUME NEW c \in Conflicts, ReadAccepted(r, c)
       PROVE  RecentInv'
  <2> DEFINE rest == request[r].left \ {c}
             count == IF c \in db.recommendations /\ db.decision[c] = "Accepted"
                      THEN request[r].accepted + 1 ELSE request[r].accepted
             stage == IF rest = {} THEN "store" ELSE request[r].pc
             new == [request[r] EXCEPT !.left = rest, !.accepted = count, !.pc = stage]
  <2>1. /\ request[r].pc \in Computing
        /\ request' = [request EXCEPT ![r] = new] /\ cache' = cache
    BY <1>18 DEF ReadAccepted, Step, Computing
  <2> HIDE DEF rest, count, stage
  <2>2. /\ new.answers = request[r].answers /\ new.policy = request[r].policy
        /\ new.now = request[r].now /\ new.conflicts = request[r].conflicts
    BY <1>1 DEF RequestType
  <2> HIDE DEF new
  <2> QED
    BY <1>5, <2>1, <2>2
<1>19. CASE StoreScore(r)
  <2> DEFINE entry == [result |-> Result(r), stamp |-> request[r].now]
  <2>1. request[r].pc = "store"
    BY <1>19 DEF StoreScore, StoreAt, Step
  <2>2. Result(r) \in ResultType /\ Result(r).counted = request[r].conflicts
    BY ResultTyped DEF Result
  <2>3. /\ request' = [request EXCEPT ![r] = Answered(r, Result(r))]
        /\ cache' = [cache EXCEPT ![request[r].policy] = entry]
    BY <1>19 DEF StoreScore, StoreAt, Step
  <2>4. request[r].now <= clock /\ Covers(request[r].policy, request[r].now, Result(r).counted)
    BY <1>1, <2>1, <2>2 DEF RequestInv, Computing
  <2>5. ASSUME NEW p \in Policies
        PROVE  EntryInv(p)'
    <3>1. CASE p = request[r].policy
      <4>1. cache \in [Policies -> {None} \cup [result : ResultType, stamp : Times]]
        BY DEF TypeOK
      <4>2. cache'[p] = entry
        BY <2>3, <3>1, <4>1
      <4>3. entry.stamp = request[r].now /\ entry.result = Result(r)
        OBVIOUS
      <4> HIDE DEF entry
      <4> QED
        BY <1>1, <2>4, <3>1, <4>2, <4>3 DEF EntryInv, Covers
    <3>2. CASE p # request[r].policy
      <4>1. cache'[p] = cache[p] /\ EntryInv(p)
        BY <2>3, <3>2 DEF RecentInv, TypeOK
      <4> QED
        BY <1>1, <4>1 DEF EntryInv, Covers
    <3> QED
      BY <3>1, <3>2
  <2>6. request[r].now - request[r].now < TTL
    BY <1>2
  <2> QED
    BY <1>2, <1>6, <2>1, <2>2, <2>3, <2>4, <2>5, <2>6
<1>20. CASE FailQuery(r)
  <2> DEFINE lost == Dealt(r, request[r].answers, "failed")
             over == Begun("served", "health", {})
             new == IF request[r].kind = "summary" /\ request[r].pc \in HealthQueries
                    THEN lost ELSE over
  <2>1. request[r].answers \in SUBSET AnswerType
    BY <1>1, FieldsTyped
  <2>2. lost.answers = request[r].answers /\ lost.pc \in {"served", "next policy"}
    BY <2>1, DealtTyped DEF Sessions
  <2>3. over.answers = {} /\ over.pc = "served"
    BY BegunTyped DEF Stages, Kinds
  <2>4. request' = [request EXCEPT ![r] = new] /\ cache' = cache
    BY <1>20 DEF FailQuery, Step
  <2> HIDE DEF lost, over
  <2>5. /\ new.pc \notin HealthQueries \cup {"store"}
        /\ \A a \in new.answers : Recent(a)
    BY <1>1, <2>2, <2>3 DEF HealthQueries
  <2> HIDE DEF new
  <2> QED
    BY <1>3, <1>4, <2>4, <2>5
<1> QED
  BY <1>7, <1>8, <1>9, <1>10, <1>11, <1>12, <1>13, <1>14, <1>15, <1>16, <1>17, <1>18, <1>19, <1>20
  DEF Request, AskHealth, AskSummary, Kinds

\* No score is served that misses a conflict committed TTL or more before it
\* was asked for, whatever the threads, reviews, policies and the time to
\* live (calculate_health_score and its cache).
THEOREM ServedScoresAreRecent ==
    ASSUME ShapeAssumption, NoneAssumption
    PROVE  Spec => []ServedScoreIsRecent
<1>1. Init => RecentInv
  <2> SUFFICES ASSUME Init
               PROVE  RecentInv
    OBVIOUS
  <2>1. /\ db.conflicts = {} /\ \A p \in Policies : cache[p] = None
    BY DEF Init
  <2>2. ASSUME NEW r \in Requests
        PROVE  request[r].pc = "idle" /\ request[r].answers = {}
    <3>1. request[r] = Begun("idle", "health", {})
      BY DEF Init
    <3> QED
      BY <3>1 DEF Begun, Waiting
  <2> QED
    BY <2>1, <2>2 DEF RecentInv, EntryInv, RequestInv, Computing, HealthQueries
<1>2. ASSUME TypeOK, RecentInv, [Next]_vars
      PROVE  RecentInv'
  <2>1. CASE Tick
    <3>1. clock' = clock + 1 /\ clock \in Nat
      BY <2>1, <1>2, TimesTyped DEF Tick
    <3>2. UNCHANGED <<db, storedAt, request, cache>> /\ clock' \in Nat /\ clock <= clock'
      BY <2>1, <3>1 DEF Tick
    <3> QED
      BY <1>2, <3>2, RowsKeepRecent
  <2>2. CASE Row
    <3>1. UNCHANGED <<request, cache, clock>> /\ clock \in Nat
      BY <1>2, <2>2, TimesTyped
      DEF Row, StorePolicy, DeletePolicy, StoreObligation, Remap, StoreConflicts, UpdateConflictStatus, Rows
    <3>2. db \in RowsType
      BY <1>2 DEF TypeOK, RowsType
    <3>3. CASE \E C, R \in SUBSET Conflicts : StoreConflicts(C, R)
      <4>1. PICK C \in SUBSET Conflicts, R \in SUBSET Conflicts : StoreConflicts(C, R)
        BY <3>3
      <4>2. /\ db'.policies = db.policies /\ db'.conflicts = db.conflicts \cup C
            /\ C \cap db.conflicts = {} /\ \A c \in C : {Source[c], Target[c]} \subseteq db.policies
            /\ storedAt' = [c \in Conflicts |-> IF c \in C THEN clock ELSE storedAt[c]]
        BY <3>2, <4>1 DEF StoreConflicts, Rows, RowsType
      <4>3. db.conflicts \subseteq Conflicts
        BY <3>2 DEF RowsType
      <4>4. clock <= clock'
        BY <3>1
      <4>5. \A c \in db'.conflicts :
              \/ c \in db.conflicts /\ storedAt'[c] = storedAt[c]
              \/ /\ storedAt'[c] = clock
                 /\ {Source[c], Target[c]} \subseteq db.policies
        BY <4>2, <4>3
      <4> QED
        BY <1>2, <3>1, <4>2, <4>4, <4>5, RowsKeepRecent
    <3>4. CASE ~ \E C, R \in SUBSET Conflicts : StoreConflicts(C, R)
      <4> DEFINE grown == /\ db.policies \subseteq db'.policies /\ db'.conflicts = db.conflicts
                          /\ storedAt' = storedAt
      <4>1. grown
        <5>1. ASSUME NEW p \in Policies, StorePolicy(p) \/ DeletePolicy(p)
              PROVE  grown
          BY <3>2, <5>1 DEF StorePolicy, DeletePolicy, Rows, RowsType
        <5>2. ASSUME NEW o \in Obligations, NEW real \in BOOLEAN, StoreObligation(o, real)
              PROVE  grown
          BY <3>2, <5>2 DEF StoreObligation, Rows, RowsType
        <5>3. ASSUME NEW o \in Obligations, NEW real \in BOOLEAN, Remap(o, real)
              PROVE  grown
          BY <3>2, <5>3 DEF Remap, Rows, RowsType
        <5>4. ASSUME NEW c \in Conflicts, NEW status \in ConflictStatuses, UpdateConflictStatus(c, status)
              PROVE  grown
          BY <3>2, <5>4 DEF UpdateConflictStatus, Rows, RowsType
        <5> QED
          BY <2>2, <3>4, <5>1, <5>2, <5>3, <5>4 DEF Row
      <4>2. clock <= clock'
        BY <3>1
      <4> QED
        BY <1>2, <3>1, <4>1, <4>2, RowsKeepRecent
    <3> QED
      BY <3>3, <3>4
  <2>3. ASSUME NEW v \in Reviews, Review(v)
        PROVE  RecentInv'
    <3>1. UNCHANGED <<request, cache, clock, storedAt>> /\ clock \in Nat
      BY <1>2, <2>3, TimesTyped DEF Review, ReadRecommendation, CommitReview, Commit, AbandonReview
    <3>2. db'.policies = db.policies /\ db'.conflicts = db.conflicts
      BY <1>2, <2>3 DEF Review, ReadRecommendation, CommitReview, Commit, AbandonReview, TypeOK
    <3>3. clock <= clock'
      BY <3>1
    <3> QED
      BY <1>2, <3>1, <3>2, <3>3, RowsKeepRecent
  <2>4. ASSUME NEW r \in Requests, Request(r)
        PROVE  RecentInv'
    BY <1>2, <2>4, RequestKeepsRecent
  <2>5. CASE UNCHANGED vars
    <3>1. UNCHANGED <<db, storedAt, request, cache, clock>> /\ clock \in Nat
      BY <1>2, <2>5, TimesTyped DEF vars
    <3>2. clock <= clock'
      BY <3>1
    <3> QED
      BY <1>2, <3>1, <3>2, RowsKeepRecent
  <2> QED
    BY <1>2, <2>1, <2>2, <2>3, <2>4, <2>5 DEF Next
<1>3. RecentInv => ServedScoreIsRecent
  BY DEF RecentInv, RequestInv, Recent, ServedScoreIsRecent
<1> QED
  BY <1>1, <1>2, <1>3, TypesHold, PTL DEF Spec

-----------------------------------------------------------------------------
(* The scores move with what they are computed from. *)

\* The quotient is the greatest multiplier that does not exceed.
LEMMA DivGreatest ==
    ASSUME NEW x \in Int, NEW y \in Nat \ {0}, NEW q \in Int
    PROVE  /\ y * (x \div y) <= x
           /\ q * y <= x => q <= x \div y
<1>1. /\ x \div y \in Int /\ x % y \in Int
      /\ x = y * (x \div y) + (x % y)
      /\ 0 <= x % y /\ x % y < y
  OBVIOUS
<1> DEFINE d == x \div y
           m == x % y
<1> HIDE DEF d, m
<1>2. d \in Int /\ m \in Int /\ x = y * d + m /\ 0 <= m /\ m < y
  BY <1>1 DEF d, m
<1>3. y * d <= x
  <2>1. y * d \in Int
    BY <1>2
  <2> QED
    BY <1>2, <2>1
<1>4. ASSUME q * y <= x, q > d
      PROVE  FALSE
  <2>1. q - d - 1 \in Nat
    BY <1>2, <1>4
  <2>2. PICK k \in Nat : q = d + 1 + k
    BY <1>2, <2>1
  <2>3. q * y = y * d + y + k * y
    BY <1>2, <2>2
  <2>4. k * y \in Nat /\ y * d \in Int
    BY <1>2, <2>2
  <2> QED
    BY <1>2, <1>4, <2>3, <2>4
<1> QED
  BY <1>2, <1>3, <1>4 DEF d

\* Dividing by the same number keeps the order.
LEMMA DivMonotone ==
    ASSUME NEW x \in Int, NEW z \in Int, x <= z, NEW y \in Nat \ {0}
    PROVE  x \div y <= z \div y
<1>1. y * (x \div y) <= x /\ x \div y \in Int
  BY DivGreatest, DivTyped
<1> DEFINE q == x \div y
<1> HIDE DEF q
<1>2. q \in Int /\ y * q \in Int /\ y * q <= x /\ q * y = y * q
  BY <1>1 DEF q
<1>3. q * y <= z
  BY <1>2
<1>4. q <= z \div y
  BY <1>2, <1>3, DivGreatest
<1> QED
  BY <1>4 DEF q

\* A damped amount grows with the amount: it is a share of a ceiling, the share
\* amount / (amount + damping).
LEMMA DampedMonotone ==
    ASSUME NEW ceiling \in Nat, NEW damping \in Nat \ {0}, NEW a \in Nat, NEW b \in Nat, a <= b
    PROVE  (ceiling * a) \div (a + damping) <= (ceiling * b) \div (b + damping)
<1>0. a + damping \in Nat \ {0} /\ b + damping \in Nat \ {0} /\ ceiling * a \in Int /\ ceiling * b \in Int
  OBVIOUS
<1> DEFINE q == (ceiling * a) \div (a + damping)
<1>1. q \in Int /\ (a + damping) * q <= ceiling * a
  BY <1>0, DivTyped, DivGreatest
<1> HIDE DEF q
<1>2. q <= ceiling
  <2>1. SUFFICES ASSUME q > ceiling PROVE FALSE
    BY <1>1
  <2>2. PICK k \in Nat : q = ceiling + 1 + k
    <3>1. q - ceiling - 1 \in Nat
      BY <1>1, <2>1
    <3> QED
      BY <1>1, <3>1
  <2>3. (a + damping) * q = ceiling * a + damping * ceiling + (a + damping) * (1 + k)
    BY <2>2
  <2>4. damping * ceiling \in Nat /\ (a + damping) * (1 + k) \in Nat \ {0} /\ ceiling * a \in Nat
    BY <2>2
  <2> QED
    BY <1>1, <2>3, <2>4
<1>3. PICK j \in Nat : b = a + j
  <2>1. b - a \in Nat
    OBVIOUS
  <2> QED
    BY <2>1
<1>4. PICK k \in Nat : ceiling = q + k
  <2>1. ceiling - q \in Nat
    BY <1>1, <1>2
  <2> QED
    BY <1>1, <2>1
<1>5. q * (b + damping) <= ceiling * b
  <2>1. q * (b + damping) = (a + damping) * q + q * j
    BY <1>1, <1>3
  <2>2. ceiling * b = ceiling * a + q * j + k * j
    BY <1>1, <1>3, <1>4
  <2>3. k * j \in Nat /\ q * j \in Int /\ ceiling * a \in Int /\ (a + damping) * q \in Int
    BY <1>1, <1>3, <1>4
  <2> QED
    BY <1>1, <2>1, <2>2, <2>3
<1>6. q <= (ceiling * b) \div (b + damping)
  BY <1>0, <1>1, <1>5, DivGreatest
<1> QED
  BY <1>6 DEF q

\* Clamping keeps the order.
LEMMA BetweenMonotone ==
    ASSUME NEW low \in Int, NEW high \in Int, low <= high, NEW x \in Int, NEW y \in Int, x <= y
    PROVE  Between(low, high, x) <= Between(low, high, y)
BY DEF Between

\* More rows of a finite table are not fewer.
LEMMA CountMonotone ==
    ASSUME NEW S, IsFiniteSet(S), NEW T \in SUBSET S, NEW U \in SUBSET T
    PROVE  Cardinality(U) <= Cardinality(T)
<1>1. IsFiniteSet(T)
  BY FS_Subset
<1> QED
  BY <1>1, FS_Subset

\* Nor are those of one severity.
LEMMA OfMonotone ==
    ASSUME ShapeAssumption, NEW C \in SUBSET Conflicts, NEW D \in SUBSET C, NEW severity
    PROVE  Of(severity, D) <= Of(severity, C)
<1>1. /\ {c \in C : Severity[c] = severity} \in SUBSET Conflicts
      /\ {c \in D : Severity[c] = severity} \in SUBSET {c \in C : Severity[c] = severity}
  OBVIOUS
<1> QED
  BY <1>1, CountMonotone DEF Of, ShapeAssumption

\* More conflicts never raise the conflict part of the score.
LEMMA ConflictScoreAntitone ==
    ASSUME ShapeAssumption, NEW C \in SUBSET Conflicts, NEW D \in SUBSET C
    PROVE  ConflictScore(C) <= ConflictScore(D)
<1> DEFINE Raw(S) == 15 * Of("critical", S) + 8 * Of("high", S) + 3 * Of("medium", S) + Of("low", S)
<1>0. D \in SUBSET Conflicts
  OBVIOUS
<1>1. Raw(C) \in Nat /\ Raw(D) \in Nat
  BY <1>0, OfTyped
<1>2. Raw(D) <= Raw(C)
  <2>1. \A severity : /\ Of(severity, D) <= Of(severity, C)
                      /\ Of(severity, C) \in Nat /\ Of(severity, D) \in Nat
    BY <1>0, OfMonotone, OfTyped
  <2> QED
    BY <2>1
<1>3. /\ ConflictScore(C) = 10000 - (7500 * Raw(C)) \div (Raw(C) + 50)
      /\ ConflictScore(D) = 10000 - (7500 * Raw(D)) \div (Raw(D) + 50)
  BY DEF ConflictScore
<1> HIDE DEF Raw
<1>4. (7500 * Raw(D)) \div (Raw(D) + 50) <= (7500 * Raw(C)) \div (Raw(C) + 50)
  BY <1>1, <1>2, DampedMonotone
<1>5. /\ (7500 * Raw(D)) \div (Raw(D) + 50) \in Int
      /\ (7500 * Raw(C)) \div (Raw(C) + 50) \in Int
  BY <1>1, DivTyped
<1> QED
  BY <1>3, <1>4, <1>5

\* More mapped obligations of the same ones never lower the mapping part.
LEMMA MappingScoreMonotone ==
    ASSUME NEW m \in Nat, NEW n \in Nat, m <= n, NEW total \in Nat
    PROVE  /\ MappingScore(m, total) \in Int /\ MappingScore(n, total) \in Int
           /\ MappingScore(m, total) <= MappingScore(n, total)
<1>1. 10000 * m \in Int /\ 10000 * n \in Int /\ 10000 * m <= 10000 * n
  OBVIOUS
<1>2. CASE total = 0
  BY <1>2 DEF MappingScore
<1>3. CASE total # 0
  BY <1>1, <1>3, DivMonotone, DivTyped DEF MappingScore
<1> QED
  BY <1>2, <1>3

\* The health score falls with the conflicts, and rises with the mapped
\* obligations and the accepted recommendations.
LEMMA HealthScoreMonotone ==
    ASSUME ShapeAssumption, NEW C \in SUBSET Conflicts, NEW D \in SUBSET C,
           NEW m \in Nat, NEW n \in Nat, m <= n, NEW total \in Nat, NEW freshness \in Nat,
           NEW a \in Nat, NEW b \in Nat, a <= b
    PROVE  HealthScore(C, m, total, freshness, a) <= HealthScore(D, n, total, freshness, b)
<1> DEFINE sum == 40 * ConflictScore(C) + 35 * MappingScore(m, total) + 25 * freshness
           more == 40 * ConflictScore(D) + 35 * MappingScore(n, total) + 25 * freshness
           bonus == Between(0, 1000, 250 * a)
           better == Between(0, 1000, 250 * b)
<1>1. sum \in Int /\ more \in Int /\ sum <= more
  <2>1. /\ ConflictScore(C) \in Int /\ ConflictScore(D) \in Int
        /\ ConflictScore(C) <= ConflictScore(D)
    BY ConflictScoreTyped, ConflictScoreAntitone
  <2>2. /\ MappingScore(m, total) \in Int /\ MappingScore(n, total) \in Int
        /\ MappingScore(m, total) <= MappingScore(n, total)
    BY MappingScoreMonotone
  <2> QED
    BY <2>1, <2>2
<1>2. bonus \in Int /\ better \in Int /\ bonus <= better
  BY DEF Between
<1>3. /\ HealthScore(C, m, total, freshness, a) = Between(50, 1000, (sum \div 100 + bonus + 5) \div 10)
      /\ HealthScore(D, n, total, freshness, b) = Between(50, 1000, (more \div 100 + better + 5) \div 10)
  BY DEF HealthScore
<1> HIDE DEF sum, more, bonus, better
<1>4. sum \div 100 \in Int /\ more \div 100 \in Int /\ sum \div 100 <= more \div 100
  BY <1>1, DivMonotone, DivTyped
<1> DEFINE x == (sum \div 100 + bonus + 5) \div 10
           y == (more \div 100 + better + 5) \div 10
<1>5. x \in Int /\ y \in Int /\ x <= y
  <2>1. /\ sum \div 100 + bonus + 5 \in Int /\ more \div 100 + better + 5 \in Int
        /\ sum \div 100 + bonus + 5 <= more \div 100 + better + 5
    BY <1>2, <1>4
  <2> QED
    BY <2>1, DivMonotone, DivTyped
<1>6. HealthScore(C, m, total, freshness, a) = Between(50, 1000, x)
  BY <1>3
<1>7. HealthScore(D, n, total, freshness, b) = Between(50, 1000, y)
  BY <1>3
<1> HIDE DEF x, y
<1> QED
  BY <1>5, <1>6, <1>7, BetweenMonotone

\* The compliance score falls with the open conflicts, and with the pending and
\* the rejected recommendations.
LEMMA ComplianceScoreAntitone ==
    ASSUME ShapeAssumption, NEW C \in SUBSET Conflicts, NEW D \in SUBSET C,
           NEW pending \in Nat, NEW waiting \in Nat, waiting <= pending,
           NEW rejected \in Nat, NEW refused \in Nat, refused <= rejected
    PROVE  ComplianceScore(C, pending, rejected) <= ComplianceScore(D, waiting, refused)
<1> DEFINE Raw(S) == 400 * Of("high", S) + 150 * Of("medium", S) + 50 * Of("low", S)
                       + 200 * Cardinality(S \cap Missing)
           Penalty(S) == (4000 * Raw(S)) \div (Raw(S) + 10000)
           more == Between(0, 1000, 10 * pending)
           fewer == Between(0, 1000, 10 * waiting)
           worse == Between(0, 500, 100 * rejected)
           better == Between(0, 500, 100 * refused)
<1>0. D \in SUBSET Conflicts
  OBVIOUS
<1>1. Raw(C) \in Nat /\ Raw(D) \in Nat /\ Raw(D) <= Raw(C)
  <2>1. \A severity : /\ Of(severity, D) <= Of(severity, C)
                      /\ Of(severity, C) \in Nat /\ Of(severity, D) \in Nat
    BY <1>0, OfMonotone, OfTyped
  <2>2. /\ Cardinality(D \cap Missing) <= Cardinality(C \cap Missing)
        /\ Cardinality(D \cap Missing) \in Nat /\ Cardinality(C \cap Missing) \in Nat
    <3>1. /\ D \cap Missing \in SUBSET (C \cap Missing) /\ C \cap Missing \in SUBSET Conflicts
          /\ D \cap Missing \in SUBSET Conflicts /\ IsFiniteSet(Conflicts)
      BY DEF ShapeAssumption
    <3> QED
      BY <3>1, CountMonotone, CountTyped
  <2> QED
    BY <2>1, <2>2
<1>2. /\ ComplianceScore(C, pending, rejected)
           = Between(350, 1000, (10000 - (Penalty(C) + more + worse) + 5) \div 10)
      /\ ComplianceScore(D, waiting, refused)
           = Between(350, 1000, (10000 - (Penalty(D) + fewer + better) + 5) \div 10)
  BY DEF ComplianceScore
<1> HIDE DEF Raw
<1>3. Penalty(C) \in Int /\ Penalty(D) \in Int /\ Penalty(D) <= Penalty(C)
  BY <1>1, DampedMonotone, DivTyped
<1>4. /\ more \in Int /\ fewer \in Int /\ fewer <= more
      /\ worse \in Int /\ better \in Int /\ better <= worse
  BY DEF Between
<1> HIDE DEF Penalty, more, fewer, worse, better
<1> DEFINE x == (10000 - (Penalty(C) + more + worse) + 5) \div 10
           y == (10000 - (Penalty(D) + fewer + better) + 5) \div 10
<1>5. x \in Int /\ y \in Int /\ x <= y
  <2>1. /\ 10000 - (Penalty(C) + more + worse) + 5 \in Int
        /\ 10000 - (Penalty(D) + fewer + better) + 5 \in Int
        /\ 10000 - (Penalty(C) + more + worse) + 5 <= 10000 - (Penalty(D) + fewer + better) + 5
    BY <1>3, <1>4
  <2> QED
    BY <2>1, DivMonotone, DivTyped
<1>6. ComplianceScore(C, pending, rejected) = Between(350, 1000, x)
  BY <1>2
<1>7. ComplianceScore(D, waiting, refused) = Between(350, 1000, y)
  BY <1>2
<1> HIDE DEF x, y
<1>8. \A u, v \in Int : u <= v => Between(350, 1000, u) <= Between(350, 1000, v)
  BY DEF Between
<1> QED
  BY <1>5, <1>6, <1>7, <1>8

-----------------------------------------------------------------------------
(* The rows behind the scores. *)

\* The rows e speak no better of any policy than the rows d do: the same
\* policies, obligations and versions, every open conflict and every pending or
\* rejected recommendation of d, no mapping and no acceptance that d has not.
NoBetter(d, e) ==
    /\ e.policies = d.policies /\ e.deleted = d.deleted /\ e.obligations = d.obligations
    /\ e.mapped \subseteq d.mapped /\ d.conflicts \subseteq e.conflicts
    /\ \A c \in d.conflicts : d.status[c] # "Resolved" => e.status[c] # "Resolved"
    /\ \A c \in d.conflicts \cap d.recommendations : \A decision \in {"Pending", "Rejected"} :
         d.decision[c] = decision => c \in e.recommendations /\ e.decision[c] = decision
    /\ \A c \in e.conflicts \cap e.recommendations :
         e.decision[c] = "Accepted" =>
            c \in d.conflicts \cap d.recommendations /\ d.decision[c] = "Accepted"

\* Rows that speak no better give no higher health.
LEMMA NoBetterHealth ==
    ASSUME ShapeAssumption, NEW d \in RowsType, NEW e \in RowsType, NoBetter(d, e),
           NEW p \in Policies, NEW stale \in 0..Revisions[p]
    PROVE  Health(p, e, stale) <= Health(p, d, stale)
<1> DEFINE C(x) == {c \in x.conflicts : p \in {Source[c], Target[c]}}
           O == {o \in d.obligations : PolicyOf[o] = p}
           versions == IF p \in d.deleted THEN 0 ELSE Revisions[p]
           A(x) == {c \in C(x) \cap x.recommendations : x.decision[c] = "Accepted"}
           fresh == Freshness(versions, stale)
<1>1. /\ d.conflicts \subseteq Conflicts /\ e.conflicts \subseteq Conflicts
      /\ d.obligations \subseteq Obligations /\ d.mapped \subseteq Obligations
      /\ e.mapped \subseteq d.mapped
      /\ e.obligations = d.obligations /\ e.deleted = d.deleted /\ d.conflicts \subseteq e.conflicts
      /\ \A c \in e.conflicts \cap e.recommendations :
           e.decision[c] = "Accepted" =>
             c \in d.conflicts \cap d.recommendations /\ d.decision[c] = "Accepted"
  BY DEF RowsType, NoBetter
<1>2. C(e) \in SUBSET Conflicts /\ C(d) \in SUBSET C(e) /\ C(d) \in SUBSET Conflicts
  BY <1>1
<1>3. A(d) \in SUBSET Conflicts /\ A(e) \in SUBSET A(d) /\ A(e) \in SUBSET Conflicts
  BY <1>1
<1>4. /\ O \cap d.mapped \in SUBSET Obligations /\ O \cap e.mapped \in SUBSET (O \cap d.mapped)
      /\ O \cap e.mapped \in SUBSET Obligations /\ O \in SUBSET Obligations
  BY <1>1
<1>5. /\ Cardinality(A(d)) \in Nat /\ Cardinality(A(e)) \in Nat
      /\ Cardinality(A(e)) <= Cardinality(A(d))
  BY <1>3, CountTyped, CountMonotone DEF ShapeAssumption
<1>6. /\ Cardinality(O \cap d.mapped) \in Nat /\ Cardinality(O \cap e.mapped) \in Nat
      /\ Cardinality(O) \in Nat /\ Cardinality(O \cap e.mapped) <= Cardinality(O \cap d.mapped)
  BY <1>4, CountTyped, CountMonotone DEF ShapeAssumption
<1>7. fresh \in Nat
  <2>1. Revisions[p] \in Nat /\ versions \in Nat /\ stale \in Nat
    BY DEF ShapeAssumption
  <2> QED
    BY <2>1, FreshnessTyped
<1>8. /\ Health(p, d, stale) = HealthScore(C(d), Cardinality(O \cap d.mapped), Cardinality(O), fresh,
                                           Cardinality(A(d)))
      /\ Health(p, e, stale) = HealthScore(C(e), Cardinality(O \cap e.mapped), Cardinality(O), fresh,
                                           Cardinality(A(e)))
  BY <1>1 DEF Health
<1> HIDE DEF C, O, A, fresh
<1> QED
  BY <1>2, <1>5, <1>6, <1>7, <1>8, HealthScoreMonotone

\* Nor a higher compliance.
LEMMA NoBetterCompliance ==
    ASSUME ShapeAssumption, NEW d \in RowsType, NEW e \in RowsType, NoBetter(d, e)
    PROVE  Compliance(e) <= Compliance(d)
<1> DEFINE C(x) == {c \in x.conflicts : Target[c] \in d.policies \ d.deleted}
           In(x, decision) == {c \in C(x) \cap x.recommendations : x.decision[c] = decision}
           Unresolved(x) == {c \in C(x) : x.status[c] # "Resolved"}
<1>1. /\ d.conflicts \subseteq Conflicts /\ e.conflicts \subseteq Conflicts
      /\ e.policies = d.policies /\ e.deleted = d.deleted /\ d.conflicts \subseteq e.conflicts
      /\ \A c \in d.conflicts : d.status[c] # "Resolved" => e.status[c] # "Resolved"
      /\ \A c \in d.conflicts \cap d.recommendations : \A decision \in {"Pending", "Rejected"} :
           d.decision[c] = decision => c \in e.recommendations /\ e.decision[c] = decision
  BY DEF RowsType, NoBetter
<1>2. Unresolved(e) \in SUBSET Conflicts /\ Unresolved(d) \in SUBSET Unresolved(e)
  BY <1>1
<1>3. ASSUME NEW decision \in {"Pending", "Rejected"}
      PROVE  /\ Cardinality(In(d, decision)) \in Nat /\ Cardinality(In(e, decision)) \in Nat
             /\ Cardinality(In(d, decision)) <= Cardinality(In(e, decision))
  <2>1. /\ In(d, decision) \in SUBSET Conflicts /\ In(e, decision) \in SUBSET Conflicts
        /\ In(d, decision) \in SUBSET In(e, decision)
    BY <1>1
  <2> QED
    BY <2>1, CountTyped, CountMonotone DEF ShapeAssumption
<1>4. /\ Compliance(d) = ComplianceScore(Unresolved(d), Cardinality(In(d, "Pending")),
                                         Cardinality(In(d, "Rejected")))
      /\ Compliance(e) = ComplianceScore(Unresolved(e), Cardinality(In(e, "Pending")),
                                         Cardinality(In(e, "Rejected")))
  BY <1>1 DEF Compliance
<1>5. /\ Cardinality(In(d, "Pending")) \in Nat /\ Cardinality(In(e, "Pending")) \in Nat
      /\ Cardinality(In(d, "Rejected")) \in Nat /\ Cardinality(In(e, "Rejected")) \in Nat
      /\ Cardinality(In(d, "Pending")) <= Cardinality(In(e, "Pending"))
      /\ Cardinality(In(d, "Rejected")) <= Cardinality(In(e, "Rejected"))
  BY <1>3
<1> HIDE DEF C, In, Unresolved
<1> QED
  BY <1>2, <1>4, <1>5, ComplianceScoreAntitone

\* A recommendation is of a stored conflict, only a recommendation has been
\* decided upon, and only a stored conflict has left the status "Open".
RowsInv ==
    /\ db.recommendations \subseteq db.conflicts
    /\ \A c \in Conflicts : db.decision[c] # "Pending" => c \in db.recommendations
    /\ \A c \in Conflicts : db.status[c] # "Open" => c \in db.conflicts

\* It is an invariant: every row of the analysis is new with both defaults, and
\* a review is of a recommendation it has read.
LEMMA RowsInvHolds ==
    ASSUME ShapeAssumption, NoneAssumption
    PROVE  Spec => []RowsInv
<1>1. Init => RowsInv
  BY DEF Init, RowsInv
<1>2. ASSUME TypeOK, RowsInv, [Next]_vars
      PROVE  RowsInv'
  <2>0. db \in RowsType
    BY <1>2 DEF TypeOK, RowsType
  <2>1. CASE Tick
    BY <1>2, <2>1 DEF RowsInv, Tick
  <2>2. CASE Row
    <3>1. ASSUME NEW p \in Policies, StorePolicy(p) \/ DeletePolicy(p)
          PROVE  RowsInv'
      BY <1>2, <2>0, <3>1 DEF StorePolicy, DeletePolicy, Rows, RowsInv, RowsType
    <3>2. ASSUME NEW o \in Obligations, NEW real \in BOOLEAN, StoreObligation(o, real) \/ Remap(o, real)
          PROVE  RowsInv'
      BY <1>2, <2>0, <3>2 DEF StoreObligation, Remap, Rows, RowsInv, RowsType
    <3>3. ASSUME NEW C \in SUBSET Conflicts, NEW R \in SUBSET Conflicts, StoreConflicts(C, R)
          PROVE  RowsInv'
      BY <1>2, <2>0, <3>3 DEF StoreConflicts, Rows, RowsInv, RowsType
    <3>4. ASSUME NEW c \in Conflicts, NEW status \in ConflictStatuses, UpdateConflictStatus(c, status)
          PROVE  RowsInv'
      BY <1>2, <2>0, <3>4 DEF UpdateConflictStatus, Rows, RowsInv, RowsType
    <3> QED
      BY <2>2, <3>1, <3>2, <3>3, <3>4 DEF Row
  <2>3. ASSUME NEW v \in Reviews, Review(v)
        PROVE  RowsInv'
    <3>1. CASE CommitReview(v)
      <4>1. review[v].recommendation \in db.recommendations
        BY <1>2, <3>1 DEF CommitReview, Commit, TypeOK
      <4>2. /\ db'.recommendations = db.recommendations /\ db'.conflicts = db.conflicts
            /\ db'.status = db.status
            /\ \A c \in Conflicts :
                 c # review[v].recommendation => db'.decision[c] = db.decision[c]
        BY <2>0, <3>1 DEF CommitReview, Commit, RowsType
      <4> QED
        BY <1>2, <4>1, <4>2 DEF RowsInv
    <3>2. CASE ~CommitReview(v)
      BY <1>2, <2>3, <3>2 DEF Review, ReadRecommendation, AbandonReview, RowsInv
    <3> QED
      BY <3>1, <3>2
  <2>4. ASSUME NEW r \in Requests, Request(r)
        PROVE  RowsInv'
    BY <1>2, <2>4, RequestLeavesRows DEF RowsInv
  <2>5. CASE UNCHANGED vars
    BY <1>2, <2>5 DEF RowsInv, vars
  <2> QED
    BY <1>2, <2>1, <2>2, <2>3, <2>4, <2>5 DEF Next
<1> QED
  BY <1>1, <1>2, TypesHold, PTL DEF Spec

\* A step that leaves rows which speak no better, and decides, resolves and
\* maps nothing, moves the scores the right way.
LEMMA WorseMoves ==
    ASSUME ShapeAssumption, db \in RowsType, db' \in RowsType, NoBetter(db, db'),
           db'.decision = db.decision, db'.status = db.status, db'.mapped = db.mapped
    PROVE  MovesTheRightWay
BY NoBetterHealth, NoBetterCompliance DEF MovesTheRightWay

\* So does one that stores no conflict and leaves rows which speak no worse.
LEMMA BetterMoves ==
    ASSUME ShapeAssumption, db \in RowsType, db' \in RowsType, NoBetter(db', db),
           db'.conflicts = db.conflicts
    PROVE  MovesTheRightWay
<1> SUFFICES ASSUME NEW p \in Policies, NEW stale \in 0..Revisions[p]
             PROVE  Health(p, db, stale) <= Health(p, db', stale) /\ Compliance(db) <= Compliance(db')
  BY DEF MovesTheRightWay
<1> QED
  BY NoBetterHealth, NoBetterCompliance

\* And one that stores, decides, resolves and maps nothing.
LEMMA OtherMoves ==
    ASSUME db'.conflicts = db.conflicts,
           \A c \in Conflicts : db'.decision[c] = "Accepted" => db.decision[c] = "Accepted",
           \A c \in Conflicts : db'.status[c] = "Resolved" => db.status[c] = "Resolved",
           db'.obligations # db.obligations \/ db'.mapped \subseteq db.mapped
    PROVE  MovesTheRightWay
BY DEF MovesTheRightWay

\* Every change of the rows moves the scores the right way.
LEMMA RowMoves ==
    ASSUME ShapeAssumption, TypeOK, RowsInv, Row
    PROVE  MovesTheRightWay
<1>0. db \in RowsType /\ db' \in RowsType
  BY RowTyped DEF TypeOK, RowsType
<1>1. ASSUME NEW p \in Policies, StorePolicy(p) \/ DeletePolicy(p)
      PROVE  MovesTheRightWay
  BY <1>0, <1>1, OtherMoves DEF StorePolicy, DeletePolicy, Rows, RowsType
<1>2. ASSUME NEW o \in Obligations, NEW real \in BOOLEAN, StoreObligation(o, real)
      PROVE  MovesTheRightWay
  BY <1>0, <1>2, OtherMoves DEF StoreObligation, Rows, RowsType
<1>3. ASSUME NEW o \in Obligations, NEW real \in BOOLEAN, Remap(o, real)
      PROVE  MovesTheRightWay
  <2>1. /\ db'.obligations = db.obligations /\ db'.conflicts = db.conflicts
        /\ db'.policies = db.policies /\ db'.deleted = db.deleted
        /\ db'.recommendations = db.recommendations
        /\ db'.status = db.status /\ db'.decision = db.decision
        /\ db'.mapped = IF real THEN db.mapped \cup {o} ELSE db.mapped \ {o}
    BY <1>0, <1>3 DEF Remap, Rows, RowsType
  <2>2. CASE real
    BY <1>0, <2>1, <2>2, BetterMoves DEF NoBetter
  <2>3. CASE ~real
    BY <2>1, <2>3, OtherMoves
  <2> QED
    BY <2>2, <2>3
<1>4. ASSUME NEW C \in SUBSET Conflicts, NEW R \in SUBSET Conflicts, StoreConflicts(C, R)
      PROVE  MovesTheRightWay
  <2>1. /\ db'.obligations = db.obligations /\ db'.conflicts = db.conflicts \cup C
        /\ db'.policies = db.policies /\ db'.deleted = db.deleted /\ db'.mapped = db.mapped
        /\ db'.recommendations = db.recommendations \cup R
        /\ db'.status = db.status /\ db'.decision = db.decision
        /\ C \cap db.conflicts = {} /\ R \subseteq C
    BY <1>0, <1>4 DEF StoreConflicts, Rows, RowsType
  <2>2. \A c \in C : c \notin db.recommendations /\ db.decision[c] = "Pending"
    BY <2>1 DEF RowsInv
  <2>3. NoBetter(db, db')
    BY <2>1, <2>2 DEF NoBetter, RowsInv
  <2> QED
    BY <1>0, <2>1, <2>3, WorseMoves
<1>5. ASSUME NEW c \in Conflicts, NEW status \in ConflictStatuses, UpdateConflictStatus(c, status)
      PROVE  MovesTheRightWay
  <2>1. /\ db'.obligations = db.obligations /\ db'.conflicts = db.conflicts
        /\ db'.policies = db.policies /\ db'.deleted = db.deleted /\ db'.mapped = db.mapped
        /\ db'.recommendations = db.recommendations /\ db'.decision = db.decision
        /\ db'.status = [db.status EXCEPT ![c] = status] /\ db.status \in [Conflicts -> ConflictStatuses]
        /\ db.conflicts \subseteq Conflicts
    BY <1>0, <1>5 DEF UpdateConflictStatus, Rows, RowsType
  <2>2. CASE status = "Resolved"
    <3>1. \A d \in db.conflicts : db'.status[d] # "Resolved" => db.status[d] # "Resolved"
      BY <2>1, <2>2
    <3>2. NoBetter(db', db)
      BY <2>1, <3>1 DEF NoBetter
    <3> QED
      BY <1>0, <2>1, <3>2, BetterMoves
  <2>3. CASE status # "Resolved"
    <3>1. \A d \in Conflicts : db'.status[d] = "Resolved" => db.status[d] = "Resolved"
      BY <2>1, <2>3
    <3> QED
      BY <2>1, <3>1, OtherMoves
  <2> QED
    BY <2>2, <2>3
<1> QED
  BY <1>1, <1>2, <1>3, <1>4, <1>5 DEF Row

\* So does the commit of a review.
LEMMA CommitMoves ==
    ASSUME ShapeAssumption, TypeOK, NEW v \in Reviews, CommitReview(v)
    PROVE  MovesTheRightWay
<1> DEFINE w == review[v]
           r == w.recommendation
           written == IF w.choice = w.read THEN db.decision[r] ELSE w.choice
<1>0. db \in RowsType /\ db' \in RowsType
  BY ReviewTyped DEF TypeOK, RowsType, Review
<1>1. r \in db.recommendations /\ r \in Conflicts
  BY DEF CommitReview, Commit, TypeOK
<1> HIDE DEF written
<1>2. /\ db'.obligations = db.obligations /\ db'.conflicts = db.conflicts
      /\ db'.policies = db.policies /\ db'.deleted = db.deleted /\ db'.mapped = db.mapped
      /\ db'.recommendations = db.recommendations /\ db'.status = db.status
      /\ db'.decision = [db.decision EXCEPT ![r] = written]
      /\ db.decision \in [Conflicts -> Statuses] /\ db.conflicts \subseteq Conflicts
  BY <1>0 DEF CommitReview, Commit, RowsType, written
<1>3. CASE written = "Accepted"
  <2>1. /\ \A c \in Conflicts : c # r => db'.decision[c] = db.decision[c]
        /\ db'.decision[r] = "Accepted"
    BY <1>1, <1>2, <1>3
  <2>2. NoBetter(db', db)
    BY <1>2, <2>1 DEF NoBetter
  <2> QED
    BY <1>0, <1>2, <2>2, BetterMoves
<1>4. CASE written # "Accepted"
  <2>1. \A c \in Conflicts : db'.decision[c] = "Accepted" => db.decision[c] = "Accepted"
    BY <1>2, <1>4
  <2> QED
    BY <1>2, <2>1, OtherMoves
<1> QED
  BY <1>3, <1>4

\* A new conflict never makes a policy look healthier or a company more
\* compliant, and acting on one, accepting its recommendation or mapping an
\* obligation never does the opposite, whatever the rows and however many of
\* each severity (the formulas of the two score engines).
THEOREM ScoresAreMonotone ==
    ASSUME ShapeAssumption, NoneAssumption
    PROVE  Spec => ScoresMoveTheRightWay
<1>1. ASSUME TypeOK, RowsInv, [Next]_vars
      PROVE  [MovesTheRightWay]_db
  <2>1. CASE Row
    BY <1>1, <2>1, RowMoves
  <2>2. ASSUME NEW v \in Reviews, Review(v)
        PROVE  [MovesTheRightWay]_db
    BY <1>1, <2>2, CommitMoves DEF Review, ReadRecommendation, AbandonReview
  <2>3. ASSUME NEW r \in Requests, Request(r)
        PROVE  db' = db
    BY <2>3, RequestLeavesRows
  <2> QED
    BY <1>1, <2>1, <2>2, <2>3 DEF Next, Tick, vars
<1> QED
  BY <1>1, TypesHold, RowsInvHolds, PTL DEF Spec, ScoresMoveTheRightWay
=============================================================================
