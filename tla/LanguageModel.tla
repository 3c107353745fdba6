---------------------------- MODULE LanguageModel ----------------------------
(***************************************************************************)
(* What the services that call the language model share: the circuit       *)
(* breaker of the process, which threads read and trip without a lock, and *)
(* the flag that ends the use of the embedding call.                       *)
(*                                                                         *)
(* A service is given a client when it is constructed, unless the breaker  *)
(* is tripped by then, and keeps it.  Each task of a service answers from  *)
(* the model or, without a client or when the call fails, locally.  What   *)
(* the model says is left out; which of the two answers is what is told    *)
(* apart.  Threads construct services and run tasks in any order; nothing  *)
(* in the program resets the breaker but a restart of the process.         *)
(***************************************************************************)
EXTENDS Integers, FiniteSets

CONSTANTS
    Threads,
    Services    \* those in use: some of the services below

\* How a task of each service treats the breaker: whether it looks at it
\* before the call, whether a refusal for quota trips it, and how often a
\* transient failure lets it call.
AskOnce == [checks |-> TRUE, trips |-> TRUE, attempts |-> 1]

ExtractObligation == AskOnce
MapObligation == AskOnce
GenerateExplanation == AskOnce
ClassifyRelationship == AskOnce
DetectTemporalConflict == AskOnce
DetectStrengthConflict == AskOnce
DetectStaleness == AskOnce
GenerateRecommendation == AskOnce
GenerateRedline == AskOnce

SegmentWithAI == [checks |-> FALSE, trips |-> FALSE, attempts |-> 2]

\* Mutant: embeddings respect the breaker.
GetEmbeddingChecking == [checks |-> TRUE, trips |-> FALSE, attempts |-> 1]

GetEmbedding == [checks |-> FALSE, trips |-> FALSE, attempts |-> 1]

Policy == [extract |-> ExtractObligation, map |-> MapObligation,
           explain |-> GenerateExplanation, classify |-> ClassifyRelationship,
           temporal |-> DetectTemporalConflict, strength |-> DetectStrengthConflict,
           staleness |-> DetectStaleness, recommend |-> GenerateRecommendation,
           redline |-> GenerateRedline, segment |-> SegmentWithAI, embed |-> GetEmbedding]

ASSUME ServicesAssumption == Services \subseteq DOMAIN Policy
ASSUME ThreadsAssumption == IsFiniteSet(Threads)

VARIABLES
    tripped,     \* _circuit_breaker_tripped
    apiFailed,   \* SemanticComparisonService._api_failed
    client,      \* the services a thread has constructed: with a client or without
    task,        \* what each thread is doing
    comparison,  \* the kinds of vectors of the comparison a thread is making
    refused      \* history: quota errors of the services that trip the breaker

lmVars == <<tripped, apiFailed, client, task, comparison, refused>>

Idle == [pc |-> "idle", service |-> "none", attempt |-> 0]
NoComparison == [open |-> FALSE, vectors |-> {}, after |-> FALSE]

LmInit ==
    /\ tripped = FALSE /\ apiFailed = FALSE
    /\ client = [t \in Threads |-> [s \in Services |-> "none"]]
    /\ task = [t \in Threads |-> Idle]
    /\ comparison = [t \in Threads |-> NoComparison]
    /\ refused = 0

\* create_gemini_client, in the constructor of a service.
Construct(t, s) ==
    /\ task[t] = Idle /\ ~comparison[t].open
    /\ client' = [client EXCEPT ![t][s] = IF tripped THEN "absent" ELSE "present"]
    /\ UNCHANGED <<tripped, apiFailed, task, comparison, refused>>

\* compare_versions embeds the obligations of both versions.
BeginComparison(t) ==
    /\ task[t] = Idle /\ ~comparison[t].open
    /\ "embed" \in Services /\ client[t]["embed"] # "none"
    /\ comparison' = [comparison EXCEPT ![t] = [open |-> TRUE, vectors |-> {},
                                                after |-> apiFailed]]
    /\ UNCHANGED <<tripped, apiFailed, client, task, refused>>

EndComparison(t) ==
    /\ task[t] = Idle /\ comparison[t].open
    /\ comparison' = [comparison EXCEPT ![t].open = FALSE]
    /\ UNCHANGED <<tripped, apiFailed, client, task, refused>>

\* A comparison only embeds.
MayStart(t, s) ==
    /\ task[t] = Idle /\ client[t][s] # "none"
    /\ comparison[t].open <=> s = "embed"

\* Mutant: the constructor's look at the breaker is thought to be enough.
AnswersLocallyByClient(t, s) ==
    \/ client[t][s] = "absent"
    \/ s = "embed" /\ apiFailed

AnswersLocally(t, s) ==
    \/ client[t][s] = "absent"
    \/ Policy[s].checks /\ tripped
    \/ s = "embed" /\ apiFailed

\* A vector of the kind, if the task was to embed.
WithVector(t, s, kind) ==
    IF s = "embed" THEN [comparison EXCEPT ![t].vectors = @ \cup {kind}] ELSE comparison

AnswerLocally(t, s) ==
    /\ MayStart(t, s) /\ AnswersLocally(t, s)
    /\ comparison' = WithVector(t, s, "local")
    /\ UNCHANGED <<tripped, apiFailed, client, task, refused>>

Call(t, s) ==
    /\ MayStart(t, s) /\ ~AnswersLocally(t, s)
    /\ task' = [task EXCEPT ![t] = [pc |-> "calling", service |-> s, attempt |-> 1]]
    /\ UNCHANGED <<tripped, apiFailed, client, comparison, refused>>

Reply(t) ==
    /\ task[t].pc = "calling"
    /\ task' = [task EXCEPT ![t] = Idle]
    /\ comparison' = WithVector(t, task[t].service, "model")
    /\ UNCHANGED <<tripped, apiFailed, client, refused>>

\* The call has failed: the local answer, and no further embedding calls.
FallBack(t) ==
    /\ task' = [task EXCEPT ![t] = Idle]
    /\ comparison' = WithVector(t, task[t].service, "local")
    /\ apiFailed' = (apiFailed \/ task[t].service = "embed")
    /\ UNCHANGED client

RefuseForQuota(t) ==
    /\ task[t].pc = "calling"
    /\ FallBack(t)
    /\ LET trips == Policy[task[t].service].trips
       IN  /\ tripped' = (tripped \/ trips)
           /\ refused' = IF trips THEN refused + 1 ELSE refused

\* A timeout, a lost connection or an overloaded server: after a pause the
\* call is made again, as often as the service allows.
FailTransiently(t) ==
    /\ task[t].pc = "calling"
    /\ \/ /\ task[t].attempt < Policy[task[t].service].attempts
          /\ task' = [task EXCEPT ![t].pc = "waiting"]
          /\ UNCHANGED <<apiFailed, client, comparison>>
       \/ /\ task[t].attempt >= Policy[task[t].service].attempts
          /\ FallBack(t)
    /\ UNCHANGED <<tripped, refused>>

CallAgain(t) ==
    /\ task[t].pc = "waiting"
    /\ task' = [task EXCEPT ![t].pc = "calling", ![t].attempt = @ + 1]
    /\ UNCHANGED <<tripped, apiFailed, client, comparison, refused>>

\* Any other error, an answer that does not parse among them.
FailOtherwise(t) ==
    /\ task[t].pc = "calling"
    /\ FallBack(t)
    /\ UNCHANGED <<tripped, refused>>

\* The process starts anew, with its flags.
Restart ==
    /\ tripped' = FALSE /\ apiFailed' = FALSE
    /\ client' = [t \in Threads |-> [s \in Services |-> "none"]]
    /\ task' = [t \in Threads |-> Idle]
    /\ comparison' = [t \in Threads |-> NoComparison]
    /\ refused' = 0

LmNext ==
    \/ \E t \in Threads, s \in Services : Construct(t, s) \/ AnswerLocally(t, s) \/ Call(t, s)
    \/ \E t \in Threads :
          \/ BeginComparison(t) \/ EndComparison(t)
          \/ Reply(t) \/ RefuseForQuota(t) \/ FailTransiently(t) \/ CallAgain(t)
          \/ FailOtherwise(t)
    \/ Restart

LmSpec == LmInit /\ [][LmNext]_lmVars

-----------------------------------------------------------------------------
\* Properties

\* Only embeddings are part of a comparison, and no task calls more often than
\* its service allows.
LmTypeOK ==
    /\ tripped \in BOOLEAN /\ apiFailed \in BOOLEAN
    /\ client \in [Threads -> [Services -> {"none", "absent", "present"}]]
    /\ comparison \in [Threads -> [open : BOOLEAN, vectors : SUBSET {"model", "local"},
                                   after : BOOLEAN]]
    /\ refused \in Nat
    /\ task \in [Threads -> {Idle} \cup
            [pc : {"calling", "waiting"}, service : Services, attempt : Nat]]
    /\ \A t \in Threads : task[t] # Idle =>
        /\ task[t].attempt \in 1 .. Policy[task[t].service].attempts
        /\ task[t].pc = "waiting" => task[t].attempt < Policy[task[t].service].attempts
        /\ comparison[t].open <=> task[t].service = "embed"

\* The breaker does its work although it is read and set without a lock: of
\* the services that trip it, each thread is refused at most once in the life
\* of the process, in the call it was making when another thread tripped it.
QuotaErrorsAreFew == refused <= Cardinality(Threads)

\* Vectors of two kinds are compared only where the embedding call first
\* failed during that very comparison: not in any that began later, and never
\* because the breaker was tripped in its course, as embeddings do not look at
\* it.
MixedOnlyByTheFirstFailure ==
    \A t \in Threads : Cardinality(comparison[t].vectors) > 1 =>
        apiFailed /\ ~comparison[t].after
=============================================================================
