--------------------------- MODULE KnowledgeGraph ---------------------------
(***************************************************************************)
(* The knowledge graph in Neo4j: GraphPopulationService.sync_policy, which *)
(* an upload's thread runs last, and the endpoints that answer from the    *)
(* graph when it has something to say and from the database otherwise.     *)
(*                                                                         *)
(* A synchronisation reads the rows of one policy with five queries, each  *)
(* seeing what is committed at that moment, then writes nodes and          *)
(* relations with statements that commit one by one.  Synchronisations     *)
(* overlap; any query or statement may fail, which ends the call and       *)
(* leaves what it has written.  Nothing is ever removed from the graph.    *)
(***************************************************************************)
EXTENDS FiniteSets

CONSTANTS
    Policies, Clauses, Obligations, Conflicts, Regulations,
    Syncs,          \* calls of sync_policy
    PolicyOf,       \* the policy of a clause
    ClauseOf,       \* the clause of an obligation
    Source, Target, \* the obligations of a conflict; a "missing" row has one
    Parties,        \* the source and the target policy of a conflict
    Relation,       \* relationship_type of a conflict
    None

ASSUME ShapeAssumption ==
    /\ PolicyOf \in [Clauses -> Policies]
    /\ ClauseOf \in [Obligations -> Clauses]
    /\ Source \in [Conflicts -> Obligations \cup {None}]
    /\ Target \in [Conflicts -> Obligations \cup {None}]
    /\ Parties \in [Conflicts -> SUBSET Policies]
    /\ \A c \in Conflicts : \A o \in {Source[c], Target[c]} \ {None} :
          PolicyOf[ClauseOf[o]] \in Parties[c]
    /\ Relation \in [Conflicts -> {"CONFLICT", "REDUNDANT", "COMPLEMENTARY", "UNRELATED"}]
ASSUME NoneAssumption ==
    None \notin Policies \cup Obligations \cup Conflicts \cup Regulations
ASSUME DisjointAssumption == Policies \cap Clauses = {}

VARIABLES
    rows,       \* the database
    graph,      \* the nodes and relations of the graph
    sync,       \* how far each synchronisation is, and what it has read
    changed,    \* history: synchronisations whose policy's rows changed since they began
    retracted   \* history: policies of which something shown before was withdrawn

vars == <<rows, graph, sync, changed, retracted>>

PolicyOfObligation(o) == PolicyOf[ClauseOf[o]]
Ends(c) == {Source[c], Target[c]} \ {None}
PoliciesOf(c) == {PolicyOfObligation(o) : o \in Ends(c)}

\* Soft deletion: a row stays, marked.
LiveClauses(p) == {c \in rows.clauses \ rows.deleted : PolicyOf[c] = p}
ObligationsIn(C) == {o \in rows.obligations : ClauseOf[o] \in C}
ConflictsOf(O) == {c \in rows.conflicts : Ends(c) \cap O # {}}

RelationTypes == {"CONFLICTS_WITH", "REDUNDANT_WITH", "COMPLEMENTS", "RELATED_TO"}

RelType(c) == [CONFLICT |-> "CONFLICTS_WITH", REDUNDANT |-> "REDUNDANT_WITH",
               COMPLEMENTARY |-> "COMPLEMENTS", UNRELATED |-> "RELATED_TO"][Relation[c]]

Idle == [pc |-> "idle", policy |-> None, clauses |-> {}, obligations |-> {}, mappings |-> {},
         conflicts |-> {}, recommendations |-> {}, unlinked |-> {}, current |-> None]

Init ==
    /\ rows = [policies |-> {}, clauses |-> {}, deleted |-> {}, obligations |-> {},
               mappings |-> {}, conflicts |-> {}, recommendations |-> {}]
    /\ graph = [policies |-> {}, clauses |-> {}, obligations |-> {}, regulations |-> {},
                findings |-> {}, recommendations |-> {},
                hasClause |-> {}, hasObligation |-> {}, mapsTo |-> {}, hasFinding |-> {},
                hasRecommendation |-> {}, related |-> {}]
    /\ sync = [s \in Syncs |-> Idle]
    /\ changed = {}
    /\ retracted = {}

-----------------------------------------------------------------------------
(* Who else writes the rows.  An upload stores a policy and its clauses; its
   thread stores obligations, each with at most one mapping, and later the
   conflicts with other policies, each with at most one recommendation.
   Afterwards clauses are segmented anew, obligations mapped anew, policies
   deleted. *)

RowsOf(P, newRows, withdrawn) ==
    /\ rows' = newRows
    /\ changed' = changed \cup {s \in Syncs : sync[s].policy \in P}
    /\ retracted' = IF withdrawn THEN retracted \cup P ELSE retracted
    /\ UNCHANGED <<graph, sync>>

StorePolicy(p, C) ==
    /\ p \notin rows.policies
    /\ C \subseteq {c \in Clauses : PolicyOf[c] = p}
    /\ RowsOf({p}, [rows EXCEPT !.policies = @ \cup {p}, !.clauses = @ \cup C], FALSE)

StoreObligation(o, M) ==
    /\ ClauseOf[o] \in rows.clauses /\ o \notin rows.obligations
    /\ RowsOf({PolicyOfObligation(o)},
              [rows EXCEPT !.obligations = @ \cup {o}, !.mappings = @ \cup ({o} \X M)], FALSE)

StoreConflict(c, R) ==
    /\ c \notin rows.conflicts
    /\ Ends(c) # {} /\ Ends(c) \subseteq rows.obligations
    /\ R \subseteq {c}
    /\ RowsOf(PoliciesOf(c),
              [rows EXCEPT !.conflicts = @ \cup {c}, !.recommendations = @ \cup R], FALSE)

Resegment(p, C) ==
    /\ p \in rows.policies \ rows.deleted
    /\ C \subseteq {c \in Clauses \ rows.clauses : PolicyOf[c] = p} /\ C # {}
    /\ RowsOf({p}, [rows EXCEPT !.clauses = @ \cup C, !.deleted = @ \cup LiveClauses(p)], TRUE)

Remap(o, r) ==
    /\ o \in rows.obligations
    /\ RowsOf({PolicyOfObligation(o)},
              [rows EXCEPT !.mappings = {m \in @ : m[1] # o} \cup {<<o, r>>}], TRUE)

DeletePolicy(p) ==
    /\ p \in rows.policies \ rows.deleted
    /\ RowsOf({p}, [rows EXCEPT !.deleted = @ \cup {p} \cup LiveClauses(p)], TRUE)

-----------------------------------------------------------------------------
(* sync_policy: the queries. *)

At(s, pc) == sync[s].pc = pc

\* A deleted policy is found too: the lookup is by primary key.
StartSync(s, p) ==
    /\ At(s, "idle") /\ p \in rows.policies
    /\ sync' = [sync EXCEPT ![s].pc = "read clauses", ![s].policy = p]
    /\ UNCHANGED <<rows, graph, changed, retracted>>

Read(s, pc, next, read) ==
    /\ At(s, pc)
    /\ sync' = [sync EXCEPT ![s] = [read EXCEPT !.pc = next]]
    /\ UNCHANGED <<rows, graph, changed, retracted>>

ReadClauses(s) ==
    LET found == LiveClauses(sync[s].policy) IN
    Read(s, "read clauses", IF found = {} THEN "nothing to do" ELSE "read obligations",
         [sync[s] EXCEPT !.clauses = found])

ReadObligations(s) ==
    Read(s, "read obligations", "read mappings",
         [sync[s] EXCEPT !.obligations = ObligationsIn(sync[s].clauses)])

ReadMappings(s) ==
    Read(s, "read mappings", "read conflicts",
         [sync[s] EXCEPT !.mappings = {m \in rows.mappings : m[1] \in sync[s].obligations}])

\* Faulty variant: only conflicts whose source is the policy's own.
ReadConflictsBySource(s) ==
    Read(s, "read conflicts", "read recommendations",
         [sync[s] EXCEPT !.conflicts = {c \in rows.conflicts : Source[c] \in sync[s].obligations}])

ReadConflicts(s) ==
    Read(s, "read conflicts", "read recommendations",
         [sync[s] EXCEPT !.conflicts = ConflictsOf(sync[s].obligations)])

ReadRecommendations(s) ==
    Read(s, "read recommendations", "merge policy",
         [sync[s] EXCEPT !.recommendations = rows.recommendations \cap sync[s].conflicts])

-----------------------------------------------------------------------------
(* sync_policy: the statements.  A relation is merged only between nodes the
   graph has at that moment. *)

Merge(s, pc, next, newGraph) ==
    /\ At(s, pc)
    /\ graph' = newGraph
    /\ sync' = [sync EXCEPT ![s].pc = next]
    /\ UNCHANGED <<rows, changed, retracted>>

MergePolicy(s) ==
    Merge(s, "merge policy", "merge clauses",
          [graph EXCEPT !.policies = @ \cup {sync[s].policy}])

MergeClauses(s) ==
    Merge(s, "merge clauses", "merge obligations",
          [graph EXCEPT !.clauses = @ \cup sync[s].clauses,
                        !.hasClause = @ \cup {e \in {sync[s].policy} \X sync[s].clauses :
                                                 e[1] \in graph.policies}])

MergeObligations(s) ==
    Merge(s, "merge obligations", "merge regulations",
          [graph EXCEPT !.obligations = @ \cup sync[s].obligations,
                        !.hasObligation = @ \cup {e \in graph.clauses \X sync[s].obligations :
                                                     e[1] = ClauseOf[e[2]]}])

MergeRegulations(s) ==
    Merge(s, "merge regulations", "merge findings",
          LET maps == {m \in sync[s].mappings : m[2] # None} IN
          [graph EXCEPT !.regulations = @ \cup {m[2] : m \in maps},
                        !.mapsTo = @ \cup {m \in maps : m[1] \in graph.obligations}])

MergeFindings(s) ==
    /\ At(s, "merge findings")
    /\ graph' = [graph EXCEPT !.findings = @ \cup sync[s].conflicts]
    /\ sync' = [sync EXCEPT ![s].unlinked = sync[s].conflicts, ![s].pc = "link source"]
    /\ UNCHANGED <<rows, changed, retracted>>

\* Per conflict, in any order: its source, its target, the two ends.
FindingEdge(o, c) == IF o \in graph.obligations /\ c \in graph.findings THEN {<<o, c>>} ELSE {}

LinkSource(s, c) ==
    /\ At(s, "link source") /\ c \in sync[s].unlinked
    /\ graph' = [graph EXCEPT !.hasFinding = @ \cup FindingEdge(Source[c], c)]
    /\ sync' = [sync EXCEPT ![s].pc = "link target", ![s].current = c,
                            ![s].unlinked = @ \ {c}]
    /\ UNCHANGED <<rows, changed, retracted>>

LinkTarget(s) ==
    LET c == sync[s].current IN
    Merge(s, "link target", "relate ends",
          [graph EXCEPT !.hasFinding = @ \cup FindingEdge(Target[c], c)])

\* Faulty variant: relates only obligations of the synchronised policy.
RelateEndsOfPolicy(s) ==
    LET c == sync[s].current IN
    Merge(s, "relate ends", "link source",
          [graph EXCEPT !.related = @ \cup IF {Source[c], Target[c]} \subseteq sync[s].obligations
                                           THEN {<<Source[c], RelType(c), Target[c]>>} ELSE {}])

RelateEnds(s) ==
    LET c == sync[s].current IN
    Merge(s, "relate ends", "link source",
          [graph EXCEPT !.related = @ \cup IF {Source[c], Target[c]} \subseteq graph.obligations
                                           THEN {<<Source[c], RelType(c), Target[c]>>} ELSE {}])

MergeRecommendations(s) ==
    /\ sync[s].unlinked = {}
    /\ Merge(s, "link source", "done",
             [graph EXCEPT !.recommendations = @ \cup sync[s].recommendations,
                           !.hasRecommendation = @ \cup (sync[s].recommendations
                                                            \cap graph.findings)])

\* A query or a statement fails, or the graph is out of reach.
FailSync(s) ==
    /\ sync[s].pc \notin {"idle", "nothing to do", "done", "failed"}
    /\ sync' = [sync EXCEPT ![s].pc = "failed"]
    /\ UNCHANGED <<rows, graph, changed, retracted>>

SyncStep(s) ==
    \/ \E p \in Policies : StartSync(s, p)
    \/ ReadClauses(s) \/ ReadObligations(s) \/ ReadMappings(s) \/ ReadConflicts(s)
    \/ ReadRecommendations(s)
    \/ MergePolicy(s) \/ MergeClauses(s) \/ MergeObligations(s) \/ MergeRegulations(s)
    \/ MergeFindings(s)
    \/ \E c \in Conflicts : LinkSource(s, c)
    \/ LinkTarget(s) \/ RelateEnds(s) \/ MergeRecommendations(s)
    \/ FailSync(s)

AtMostOne(S) == {{}} \cup {{x} : x \in S}

RowStep ==
    \/ \E p \in Policies, C \in SUBSET Clauses : StorePolicy(p, C) \/ Resegment(p, C)
    \/ \E p \in Policies : DeletePolicy(p)
    \/ \E o \in Obligations, M \in AtMostOne(Regulations \cup {None}) : StoreObligation(o, M)
    \/ \E o \in Obligations, r \in Regulations \cup {None} : Remap(o, r)
    \/ \E c \in Conflicts : \E R \in SUBSET {c} : StoreConflict(c, R)

Next == RowStep \/ \E s \in Syncs : SyncStep(s)

Spec == Init /\ [][Next]_vars

-----------------------------------------------------------------------------
(* What the endpoints answer.  Each tries the graph and, when that has no
   node to show or fails, computes the answer from the database. *)

Linked(R, A) == {e \in R : e[1] \in A}
Heads(R) == {e[2] : e \in R}

GraphClauses(p) == Heads(Linked(graph.hasClause, {p}))
GraphObligations(p) == Heads(Linked(graph.hasObligation, GraphClauses(p)))
SqlObligations(p) == ObligationsIn(LiveClauses(p))
RealMappings(O) == {m \in rows.mappings : m[1] \in O /\ m[2] # None}

\* The findings in the graph's slice have no counterpart in the fallback.
GraphPolicySlice(p) ==
    [hasClause |-> Linked(graph.hasClause, {p}),
     hasObligation |-> Linked(graph.hasObligation, GraphClauses(p)),
     mapsTo |-> Linked(graph.mapsTo, GraphObligations(p))]

SqlPolicySlice(p) ==
    [hasClause |-> {p} \X LiveClauses(p),
     hasObligation |-> {<<ClauseOf[o], o>> : o \in SqlObligations(p)},
     mapsTo |-> RealMappings(SqlObligations(p))]

GraphObligationSlice(o) ==
    [clauses |-> {e[1] : e \in {x \in graph.hasObligation : x[2] = o}},
     regulations |-> Heads(Linked(graph.mapsTo, {o}))]

SqlObligationSlice(o) ==
    [clauses |-> {ClauseOf[o]}, regulations |-> Heads(RealMappings({o}))]

GraphImpact(p) ==
    LET own == GraphObligations(p)
        findings == Heads(Linked(graph.hasFinding, own)) IN
    [obligations |-> own,
     regulations |-> Heads(Linked(graph.mapsTo, own)),
     conflicts |-> findings,
     recommendations |-> graph.hasRecommendation \cap findings]

SqlImpact(p) ==
    LET own == SqlObligations(p) IN
    [obligations |-> own,
     regulations |-> Heads(RealMappings(own)),
     conflicts |-> ConflictsOf(own),
     recommendations |-> rows.recommendations \cap ConflictsOf(own)]

GraphImpacted(p) ==
    {q \in graph.policies \ {p} : \E e \in graph.related :
        /\ e[2] = "CONFLICTS_WITH"
        /\ \/ e[1] \in GraphObligations(p) /\ e[3] \in GraphObligations(q)
           \/ e[3] \in GraphObligations(p) /\ e[1] \in GraphObligations(q)}

SqlImpacted(p) == (UNION {Parties[c] : c \in ConflictsOf(SqlObligations(p))}) \ {p}

-----------------------------------------------------------------------------
(* Properties. *)

Stages ==
    {"idle", "read clauses", "read obligations", "read mappings", "read conflicts",
     "read recommendations", "merge policy", "merge clauses", "merge obligations",
     "merge regulations", "merge findings", "link source", "link target", "relate ends",
     "nothing to do", "done", "failed"}

RowsType ==
    [policies : SUBSET Policies, clauses : SUBSET Clauses,
     deleted : SUBSET (Policies \cup Clauses), obligations : SUBSET Obligations,
     mappings : SUBSET (Obligations \X (Regulations \cup {None})),
     conflicts : SUBSET Conflicts, recommendations : SUBSET Conflicts]

GraphType ==
    [policies : SUBSET Policies, clauses : SUBSET Clauses, obligations : SUBSET Obligations,
     regulations : SUBSET Regulations, findings : SUBSET Conflicts,
     recommendations : SUBSET Conflicts, hasClause : SUBSET (Policies \X Clauses),
     hasObligation : SUBSET (Clauses \X Obligations),
     mapsTo : SUBSET (Obligations \X Regulations),
     hasFinding : SUBSET (Obligations \X Conflicts), hasRecommendation : SUBSET Conflicts,
     related : SUBSET (Obligations \X RelationTypes \X Obligations)]

SyncType ==
    [pc : Stages, policy : Policies \cup {None}, clauses : SUBSET Clauses,
     obligations : SUBSET Obligations, mappings : SUBSET (Obligations \X (Regulations \cup {None})),
     conflicts : SUBSET Conflicts, recommendations : SUBSET Conflicts,
     unlinked : SUBSET Conflicts, current : Conflicts \cup {None}]

\* Rows, graph and synchronisations hold values of the right kinds; "NONE" is
\* a framework for a mapping row, never a regulation of the graph.
TypeOK ==
    /\ rows \in RowsType
    /\ graph \in GraphType
    /\ sync \in [Syncs -> SyncType]
    /\ \A s \in Syncs :
        /\ sync[s].pc # "idle" => sync[s].policy \in Policies
        /\ sync[s].pc \in {"link target", "relate ends"} => sync[s].current \in Conflicts
    /\ changed \subseteq Syncs
    /\ retracted \subseteq Policies

\* A relation between two policies needs both of them in the graph, and
\* neither synchronisation waits for the other: whichever writes last finds
\* the other's obligations there.  When the synchronisations of both ends of a
\* conflict have finished and both had read it, the conflict hangs on both
\* obligations and these are related, however the two overlapped.
BothEndsLinked ==
    \A s, t \in Syncs : \A c \in sync[s].conflicts \cap sync[t].conflicts :
        /\ sync[s].pc = "done" /\ sync[t].pc = "done"
        /\ Source[c] \in sync[s].obligations /\ Target[c] \in sync[t].obligations
        => /\ {<<Source[c], c>>, <<Target[c], c>>} \subseteq graph.hasFinding
           /\ <<Source[c], RelType(c), Target[c]>> \in graph.related

Within(a, b) == \A field \in DOMAIN a : a[field] \subseteq b[field]

\* The endpoints switch between graph and database from call to call.  Once
\* a synchronisation has succeeded and no row of its policy has changed since
\* it began, the graph shows all that the database shows, whatever failed or
\* overlapping synchronisations did before, meanwhile or after; and nothing
\* else, unless something of the policy was ever withdrawn, which the graph
\* does not follow.
GraphAgreesWithRows ==
    \A s \in Syncs \ changed : sync[s].pc = "done" =>
        LET p == sync[s].policy
            own == SqlObligations(p) IN
        /\ Within(SqlPolicySlice(p), GraphPolicySlice(p))
        /\ \A o \in own : Within(SqlObligationSlice(o), GraphObligationSlice(o))
        /\ Within(SqlImpact(p), GraphImpact(p))
        /\ p \notin retracted =>
            /\ Within(GraphPolicySlice(p), SqlPolicySlice(p))
            /\ \A o \in own : Within(GraphObligationSlice(o), SqlObligationSlice(o))
            /\ Within(GraphImpact(p), SqlImpact(p))
            /\ GraphImpacted(p) \subseteq SqlImpacted(p)

=============================================================================
