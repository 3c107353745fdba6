------------------------ MODULE KnowledgeGraphProofs ------------------------
(***************************************************************************)
(* Proofs about KnowledgeGraph, for every number of policies, clauses,     *)
(* obligations, conflicts and synchronisations.                            *)
(***************************************************************************)
EXTENDS KnowledgeGraph, TLAPS

\* What a synchronisation has merged and linked by now.
Merged(s) ==
    sync[s].pc \in {"merge regulations", "merge findings", "link source", "link target",
                    "relate ends", "done"}
Linking(s) == sync[s].pc \in {"link source", "link target", "relate ends", "done"}
Visited(s) == IF Linking(s) THEN sync[s].conflicts \ sync[s].unlinked ELSE {}
SourceLinked(s, c) == c \in Visited(s)
TargetLinked(s, c) == c \in Visited(s) /\ ~(sync[s].pc = "link target" /\ sync[s].current = c)
EndsRelated(s, c) ==
    c \in Visited(s) /\ ~(sync[s].pc \in {"link target", "relate ends"} /\ sync[s].current = c)

\* The graph holds what a synchronisation has merged, and each finding hangs
\* on the obligations of the synchronisations that have linked it.
HoldsMerged(s) ==
    /\ Merged(s) => sync[s].obligations \subseteq graph.obligations
    /\ Linking(s) => sync[s].conflicts \subseteq graph.findings
    /\ sync[s].pc = "done" => sync[s].unlinked = {}
    /\ \A c \in Conflicts :
        /\ SourceLinked(s, c) /\ Source[c] \in sync[s].obligations
           => <<Source[c], c>> \in graph.hasFinding
        /\ TargetLinked(s, c) /\ Target[c] \in sync[s].obligations
           => <<Target[c], c>> \in graph.hasFinding

\* Two synchronisations that have both related the ends of a conflict, each
\* having merged one of them, have found both: the second of them did.
RelatedByEither(s, t, c) ==
    /\ EndsRelated(s, c) /\ EndsRelated(t, c)
    /\ Source[c] \in sync[s].obligations /\ Target[c] \in sync[t].obligations
    => <<Source[c], RelType(c), Target[c]>> \in graph.related

LinkInv ==
    /\ \A s \in Syncs : HoldsMerged(s)
    /\ \A s, t \in Syncs, c \in Conflicts : RelatedByEither(s, t, c)

\* The graph only grows.
Grows ==
    /\ graph.obligations \subseteq graph'.obligations
    /\ graph.findings \subseteq graph'.findings
    /\ graph.hasFinding \subseteq graph'.hasFinding
    /\ graph.related \subseteq graph'.related

-----------------------------------------------------------------------------
(* Types. *)

\* What the assumptions give at once: None is no obligation, and every conflict has
\* a relationship type.
LEMMA Inhabited ==
    ASSUME ShapeAssumption, NoneAssumption
    PROVE  /\ None \notin Obligations
           /\ \A c \in Conflicts : RelType(c) \in RelationTypes
BY DEF ShapeAssumption, NoneAssumption, RelType, RelationTypes

\* What an operation on the rows alone leaves well typed.
LEMMA RowsTyped ==
    ASSUME TypeOK, NEW P \in SUBSET Policies, NEW newRows \in RowsType,
           NEW withdrawn \in BOOLEAN, RowsOf(P, newRows, withdrawn)
    PROVE  TypeOK'
BY DEF TypeOK, RowsOf

\* What a query leaves well typed.
LEMMA ReadTyped ==
    ASSUME TypeOK, NEW s \in Syncs, NEW pc \in Stages \ {"idle"},
           NEW next \in Stages \ {"link target", "relate ends"},
           NEW read \in SyncType, read.policy = sync[s].policy,
           Read(s, pc, next, read)
    PROVE  TypeOK'
<1>1. [read EXCEPT !.pc = next] \in SyncType
  BY DEF SyncType
<1>2. /\ [read EXCEPT !.pc = next].pc = next
      /\ [read EXCEPT !.pc = next].policy = sync[s].policy
  BY DEF SyncType
<1>3. sync[s].policy \in Policies
  BY DEF TypeOK, Read, At
<1> QED
  BY <1>1, <1>2, <1>3 DEF TypeOK, Read

\* What a statement leaves well typed.
LEMMA MergeTyped ==
    ASSUME TypeOK, NEW s \in Syncs, NEW pc \in Stages \ {"idle"}, NEW next \in Stages,
           next \in {"link target", "relate ends"} => pc = "link target",
           NEW newGraph \in GraphType, Merge(s, pc, next, newGraph)
    PROVE  TypeOK'
<1>1. /\ [sync[s] EXCEPT !.pc = next] \in SyncType
      /\ [sync[s] EXCEPT !.pc = next].pc = next
      /\ [sync[s] EXCEPT !.pc = next].policy = sync[s].policy
      /\ [sync[s] EXCEPT !.pc = next].current = sync[s].current
  BY DEF TypeOK, SyncType
<1>2. sync' = [sync EXCEPT ![s] = [sync[s] EXCEPT !.pc = next]]
  BY DEF TypeOK, Merge
<1>3. /\ sync[s].policy \in Policies
      /\ pc = "link target" => sync[s].current \in Conflicts
  BY DEF TypeOK, Merge, At
<1> QED
  BY <1>1, <1>2, <1>3 DEF TypeOK, Merge

\* The types hold at the start.
LEMMA InitTyped == Init => TypeOK
<1>1. Idle \in SyncType /\ Idle.pc = "idle"
  BY DEF Idle, SyncType, Stages
<1>2. ASSUME Init
      PROVE  rows \in RowsType /\ graph \in GraphType
  BY <1>2 DEF Init, RowsType, GraphType
<1> QED
  BY <1>1, <1>2 DEF Init, TypeOK

\* The policy of an obligation is a policy.
LEMMA PolicyOfObligationIsOne ==
    ASSUME ShapeAssumption, NEW o \in Obligations
    PROVE  PolicyOfObligation(o) \in Policies
BY DEF ShapeAssumption, PolicyOfObligation

\* So are those at the ends of a conflict.
LEMMA PoliciesOfAreSome ==
    ASSUME ShapeAssumption, NEW c \in Conflicts
    PROVE  PoliciesOf(c) \in SUBSET Policies
<1>1. \A o \in Ends(c) : PolicyOfObligation(o) \in Policies
  BY PolicyOfObligationIsOne DEF ShapeAssumption, Ends
<1> QED
  BY <1>1 DEF PoliciesOf

\* Every operation on the rows keeps the types.
LEMMA RowStepTyped ==
    ASSUME ShapeAssumption, TypeOK, RowStep
    PROVE  TypeOK'
<1> USE DEF AtMostOne
<1>0. rows \in RowsType
  BY DEF TypeOK
<1>1. ASSUME NEW p \in Policies, NEW C \in SUBSET Clauses, StorePolicy(p, C)
      PROVE  TypeOK'
  <2>1. [rows EXCEPT !.policies = @ \cup {p}, !.clauses = @ \cup C] \in RowsType
    BY <1>0 DEF RowsType
  <2> QED
    BY <1>1, <2>1, RowsTyped DEF StorePolicy
<1>2. ASSUME NEW p \in Policies, NEW C \in SUBSET Clauses, Resegment(p, C)
      PROVE  TypeOK'
  <2>1. [rows EXCEPT !.clauses = @ \cup C, !.deleted = @ \cup LiveClauses(p)] \in RowsType
    BY <1>0 DEF RowsType, LiveClauses
  <2> QED
    BY <1>2, <2>1, RowsTyped DEF Resegment
<1>3. ASSUME NEW p \in Policies, DeletePolicy(p)
      PROVE  TypeOK'
  <2>1. [rows EXCEPT !.deleted = @ \cup {p} \cup LiveClauses(p)] \in RowsType
    BY <1>0 DEF RowsType, LiveClauses
  <2> QED
    BY <1>3, <2>1, RowsTyped DEF DeletePolicy
<1>4. ASSUME NEW o \in Obligations, NEW M \in AtMostOne(Regulations \cup {None}),
             StoreObligation(o, M)
      PROVE  TypeOK'
  <2>1. {o} \X M \subseteq Obligations \X (Regulations \cup {None})
    BY <1>4
  <2>2. [rows EXCEPT !.obligations = @ \cup {o}, !.mappings = @ \cup ({o} \X M)] \in RowsType
    BY <1>0, <2>1 DEF RowsType
  <2> QED
    BY <1>4, <2>2, RowsTyped, PolicyOfObligationIsOne DEF StoreObligation
<1>5. ASSUME NEW o \in Obligations, NEW r \in Regulations \cup {None}, Remap(o, r)
      PROVE  TypeOK'
  <2>1. [rows EXCEPT !.mappings = {m \in @ : m[1] # o} \cup {<<o, r>>}] \in RowsType
    BY <1>0 DEF RowsType
  <2> QED
    BY <1>5, <2>1, RowsTyped, PolicyOfObligationIsOne DEF Remap
<1>6. ASSUME NEW c \in Conflicts, NEW R \in SUBSET {c}, StoreConflict(c, R)
      PROVE  TypeOK'
  <2>1. R \subseteq Conflicts
    BY <1>6
  <2>2. [rows EXCEPT !.conflicts = @ \cup {c}, !.recommendations = @ \cup R] \in RowsType
    BY <1>0, <2>1 DEF RowsType
  <2> QED
    BY <1>6, <2>2, RowsTyped, PoliciesOfAreSome DEF StoreConflict
<1> QED
  BY <1>1, <1>2, <1>3, <1>4, <1>5, <1>6 DEF RowStep

\* Every step of a synchronisation keeps the types.
LEMMA SyncStepTyped ==
    ASSUME ShapeAssumption, NoneAssumption, TypeOK, NEW s \in Syncs, SyncStep(s)
    PROVE  TypeOK'
<1>0. /\ rows \in RowsType /\ graph \in GraphType
      /\ sync[s] \in SyncType
  BY DEF TypeOK
<1>1. ASSUME NEW p \in Policies, StartSync(s, p)
      PROVE  TypeOK'
  <2> DEFINE new == [sync[s] EXCEPT !.pc = "read clauses", !.policy = p]
  <2>1. sync' = [sync EXCEPT ![s] = new]
    BY <1>1 DEF StartSync, TypeOK
  <2>2. new \in SyncType /\ new.pc = "read clauses" /\ new.policy = p
    BY <1>0 DEF SyncType, Stages
  <2> HIDE DEF new
  <2> QED
    <3>1. UNCHANGED <<rows, graph, changed, retracted>> /\ p \in Policies
      BY <1>1 DEF StartSync, TypeOK, RowsType
    <3> QED
      BY <2>1, <2>2, <3>1 DEF TypeOK
<1>2. CASE ReadClauses(s)
  <2> DEFINE next == IF LiveClauses(sync[s].policy) = {} THEN "nothing to do"
                     ELSE "read obligations"
  <2>1. /\ [sync[s] EXCEPT !.clauses = LiveClauses(sync[s].policy)] \in SyncType
        /\ [sync[s] EXCEPT !.clauses = LiveClauses(sync[s].policy)].policy = sync[s].policy
    BY <1>0 DEF SyncType, LiveClauses, RowsType
  <2>2. next \in Stages \ {"link target", "relate ends"}
    BY DEF Stages
  <2>3. "read clauses" \in Stages \ {"idle"}
    BY DEF Stages
  <2> HIDE DEF next
  <2> QED
    BY <1>2, <2>1, <2>2, <2>3, ReadTyped DEF ReadClauses, next
<1>3. CASE ReadObligations(s)
  <2>1. /\ [sync[s] EXCEPT !.obligations = ObligationsIn(sync[s].clauses)] \in SyncType
        /\ [sync[s] EXCEPT !.obligations = ObligationsIn(sync[s].clauses)].policy = sync[s].policy
    BY <1>0 DEF SyncType, ObligationsIn, RowsType
  <2> QED
    BY <1>3, <2>1, ReadTyped DEF ReadObligations, Stages
<1>4. CASE ReadMappings(s)
  <2>1. /\ [sync[s] EXCEPT !.mappings = {m \in rows.mappings : m[1] \in sync[s].obligations}] \in SyncType
        /\ [sync[s] EXCEPT !.mappings = {m \in rows.mappings : m[1] \in sync[s].obligations}].policy = sync[s].policy
    BY <1>0 DEF SyncType, RowsType
  <2> QED
    BY <1>4, <2>1, ReadTyped DEF ReadMappings, Stages
<1>5. CASE ReadConflicts(s)
  <2>1. /\ [sync[s] EXCEPT !.conflicts = ConflictsOf(sync[s].obligations)] \in SyncType
        /\ [sync[s] EXCEPT !.conflicts = ConflictsOf(sync[s].obligations)].policy = sync[s].policy
    BY <1>0 DEF SyncType, ConflictsOf, RowsType
  <2> QED
    BY <1>5, <2>1, ReadTyped DEF ReadConflicts, Stages
<1>6. CASE ReadRecommendations(s)
  <2>1. /\ [sync[s] EXCEPT !.recommendations = rows.recommendations \cap sync[s].conflicts] \in SyncType
        /\ [sync[s] EXCEPT !.recommendations = rows.recommendations \cap sync[s].conflicts].policy = sync[s].policy
    BY <1>0 DEF SyncType, RowsType
  <2> QED
    BY <1>6, <2>1, ReadTyped DEF ReadRecommendations, Stages
<1>7. CASE MergePolicy(s)
  <2>1. sync[s].policy \in Policies
    BY <1>7 DEF MergePolicy, Merge, At, TypeOK
  <2>2. [graph EXCEPT !.policies = @ \cup {sync[s].policy}] \in GraphType
    BY <1>0, <2>1 DEF GraphType
  <2> QED
    BY <1>7, <2>2, MergeTyped DEF MergePolicy, Stages
<1>8. CASE MergeClauses(s)
  <2> DEFINE edges == {e \in {sync[s].policy} \X sync[s].clauses : e[1] \in graph.policies}
  <2>1. edges \subseteq Policies \X Clauses
    BY <1>0 DEF GraphType, SyncType
  <2>2. sync[s].clauses \subseteq Clauses
    BY <1>0 DEF SyncType
  <2> HIDE DEF edges
  <2>3. [graph EXCEPT !.clauses = @ \cup sync[s].clauses, !.hasClause = @ \cup edges]
           \in GraphType
    BY <1>0, <2>1, <2>2 DEF GraphType
  <2> QED
    BY <1>8, <2>3, MergeTyped DEF MergeClauses, Stages, edges
<1>9. CASE MergeObligations(s)
  <2> DEFINE edges == {e \in graph.clauses \X sync[s].obligations : e[1] = ClauseOf[e[2]]}
  <2>1. edges \subseteq Clauses \X Obligations
    BY <1>0 DEF GraphType, SyncType
  <2>2. sync[s].obligations \subseteq Obligations
    BY <1>0 DEF SyncType
  <2> HIDE DEF edges
  <2>3. [graph EXCEPT !.obligations = @ \cup sync[s].obligations,
                      !.hasObligation = @ \cup edges] \in GraphType
    BY <1>0, <2>1, <2>2 DEF GraphType
  <2> QED
    BY <1>9, <2>3, MergeTyped DEF MergeObligations, Stages, edges
<1>10. CASE MergeRegulations(s)
  <2> DEFINE maps == {m \in sync[s].mappings : m[2] # None}
             heads == {m[2] : m \in maps}
             edges == {m \in maps : m[1] \in graph.obligations}
  <2>1. maps \subseteq Obligations \X Regulations
    BY <1>0 DEF SyncType
  <2>2. heads \subseteq Regulations /\ edges \subseteq Obligations \X Regulations
    BY <2>1
  <2> HIDE DEF maps, heads, edges
  <2>3. [graph EXCEPT !.regulations = @ \cup heads, !.mapsTo = @ \cup edges] \in GraphType
    BY <1>0, <2>2 DEF GraphType
  <2> QED
    BY <1>10, <2>3, MergeTyped DEF MergeRegulations, Stages, maps, heads, edges
<1>11. CASE MergeFindings(s)
  <2> DEFINE new == [sync[s] EXCEPT !.unlinked = sync[s].conflicts, !.pc = "link source"]
  <2>1. sync' = [sync EXCEPT ![s] = new]
    BY <1>11 DEF MergeFindings, TypeOK
  <2>2. new \in SyncType /\ new.pc = "link source" /\ new.policy = sync[s].policy
    BY <1>0 DEF SyncType, Stages
  <2>3. [graph EXCEPT !.findings = @ \cup sync[s].conflicts] \in GraphType
    BY <1>0 DEF GraphType, SyncType
  <2>4. sync[s].policy \in Policies
    BY <1>11 DEF MergeFindings, At, TypeOK
  <2>5. graph' \in GraphType /\ UNCHANGED <<rows, changed, retracted>>
    BY <1>11, <2>3 DEF MergeFindings
  <2> HIDE DEF new
  <2> QED
    BY <2>1, <2>2, <2>4, <2>5 DEF TypeOK
<1>12. ASSUME NEW c \in Conflicts, LinkSource(s, c)
       PROVE  TypeOK'
  <2> DEFINE new == [sync[s] EXCEPT !.pc = "link target", !.current = c, !.unlinked = @ \ {c}]
  <2>1. sync' = [sync EXCEPT ![s] = new]
    BY <1>12 DEF LinkSource, TypeOK
  <2>2. /\ new \in SyncType /\ new.policy = sync[s].policy
        /\ new.pc = "link target" /\ new.current = c
    BY <1>0 DEF SyncType, Stages
  <2>3. [graph EXCEPT !.hasFinding = @ \cup FindingEdge(Source[c], c)] \in GraphType
    BY <1>0 DEF GraphType, FindingEdge
  <2>4. sync[s].policy \in Policies
    BY <1>12 DEF LinkSource, At, TypeOK
  <2> HIDE DEF new
  <2>5. /\ graph' \in GraphType
        /\ UNCHANGED <<rows, changed, retracted>>
    BY <1>12, <2>3 DEF LinkSource
  <2> QED
    BY <2>1, <2>2, <2>4, <2>5 DEF TypeOK
<1>13. CASE LinkTarget(s)
  <2>1. [graph EXCEPT !.hasFinding = @ \cup FindingEdge(Target[sync[s].current], sync[s].current)]
           \in GraphType
    BY <1>0 DEF GraphType, FindingEdge
  <2> QED
    BY <1>13, <2>1, MergeTyped DEF LinkTarget, Stages
<1>14. CASE RelateEnds(s)
  <2> DEFINE c == sync[s].current
             edges == IF {Source[c], Target[c]} \subseteq graph.obligations
                      THEN {<<Source[c], RelType(c), Target[c]>>} ELSE {}
  <2>1. c \in Conflicts
    BY <1>14 DEF RelateEnds, Merge, At, TypeOK
  <2>2. RelType(c) \in RelationTypes
    BY <2>1, Inhabited
  <2>3. edges \subseteq Obligations \X RelationTypes \X Obligations
    BY <1>0, <2>2 DEF GraphType
  <2> HIDE DEF edges
  <2>4. [graph EXCEPT !.related = @ \cup edges] \in GraphType
    BY <1>0, <2>3 DEF GraphType
  <2> QED
    BY <1>14, <2>4, MergeTyped DEF RelateEnds, Stages, edges
<1>15. CASE MergeRecommendations(s)
  <2>1. [graph EXCEPT !.recommendations = @ \cup sync[s].recommendations,
                      !.hasRecommendation = @ \cup (sync[s].recommendations \cap graph.findings)]
           \in GraphType
    BY <1>0 DEF GraphType, SyncType
  <2> QED
    BY <1>15, <2>1, MergeTyped DEF MergeRecommendations, Stages
<1>16. CASE FailSync(s)
  <2>1. sync' = [sync EXCEPT ![s] = [sync[s] EXCEPT !.pc = "failed"]]
    BY <1>16 DEF FailSync, TypeOK
  <2>2. /\ [sync[s] EXCEPT !.pc = "failed"] \in SyncType
        /\ [sync[s] EXCEPT !.pc = "failed"].pc = "failed"
        /\ [sync[s] EXCEPT !.pc = "failed"].policy = sync[s].policy
    BY <1>0 DEF SyncType, Stages
  <2>3. sync[s].policy \in Policies
    BY <1>16 DEF FailSync, TypeOK
  <2> QED
    BY <1>16, <2>1, <2>2, <2>3 DEF TypeOK, FailSync
<1> QED
  BY <1>1, <1>2, <1>3, <1>4, <1>5, <1>6, <1>7, <1>8, <1>9, <1>10, <1>11, <1>12, <1>13,
     <1>14, <1>15, <1>16 DEF SyncStep

\* TypeOK: rows, graph and synchronisations stay well typed, and no mapping to
\* "NONE" becomes a regulation of the graph.
THEOREM TypesHold ==
    ASSUME ShapeAssumption, NoneAssumption
    PROVE  Spec => []TypeOK
<1>1. Init => TypeOK
  BY InitTyped
<1>2. TypeOK /\ [Next]_vars => TypeOK'
  <2>1. CASE UNCHANGED vars
    BY <2>1 DEF TypeOK, vars
  <2>2. CASE Next
    BY <2>2, RowStepTyped, SyncStepTyped DEF Next
  <2> QED
    BY <2>1, <2>2
<1> QED
  BY <1>1, <1>2, PTL DEF Spec

-----------------------------------------------------------------------------
(* Links. *)

\* What a synchronisation has merged and linked stays so while others work.
LEMMA OthersKeep ==
    ASSUME NEW t \in Syncs, sync'[t] = sync[t], Grows, HoldsMerged(t)
    PROVE  HoldsMerged(t)'
BY DEF HoldsMerged, Grows, Merged, Linking, Visited, SourceLinked, TargetLinked

\* A step of s that relates no further ends keeps LinkInv if it keeps what
\* LinkInv says of s alone.
LEMMA StepKeepsLinks ==
    ASSUME LinkInv, NEW s \in Syncs, Grows,
           \A t \in Syncs \ {s} : sync'[t] = sync[t],
           HoldsMerged(s)',
           \A c \in Conflicts : EndsRelated(s, c)' =>
               EndsRelated(s, c) /\ sync'[s].obligations = sync[s].obligations
    PROVE  LinkInv'
<1>1. \A t \in Syncs : HoldsMerged(t)'
  BY OthersKeep DEF LinkInv
<1>2. ASSUME NEW t \in Syncs, NEW c \in Conflicts, EndsRelated(t, c)'
      PROVE  EndsRelated(t, c) /\ sync'[t].obligations = sync[t].obligations
  <2>1. CASE t = s
    BY <1>2, <2>1
  <2>2. CASE t # s
    BY <1>2, <2>2 DEF EndsRelated, Visited, Linking
  <2> QED
    BY <2>1, <2>2
<1>3. ASSUME NEW t \in Syncs, NEW u \in Syncs, NEW c \in Conflicts
      PROVE  RelatedByEither(t, u, c)'
  BY <1>2 DEF LinkInv, RelatedByEither, Grows
<1> QED
  BY <1>1, <1>3 DEF LinkInv

\* A step of s before or outside the linking keeps LinkInv.
LEMMA QuietStepKeepsLinks ==
    ASSUME LinkInv, NEW s \in Syncs, Grows,
           \A t \in Syncs \ {s} : sync'[t] = sync[t],
           sync'[s].pc \notin {"link source", "link target", "relate ends", "done"},
           Merged(s)' => sync'[s].obligations \subseteq graph'.obligations
    PROVE  LinkInv'
<1>1. ~Linking(s)'
  BY DEF Linking
<1>2. Visited(s)' = {}
  BY <1>1 DEF Visited
<1>3. HoldsMerged(s)'
  BY <1>1, <1>2 DEF HoldsMerged, SourceLinked, TargetLinked
<1>4. \A c \in Conflicts : ~EndsRelated(s, c)'
  BY <1>2 DEF EndsRelated
<1> QED
  BY <1>3, <1>4, StepKeepsLinks

\* The invariant about links holds at the start, where no sync is under way.
LEMMA InitLinks == Init => LinkInv
<1> SUFFICES ASSUME Init PROVE LinkInv
  OBVIOUS
<1>1. \A s \in Syncs : sync[s].pc = "idle"
  BY DEF Init, Idle
<1>2. \A s \in Syncs : ~Merged(s) /\ ~Linking(s) /\ Visited(s) = {}
  BY <1>1 DEF Merged, Linking, Visited
<1> QED
  BY <1>1, <1>2 DEF LinkInv, HoldsMerged, RelatedByEither, SourceLinked, TargetLinked, EndsRelated

\* The invariant is about the graph and the synchronisations only.
LEMMA LinksAreOfGraph ==
    ASSUME LinkInv, UNCHANGED <<graph, sync>>
    PROVE  LinkInv'
<1>1. ASSUME NEW s \in Syncs PROVE Visited(s)' = Visited(s) /\ Merged(s)' = Merged(s)
                                  /\ Linking(s)' = Linking(s)
  BY DEF Visited, Merged, Linking
<1>2. ASSUME NEW s \in Syncs PROVE HoldsMerged(s)'
  <2>1. HoldsMerged(s)
    BY DEF LinkInv
  <2> QED
    BY <1>1, <2>1 DEF HoldsMerged, SourceLinked, TargetLinked
<1>3. ASSUME NEW s \in Syncs, NEW t \in Syncs, NEW c \in Conflicts
      PROVE  RelatedByEither(s, t, c)'
  <2>1. RelatedByEither(s, t, c)
    BY DEF LinkInv
  <2>2. RelType(c)' = RelType(c)
    BY DEF RelType
  <2> QED
    BY <1>1, <2>1, <2>2 DEF RelatedByEither, EndsRelated
<1> QED
  BY <1>2, <1>3 DEF LinkInv

\* An operation on the rows alone does not touch the graph or a sync.
LEMMA RowStepKeepsLinks ==
    ASSUME LinkInv, RowStep
    PROVE  LinkInv'
<1>1. UNCHANGED <<graph, sync>>
  BY DEF RowStep, RowsOf, StorePolicy, Resegment, DeletePolicy, StoreObligation, Remap,
         StoreConflict
<1> QED
  BY <1>1, LinksAreOfGraph

\* What a step of s to its next stage does to s, and that it leaves the others
\* alone.
LEMMA StepEffect ==
    ASSUME TypeOK, NEW s \in Syncs, NEW pc, NEW next,
           At(s, pc), sync' = [sync EXCEPT ![s].pc = next]
    PROVE  /\ \A t \in Syncs \ {s} : sync'[t] = sync[t]
           /\ sync[s].pc = pc /\ sync'[s].pc = next
           /\ sync'[s].obligations = sync[s].obligations
           /\ sync'[s].conflicts = sync[s].conflicts
           /\ sync'[s].unlinked = sync[s].unlinked
           /\ sync'[s].current = sync[s].current
BY DEF TypeOK, SyncType, At

\* A query leaves the graph and the others alone, and nothing is merged yet.
LEMMA ReadKeepsLinks ==
    ASSUME TypeOK, LinkInv, NEW s \in Syncs, NEW pc,
           NEW next \in {"nothing to do", "read obligations", "read mappings", "read conflicts",
                         "read recommendations", "merge policy"},
           NEW read \in SyncType, Read(s, pc, next, read)
    PROVE  LinkInv'
<1>1. /\ \A t \in Syncs \ {s} : sync'[t] = sync[t]
      /\ sync'[s].pc = next
  BY DEF TypeOK, SyncType, Read
<1>2. Grows
  BY DEF Read, Grows
<1>3. ~Merged(s)'
  BY <1>1 DEF Merged
<1> QED
  BY <1>1, <1>2, <1>3, QuietStepKeepsLinks

\* Every step of a synchronisation keeps LinkInv; only relating the ends of a
\* conflict can tie in another synchronisation, and then both ends are merged.
LEMMA SyncStepKeepsLinks ==
    ASSUME ShapeAssumption, NoneAssumption, TypeOK, TypeOK', LinkInv,
           NEW s \in Syncs, SyncStep(s)
    PROVE  LinkInv'
<1>0. /\ graph \in GraphType /\ graph' \in GraphType
      /\ sync[s] \in SyncType /\ sync'[s] \in SyncType
      /\ rows \in RowsType /\ HoldsMerged(s)
  BY DEF TypeOK, LinkInv
<1>1. ASSUME NEW p \in Policies, StartSync(s, p)
      PROVE  LinkInv'
  <2>0. sync' = [sync EXCEPT ![s] = [sync[s] EXCEPT !.pc = "read clauses", !.policy = p]]
    BY <1>1 DEF StartSync, TypeOK
  <2>1. /\ \A t \in Syncs \ {s} : sync'[t] = sync[t]
        /\ sync'[s].pc = "read clauses"
    BY <1>0, <2>0 DEF TypeOK, SyncType
  <2>2. Grows
    BY <1>1 DEF StartSync, Grows
  <2>3. ~Merged(s)'
    BY <2>1 DEF Merged
  <2> QED
    BY <2>1, <2>2, <2>3, QuietStepKeepsLinks
<1>2. CASE ReadClauses(s)
  <2>1. [sync[s] EXCEPT !.clauses = LiveClauses(sync[s].policy)] \in SyncType
    BY <1>0 DEF SyncType, LiveClauses, RowsType
  <2> QED
    BY <1>2, <2>1, ReadKeepsLinks DEF ReadClauses
<1>3. CASE ReadObligations(s)
  <2>1. [sync[s] EXCEPT !.obligations = ObligationsIn(sync[s].clauses)] \in SyncType
    BY <1>0 DEF SyncType, ObligationsIn, RowsType
  <2> QED
    BY <1>3, <2>1, ReadKeepsLinks DEF ReadObligations
<1>4. CASE ReadMappings(s)
  <2>1. [sync[s] EXCEPT !.mappings = {m \in rows.mappings : m[1] \in sync[s].obligations}]
           \in SyncType
    BY <1>0 DEF SyncType, RowsType
  <2> QED
    BY <1>4, <2>1, ReadKeepsLinks DEF ReadMappings
<1>5. CASE ReadConflicts(s)
  <2>1. [sync[s] EXCEPT !.conflicts = ConflictsOf(sync[s].obligations)] \in SyncType
    BY <1>0 DEF SyncType, ConflictsOf, RowsType
  <2> QED
    BY <1>5, <2>1, ReadKeepsLinks DEF ReadConflicts
<1>6. CASE ReadRecommendations(s)
  <2>1. [sync[s] EXCEPT !.recommendations = rows.recommendations \cap sync[s].conflicts]
           \in SyncType
    BY <1>0 DEF SyncType, RowsType
  <2> QED
    BY <1>6, <2>1, ReadKeepsLinks DEF ReadRecommendations
<1>7. CASE MergePolicy(s) \/ MergeClauses(s)
  <2>1. /\ \A t \in Syncs \ {s} : sync'[t] = sync[t]
        /\ sync'[s].pc \in {"merge clauses", "merge obligations"}
    <3>1. CASE MergePolicy(s)
      <4>1. At(s, "merge policy") /\ sync' = [sync EXCEPT ![s].pc = "merge clauses"]
        BY <3>1 DEF MergePolicy, Merge
      <4>2. /\ \A t \in Syncs \ {s} : sync'[t] = sync[t]
            /\ sync[s].pc = "merge policy" /\ sync'[s].pc = "merge clauses"
            /\ sync'[s].obligations = sync[s].obligations
            /\ sync'[s].conflicts = sync[s].conflicts
            /\ sync'[s].unlinked = sync[s].unlinked
            /\ sync'[s].current = sync[s].current
        BY <4>1, StepEffect
      <4> QED
        BY <4>2
    <3>2. CASE MergeClauses(s)
      <4>1. At(s, "merge clauses") /\ sync' = [sync EXCEPT ![s].pc = "merge obligations"]
        BY <3>2 DEF MergeClauses, Merge
      <4>2. /\ \A t \in Syncs \ {s} : sync'[t] = sync[t]
            /\ sync[s].pc = "merge clauses" /\ sync'[s].pc = "merge obligations"
            /\ sync'[s].obligations = sync[s].obligations
            /\ sync'[s].conflicts = sync[s].conflicts
            /\ sync'[s].unlinked = sync[s].unlinked
            /\ sync'[s].current = sync[s].current
        BY <4>1, StepEffect
      <4> QED
        BY <4>2
    <3> QED
      BY <1>7, <3>1, <3>2
  <2>2. Grows
    <3>1. CASE MergePolicy(s)
      BY <1>0, <3>1 DEF MergePolicy, Merge, Grows, GraphType
    <3>2. CASE MergeClauses(s)
      BY <1>0, <3>2 DEF MergeClauses, Merge, Grows, GraphType
    <3> QED
      BY <1>7, <3>1, <3>2
  <2>3. ~Merged(s)'
    BY <2>1 DEF Merged
  <2> QED
    BY <2>1, <2>2, <2>3, QuietStepKeepsLinks
<1>8. CASE MergeObligations(s)
  <2>1. /\ \A t \in Syncs \ {s} : sync'[t] = sync[t]
        /\ sync'[s].pc = "merge regulations"
        /\ sync'[s].obligations = sync[s].obligations
    <3>1. At(s, "merge obligations") /\ sync' = [sync EXCEPT ![s].pc = "merge regulations"]
      BY <1>8 DEF MergeObligations, Merge
    <3>2. /\ \A t \in Syncs \ {s} : sync'[t] = sync[t]
          /\ sync[s].pc = "merge obligations" /\ sync'[s].pc = "merge regulations"
          /\ sync'[s].obligations = sync[s].obligations
          /\ sync'[s].conflicts = sync[s].conflicts
          /\ sync'[s].unlinked = sync[s].unlinked
          /\ sync'[s].current = sync[s].current
      BY <3>1, StepEffect
    <3> QED
      BY <3>1, <3>2
  <2>2. Grows /\ sync[s].obligations \subseteq graph'.obligations
    BY <1>0, <1>8 DEF MergeObligations, Merge, Grows, GraphType
  <2> QED
    BY <2>1, <2>2, QuietStepKeepsLinks
<1>9. CASE MergeRegulations(s)
  <2>1. /\ \A t \in Syncs \ {s} : sync'[t] = sync[t]
        /\ sync[s].pc = "merge regulations" /\ sync'[s].pc = "merge findings"
        /\ sync'[s].obligations = sync[s].obligations
    <3>1. At(s, "merge regulations") /\ sync' = [sync EXCEPT ![s].pc = "merge findings"]
      BY <1>9 DEF MergeRegulations, Merge
    <3>2. /\ \A t \in Syncs \ {s} : sync'[t] = sync[t]
          /\ sync[s].pc = "merge regulations" /\ sync'[s].pc = "merge findings"
          /\ sync'[s].obligations = sync[s].obligations
          /\ sync'[s].conflicts = sync[s].conflicts
          /\ sync'[s].unlinked = sync[s].unlinked
          /\ sync'[s].current = sync[s].current
      BY <3>1, StepEffect
    <3> QED
      BY <3>1, <3>2
  <2>2. Grows
    BY <1>0, <1>9 DEF MergeRegulations, Merge, Grows, GraphType
  <2>3. sync[s].obligations \subseteq graph.obligations
    BY <1>0, <2>1 DEF HoldsMerged, Merged
  <2> QED
    BY <2>1, <2>2, <2>3, QuietStepKeepsLinks DEF Grows
<1>10. CASE MergeFindings(s)
  <2>1. /\ \A t \in Syncs \ {s} : sync'[t] = sync[t]
        /\ sync[s].pc = "merge findings" /\ sync'[s].pc = "link source"
        /\ sync'[s].obligations = sync[s].obligations
        /\ sync'[s].conflicts = sync[s].conflicts /\ sync'[s].unlinked = sync[s].conflicts
    <3>1. /\ At(s, "merge findings")
          /\ sync' = [sync EXCEPT ![s] = [sync[s] EXCEPT !.unlinked = sync[s].conflicts,
                                                         !.pc = "link source"]]
      BY <1>10 DEF MergeFindings, TypeOK
    <3> QED
      BY <1>0, <3>1 DEF At, TypeOK, SyncType
  <2>2. Grows /\ sync[s].conflicts \subseteq graph'.findings
    BY <1>0, <1>10 DEF MergeFindings, Grows, GraphType
  <2>3. sync[s].obligations \subseteq graph.obligations
    BY <1>0, <2>1 DEF HoldsMerged, Merged
  <2>4. Visited(s)' = {}
    BY <2>1 DEF Visited
  <2>5. HoldsMerged(s)'
    BY <2>1, <2>2, <2>3, <2>4 DEF HoldsMerged, SourceLinked, TargetLinked, Grows
  <2>6. \A c \in Conflicts : ~EndsRelated(s, c)'
    BY <2>4 DEF EndsRelated
  <2> QED
    BY <2>1, <2>2, <2>5, <2>6, StepKeepsLinks
<1>11. ASSUME NEW c \in Conflicts, LinkSource(s, c)
       PROVE  LinkInv'
  <2>1. /\ \A t \in Syncs \ {s} : sync'[t] = sync[t]
        /\ sync[s].pc = "link source" /\ sync'[s].pc = "link target"
        /\ sync'[s].obligations = sync[s].obligations
        /\ sync'[s].conflicts = sync[s].conflicts
        /\ sync'[s].unlinked = sync[s].unlinked \ {c} /\ sync'[s].current = c
        /\ c \in sync[s].unlinked
    BY <1>11 DEF LinkSource, At, TypeOK, SyncType
  <2>2. Grows /\ graph'.hasFinding = graph.hasFinding \cup FindingEdge(Source[c], c)
    BY <1>0, <1>11 DEF LinkSource, Grows, GraphType
  <2>3. /\ sync[s].obligations \subseteq graph.obligations
        /\ sync[s].conflicts \subseteq graph.findings
    BY <1>0, <2>1 DEF HoldsMerged, Merged, Linking
  <2>4. \A d \in Conflicts : d \in Visited(s)' => d \in Visited(s) \/ (d = c /\ c \in sync[s].conflicts)
    BY <2>1 DEF Visited, Linking
  <2>5. HoldsMerged(s)'
    <3>1. ASSUME NEW d \in Conflicts, SourceLinked(s, d)', Source[d] \in sync'[s].obligations
          PROVE  <<Source[d], d>> \in graph'.hasFinding
      BY <1>0, <2>1, <2>2, <2>3, <2>4, <3>1 DEF HoldsMerged, SourceLinked, FindingEdge
    <3>2. ASSUME NEW d \in Conflicts, TargetLinked(s, d)', Target[d] \in sync'[s].obligations
          PROVE  <<Target[d], d>> \in graph'.hasFinding
      BY <1>0, <2>1, <2>2, <2>4, <3>2 DEF HoldsMerged, TargetLinked
    <3> QED
      BY <2>1, <2>2, <2>3, <3>1, <3>2 DEF HoldsMerged, Grows
  <2>6. ASSUME NEW d \in Conflicts, EndsRelated(s, d)'
        PROVE  EndsRelated(s, d)
    BY <2>1, <2>4, <2>6 DEF EndsRelated
  <2> QED
    BY <2>1, <2>2, <2>5, <2>6, StepKeepsLinks
<1>12. CASE LinkTarget(s)
  <2> DEFINE c == sync[s].current
  <2>1. /\ \A t \in Syncs \ {s} : sync'[t] = sync[t]
        /\ sync[s].pc = "link target" /\ sync'[s].pc = "relate ends"
        /\ sync'[s].obligations = sync[s].obligations
        /\ sync'[s].conflicts = sync[s].conflicts
        /\ sync'[s].unlinked = sync[s].unlinked /\ sync'[s].current = c
        /\ graph' = [graph EXCEPT !.hasFinding = @ \cup FindingEdge(Target[c], c)]
    <3>1. /\ At(s, "link target") /\ sync' = [sync EXCEPT ![s].pc = "relate ends"]
          /\ graph' = [graph EXCEPT !.hasFinding = @ \cup FindingEdge(Target[c], c)]
      BY <1>12 DEF LinkTarget, Merge
    <3>2. /\ \A t \in Syncs \ {s} : sync'[t] = sync[t]
          /\ sync[s].pc = "link target" /\ sync'[s].pc = "relate ends"
          /\ sync'[s].obligations = sync[s].obligations
          /\ sync'[s].conflicts = sync[s].conflicts
          /\ sync'[s].unlinked = sync[s].unlinked
          /\ sync'[s].current = sync[s].current
      BY <3>1, StepEffect
    <3> QED
      BY <3>1, <3>2
  <2>2. Grows /\ graph'.hasFinding = graph.hasFinding \cup FindingEdge(Target[c], c)
    BY <1>0, <2>1 DEF Grows, GraphType
  <2>3. /\ sync[s].obligations \subseteq graph.obligations
        /\ sync[s].conflicts \subseteq graph.findings
    BY <1>0, <2>1 DEF HoldsMerged, Merged, Linking
  <2>4. Visited(s)' = Visited(s) /\ Visited(s) \subseteq sync[s].conflicts
    BY <2>1 DEF Visited, Linking
  <2>5. HoldsMerged(s)'
    <3>1. ASSUME NEW d \in Conflicts, SourceLinked(s, d)', Source[d] \in sync'[s].obligations
          PROVE  <<Source[d], d>> \in graph'.hasFinding
      BY <1>0, <2>1, <2>2, <2>4, <3>1 DEF HoldsMerged, SourceLinked
    <3>2. ASSUME NEW d \in Conflicts, TargetLinked(s, d)', Target[d] \in sync'[s].obligations
          PROVE  <<Target[d], d>> \in graph'.hasFinding
      BY <1>0, <2>1, <2>2, <2>3, <2>4, <3>2 DEF HoldsMerged, TargetLinked, FindingEdge
    <3> QED
      BY <2>1, <2>2, <2>3, <3>1, <3>2 DEF HoldsMerged, Grows
  <2>6. ASSUME NEW d \in Conflicts, EndsRelated(s, d)'
        PROVE  EndsRelated(s, d)
    BY <2>1, <2>4, <2>6 DEF EndsRelated
  <2> QED
    BY <2>1, <2>2, <2>5, <2>6, StepKeepsLinks
<1>13. CASE RelateEnds(s)
  <2> DEFINE c == sync[s].current
  <2>1. /\ \A t \in Syncs \ {s} : sync'[t] = sync[t]
        /\ sync[s].pc = "relate ends" /\ sync'[s].pc = "link source"
        /\ sync'[s].obligations = sync[s].obligations
        /\ sync'[s].conflicts = sync[s].conflicts
        /\ sync'[s].unlinked = sync[s].unlinked /\ sync'[s].current = c
    <3>1. At(s, "relate ends") /\ sync' = [sync EXCEPT ![s].pc = "link source"]
      BY <1>13 DEF RelateEnds, Merge
    <3>2. /\ \A t \in Syncs \ {s} : sync'[t] = sync[t]
          /\ sync[s].pc = "relate ends" /\ sync'[s].pc = "link source"
          /\ sync'[s].obligations = sync[s].obligations
          /\ sync'[s].conflicts = sync[s].conflicts
          /\ sync'[s].unlinked = sync[s].unlinked
          /\ sync'[s].current = sync[s].current
      BY <3>1, StepEffect
    <3> QED
      BY <3>1, <3>2
  <2>2. Grows /\ ({Source[c], Target[c]} \subseteq graph.obligations
                     => <<Source[c], RelType(c), Target[c]>> \in graph'.related)
    BY <1>0, <1>13 DEF RelateEnds, Merge, Grows, GraphType
  <2>3. Visited(s)' = Visited(s)
    BY <2>1 DEF Visited, Linking
  <2>4. HoldsMerged(s)'
    BY <1>0, <2>1, <2>2, <2>3
       DEF HoldsMerged, Merged, Linking, SourceLinked, TargetLinked, Grows
  <2>5. \A t \in Syncs : HoldsMerged(t)'
    BY <2>1, <2>2, <2>4, OthersKeep DEF LinkInv
  <2>6. ASSUME NEW t \in Syncs, NEW d \in Conflicts, EndsRelated(t, d)'
        PROVE  /\ d = c \/ EndsRelated(t, d)
               /\ sync'[t].obligations = sync[t].obligations
               /\ sync[t].obligations \subseteq graph.obligations
    <3>1. CASE t = s
      BY <1>0, <2>1, <2>3, <2>6, <3>1 DEF EndsRelated, HoldsMerged, Merged
    <3>2. CASE t # s
      <4>1. EndsRelated(t, d) /\ sync'[t] = sync[t]
        BY <2>1, <2>6, <3>2 DEF EndsRelated, Visited, Linking
      <4>2. Merged(t)
        BY <4>1 DEF EndsRelated, Visited, Linking, Merged
      <4> QED
        BY <4>1, <4>2 DEF LinkInv, HoldsMerged
    <3> QED
      BY <3>1, <3>2
  <2>7. ASSUME NEW t \in Syncs, NEW u \in Syncs, NEW d \in Conflicts,
               EndsRelated(t, d)', EndsRelated(u, d)',
               Source[d] \in sync'[t].obligations, Target[d] \in sync'[u].obligations
        PROVE  <<Source[d], RelType(d), Target[d]>> \in graph'.related
    <3>1. CASE d = c
      <4>1. {Source[c], Target[c]} \subseteq graph.obligations
        BY <2>6, <2>7, <3>1
      <4> QED
        BY <2>2, <3>1, <4>1
    <3>2. CASE d # c
      BY <2>2, <2>6, <2>7, <3>2 DEF LinkInv, RelatedByEither, Grows
    <3> QED
      BY <3>1, <3>2
  <2>8. \A t, u \in Syncs, d \in Conflicts : RelatedByEither(t, u, d)'
    BY <2>7 DEF RelatedByEither, RelType
  <2> QED
    BY <2>5, <2>8 DEF LinkInv
<1>14. CASE MergeRecommendations(s)
  <2>1. /\ \A t \in Syncs \ {s} : sync'[t] = sync[t]
        /\ sync[s].pc = "link source" /\ sync'[s].pc = "done"
        /\ sync'[s].obligations = sync[s].obligations
        /\ sync'[s].conflicts = sync[s].conflicts
        /\ sync'[s].unlinked = sync[s].unlinked /\ sync'[s].current = sync[s].current
        /\ sync[s].unlinked = {}
    <3>1. At(s, "link source") /\ sync' = [sync EXCEPT ![s].pc = "done"] /\ sync[s].unlinked = {}
      BY <1>14 DEF MergeRecommendations, Merge
    <3>2. /\ \A t \in Syncs \ {s} : sync'[t] = sync[t]
          /\ sync[s].pc = "link source" /\ sync'[s].pc = "done"
          /\ sync'[s].obligations = sync[s].obligations
          /\ sync'[s].conflicts = sync[s].conflicts
          /\ sync'[s].unlinked = sync[s].unlinked
          /\ sync'[s].current = sync[s].current
      BY <3>1, StepEffect
    <3> QED
      BY <3>1, <3>2
  <2>2. Grows
    BY <1>0, <1>14 DEF MergeRecommendations, Merge, Grows, GraphType
  <2>3. Visited(s)' = Visited(s)
    BY <2>1 DEF Visited, Linking
  <2>4. HoldsMerged(s)'
    BY <1>0, <2>1, <2>2, <2>3
       DEF HoldsMerged, Merged, Linking, SourceLinked, TargetLinked, Grows
  <2>5. ASSUME NEW d \in Conflicts, EndsRelated(s, d)'
        PROVE  EndsRelated(s, d)
    BY <2>1, <2>3, <2>5 DEF EndsRelated
  <2> QED
    BY <2>1, <2>2, <2>4, <2>5, StepKeepsLinks
<1>15. CASE FailSync(s)
  <2>0. sync' = [sync EXCEPT ![s].pc = "failed"] /\ At(s, sync[s].pc)
    BY <1>15 DEF FailSync, At
  <2>1. /\ \A t \in Syncs \ {s} : sync'[t] = sync[t]
        /\ sync'[s].pc = "failed"
    BY <2>0, StepEffect
  <2>2. Grows
    BY <1>15 DEF FailSync, Grows
  <2>3. ~Merged(s)'
    BY <2>1 DEF Merged
  <2> QED
    BY <2>1, <2>2, <2>3, QuietStepKeepsLinks
<1> QED
  BY <1>1, <1>2, <1>3, <1>4, <1>5, <1>6, <1>7, <1>8, <1>9, <1>10, <1>11, <1>12, <1>13,
     <1>14, <1>15 DEF SyncStep

\* The invariant is strong enough.
LEMMA LinksImplyBothEnds == TypeOK /\ LinkInv => BothEndsLinked
<1> SUFFICES ASSUME TypeOK, LinkInv,
                    NEW s \in Syncs, NEW t \in Syncs,
                    NEW c \in sync[s].conflicts \cap sync[t].conflicts,
                    sync[s].pc = "done", sync[t].pc = "done",
                    Source[c] \in sync[s].obligations, Target[c] \in sync[t].obligations
             PROVE  /\ {<<Source[c], c>>, <<Target[c], c>>} \subseteq graph.hasFinding
                    /\ <<Source[c], RelType(c), Target[c]>> \in graph.related
  BY DEF BothEndsLinked
<1>1. c \in Conflicts
  BY DEF TypeOK, SyncType
<1>2. sync[s].unlinked = {} /\ sync[t].unlinked = {}
  BY DEF LinkInv, HoldsMerged
<1>3. /\ SourceLinked(s, c) /\ EndsRelated(s, c)
      /\ TargetLinked(t, c) /\ EndsRelated(t, c)
  BY <1>2 DEF SourceLinked, TargetLinked, EndsRelated, Visited, Linking
<1> QED
  BY <1>1, <1>3 DEF LinkInv, HoldsMerged, RelatedByEither

\* BothEndsLinked: however the synchronisations of two policies overlap, a
\* conflict both have read ends up linked on both sides and related.
THEOREM ConflictsAreLinkedOnBothSides ==
    ASSUME ShapeAssumption, NoneAssumption
    PROVE  Spec => []BothEndsLinked
<1>1. Init => LinkInv
  BY InitLinks
<1>2. TypeOK /\ TypeOK' /\ LinkInv /\ [Next]_vars => LinkInv'
  <2> SUFFICES ASSUME TypeOK, TypeOK', LinkInv, [Next]_vars
               PROVE  LinkInv'
    OBVIOUS
  <2>1. CASE UNCHANGED vars
    BY <2>1, LinksAreOfGraph DEF vars
  <2>2. CASE Next
    BY <2>2, RowStepKeepsLinks, SyncStepKeepsLinks DEF Next
  <2> QED
    BY <2>1, <2>2
<1>3. TypeOK /\ LinkInv => BothEndsLinked
  BY LinksImplyBothEnds
<1> QED
  BY <1>1, <1>2, <1>3, TypesHold, PTL DEF Spec

-----------------------------------------------------------------------------
(* The graph and the rows. *)

\* What a synchronisation has read ...
WriteStages ==
    {"merge policy", "merge clauses", "merge obligations", "merge regulations",
     "merge findings", "link source", "link target", "relate ends", "done"}
HasRecommendations(s) == sync[s].pc \in WriteStages
HasConflicts(s) == HasRecommendations(s) \/ sync[s].pc = "read recommendations"
HasMappings(s) == HasConflicts(s) \/ sync[s].pc = "read conflicts"
HasObligations(s) == HasMappings(s) \/ sync[s].pc = "read mappings"
HasClauses(s) == HasObligations(s) \/ sync[s].pc = "read obligations"

\* ... and what else it has merged by now.
MergedPolicy(s) == sync[s].pc \in WriteStages \ {"merge policy"}
MergedClauses(s) == MergedPolicy(s) /\ sync[s].pc # "merge clauses"
MergedMappings(s) == Linking(s) \/ sync[s].pc = "merge findings"

\* Rows belong together, and what is deleted or withdrawn is on record.
RowsFit ==
    /\ \A o \in rows.obligations : ClauseOf[o] \in rows.clauses
    /\ \A m \in rows.mappings : m[1] \in rows.obligations
    /\ \A c \in rows.conflicts : Ends(c) \subseteq rows.obligations
    /\ rows.recommendations \subseteq rows.conflicts
    /\ \A c \in Clauses \cap rows.deleted : PolicyOf[c] \in retracted

\* Nothing is in the graph that was not in the rows, and mappings are in the
\* rows still unless something of their policy was withdrawn.
GraphIsOfRows ==
    /\ \A e \in graph.hasClause : e[2] \in rows.clauses /\ PolicyOf[e[2]] = e[1]
    /\ \A e \in graph.hasObligation : e[2] \in rows.obligations /\ e[1] = ClauseOf[e[2]]
    /\ \A e \in graph.mapsTo :
          e \in rows.mappings \/ PolicyOfObligation(e[1]) \in retracted
    /\ \A e \in graph.hasFinding : e[2] \in rows.conflicts /\ e[1] \in Ends(e[2])
    /\ graph.hasRecommendation \subseteq rows.recommendations
    /\ \A e \in graph.related :
          \E c \in rows.conflicts : e[1] = Source[c] /\ e[3] = Target[c]

\* The same of what a synchronisation carries from its queries to its statements.
ReadIsOfRows(s) ==
    /\ HasClauses(s) =>
         \A c \in sync[s].clauses : c \in rows.clauses /\ PolicyOf[c] = sync[s].policy
    /\ HasObligations(s) =>
         \A o \in sync[s].obligations : o \in rows.obligations /\ ClauseOf[o] \in sync[s].clauses
    /\ HasMappings(s) =>
         \A m \in sync[s].mappings :
            /\ m[1] \in sync[s].obligations
            /\ m \in rows.mappings \/ PolicyOfObligation(m[1]) \in retracted
    /\ HasConflicts(s) => sync[s].conflicts \subseteq rows.conflicts
    /\ HasRecommendations(s) =>
         sync[s].recommendations \subseteq rows.recommendations \cap sync[s].conflicts
    /\ Linking(s) => sync[s].unlinked \subseteq sync[s].conflicts
    /\ sync[s].pc \in {"link target", "relate ends"} => sync[s].current \in sync[s].conflicts

\* While no row of its policy changes, what it has read is what there is.
ReadIsCurrent(s) ==
    /\ HasClauses(s) => sync[s].clauses = LiveClauses(sync[s].policy)
    /\ HasObligations(s) => sync[s].obligations = SqlObligations(sync[s].policy)
    /\ HasMappings(s) =>
         sync[s].mappings = {m \in rows.mappings : m[1] \in sync[s].obligations}
    /\ HasConflicts(s) => sync[s].conflicts = ConflictsOf(sync[s].obligations)
    /\ HasRecommendations(s) =>
         sync[s].recommendations = rows.recommendations \cap sync[s].conflicts

\* The graph holds all it has merged (findings are in HoldsMerged).
GraphHolds(s) ==
    /\ MergedPolicy(s) => sync[s].policy \in graph.policies
    /\ MergedClauses(s) =>
         /\ sync[s].clauses \subseteq graph.clauses
         /\ {sync[s].policy} \X sync[s].clauses \subseteq graph.hasClause
    /\ Merged(s) => \A o \in sync[s].obligations : <<ClauseOf[o], o>> \in graph.hasObligation
    /\ MergedMappings(s) =>
         \A m \in sync[s].mappings : m[2] # None => m \in graph.mapsTo
    /\ sync[s].pc = "done" => sync[s].recommendations \subseteq graph.hasRecommendation

AgreeInv ==
    /\ RowsFit /\ GraphIsOfRows
    /\ \A s \in Syncs : ReadIsOfRows(s) /\ GraphHolds(s)
    /\ \A s \in Syncs \ changed : ReadIsCurrent(s)

\* Rows are only added, but for mappings and deletions, which are on record.
RowsKept ==
    /\ rows.clauses \subseteq rows'.clauses /\ rows.obligations \subseteq rows'.obligations
    /\ rows.conflicts \subseteq rows'.conflicts
    /\ rows.recommendations \subseteq rows'.recommendations
    /\ retracted \subseteq retracted'
    /\ \A m \in rows.mappings :
          m \in rows'.mappings \/ PolicyOfObligation(m[1]) \in retracted'

\* No row of p changes.
SameOf(p) ==
    /\ \A c \in Clauses : PolicyOf[c] = p =>
          (c \in rows'.clauses \ rows'.deleted <=> c \in rows.clauses \ rows.deleted)
    /\ \A o \in Obligations : PolicyOfObligation(o) = p =>
          (o \in rows'.obligations <=> o \in rows.obligations)
    /\ \A m \in Obligations \X (Regulations \cup {None}) : PolicyOfObligation(m[1]) = p =>
          (m \in rows'.mappings <=> m \in rows.mappings)
    /\ \A c \in Conflicts : p \in PoliciesOf(c) =>
          /\ c \in rows'.conflicts <=> c \in rows.conflicts
          /\ c \in rows'.recommendations <=> c \in rows.recommendations

\* What an operation on the rows does to them, as far as synchronisations care.
RowsChange ==
    /\ RowsFit' /\ RowsKept /\ UNCHANGED <<graph, sync>>
    /\ changed \subseteq changed'
    /\ \A s \in Syncs \ changed' : SameOf(sync[s].policy)

\* It is enough to see that rows of other policies than those named stay.
LEMMA RowsOfChange ==
    ASSUME TypeOK, NEW P, NEW newRows, NEW withdrawn \in BOOLEAN,
           RowsOf(P, newRows, withdrawn), RowsFit', RowsKept,
           \A q : q \notin P => SameOf(q)
    PROVE  RowsChange
<1>1. /\ UNCHANGED <<graph, sync>>
      /\ changed' = changed \cup {s \in Syncs : sync[s].policy \in P}
  BY DEF RowsOf
<1> QED
  BY <1>1 DEF RowsChange

\* Every operation on rows is such a change.
LEMMA RowStepChange ==
    ASSUME ShapeAssumption, DisjointAssumption, TypeOK, RowsFit, RowStep
    PROVE  RowsChange
<1> USE DEF ShapeAssumption, RowsFit, RowsKept, SameOf, PolicyOfObligation
<1>0. rows \in RowsType
  BY DEF TypeOK
<1>1. ASSUME NEW p \in Policies, NEW C \in SUBSET Clauses, StorePolicy(p, C)
      PROVE  RowsChange
  <2>1. /\ rows' = [rows EXCEPT !.policies = @ \cup {p}, !.clauses = @ \cup C]
        /\ retracted' = retracted /\ \A c \in C : PolicyOf[c] = p
    BY <1>1 DEF StorePolicy, RowsOf
  <2>2. /\ rows'.clauses = rows.clauses \cup C /\ rows'.deleted = rows.deleted
        /\ rows'.obligations = rows.obligations /\ rows'.mappings = rows.mappings
        /\ rows'.conflicts = rows.conflicts
        /\ rows'.recommendations = rows.recommendations
    BY <1>0, <2>1 DEF RowsType
  <2>3. RowsFit' /\ RowsKept
    BY <2>1, <2>2 DEF Ends
  <2>4. \A q : q \notin {p} => SameOf(q)
    BY <2>1, <2>2
  <2> HIDE DEF RowsFit, RowsKept, SameOf
  <2> QED
    BY <1>1, <2>3, <2>4, RowsOfChange DEF StorePolicy
<1>2. ASSUME NEW p \in Policies, NEW C \in SUBSET Clauses, Resegment(p, C)
      PROVE  RowsChange
  <2>1. /\ rows' = [rows EXCEPT !.clauses = @ \cup C, !.deleted = @ \cup LiveClauses(p)]
        /\ retracted' = retracted \cup {p} /\ \A c \in C : PolicyOf[c] = p
    BY <1>2 DEF Resegment, RowsOf
  <2>2. /\ rows'.clauses = rows.clauses \cup C
        /\ rows'.deleted = rows.deleted \cup LiveClauses(p)
        /\ rows'.obligations = rows.obligations /\ rows'.mappings = rows.mappings
        /\ rows'.conflicts = rows.conflicts
        /\ rows'.recommendations = rows.recommendations
    BY <1>0, <2>1 DEF RowsType
  <2>3. \A c \in LiveClauses(p) : PolicyOf[c] = p
    BY DEF LiveClauses
  <2>4. RowsFit' /\ RowsKept
    BY <2>1, <2>2, <2>3 DEF Ends
  <2>5. \A q : q \notin {p} => SameOf(q)
    BY <2>1, <2>2, <2>3
  <2>6. RowsOf({p}, [rows EXCEPT !.clauses = @ \cup C, !.deleted = @ \cup LiveClauses(p)],
               TRUE)
    BY <1>2 DEF Resegment
  <2> HIDE DEF RowsFit, RowsKept, SameOf
  <2> QED
    BY <2>4, <2>5, <2>6, RowsOfChange
<1>3. ASSUME NEW p \in Policies, DeletePolicy(p)
      PROVE  RowsChange
  <2>1. /\ rows' = [rows EXCEPT !.deleted = @ \cup {p} \cup LiveClauses(p)]
        /\ retracted' = retracted \cup {p} /\ p \notin Clauses
    BY <1>3, DisjointAssumption DEF DeletePolicy, RowsOf, DisjointAssumption
  <2>2. /\ rows'.clauses = rows.clauses
        /\ rows'.deleted = rows.deleted \cup {p} \cup LiveClauses(p)
        /\ rows'.obligations = rows.obligations /\ rows'.mappings = rows.mappings
        /\ rows'.conflicts = rows.conflicts
        /\ rows'.recommendations = rows.recommendations
    BY <1>0, <2>1 DEF RowsType
  <2>3. \A c \in LiveClauses(p) : PolicyOf[c] = p
    BY DEF LiveClauses
  <2>4. RowsFit' /\ RowsKept
    BY <2>1, <2>2, <2>3 DEF Ends
  <2>5. \A q : q \notin {p} => SameOf(q)
    BY <2>1, <2>2, <2>3
  <2> HIDE DEF RowsFit, RowsKept, SameOf
  <2> QED
    BY <1>3, <2>4, <2>5, RowsOfChange DEF DeletePolicy
<1>4. ASSUME NEW o \in Obligations, NEW M \in AtMostOne(Regulations \cup {None}),
             StoreObligation(o, M)
      PROVE  RowsChange
  <2>1. /\ rows' = [rows EXCEPT !.obligations = @ \cup {o}, !.mappings = @ \cup ({o} \X M)]
        /\ retracted' = retracted /\ ClauseOf[o] \in rows.clauses
    BY <1>4 DEF StoreObligation, RowsOf
  <2>2. /\ rows'.clauses = rows.clauses /\ rows'.deleted = rows.deleted
        /\ rows'.obligations = rows.obligations \cup {o}
        /\ rows'.mappings = rows.mappings \cup ({o} \X M)
        /\ rows'.conflicts = rows.conflicts
        /\ rows'.recommendations = rows.recommendations
    BY <1>0, <2>1 DEF RowsType
  <2>3. \A m \in {o} \X M : m[1] = o
    OBVIOUS
  <2>4. RowsFit' /\ RowsKept
    BY <2>1, <2>2, <2>3 DEF Ends
  <2>5. \A q : q \notin {PolicyOfObligation(o)} => SameOf(q)
    BY <2>1, <2>2, <2>3
  <2> HIDE DEF RowsFit, RowsKept, SameOf
  <2> QED
    BY <1>4, <2>4, <2>5, RowsOfChange DEF StoreObligation
<1>5. ASSUME NEW o \in Obligations, NEW r \in Regulations \cup {None}, Remap(o, r)
      PROVE  RowsChange
  <2>1. /\ rows' = [rows EXCEPT !.mappings = {m \in @ : m[1] # o} \cup {<<o, r>>}]
        /\ retracted' = retracted \cup {PolicyOfObligation(o)} /\ o \in rows.obligations
    BY <1>5 DEF Remap, RowsOf
  <2>2. /\ rows'.clauses = rows.clauses /\ rows'.deleted = rows.deleted
        /\ rows'.obligations = rows.obligations
        /\ rows'.mappings = {m \in rows.mappings : m[1] # o} \cup {<<o, r>>}
        /\ rows'.conflicts = rows.conflicts
        /\ rows'.recommendations = rows.recommendations
    BY <1>0, <2>1 DEF RowsType
  <2>3. <<o, r>>[1] = o
    OBVIOUS
  <2>4. RowsFit' /\ RowsKept
    BY <2>1, <2>2, <2>3 DEF Ends
  <2>5. \A q : q \notin {PolicyOfObligation(o)} => SameOf(q)
    BY <2>1, <2>2, <2>3
  <2> HIDE DEF RowsFit, RowsKept, SameOf
  <2> QED
    BY <1>5, <2>4, <2>5, RowsOfChange DEF Remap
<1>6. ASSUME NEW c \in Conflicts, NEW R \in SUBSET {c}, StoreConflict(c, R)
      PROVE  RowsChange
  <2>1. /\ rows' = [rows EXCEPT !.conflicts = @ \cup {c}, !.recommendations = @ \cup R]
        /\ retracted' = retracted /\ Ends(c) \subseteq rows.obligations
    BY <1>6 DEF StoreConflict, RowsOf
  <2>2. /\ rows'.clauses = rows.clauses /\ rows'.deleted = rows.deleted
        /\ rows'.obligations = rows.obligations /\ rows'.mappings = rows.mappings
        /\ rows'.conflicts = rows.conflicts \cup {c}
        /\ rows'.recommendations = rows.recommendations \cup R
    BY <1>0, <2>1 DEF RowsType
  <2>3. RowsFit' /\ RowsKept
    BY <2>1, <2>2 DEF Ends
  <2>4. \A q : q \notin PoliciesOf(c) => SameOf(q)
    BY <2>1, <2>2
  <2> HIDE DEF RowsFit, RowsKept, SameOf
  <2> QED
    BY <1>6, <2>3, <2>4, RowsOfChange DEF StoreConflict
<1> QED
  BY <1>1, <1>2, <1>3, <1>4, <1>5, <1>6 DEF RowStep

\* An operation on the rows keeps the invariant: of the policies it names no
\* synchronisation claims to be current any more.
LEMMA RowStepAgrees ==
    ASSUME ShapeAssumption, DisjointAssumption, TypeOK, TypeOK', AgreeInv, RowStep
    PROVE  AgreeInv'
<1>1. RowsChange
  BY RowStepChange DEF AgreeInv
<1>2. RowsFit' /\ RowsKept /\ UNCHANGED <<graph, sync>>
  BY <1>1 DEF RowsChange
<1>3. GraphIsOfRows'
  BY <1>2 DEF AgreeInv, GraphIsOfRows, RowsKept
<1>4. ASSUME NEW s \in Syncs PROVE ReadIsOfRows(s)'
  <2>1. ReadIsOfRows(s)
    BY DEF AgreeInv
  <2> QED
    BY <1>2, <2>1 DEF ReadIsOfRows, RowsKept, HasRecommendations, HasConflicts, HasMappings,
       HasObligations, HasClauses, Linking
<1>5. ASSUME NEW s \in Syncs PROVE GraphHolds(s)'
  <2>1. GraphHolds(s)
    BY DEF AgreeInv
  <2> QED
    BY <1>2, <2>1 DEF GraphHolds, MergedPolicy, MergedClauses, Merged, MergedMappings, Linking
<1>6. ASSUME NEW s \in Syncs \ changed' PROVE ReadIsCurrent(s)'
  <2> DEFINE p == sync[s].policy
  <2>1. ReadIsCurrent(s) /\ ReadIsOfRows(s) /\ SameOf(p) /\ sync' = sync
    BY <1>1, <1>2 DEF RowsChange, AgreeInv
  <2>2. rows \in RowsType /\ rows' \in RowsType /\ sync[s] \in SyncType
    BY DEF TypeOK
  <2>3. LiveClauses(p)' = LiveClauses(p)
    BY <2>1, <2>2 DEF SameOf, LiveClauses, RowsType
  <2>4. SqlObligations(p)' = SqlObligations(p)
    <3>1. \A o \in Obligations : ClauseOf[o] \in LiveClauses(p) => PolicyOfObligation(o) = p
      BY DEF LiveClauses, PolicyOfObligation
    <3> QED
      BY <2>1, <2>2, <2>3, <3>1 DEF SqlObligations, ObligationsIn, SameOf, RowsType
  <2>5. ASSUME HasObligations(s)
        PROVE  \A o \in sync[s].obligations : o \in Obligations /\ PolicyOfObligation(o) = p
    BY <2>1, <2>2, <2>5 DEF ReadIsOfRows, HasClauses, PolicyOfObligation, SyncType
  <2>6. ASSUME HasObligations(s)
        PROVE  {m \in rows'.mappings : m[1] \in sync[s].obligations}
                  = {m \in rows.mappings : m[1] \in sync[s].obligations}
    BY <2>1, <2>2, <2>5, <2>6 DEF SameOf, RowsType
  <2>7. ASSUME HasObligations(s), NEW c \in Conflicts, Ends(c) \cap sync[s].obligations # {}
        PROVE  p \in PoliciesOf(c)
    BY <2>5, <2>7 DEF PoliciesOf
  <2>8. ASSUME HasObligations(s)
        PROVE  ConflictsOf(sync[s].obligations)' = ConflictsOf(sync[s].obligations)
    BY <2>1, <2>2, <2>7, <2>8 DEF ConflictsOf, SameOf, RowsType
  <2>9. ASSUME HasConflicts(s)
        PROVE  rows'.recommendations \cap sync[s].conflicts
                  = rows.recommendations \cap sync[s].conflicts
    <3>1. \A c \in sync[s].conflicts : c \in Conflicts /\ p \in PoliciesOf(c)
      BY <2>1, <2>2, <2>7, <2>9
         DEF ReadIsCurrent, ConflictsOf, HasObligations, HasMappings, SyncType
    <3> QED
      BY <2>1, <2>2, <3>1 DEF SameOf
  <2>10. /\ HasRecommendations(s)' = HasRecommendations(s) /\ HasConflicts(s)' = HasConflicts(s)
         /\ HasMappings(s)' = HasMappings(s) /\ HasObligations(s)' = HasObligations(s)
         /\ HasClauses(s)' = HasClauses(s)
    BY <2>1 DEF HasRecommendations, HasConflicts, HasMappings, HasObligations, HasClauses
  <2>11. /\ HasMappings(s) => HasObligations(s)
         /\ HasConflicts(s) => HasObligations(s)
         /\ HasRecommendations(s) => HasConflicts(s)
    BY DEF HasConflicts, HasMappings, HasObligations
  <2> QED
    BY <2>1, <2>3, <2>4, <2>6, <2>8, <2>9, <2>10, <2>11 DEF ReadIsCurrent
<1>7. changed \subseteq changed'
  BY <1>1 DEF RowsChange
<1> QED
  BY <1>2, <1>3, <1>4, <1>5, <1>6 DEF AgreeInv

\* The relations of the graph only grow.
GraphGrows ==
    /\ graph.policies \subseteq graph'.policies /\ graph.clauses \subseteq graph'.clauses
    /\ graph.hasClause \subseteq graph'.hasClause
    /\ graph.hasObligation \subseteq graph'.hasObligation
    /\ graph.mapsTo \subseteq graph'.mapsTo
    /\ graph.hasRecommendation \subseteq graph'.hasRecommendation

\* The same rows answer a query alike.
LEMMA SameRows ==
    ASSUME rows' = rows
    PROVE  /\ \A p : LiveClauses(p)' = LiveClauses(p)
           /\ \A p : SqlObligations(p)' = SqlObligations(p)
           /\ \A O : ConflictsOf(O)' = ConflictsOf(O)
BY DEF LiveClauses, SqlObligations, ObligationsIn, ConflictsOf

\* A step of s keeps the invariant if it keeps what is said of s and of the graph.
LEMMA SyncStepFrame ==
    ASSUME AgreeInv, NEW s \in Syncs, UNCHANGED <<rows, changed, retracted>>,
           \A t \in Syncs \ {s} : sync'[t] = sync[t], GraphGrows, GraphIsOfRows',
           ReadIsOfRows(s)', GraphHolds(s)', s \notin changed => ReadIsCurrent(s)'
    PROVE  AgreeInv'
<1>1. RowsFit'
  BY DEF AgreeInv, RowsFit
<1>2. ASSUME NEW t \in Syncs, t # s PROVE ReadIsOfRows(t)'
  <2>1. ReadIsOfRows(t) /\ sync'[t] = sync[t]
    BY <1>2 DEF AgreeInv
  <2> QED
    BY <2>1 DEF ReadIsOfRows, HasRecommendations, HasConflicts, HasMappings, HasObligations,
       HasClauses, Linking
<1>3. ASSUME NEW t \in Syncs, t # s PROVE GraphHolds(t)'
  <2>1. GraphHolds(t) /\ sync'[t] = sync[t]
    BY <1>3 DEF AgreeInv
  <2> QED
    BY <2>1 DEF GraphHolds, GraphGrows, MergedPolicy, MergedClauses, Merged, MergedMappings,
       Linking
<1>4. ASSUME NEW t \in Syncs \ changed', t # s PROVE ReadIsCurrent(t)'
  <2>1. ReadIsCurrent(t) /\ sync'[t] = sync[t]
    BY <1>4 DEF AgreeInv
  <2> QED
    BY <2>1, SameRows DEF ReadIsCurrent, HasRecommendations, HasConflicts, HasMappings,
       HasObligations, HasClauses
<1> QED
  BY <1>1, <1>2, <1>3, <1>4 DEF AgreeInv

\* A query changes one field of what s has read, and the graph not at all.
LEMMA ReadAgrees ==
    ASSUME TypeOK, AgreeInv, NEW s \in Syncs, NEW pc, NEW next, NEW read,
           Read(s, pc, next, read), next \notin WriteStages \ {"merge policy"},
           ReadIsOfRows(s)', s \notin changed => ReadIsCurrent(s)',
           sync'[s].pc = next
    PROVE  AgreeInv'
<1>1. /\ UNCHANGED <<rows, changed, retracted, graph>>
      /\ \A t \in Syncs \ {s} : sync'[t] = sync[t]
  BY DEF Read, TypeOK
<1>2. GraphGrows /\ GraphIsOfRows'
  BY <1>1 DEF GraphGrows, AgreeInv, GraphIsOfRows
<1>3. GraphHolds(s)'
  BY DEF GraphHolds, MergedPolicy, MergedClauses, Merged, MergedMappings, Linking, WriteStages
<1> QED
  BY <1>1, <1>2, <1>3, SyncStepFrame

\* What moving s on to its next stage leaves as it was.
LEMMA MergeEffect ==
    ASSUME TypeOK, NEW s \in Syncs, NEW pc, NEW next, NEW newGraph,
           Merge(s, pc, next, newGraph)
    PROVE  /\ \A t \in Syncs \ {s} : sync'[t] = sync[t]
           /\ sync[s].pc = pc /\ sync'[s].pc = next
           /\ sync'[s].policy = sync[s].policy /\ sync'[s].clauses = sync[s].clauses
           /\ sync'[s].obligations = sync[s].obligations
           /\ sync'[s].mappings = sync[s].mappings
           /\ sync'[s].conflicts = sync[s].conflicts
           /\ sync'[s].recommendations = sync[s].recommendations
           /\ sync'[s].unlinked = sync[s].unlinked /\ sync'[s].current = sync[s].current
           /\ graph' = newGraph /\ UNCHANGED <<rows, changed, retracted>>
BY DEF TypeOK, SyncType, At, Merge

\* A statement that moves s from one stage of writing to another keeps what is
\* said of what s has read.
LEMMA MergeAgrees ==
    ASSUME TypeOK, AgreeInv, NEW s \in Syncs, NEW pc \in WriteStages, NEW next \in WriteStages,
           NEW newGraph, Merge(s, pc, next, newGraph),
           next \in {"link source", "link target", "relate ends", "done"}
             => pc \in {"link source", "link target", "relate ends", "done"},
           next \in {"link target", "relate ends"} => pc \in {"link target", "relate ends"},
           GraphGrows, GraphIsOfRows', GraphHolds(s)'
    PROVE  AgreeInv'
<1>1. /\ \A t \in Syncs \ {s} : sync'[t] = sync[t]
      /\ sync[s].pc = pc /\ sync'[s].pc = next
      /\ sync'[s].policy = sync[s].policy /\ sync'[s].clauses = sync[s].clauses
      /\ sync'[s].obligations = sync[s].obligations
      /\ sync'[s].mappings = sync[s].mappings
      /\ sync'[s].conflicts = sync[s].conflicts
      /\ sync'[s].recommendations = sync[s].recommendations
      /\ sync'[s].unlinked = sync[s].unlinked /\ sync'[s].current = sync[s].current
      /\ UNCHANGED <<rows, changed, retracted>>
  BY DEF TypeOK, SyncType, At, Merge
<1>2. ReadIsOfRows(s)'
  <2>1. ReadIsOfRows(s)
    BY DEF AgreeInv
  <2> QED
    BY <1>1, <2>1 DEF ReadIsOfRows, HasRecommendations, HasConflicts, HasMappings,
       HasObligations, HasClauses, Linking
<1>3. s \notin changed => ReadIsCurrent(s)'
  <2>1. s \notin changed => ReadIsCurrent(s)
    BY DEF AgreeInv
  <2> QED
    BY <1>1, <2>1, SameRows DEF ReadIsCurrent, HasRecommendations, HasConflicts, HasMappings,
       HasObligations, HasClauses
<1> QED
  BY <1>1, <1>2, <1>3, SyncStepFrame

\* A step of a synchronisation keeps the invariant: it reads what is there and
\* writes what it has read.
LEMMA SyncStepAgrees ==
    ASSUME ShapeAssumption, NoneAssumption, TypeOK, TypeOK', LinkInv, AgreeInv,
           NEW s \in Syncs, SyncStep(s)
    PROVE  AgreeInv'
<1>0. /\ graph \in GraphType /\ rows \in RowsType /\ sync[s] \in SyncType
      /\ RowsFit /\ GraphIsOfRows /\ ReadIsOfRows(s) /\ GraphHolds(s)
  BY DEF TypeOK, AgreeInv
<1>c. s \notin changed => ReadIsCurrent(s)
  BY DEF AgreeInv
<1>s. /\ \A p : LiveClauses(p) = {c \in rows.clauses \ rows.deleted : PolicyOf[c] = p}
      /\ \A O : ConflictsOf(O) = {c \in rows.conflicts : Ends(c) \cap O # {}}
  BY DEF LiveClauses, ConflictsOf
<1>1. CASE (\E p \in Policies : StartSync(s, p)) \/ FailSync(s)
  <2>1. /\ \A t \in Syncs \ {s} : sync'[t] = sync[t]
        /\ sync'[s].pc \in {"read clauses", "failed"}
        /\ UNCHANGED <<rows, graph, changed, retracted>>
    <3>1. ASSUME NEW p \in Policies, StartSync(s, p)
          PROVE  /\ \A t \in Syncs \ {s} : sync'[t] = sync[t]
                 /\ sync'[s].pc = "read clauses"
                 /\ UNCHANGED <<rows, graph, changed, retracted>>
      BY <1>0, <3>1 DEF StartSync, TypeOK, SyncType
    <3>2. ASSUME FailSync(s)
          PROVE  /\ \A t \in Syncs \ {s} : sync'[t] = sync[t]
                 /\ sync'[s].pc = "failed"
                 /\ UNCHANGED <<rows, graph, changed, retracted>>
      BY <1>0, <3>2 DEF FailSync, TypeOK, SyncType
    <3> QED
      BY <1>1, <3>1, <3>2
  <2>2. ReadIsOfRows(s)' /\ ReadIsCurrent(s)' /\ GraphHolds(s)'
    BY <2>1 DEF ReadIsOfRows, ReadIsCurrent, GraphHolds, HasRecommendations, HasConflicts,
       HasMappings, HasObligations, HasClauses, Linking, MergedPolicy, MergedClauses, Merged,
       MergedMappings, WriteStages
  <2>3. GraphGrows /\ GraphIsOfRows'
    BY <1>0, <2>1 DEF GraphGrows, GraphIsOfRows
  <2> QED
    BY <2>1, <2>2, <2>3, SyncStepFrame
<1>2. CASE ReadClauses(s)
  <2> DEFINE next == IF LiveClauses(sync[s].policy) = {} THEN "nothing to do"
                     ELSE "read obligations"
             read == [sync[s] EXCEPT !.clauses = LiveClauses(sync[s].policy)]
  <2>1. /\ sync[s].pc = "read clauses" /\ sync'[s].pc \in {"nothing to do", "read obligations"}
        /\ sync'[s].clauses = LiveClauses(sync[s].policy)
        /\ sync'[s].policy = sync[s].policy /\ sync'[s].obligations = sync[s].obligations
        /\ sync'[s].mappings = sync[s].mappings /\ sync'[s].conflicts = sync[s].conflicts
        /\ sync'[s].recommendations = sync[s].recommendations
        /\ rows' = rows /\ retracted' = retracted
    BY <1>0, <1>2 DEF ReadClauses, Read, At, TypeOK, SyncType
  <2>2. ReadIsOfRows(s)'
    BY <1>0, <1>s, <2>1 DEF ReadIsOfRows, HasRecommendations, HasConflicts, HasMappings,
       HasObligations, HasClauses, Linking, WriteStages
  <2>3. s \notin changed => ReadIsCurrent(s)'
    BY <1>c, <2>1, SameRows DEF ReadIsCurrent, HasRecommendations, HasConflicts,
       HasMappings, HasObligations, HasClauses, WriteStages
  <2>4. Read(s, "read clauses", next, read)
    BY <1>2 DEF ReadClauses
  <2>5. sync'[s].pc = next /\ next \notin WriteStages
    BY <1>0, <2>4 DEF Read, TypeOK, SyncType, WriteStages
  <2> HIDE DEF next, read
  <2> QED
    BY <2>2, <2>3, <2>4, <2>5, ReadAgrees
<1>3. CASE ReadObligations(s)
  <2>1. /\ sync[s].pc = "read obligations" /\ sync'[s].pc = "read mappings"
        /\ sync'[s].obligations = ObligationsIn(sync[s].clauses)
        /\ sync'[s].policy = sync[s].policy /\ sync'[s].clauses = sync[s].clauses
        /\ sync'[s].mappings = sync[s].mappings /\ sync'[s].conflicts = sync[s].conflicts
        /\ sync'[s].recommendations = sync[s].recommendations
        /\ rows' = rows /\ retracted' = retracted
    BY <1>0, <1>3 DEF ReadObligations, Read, At, TypeOK, SyncType
  <2>2. ReadIsOfRows(s)'
    BY <1>0, <1>s, <2>1 DEF ReadIsOfRows, HasRecommendations, HasConflicts, HasMappings,
       HasObligations, HasClauses, Linking, WriteStages, ObligationsIn
  <2>4. s \notin changed => ObligationsIn(sync[s].clauses) = SqlObligations(sync[s].policy)
    BY <1>c, <2>1 DEF ReadIsCurrent, HasClauses, SqlObligations
  <2>3. s \notin changed => ReadIsCurrent(s)'
    <3>1. HasClauses(s) /\ ~HasMappings(s)' /\ ~HasConflicts(s)' /\ ~HasRecommendations(s)'
      BY <2>1 DEF HasRecommendations, HasConflicts, HasMappings, HasObligations, HasClauses,
         WriteStages
    <3>2. s \notin changed => sync[s].clauses = LiveClauses(sync[s].policy)
      BY <1>c, <3>1 DEF ReadIsCurrent
    <3> QED
      BY <2>1, <2>4, <3>1, <3>2, SameRows DEF ReadIsCurrent
  <2> QED
    BY <1>3, <2>1, <2>2, <2>3, ReadAgrees DEF ReadObligations, WriteStages
<1>4. CASE ReadMappings(s)
  <2>1. /\ sync[s].pc = "read mappings" /\ sync'[s].pc = "read conflicts"
        /\ sync'[s].mappings = {m \in rows.mappings : m[1] \in sync[s].obligations}
        /\ sync'[s].policy = sync[s].policy /\ sync'[s].clauses = sync[s].clauses
        /\ sync'[s].obligations = sync[s].obligations /\ sync'[s].conflicts = sync[s].conflicts
        /\ sync'[s].recommendations = sync[s].recommendations
        /\ rows' = rows /\ retracted' = retracted
    BY <1>0, <1>4 DEF ReadMappings, Read, At, TypeOK, SyncType
  <2>2. ReadIsOfRows(s)'
    BY <1>0, <1>s, <2>1 DEF ReadIsOfRows, HasRecommendations, HasConflicts, HasMappings,
       HasObligations, HasClauses, Linking, WriteStages
  <2>3. s \notin changed => ReadIsCurrent(s)'
    BY <1>c, <2>1, SameRows DEF ReadIsCurrent, HasRecommendations, HasConflicts,
       HasMappings, HasObligations, HasClauses, WriteStages
  <2> QED
    BY <1>4, <2>1, <2>2, <2>3, ReadAgrees DEF ReadMappings, WriteStages
<1>5. CASE ReadConflicts(s)
  <2>1. /\ sync[s].pc = "read conflicts" /\ sync'[s].pc = "read recommendations"
        /\ sync'[s].conflicts = ConflictsOf(sync[s].obligations)
        /\ sync'[s].policy = sync[s].policy /\ sync'[s].clauses = sync[s].clauses
        /\ sync'[s].obligations = sync[s].obligations /\ sync'[s].mappings = sync[s].mappings
        /\ sync'[s].recommendations = sync[s].recommendations
        /\ rows' = rows /\ retracted' = retracted
    BY <1>0, <1>5 DEF ReadConflicts, Read, At, TypeOK, SyncType
  <2>2. ReadIsOfRows(s)'
    BY <1>0, <1>s, <2>1 DEF ReadIsOfRows, HasRecommendations, HasConflicts, HasMappings,
       HasObligations, HasClauses, Linking, WriteStages
  <2>3. s \notin changed => ReadIsCurrent(s)'
    <3>1. HasMappings(s) /\ HasObligations(s) /\ HasClauses(s) /\ ~HasRecommendations(s)'
      BY <2>1 DEF HasRecommendations, HasConflicts, HasMappings, HasObligations, HasClauses,
         WriteStages
    <3>2. s \notin changed =>
            /\ sync[s].clauses = LiveClauses(sync[s].policy)
            /\ sync[s].obligations = SqlObligations(sync[s].policy)
            /\ sync[s].mappings = {m \in rows.mappings : m[1] \in sync[s].obligations}
      BY <1>c, <3>1 DEF ReadIsCurrent
    <3>3. sync'[s].conflicts = ConflictsOf(sync[s].obligations)'
      BY <2>1, SameRows
    <3>4. s \notin changed =>
            sync'[s].mappings = {m \in rows'.mappings : m[1] \in sync'[s].obligations}
      BY <2>1, <3>2
    <3>5. s \notin changed =>
            /\ sync'[s].clauses = LiveClauses(sync[s].policy)'
            /\ sync'[s].obligations = SqlObligations(sync[s].policy)'
      BY <2>1, <3>2, SameRows
    <3> QED
      BY <3>1, <3>3, <3>4, <3>5 DEF ReadIsCurrent
  <2> QED
    BY <1>5, <2>1, <2>2, <2>3, ReadAgrees DEF ReadConflicts, WriteStages
<1>6. CASE ReadRecommendations(s)
  <2>1. /\ sync[s].pc = "read recommendations" /\ sync'[s].pc = "merge policy"
        /\ sync'[s].recommendations = rows.recommendations \cap sync[s].conflicts
        /\ sync'[s].policy = sync[s].policy /\ sync'[s].clauses = sync[s].clauses
        /\ sync'[s].obligations = sync[s].obligations /\ sync'[s].mappings = sync[s].mappings
        /\ sync'[s].conflicts = sync[s].conflicts /\ rows' = rows /\ retracted' = retracted
    BY <1>0, <1>6 DEF ReadRecommendations, Read, At, TypeOK, SyncType
  <2>2. ReadIsOfRows(s)'
    BY <1>0, <1>s, <2>1 DEF ReadIsOfRows, HasRecommendations, HasConflicts, HasMappings,
       HasObligations, HasClauses, Linking, WriteStages
  <2>3. s \notin changed => ReadIsCurrent(s)'
    BY <1>c, <2>1, SameRows DEF ReadIsCurrent, HasRecommendations, HasConflicts,
       HasMappings, HasObligations, HasClauses, WriteStages
  <2> QED
    BY <1>6, <2>1, <2>2, <2>3, ReadAgrees DEF ReadRecommendations, WriteStages
<1>7. CASE MergePolicy(s)
  <2>1. /\ sync[s].pc = "merge policy" /\ sync'[s].pc = "merge clauses"
        /\ sync'[s].policy = sync[s].policy /\ sync'[s].clauses = sync[s].clauses
        /\ sync'[s].obligations = sync[s].obligations
        /\ sync'[s].mappings = sync[s].mappings
        /\ sync'[s].recommendations = sync[s].recommendations
        /\ rows' = rows /\ retracted' = retracted
    BY <1>0, <1>7 DEF MergePolicy, Merge, At, TypeOK, SyncType
  <2>2. /\ graph'.policies = graph.policies \cup {sync[s].policy}
        /\ graph'.clauses = graph.clauses /\ graph'.obligations = graph.obligations
        /\ graph'.findings = graph.findings /\ graph'.hasClause = graph.hasClause
        /\ graph'.hasObligation = graph.hasObligation /\ graph'.mapsTo = graph.mapsTo
        /\ graph'.hasFinding = graph.hasFinding
        /\ graph'.hasRecommendation = graph.hasRecommendation
        /\ graph'.related = graph.related
    BY <1>0, <1>7 DEF MergePolicy, Merge, GraphType
  <2>g. GraphGrows
    BY <2>2 DEF GraphGrows
  <2>3. GraphIsOfRows'
    BY <1>0, <2>1, <2>2 DEF GraphIsOfRows
  <2>4. GraphHolds(s)'
    BY <1>0, <2>1, <2>2 DEF GraphHolds, MergedPolicy, MergedClauses, Merged,
       MergedMappings, Linking, WriteStages
  <2> QED
    BY <1>7, <2>g, <2>3, <2>4, MergeAgrees DEF MergePolicy, WriteStages
<1>8. CASE MergeClauses(s)
  <2>1. /\ sync[s].pc = "merge clauses" /\ sync'[s].pc = "merge obligations"
        /\ sync'[s].policy = sync[s].policy /\ sync'[s].clauses = sync[s].clauses
        /\ sync'[s].obligations = sync[s].obligations
        /\ sync'[s].mappings = sync[s].mappings
        /\ sync'[s].recommendations = sync[s].recommendations
        /\ rows' = rows /\ retracted' = retracted
    BY <1>0, <1>8 DEF MergeClauses, Merge, At, TypeOK, SyncType
  <2>2. /\ graph'.clauses = graph.clauses \cup sync[s].clauses
        /\ graph'.hasClause = graph.hasClause
           \cup {e \in {sync[s].policy} \X sync[s].clauses : e[1] \in graph.policies}
        /\ graph'.policies = graph.policies /\ graph'.obligations = graph.obligations
        /\ graph'.findings = graph.findings
        /\ graph'.hasObligation = graph.hasObligation /\ graph'.mapsTo = graph.mapsTo
        /\ graph'.hasFinding = graph.hasFinding
        /\ graph'.hasRecommendation = graph.hasRecommendation
        /\ graph'.related = graph.related
    BY <1>0, <1>8 DEF MergeClauses, Merge, GraphType
  <2>5. \A c \in sync[s].clauses : c \in rows.clauses /\ PolicyOf[c] = sync[s].policy
    BY <1>0, <2>1 DEF ReadIsOfRows, HasRecommendations, HasConflicts, HasMappings,
       HasObligations, HasClauses, Linking, WriteStages
  <2>g. GraphGrows
    BY <2>2 DEF GraphGrows
  <2>3. GraphIsOfRows'
    BY <1>0, <2>1, <2>2, <2>5 DEF GraphIsOfRows
  <2>4. GraphHolds(s)'
    BY <1>0, <2>1, <2>2 DEF GraphHolds, MergedPolicy, MergedClauses, Merged,
       MergedMappings, Linking, WriteStages
  <2> QED
    BY <1>8, <2>g, <2>3, <2>4, MergeAgrees DEF MergeClauses, WriteStages
<1>9. CASE MergeObligations(s)
  <2>1. /\ sync[s].pc = "merge obligations" /\ sync'[s].pc = "merge regulations"
        /\ sync'[s].policy = sync[s].policy /\ sync'[s].clauses = sync[s].clauses
        /\ sync'[s].obligations = sync[s].obligations
        /\ sync'[s].mappings = sync[s].mappings
        /\ sync'[s].recommendations = sync[s].recommendations
        /\ rows' = rows /\ retracted' = retracted
    BY <1>0, <1>9 DEF MergeObligations, Merge, At, TypeOK, SyncType
  <2>2. /\ graph'.obligations = graph.obligations \cup sync[s].obligations
        /\ graph'.hasObligation = graph.hasObligation
           \cup {e \in graph.clauses \X sync[s].obligations : e[1] = ClauseOf[e[2]]}
        /\ graph'.policies = graph.policies /\ graph'.clauses = graph.clauses
        /\ graph'.findings = graph.findings /\ graph'.hasClause = graph.hasClause
        /\ graph'.mapsTo = graph.mapsTo /\ graph'.hasFinding = graph.hasFinding
        /\ graph'.hasRecommendation = graph.hasRecommendation
        /\ graph'.related = graph.related
    BY <1>0, <1>9 DEF MergeObligations, Merge, GraphType
  <2>5. \A o \in sync[s].obligations :
          o \in rows.obligations /\ ClauseOf[o] \in sync[s].clauses
    BY <1>0, <2>1 DEF ReadIsOfRows, HasRecommendations, HasConflicts, HasMappings,
       HasObligations, HasClauses, Linking, WriteStages
  <2>g. GraphGrows
    BY <2>2 DEF GraphGrows
  <2>3. GraphIsOfRows'
    <3>1. \A e \in graph'.hasObligation : e[2] \in rows.obligations /\ e[1] = ClauseOf[e[2]]
      BY <1>0, <2>2, <2>5 DEF GraphIsOfRows
    <3>2. \A e \in graph'.hasClause : e[2] \in rows'.clauses /\ PolicyOf[e[2]] = e[1]
      BY <1>0, <2>1, <2>2 DEF GraphIsOfRows
    <3>3. \A e \in graph'.mapsTo :
             e \in rows'.mappings \/ PolicyOfObligation(e[1]) \in retracted'
      BY <1>0, <2>1, <2>2 DEF GraphIsOfRows
    <3>4. \A e \in graph'.hasFinding : e[2] \in rows'.conflicts /\ e[1] \in Ends(e[2])
      BY <1>0, <2>1, <2>2 DEF GraphIsOfRows
    <3>5. \A e \in graph'.related :
             \E c \in rows'.conflicts : e[1] = Source[c] /\ e[3] = Target[c]
      <4>1. graph'.related = graph.related /\ rows'.conflicts = rows.conflicts
        BY <2>1, <2>2
      <4>2. \A e \in graph.related :
               \E c \in rows.conflicts : e[1] = Source[c] /\ e[3] = Target[c]
        BY <1>0 DEF GraphIsOfRows
      <4> QED
        BY <4>1, <4>2
    <3>6. graph'.hasRecommendation \subseteq rows'.recommendations
      BY <1>0, <2>1, <2>2 DEF GraphIsOfRows
    <3>7. rows'.obligations = rows.obligations
      BY <2>1
    <3> QED
      BY <3>1, <3>2, <3>3, <3>4, <3>5, <3>6, <3>7 DEF GraphIsOfRows, PolicyOfObligation, Ends
  <2>4. GraphHolds(s)'
    BY <1>0, <2>1, <2>2, <2>5 DEF GraphHolds, MergedPolicy, MergedClauses, Merged,
       MergedMappings, Linking, WriteStages
  <2> QED
    BY <1>9, <2>g, <2>3, <2>4, MergeAgrees DEF MergeObligations, WriteStages
<1>10. CASE MergeRegulations(s)
  <2>1. /\ sync[s].pc = "merge regulations" /\ sync'[s].pc = "merge findings"
        /\ sync'[s].policy = sync[s].policy /\ sync'[s].clauses = sync[s].clauses
        /\ sync'[s].obligations = sync[s].obligations
        /\ sync'[s].mappings = sync[s].mappings
        /\ sync'[s].recommendations = sync[s].recommendations
        /\ rows' = rows /\ retracted' = retracted
    BY <1>0, <1>10 DEF MergeRegulations, Merge, At, TypeOK, SyncType
  <2>2. /\ graph'.mapsTo = graph.mapsTo
           \cup {m \in {n \in sync[s].mappings : n[2] # None} : m[1] \in graph.obligations}
        /\ graph'.policies = graph.policies /\ graph'.clauses = graph.clauses
        /\ graph'.obligations = graph.obligations /\ graph'.findings = graph.findings
        /\ graph'.hasClause = graph.hasClause
        /\ graph'.hasObligation = graph.hasObligation
        /\ graph'.hasFinding = graph.hasFinding
        /\ graph'.hasRecommendation = graph.hasRecommendation
        /\ graph'.related = graph.related
    BY <1>0, <1>10 DEF MergeRegulations, Merge, GraphType
  <2>5. \A m \in sync[s].mappings :
          /\ m[1] \in sync[s].obligations
          /\ m \in rows.mappings \/ PolicyOfObligation(m[1]) \in retracted
    BY <1>0, <2>1 DEF ReadIsOfRows, HasRecommendations, HasConflicts, HasMappings,
       HasObligations, HasClauses, Linking, WriteStages
  <2>6. sync[s].obligations \subseteq graph.obligations
    BY <2>1 DEF LinkInv, HoldsMerged, Merged
  <2>g. GraphGrows
    BY <2>2 DEF GraphGrows
  <2>3. GraphIsOfRows'
    BY <1>0, <2>1, <2>2, <2>5 DEF GraphIsOfRows, PolicyOfObligation
  <2>4. GraphHolds(s)'
    BY <1>0, <2>1, <2>2, <2>5, <2>6 DEF GraphHolds, MergedPolicy, MergedClauses,
       Merged, MergedMappings, Linking, WriteStages
  <2> QED
    BY <1>10, <2>g, <2>3, <2>4, MergeAgrees DEF MergeRegulations, WriteStages
<1>11. CASE MergeFindings(s)
  <2>1. /\ sync[s].pc = "merge findings" /\ sync'[s].pc = "link source"
        /\ sync'[s].policy = sync[s].policy /\ sync'[s].clauses = sync[s].clauses
        /\ sync'[s].obligations = sync[s].obligations
        /\ sync'[s].mappings = sync[s].mappings
        /\ sync'[s].conflicts = sync[s].conflicts
        /\ sync'[s].recommendations = sync[s].recommendations
        /\ sync'[s].unlinked = sync[s].conflicts
        /\ UNCHANGED <<rows, changed, retracted>>
        /\ \A t \in Syncs \ {s} : sync'[t] = sync[t]
    BY <1>0, <1>11 DEF MergeFindings, At, TypeOK, SyncType
  <2>2. /\ graph'.findings = graph.findings \cup sync[s].conflicts
        /\ graph'.policies = graph.policies /\ graph'.clauses = graph.clauses
        /\ graph'.obligations = graph.obligations /\ graph'.hasClause = graph.hasClause
        /\ graph'.hasObligation = graph.hasObligation /\ graph'.mapsTo = graph.mapsTo
        /\ graph'.hasFinding = graph.hasFinding
        /\ graph'.hasRecommendation = graph.hasRecommendation
        /\ graph'.related = graph.related
    BY <1>0, <1>11 DEF MergeFindings, GraphType
  <2>3. GraphGrows /\ GraphIsOfRows'
    BY <1>0, <2>1, <2>2 DEF GraphGrows, GraphIsOfRows
  <2>4. GraphHolds(s)'
    BY <1>0, <2>1, <2>2 DEF GraphHolds, MergedPolicy, MergedClauses, Merged, MergedMappings,
       Linking, WriteStages
  <2>5. ReadIsOfRows(s)'
    BY <1>0, <2>1 DEF ReadIsOfRows, HasRecommendations, HasConflicts, HasMappings,
       HasObligations, HasClauses, Linking, WriteStages
  <2>6. s \notin changed => ReadIsCurrent(s)'
    <3>1. /\ sync[s].pc \in WriteStages /\ sync'[s].pc \in WriteStages
          /\ sync'[s].policy = sync[s].policy /\ sync'[s].clauses = sync[s].clauses
          /\ sync'[s].obligations = sync[s].obligations
          /\ sync'[s].mappings = sync[s].mappings
          /\ sync'[s].conflicts = sync[s].conflicts
          /\ sync'[s].recommendations = sync[s].recommendations /\ rows' = rows
      BY <2>1 DEF WriteStages
    <3> QED
      BY <1>c, <3>1, SameRows DEF ReadIsCurrent, HasRecommendations, HasConflicts,
         HasMappings, HasObligations, HasClauses
  <2> QED
    BY <2>1, <2>3, <2>4, <2>5, <2>6, SyncStepFrame
<1>12. ASSUME NEW c \in Conflicts, LinkSource(s, c)
       PROVE  AgreeInv'
  <2>1. /\ sync[s].pc = "link source" /\ sync'[s].pc = "link target"
        /\ sync'[s].policy = sync[s].policy /\ sync'[s].clauses = sync[s].clauses
        /\ sync'[s].obligations = sync[s].obligations
        /\ sync'[s].mappings = sync[s].mappings
        /\ sync'[s].conflicts = sync[s].conflicts
        /\ sync'[s].recommendations = sync[s].recommendations
        /\ sync'[s].unlinked = sync[s].unlinked \ {c} /\ sync'[s].current = c
        /\ c \in sync[s].unlinked
        /\ UNCHANGED <<rows, changed, retracted>>
        /\ \A t \in Syncs \ {s} : sync'[t] = sync[t]
    BY <1>0, <1>12 DEF LinkSource, At, TypeOK, SyncType
  <2>2. /\ graph'.hasFinding = graph.hasFinding \cup FindingEdge(Source[c], c)
        /\ graph'.policies = graph.policies /\ graph'.clauses = graph.clauses
        /\ graph'.obligations = graph.obligations /\ graph'.findings = graph.findings
        /\ graph'.hasClause = graph.hasClause
        /\ graph'.hasObligation = graph.hasObligation /\ graph'.mapsTo = graph.mapsTo
        /\ graph'.hasRecommendation = graph.hasRecommendation
        /\ graph'.related = graph.related
    BY <1>0, <1>12 DEF LinkSource, GraphType
  <2>7. c \in sync[s].conflicts /\ sync[s].unlinked \subseteq sync[s].conflicts
        /\ sync[s].conflicts \subseteq rows.conflicts
    BY <1>0, <2>1 DEF ReadIsOfRows, HasConflicts, HasRecommendations, Linking, WriteStages
  <2>8. \A e \in FindingEdge(Source[c], c) : e[2] \in rows.conflicts /\ e[1] \in Ends(e[2])
    BY <1>0, <2>7 DEF FindingEdge, Ends, GraphType, NoneAssumption
  <2>3. GraphGrows /\ GraphIsOfRows'
    BY <1>0, <2>1, <2>2, <2>8 DEF GraphGrows, GraphIsOfRows
  <2>4. GraphHolds(s)'
    BY <1>0, <2>1, <2>2 DEF GraphHolds, MergedPolicy, MergedClauses, Merged, MergedMappings,
       Linking, WriteStages
  <2>5. ReadIsOfRows(s)'
    BY <1>0, <2>1, <2>7 DEF ReadIsOfRows, HasRecommendations, HasConflicts, HasMappings,
       HasObligations, HasClauses, Linking, WriteStages
  <2>6. s \notin changed => ReadIsCurrent(s)'
    <3>1. /\ sync[s].pc \in WriteStages /\ sync'[s].pc \in WriteStages
          /\ sync'[s].policy = sync[s].policy /\ sync'[s].clauses = sync[s].clauses
          /\ sync'[s].obligations = sync[s].obligations
          /\ sync'[s].mappings = sync[s].mappings
          /\ sync'[s].conflicts = sync[s].conflicts
          /\ sync'[s].recommendations = sync[s].recommendations /\ rows' = rows
      BY <2>1 DEF WriteStages
    <3> QED
      BY <1>c, <3>1, SameRows DEF ReadIsCurrent, HasRecommendations, HasConflicts,
         HasMappings, HasObligations, HasClauses
  <2> QED
    BY <2>1, <2>3, <2>4, <2>5, <2>6, SyncStepFrame
<1>13. CASE LinkTarget(s)
  <2> DEFINE new == FindingEdge(Target[sync[s].current], sync[s].current)
  <2>1. /\ sync[s].pc = "link target" /\ sync'[s].pc = "relate ends"
        /\ sync'[s].policy = sync[s].policy /\ sync'[s].clauses = sync[s].clauses
        /\ sync'[s].obligations = sync[s].obligations
        /\ sync'[s].mappings = sync[s].mappings
        /\ sync'[s].recommendations = sync[s].recommendations
        /\ rows' = rows /\ retracted' = retracted
    BY <1>0, <1>13 DEF LinkTarget, Merge, At, TypeOK, SyncType
  <2>2. /\ graph'.hasFinding = graph.hasFinding \cup new
        /\ graph'.policies = graph.policies /\ graph'.clauses = graph.clauses
        /\ graph'.obligations = graph.obligations /\ graph'.findings = graph.findings
        /\ graph'.hasClause = graph.hasClause
        /\ graph'.hasObligation = graph.hasObligation /\ graph'.mapsTo = graph.mapsTo
        /\ graph'.hasRecommendation = graph.hasRecommendation
        /\ graph'.related = graph.related
    BY <1>0, <1>13 DEF LinkTarget, Merge, GraphType
  <2>5. sync[s].current \in rows.conflicts
    BY <1>0, <2>1 DEF ReadIsOfRows, HasConflicts, HasRecommendations, WriteStages
  <2>6. \A e \in new : e[2] \in rows.conflicts /\ e[1] \in Ends(e[2])
    BY <1>0, <2>5 DEF FindingEdge, Ends, GraphType, NoneAssumption
  <2> HIDE DEF new
  <2>g. GraphGrows
    BY <2>2 DEF GraphGrows
  <2>3. GraphIsOfRows'
    BY <1>0, <2>1, <2>2, <2>6 DEF GraphIsOfRows
  <2>4. GraphHolds(s)'
    BY <1>0, <2>1, <2>2 DEF GraphHolds, MergedPolicy, MergedClauses, Merged,
       MergedMappings, Linking, WriteStages
  <2> QED
    BY <1>13, <2>g, <2>3, <2>4, MergeAgrees DEF LinkTarget, WriteStages
<1>14. CASE RelateEnds(s)
  <2> DEFINE c0 == sync[s].current
             new == IF {Source[c0], Target[c0]} \subseteq graph.obligations
                    THEN {<<Source[c0], RelType(c0), Target[c0]>>} ELSE {}
  <2>1. /\ sync[s].pc = "relate ends" /\ sync'[s].pc = "link source"
        /\ sync'[s].policy = sync[s].policy /\ sync'[s].clauses = sync[s].clauses
        /\ sync'[s].obligations = sync[s].obligations
        /\ sync'[s].mappings = sync[s].mappings
        /\ sync'[s].recommendations = sync[s].recommendations
        /\ rows' = rows /\ retracted' = retracted
    BY <1>0, <1>14 DEF RelateEnds, Merge, At, TypeOK, SyncType
  <2>2. /\ graph'.related = graph.related \cup new /\ graph'.policies = graph.policies
        /\ graph'.clauses = graph.clauses /\ graph'.obligations = graph.obligations
        /\ graph'.findings = graph.findings /\ graph'.hasClause = graph.hasClause
        /\ graph'.hasObligation = graph.hasObligation /\ graph'.mapsTo = graph.mapsTo
        /\ graph'.hasFinding = graph.hasFinding
        /\ graph'.hasRecommendation = graph.hasRecommendation
    BY <1>0, <1>14 DEF RelateEnds, Merge, GraphType
  <2>5. sync[s].current \in rows.conflicts
    BY <1>0, <2>1 DEF ReadIsOfRows, HasConflicts, HasRecommendations, WriteStages
  <2>6. \A e \in new : \E c \in rows.conflicts : e[1] = Source[c] /\ e[3] = Target[c]
    BY <2>5
  <2> HIDE DEF new
  <2>g. GraphGrows
    BY <2>2 DEF GraphGrows
  <2>3. GraphIsOfRows'
    BY <1>0, <2>1, <2>2, <2>6 DEF GraphIsOfRows
  <2>4. GraphHolds(s)'
    BY <1>0, <2>1, <2>2 DEF GraphHolds, MergedPolicy, MergedClauses, Merged,
       MergedMappings, Linking, WriteStages
  <2> QED
    BY <1>14, <2>g, <2>3, <2>4, MergeAgrees DEF RelateEnds, WriteStages
<1>15. CASE MergeRecommendations(s)
  <2>1. /\ sync[s].pc = "link source" /\ sync'[s].pc = "done"
        /\ sync'[s].policy = sync[s].policy /\ sync'[s].clauses = sync[s].clauses
        /\ sync'[s].obligations = sync[s].obligations
        /\ sync'[s].mappings = sync[s].mappings
        /\ sync'[s].recommendations = sync[s].recommendations
        /\ rows' = rows /\ retracted' = retracted
    BY <1>0, <1>15 DEF MergeRecommendations, Merge, At, TypeOK, SyncType
  <2>2. /\ graph'.hasRecommendation = graph.hasRecommendation
           \cup (sync[s].recommendations \cap graph.findings)
        /\ graph'.policies = graph.policies /\ graph'.clauses = graph.clauses
        /\ graph'.obligations = graph.obligations /\ graph'.findings = graph.findings
        /\ graph'.hasClause = graph.hasClause
        /\ graph'.hasObligation = graph.hasObligation /\ graph'.mapsTo = graph.mapsTo
        /\ graph'.hasFinding = graph.hasFinding /\ graph'.related = graph.related
    BY <1>0, <1>15 DEF MergeRecommendations, Merge, GraphType
  <2>5. /\ sync[s].recommendations \subseteq rows.recommendations
        /\ sync[s].recommendations \subseteq sync[s].conflicts
    BY <1>0, <2>1 DEF ReadIsOfRows, HasRecommendations, WriteStages
  <2>6. sync[s].conflicts \subseteq graph.findings
    BY <2>1 DEF LinkInv, HoldsMerged, Linking
  <2>g. GraphGrows
    BY <2>2 DEF GraphGrows
  <2>3. GraphIsOfRows'
    BY <1>0, <2>1, <2>2, <2>5 DEF GraphIsOfRows
  <2>4. GraphHolds(s)'
    BY <1>0, <2>1, <2>2, <2>5, <2>6 DEF GraphHolds, MergedPolicy, MergedClauses,
       Merged, MergedMappings, Linking, WriteStages
  <2> QED
    BY <1>15, <2>g, <2>3, <2>4, MergeAgrees DEF MergeRecommendations, WriteStages
<1> QED
  BY <1>1, <1>2, <1>3, <1>4, <1>5, <1>6, <1>7, <1>8, <1>9, <1>10, <1>11, <1>12, <1>13,
     <1>14, <1>15 DEF SyncStep

\* The invariant holds of the empty database and graph.
LEMMA InitAgrees == Init => AgreeInv
<1> SUFFICES ASSUME Init PROVE AgreeInv
  OBVIOUS
<1>1. \A s \in Syncs : sync[s].pc = "idle"
  BY DEF Init, Idle
<1>2. RowsFit /\ GraphIsOfRows
  BY DEF Init, RowsFit, GraphIsOfRows
<1>3. ASSUME NEW s \in Syncs PROVE ReadIsOfRows(s) /\ ReadIsCurrent(s) /\ GraphHolds(s)
  BY <1>1 DEF ReadIsOfRows, ReadIsCurrent, GraphHolds, HasRecommendations, HasConflicts,
     HasMappings, HasObligations, HasClauses, Linking, MergedPolicy, MergedClauses, Merged,
     MergedMappings, WriteStages
<1> QED
  BY <1>2, <1>3 DEF AgreeInv

\* What the invariants say of a synchronisation that is done and current.
LEMMA DoneHolds ==
    ASSUME TypeOK, LinkInv, AgreeInv, NEW s \in Syncs \ changed, sync[s].pc = "done",
           NEW p, p = sync[s].policy
    PROVE  /\ {p} \X LiveClauses(p) \subseteq graph.hasClause
           /\ \A o \in SqlObligations(p) : <<ClauseOf[o], o>> \in graph.hasObligation
           /\ RealMappings(SqlObligations(p)) \subseteq graph.mapsTo
           /\ \A c \in ConflictsOf(SqlObligations(p)) :
                 \A o \in Ends(c) \cap SqlObligations(p) : <<o, c>> \in graph.hasFinding
           /\ rows.recommendations \cap ConflictsOf(SqlObligations(p))
                 \subseteq graph.hasRecommendation
<1>1. ReadIsCurrent(s) /\ GraphHolds(s) /\ HoldsMerged(s)
  BY DEF AgreeInv, LinkInv
<1>2. /\ sync[s].clauses = LiveClauses(p) /\ sync[s].obligations = SqlObligations(p)
      /\ sync[s].mappings = {m \in rows.mappings : m[1] \in SqlObligations(p)}
      /\ sync[s].conflicts = ConflictsOf(SqlObligations(p))
      /\ sync[s].recommendations = rows.recommendations \cap ConflictsOf(SqlObligations(p))
  BY <1>1 DEF ReadIsCurrent, HasRecommendations, HasConflicts, HasMappings, HasObligations,
     HasClauses, WriteStages
<1>3. /\ {p} \X sync[s].clauses \subseteq graph.hasClause
      /\ \A o \in sync[s].obligations : <<ClauseOf[o], o>> \in graph.hasObligation
      /\ \A m \in sync[s].mappings : m[2] # None => m \in graph.mapsTo
      /\ sync[s].recommendations \subseteq graph.hasRecommendation
  BY <1>1 DEF GraphHolds, MergedPolicy, MergedClauses, Merged, MergedMappings, Linking,
     WriteStages
<1>4. ASSUME NEW c \in sync[s].conflicts, NEW o \in Ends(c) \cap sync[s].obligations
      PROVE  <<o, c>> \in graph.hasFinding
  <2>1. SourceLinked(s, c) /\ TargetLinked(s, c)
    BY <1>1 DEF HoldsMerged, SourceLinked, TargetLinked, Visited, Linking
  <2>2. c \in Conflicts /\ (o = Source[c] \/ o = Target[c])
    BY DEF Ends, TypeOK, SyncType
  <2> QED
    BY <1>1, <2>1, <2>2 DEF HoldsMerged
<1>5. RealMappings(SqlObligations(p)) \subseteq graph.mapsTo
  BY <1>2, <1>3 DEF RealMappings
<1> QED
  BY <1>2, <1>3, <1>4, <1>5

\* What the graph can show of a policy of which nothing was withdrawn.
LEMMA ShownIsStored ==
    ASSUME ShapeAssumption, NoneAssumption, TypeOK, AgreeInv, NEW p, p \notin retracted
    PROVE  /\ GraphClauses(p) \subseteq LiveClauses(p)
           /\ GraphObligations(p) \subseteq SqlObligations(p)
           /\ \A e \in graph.mapsTo : e[1] \in SqlObligations(p) =>
                 e \in RealMappings(SqlObligations(p))
           /\ \A e \in graph.hasFinding : e[1] \in SqlObligations(p) =>
                 e[2] \in ConflictsOf(SqlObligations(p))
<1>0. /\ RowsFit /\ GraphIsOfRows
      /\ graph \in GraphType /\ rows \in RowsType
  BY DEF AgreeInv, TypeOK
<1>1. ASSUME NEW c \in GraphClauses(p) PROVE c \in LiveClauses(p)
  <2>1. PICK e \in graph.hasClause : e[1] = p /\ c = e[2]
    BY DEF GraphClauses, Heads, Linked
  <2>2. c \in rows.clauses /\ PolicyOf[c] = p
    BY <1>0, <2>1 DEF GraphIsOfRows
  <2>3. c \notin rows.deleted
    BY <1>0, <2>2 DEF RowsFit, RowsType
  <2> QED
    BY <2>2, <2>3 DEF LiveClauses
<1>2. ASSUME NEW o \in GraphObligations(p) PROVE o \in SqlObligations(p)
  <2>1. PICK e \in graph.hasObligation : e[1] \in GraphClauses(p) /\ o = e[2]
    BY DEF GraphObligations, Heads, Linked
  <2>2. o \in rows.obligations /\ ClauseOf[o] \in LiveClauses(p)
    BY <1>0, <1>1, <2>1 DEF GraphIsOfRows
  <2> QED
    BY <2>2 DEF SqlObligations, ObligationsIn
<1>3. ASSUME NEW e \in graph.mapsTo, e[1] \in SqlObligations(p)
      PROVE  e \in RealMappings(SqlObligations(p))
  <2>1. PolicyOfObligation(e[1]) = p
    BY <1>3 DEF SqlObligations, ObligationsIn, LiveClauses, PolicyOfObligation
  <2>2. e \in rows.mappings /\ e[2] \in Regulations
    BY <1>0, <1>3, <2>1 DEF GraphIsOfRows, GraphType
  <2>3. e[2] # None
    BY <2>2 DEF NoneAssumption
  <2> QED
    BY <1>3, <2>2, <2>3 DEF RealMappings
<1>4. ASSUME NEW e \in graph.hasFinding, e[1] \in SqlObligations(p)
      PROVE  e[2] \in ConflictsOf(SqlObligations(p))
  BY <1>0, <1>4 DEF GraphIsOfRows, ConflictsOf
<1> QED
  BY <1>1, <1>2, <1>3, <1>4

\* A policy the graph shows as impacted is a party to a stored conflict.
LEMMA ImpactedIsStored ==
    ASSUME ShapeAssumption, NoneAssumption, TypeOK, AgreeInv, NEW p, p \notin retracted
    PROVE  GraphImpacted(p) \subseteq SqlImpacted(p)
<1> SUFFICES ASSUME NEW q \in GraphImpacted(p) PROVE q \in SqlImpacted(p)
  OBVIOUS
<1>0. /\ GraphIsOfRows /\ RowsFit /\ graph \in GraphType /\ rows \in RowsType
      /\ GraphObligations(p) \subseteq SqlObligations(p)
  BY ShownIsStored DEF AgreeInv, TypeOK
<1>1. PICK e \in graph.related, a \in GraphObligations(p), b \in GraphObligations(q) :
         (e[1] = a /\ e[3] = b) \/ (e[3] = a /\ e[1] = b)
  BY DEF GraphImpacted
<1>2. PICK c \in rows.conflicts : e[1] = Source[c] /\ e[3] = Target[c]
  BY <1>0 DEF GraphIsOfRows
<1>3. e[1] \in Obligations /\ e[3] \in Obligations
  BY <1>0 DEF GraphType
<1>4. a \in Ends(c) /\ b \in Ends(c)
  BY <1>1, <1>2, <1>3 DEF Ends, NoneAssumption
<1>5. c \in ConflictsOf(SqlObligations(p))
  BY <1>0, <1>4 DEF ConflictsOf
<1>6. PolicyOf[ClauseOf[b]] = q
  <2>1. PICK f \in graph.hasObligation : f[1] \in GraphClauses(q) /\ b = f[2]
    BY DEF GraphObligations, Heads, Linked
  <2>2. PICK g \in graph.hasClause : g[1] = q /\ f[1] = g[2]
    BY <2>1 DEF GraphClauses, Heads, Linked
  <2> QED
    BY <1>0, <2>1, <2>2 DEF GraphIsOfRows
<1>7. q \in Parties[c]
  BY <1>0, <1>4, <1>6 DEF ShapeAssumption, RowsType, Ends
<1>8. q # p
  BY DEF GraphImpacted
<1>9. Parties[c] \in {Parties[d] : d \in ConflictsOf(SqlObligations(p))}
  BY <1>5
<1>10. q \in UNION {Parties[d] : d \in ConflictsOf(SqlObligations(p))}
  BY <1>7, <1>9
<1>11. SqlImpacted(p) = (UNION {Parties[d] : d \in ConflictsOf(SqlObligations(p))}) \ {p}
  BY DEF SqlImpacted
<1> DEFINE parties == UNION {Parties[d] : d \in ConflictsOf(SqlObligations(p))}
<1>12. q \in parties /\ SqlImpacted(p) = parties \ {p}
  BY <1>10, <1>11
<1> HIDE DEF parties
<1> QED
  BY <1>8, <1>12

\* The head of a relation that starts in a set is among the heads.
LEMMA LinkedHead ==
    ASSUME NEW R, NEW A, NEW a \in A, NEW b, <<a, b>> \in R
    PROVE  b \in Heads(Linked(R, A))
<1>1. <<a, b>> \in Linked(R, A)
  BY DEF Linked
<1> QED
  BY <1>1 DEF Heads

\* So the invariants imply that graph and database give one answer.
LEMMA AgreementFollows ==
    ASSUME ShapeAssumption, NoneAssumption
    PROVE  TypeOK /\ LinkInv /\ AgreeInv => GraphAgreesWithRows
<1> SUFFICES ASSUME TypeOK, LinkInv, AgreeInv, NEW s \in Syncs \ changed,
                    sync[s].pc = "done", NEW p, p = sync[s].policy
             PROVE  /\ Within(SqlPolicySlice(p), GraphPolicySlice(p))
                    /\ \A o \in SqlObligations(p) :
                          Within(SqlObligationSlice(o), GraphObligationSlice(o))
                    /\ Within(SqlImpact(p), GraphImpact(p))
                    /\ p \notin retracted =>
                        /\ Within(GraphPolicySlice(p), SqlPolicySlice(p))
                        /\ \A o \in SqlObligations(p) :
                              Within(GraphObligationSlice(o), SqlObligationSlice(o))
                        /\ Within(GraphImpact(p), SqlImpact(p))
                        /\ GraphImpacted(p) \subseteq SqlImpacted(p)
  BY DEF GraphAgreesWithRows
<1> DEFINE own == SqlObligations(p)
           seen == GraphObligations(p)
           findings == Heads(Linked(graph.hasFinding, seen))
<1>0. /\ graph \in GraphType /\ rows \in RowsType /\ GraphIsOfRows
  BY DEF TypeOK, AgreeInv
<1>d. /\ {p} \X LiveClauses(p) \subseteq graph.hasClause
      /\ \A o \in own : <<ClauseOf[o], o>> \in graph.hasObligation
      /\ RealMappings(own) \subseteq graph.mapsTo
      /\ \A c \in ConflictsOf(own) : \A o \in Ends(c) \cap own : <<o, c>> \in graph.hasFinding
      /\ rows.recommendations \cap ConflictsOf(own) \subseteq graph.hasRecommendation
  BY DoneHolds
<1>1. LiveClauses(p) \subseteq GraphClauses(p)
  <2> SUFFICES ASSUME NEW c \in LiveClauses(p) PROVE c \in GraphClauses(p)
    OBVIOUS
  <2>1. <<p, c>> \in graph.hasClause
    BY <1>d
  <2> QED
    BY <2>1, LinkedHead DEF GraphClauses
<1>2. own \subseteq seen
  <2> SUFFICES ASSUME NEW o \in own PROVE o \in seen
    OBVIOUS
  <2>1. <<ClauseOf[o], o>> \in graph.hasObligation /\ ClauseOf[o] \in GraphClauses(p)
    BY <1>d, <1>1 DEF SqlObligations, ObligationsIn
  <2> QED
    BY <2>1, LinkedHead DEF GraphObligations
<1>3. RealMappings(own) \subseteq Linked(graph.mapsTo, seen)
  BY <1>d, <1>2 DEF RealMappings, Linked
<1>4. ConflictsOf(own) \subseteq findings
  <2> SUFFICES ASSUME NEW c \in ConflictsOf(own) PROVE c \in findings
    OBVIOUS
  <2>1. PICK o \in Ends(c) \cap own : TRUE
    BY DEF ConflictsOf
  <2>2. <<o, c>> \in Linked(graph.hasFinding, seen)
    BY <1>d, <1>2 DEF Linked
  <2> QED
    BY <2>2 DEF Heads
<1>5. Within(SqlPolicySlice(p), GraphPolicySlice(p))
  <2>1. {p} \X LiveClauses(p) \subseteq Linked(graph.hasClause, {p})
    BY <1>d DEF Linked
  <2>2. {<<ClauseOf[o], o>> : o \in own} \subseteq Linked(graph.hasObligation, GraphClauses(p))
    BY <1>d, <1>1 DEF Linked, SqlObligations, ObligationsIn
  <2> QED
    BY <2>1, <2>2, <1>3 DEF Within, SqlPolicySlice, GraphPolicySlice
<1>6. ASSUME NEW o \in own
      PROVE  Within(SqlObligationSlice(o), GraphObligationSlice(o))
  <2>0. <<ClauseOf[o], o>> \in {x \in graph.hasObligation : x[2] = o}
    BY <1>d
  <2>1. ClauseOf[o] \in {e[1] : e \in {x \in graph.hasObligation : x[2] = o}}
    BY <2>0
  <2>2. RealMappings({o}) \subseteq Linked(graph.mapsTo, {o})
    BY <1>d DEF RealMappings, Linked
  <2>3. Heads(RealMappings({o})) \subseteq Heads(Linked(graph.mapsTo, {o}))
    BY <2>2 DEF Heads
  <2>4. SqlObligationSlice(o).clauses \subseteq GraphObligationSlice(o).clauses
    BY <2>1 DEF SqlObligationSlice, GraphObligationSlice
  <2>5. SqlObligationSlice(o).regulations \subseteq GraphObligationSlice(o).regulations
    BY <2>3 DEF SqlObligationSlice, GraphObligationSlice
  <2>6. DOMAIN SqlObligationSlice(o) = {"clauses", "regulations"}
    BY DEF SqlObligationSlice
  <2> QED
    BY <2>4, <2>5, <2>6 DEF Within
<1>7. Within(SqlImpact(p), GraphImpact(p))
  <2>1. Heads(RealMappings(own)) \subseteq Heads(Linked(graph.mapsTo, seen))
    BY <1>3 DEF Heads
  <2>2. rows.recommendations \cap ConflictsOf(own)
           \subseteq graph.hasRecommendation \cap findings
    BY <1>d, <1>4
  <2> HIDE DEF own, seen, findings
  <2> QED
    BY <1>2, <1>4, <2>1, <2>2 DEF Within, SqlImpact, GraphImpact, own, seen, findings
<1>8. ASSUME p \notin retracted
      PROVE  /\ Within(GraphPolicySlice(p), SqlPolicySlice(p))
             /\ \A o \in own : Within(GraphObligationSlice(o), SqlObligationSlice(o))
             /\ Within(GraphImpact(p), SqlImpact(p))
  <2>1. /\ GraphClauses(p) \subseteq LiveClauses(p) /\ seen \subseteq own
        /\ \A e \in graph.mapsTo : e[1] \in own => e \in RealMappings(own)
        /\ \A e \in graph.hasFinding : e[1] \in own => e[2] \in ConflictsOf(own)
    BY <1>8, ShownIsStored
  <2>2. Within(GraphPolicySlice(p), SqlPolicySlice(p))
    <3>1. Linked(graph.hasClause, {p}) \subseteq {p} \X LiveClauses(p)
      <4> SUFFICES ASSUME NEW e \in Linked(graph.hasClause, {p})
                   PROVE  e \in {p} \X LiveClauses(p)
        OBVIOUS
      <4>1. e \in graph.hasClause /\ e[1] = p
        BY DEF Linked
      <4>2. e = <<e[1], e[2]>>
        BY <1>0, <4>1 DEF GraphType
      <4>3. e[2] \in GraphClauses(p)
        BY DEF GraphClauses, Heads
      <4> QED
        BY <2>1, <4>1, <4>2, <4>3
    <3>2. Linked(graph.hasObligation, GraphClauses(p)) \subseteq {<<ClauseOf[o], o>> : o \in own}
      <4>1. \A e \in Linked(graph.hasObligation, GraphClauses(p)) :
               e = <<ClauseOf[e[2]], e[2]>> /\ e[2] \in seen
        BY <1>0 DEF Linked, GraphObligations, Heads, GraphType, GraphIsOfRows
      <4> QED
        BY <2>1, <4>1
    <3>3. Linked(graph.mapsTo, seen) \subseteq RealMappings(own)
      BY <2>1 DEF Linked
    <3> QED
      BY <3>1, <3>2, <3>3 DEF Within, SqlPolicySlice, GraphPolicySlice
  <2>3. ASSUME NEW o \in own
        PROVE  Within(GraphObligationSlice(o), SqlObligationSlice(o))
    <3>1. {e[1] : e \in {x \in graph.hasObligation : x[2] = o}} \subseteq {ClauseOf[o]}
      BY <1>0 DEF GraphIsOfRows
    <3>2. Linked(graph.mapsTo, {o}) \subseteq RealMappings({o})
      BY <2>1, <2>3 DEF Linked, RealMappings
    <3>3. Heads(Linked(graph.mapsTo, {o})) \subseteq Heads(RealMappings({o}))
      BY <3>2 DEF Heads
    <3>4. GraphObligationSlice(o).clauses \subseteq SqlObligationSlice(o).clauses
      BY <3>1 DEF SqlObligationSlice, GraphObligationSlice
    <3>5. GraphObligationSlice(o).regulations \subseteq SqlObligationSlice(o).regulations
      BY <3>3 DEF SqlObligationSlice, GraphObligationSlice
    <3>6. DOMAIN GraphObligationSlice(o) = {"clauses", "regulations"}
      BY DEF GraphObligationSlice
    <3> QED
      BY <3>4, <3>5, <3>6 DEF Within
  <2>4. Within(GraphImpact(p), SqlImpact(p))
    <3>1. Heads(Linked(graph.mapsTo, seen)) \subseteq Heads(RealMappings(own))
      BY <2>1 DEF Heads, Linked
    <3>2. findings \subseteq ConflictsOf(own)
      BY <2>1 DEF Heads, Linked
    <3>3. graph.hasRecommendation \cap findings
             \subseteq rows.recommendations \cap ConflictsOf(own)
      BY <1>0, <3>2 DEF GraphIsOfRows
    <3> HIDE DEF own, seen, findings
    <3> QED
      BY <2>1, <3>1, <3>2, <3>3 DEF Within, SqlImpact, GraphImpact, own, seen, findings
  <2> QED
    BY <2>2, <2>3, <2>4
<1> QED
  BY <1>5, <1>6, <1>7, <1>8, ImpactedIsStored

\* GraphAgreesWithRows, for any number of policies, rows and synchronisations,
\* however they overlap, fail and run again.
THEOREM GraphAndRowsAgree ==
    ASSUME ShapeAssumption, NoneAssumption, DisjointAssumption
    PROVE  Spec => []GraphAgreesWithRows
<1>1. Init => LinkInv /\ AgreeInv
  BY InitLinks, InitAgrees
<1>2. TypeOK /\ TypeOK' /\ LinkInv /\ AgreeInv /\ [Next]_vars => LinkInv' /\ AgreeInv'
  <2> SUFFICES ASSUME TypeOK, TypeOK', LinkInv, AgreeInv, [Next]_vars
               PROVE  LinkInv' /\ AgreeInv'
    OBVIOUS
  <2>1. CASE UNCHANGED vars
    <3>1. RowsFit' /\ GraphIsOfRows'
      BY <2>1 DEF vars, AgreeInv, RowsFit, GraphIsOfRows
    <3>2. ASSUME NEW s \in Syncs PROVE ReadIsOfRows(s)' /\ GraphHolds(s)'
      <4>1. ReadIsOfRows(s) /\ GraphHolds(s)
        BY DEF AgreeInv
      <4>2. ReadIsOfRows(s)'
        BY <2>1, <4>1 DEF vars, ReadIsOfRows, HasRecommendations, HasConflicts, HasMappings,
           HasObligations, HasClauses, Linking
      <4>3. GraphHolds(s)'
        BY <2>1, <4>1 DEF vars, GraphHolds, MergedPolicy, MergedClauses, Merged,
           MergedMappings, Linking
      <4> QED
        BY <4>2, <4>3
    <3>3. ASSUME NEW s \in Syncs \ changed' PROVE ReadIsCurrent(s)'
      <4>1. ReadIsCurrent(s) /\ rows' = rows /\ sync' = sync
        BY <2>1, <3>3 DEF vars, AgreeInv
      <4> QED
        BY <4>1, SameRows DEF ReadIsCurrent, HasRecommendations, HasConflicts, HasMappings,
           HasObligations, HasClauses
    <3> QED
      BY <2>1, <3>1, <3>2, <3>3, LinksAreOfGraph DEF vars, AgreeInv
  <2>2. CASE Next
    BY <2>2, RowStepKeepsLinks, SyncStepKeepsLinks, RowStepAgrees, SyncStepAgrees DEF Next
  <2> QED
    BY <2>1, <2>2
<1>3. TypeOK /\ LinkInv /\ AgreeInv => GraphAgreesWithRows
  BY AgreementFollows
<1> QED
  BY <1>1, <1>2, <1>3, TypesHold, PTL DEF Spec

=============================================================================
